------------------------------ MODULE Custody -------------------------------
(***************************************************************************)
(* What swap_route_v3 promises, whatever the venues do: the amounts in the *)
(* router's PDA accounts and the user's other mints are safe from every    *)
(* route, and no token appears.  It promises nothing about control: a      *)
(* route may hand the PDA's accounts to a venue, and the user's when the   *)
(* user signs for one, and what was handed over can be taken later.        *)
(***************************************************************************)
EXTENDS Integers

CONSTANT Mint

VARIABLES
  held,     \* what the TitanPDA's accounts hold of each mint
  wealth,   \* what the user owns of each mint
  pools,    \* what the venues hold of each mint
  control,  \* who can move the TitanPDA's accounts: "own", "shared", "lost"
  exposed   \* the mints of which the user signed accounts over to a venue

vars == <<held, wealth, pools, control, exposed>>

Total(m) == held[m] + wealth[m] + pools[m]

Init ==
  /\ \A m \in Mint : held[m] >= 0 /\ wealth[m] >= 0 /\ pools[m] >= 0

\* A committed route that spends the user's mint in.
Route(in) ==
  /\ exposed \subseteq exposed'
  /\ \A m \in Mint :
       /\ Total(m)' <= Total(m)
       /\ control[m] # "lost" => held'[m] >= held[m]
       /\ m # in /\ m \notin exposed' => wealth'[m] >= wealth[m]

\* What was handed over is taken.
Take ==
  /\ UNCHANGED <<pools, control, exposed>>
  /\ \A m \in Mint :
       /\ Total(m)' <= Total(m)
       /\ control[m] = "own" => held'[m] = held[m]
       /\ m \notin exposed => wealth'[m] = wealth[m]

Next == Take \/ \E in \in Mint : Route(in)

Spec == Init /\ [][Next]_vars
=============================================================================
