---------------------------- MODULE MCSwapRoute -----------------------------
(* Instances of SwapRoute: a handful of routes over three mints, well formed *)
(* and not, and the accounts they start from; fewer mints and routes for     *)
(* venues that misbehave.                                                    *)
EXTENDS SwapRoute

CONSTANTS A, B, N   \* N is the native mint

Mints3 == {A, B, N}

Pda(m) == [kind |-> "pda", mint |-> m]
MintAcc(m) == [kind |-> "mint", mint |-> m]
Other == [kind |-> "other", mint |-> A]
UserKey == [kind |-> "user", mint |-> A]
UserAta(m) == [kind |-> "ata", mint |-> m]

NoLedger == [kind |-> "none", amount |-> 0]
Stored(a) == [kind |-> "stored", amount |-> a]
Foreign == [kind |-> "foreign", amount |-> 0]

Hop(from, to, weight) ==
  [from |-> from, to |-> to, weight |-> weight, n_accounts |-> 3]

\* The accounts of a hop: source, destination, program id.
Block(slots, h) == <<Pda(slots[h.from + 1]), Pda(slots[h.to + 1]), Other>>

Route(amount, slots, hops, ledger) ==
  LET n == Len(slots)
      atas == [k \in 1 .. n |-> Pda(slots[k])]
      mintAccs == [k \in 1 .. n |-> MintAcc(slots[k])]
      legs == [k \in 1 .. 3 * Len(hops) |->
                 Block(slots, hops[(k + 2) \div 3])[((k - 1) % 3) + 1]]
  IN  [amount |-> amount, mints |-> n, swaps |-> hops, ledger |-> ledger, dest |-> "user",
       rem |-> atas \o mintAccs \o legs]

\* Direct, split, two-hop, cyclic, native and ledger-funded routes.
GoodRoutes ==
  {Route(a, <<A, B>>, <<Hop(0, 1, 2)>>, l) :
     a \in {0, 2}, l \in {NoLedger, Stored(1)}} \cup
  {Route(2, <<A, B>>, <<Hop(0, 1, 1), Hop(0, 1, 3)>>, NoLedger),
   Route(2, <<A, B, N>>, <<Hop(0, 1, 2), Hop(1, 2, 2)>>, NoLedger),
   Route(2, <<A, B, A>>, <<Hop(0, 1, 1), Hop(1, 2, 2)>>, NoLedger),
   Route(2, <<N, B>>, <<Hop(0, 1, 2)>>, NoLedger),
   Route(1, <<N, B>>, <<Hop(0, 1, 1), Hop(1, 0, 2)>>, NoLedger),
   Route(1, <<N, B, A>>, <<Hop(0, 1, 2), Hop(1, 2, 1), Hop(0, 2, 2)>>, NoLedger),
   Route(0, <<N, A>>, <<Hop(0, 1, 2)>>, Stored(0))}

\* A direct route whose leg also lists a TitanPDA account outside the route.
WideRoute ==
  LET r == Route(2, <<A, B>>, <<Hop(0, 1, 2)>>, NoLedger)
  IN  [r EXCEPT !.rem = SubSeq(@, 1, 4) \o <<Pda(N)>> \o SubSeq(@, 5, Len(@)),
                !.swaps[1].n_accounts = 4]

Direct == Route(2, <<A, B>>, <<Hop(0, 1, 2)>>, NoLedger)

\* The output goes to an account that is not the user's.
Redirected == {[Direct EXCEPT !.dest = d] : d \in {"pda", "other"}}

BadRoutes ==
  {[Direct EXCEPT !.mints = 1],
   [Direct EXCEPT !.swaps = << >>],
   [Direct EXCEPT !.mints = 4],
   [Direct EXCEPT !.swaps = <<Hop(0, 1, 1), Hop(0, 1, 1), Hop(0, 1, 1), Hop(0, 1, 1)>>],
   [Direct EXCEPT !.rem = SubSeq(@, 1, 3)],
   [Direct EXCEPT !.swaps[1].from = 1],
   [Direct EXCEPT !.swaps[1].to = 2],
   [Direct EXCEPT !.swaps[1].n_accounts = 0],
   [Direct EXCEPT !.swaps[1].n_accounts = 4],
   [Direct EXCEPT !.rem[2] = Other],
   [Direct EXCEPT !.rem[4] = Other],
   [Direct EXCEPT !.rem[4] = MintAcc(A)],
   [Direct EXCEPT !.rem[3] = MintAcc(N)],
   [Direct EXCEPT !.ledger = Foreign]}

Routes == GoodRoutes \cup BadRoutes \cup Redirected \cup {WideRoute}

Tokens(a, b, n) == [m \in Mints3 |-> CASE m = A -> a [] m = B -> b [] m = N -> n]

Banks ==
  [control : {[m \in Mints3 |-> "own"]}, exposed : {{}},
   pda : {Tokens(Absent, Absent, Absent), Tokens(1, 0, 1), Tokens(Absent, 1, 0)},
   user : {Tokens(2, Absent, Absent), Tokens(2, 1, 1)},
   lamports : {1, 2},
   pool : {Tokens(0, 1, 1)}]

-----------------------------------------------------------------------------
Mints2 == {A, N}

\* A one-leg route whose slice is the given accounts and a program id.
OneLeg(amount, slots, ledger, dest, slice) ==
  LET r == Route(amount, slots, <<Hop(0, 1, 2)>>, ledger)
  IN  [r EXCEPT !.rem = SubSeq(@, 1, 4) \o slice \o <<Other>>,
                !.swaps[1].n_accounts = Len(slice) + 1, !.dest = dest]

\* Routes through venues that misbehave: a direct one with an idle second leg, one
\* whose slice reaches an account outside the route, and ones that hand the venue
\* the user's accounts with and without the user's key.
RogueRoutes ==
  {Route(1, <<A, N>>, <<Hop(0, 1, 1), Hop(0, 1, 2)>>, NoLedger),
   OneLeg(1, <<A, A>>, NoLedger, "user", <<Pda(A), Pda(N)>>),
   OneLeg(0, <<A, N>>, Stored(1), "other", <<Pda(N)>>),
   OneLeg(1, <<N, A>>, NoLedger, "pda", <<Pda(A), UserAta(A)>>),
   OneLeg(1, <<N, A>>, NoLedger, "user", <<UserKey, UserAta(A)>>)}

Tokens2(a, n) == [m \in Mints2 |-> IF m = A THEN a ELSE n]

RogueBank(a, userA) ==
  [control |-> [m \in Mints2 |-> "own"], exposed |-> {}, pda |-> Tokens2(a, Absent),
   user |-> Tokens2(userA, Absent), lamports |-> 1, pool |-> Tokens2(0, 1)]

RogueBanks == {RogueBank(1, 1), RogueBank(Absent, 2)}
=============================================================================
