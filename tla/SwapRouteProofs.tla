-------------------------- MODULE SwapRouteProofs ---------------------------
(***************************************************************************)
(* Proofs about SwapRoute for every set of mints, instructions, accounts   *)
(* and venue behaviours.                                                   *)
(***************************************************************************)
EXTENDS SwapRoute, TLAPS

Running == pc \in {"fund", "leg", "close"}

\* What the snapshot knows about the accounts the transaction can reach: those
\* of the PDA it does not guard held nothing, and those it cannot reach are
\* untouched.
Frame ==
  /\ SlotMints(ix) \subseteq guarded
  /\ \A m \in Mint :
       /\ m \in guarded => snapshot[m] = Holding(bank.pda[m])
       /\ m \in PdaMints(ix) /\ m \notin guarded /\ bank.control[m] # "lost"
            => Holding(bank.pda[m]) = 0
       /\ m \notin PdaMints(ix) => pda[m] = bank.pda[m]

\* Every slot holds a TitanPDA token account.
SlotKinds(i) == \A k \in 0 .. i.mints - 1 : i.rem[k + 1].kind = "pda"

\* The transaction has changed nothing yet.
Synced ==
  /\ pda = bank.pda /\ control = bank.control
  /\ user = bank.user /\ exposed = bank.exposed
  /\ lamports = bank.lamports /\ pool = bank.pool

RInv ==
  /\ TypeOK
  /\ pc \in {"idle", "prepare"} => Synced
  /\ pc # "idle" => InputError(ix) = "none"
  /\ Running => SlotKinds(ix) /\ Frame
  /\ pc = "fund" => \A m \in SlotMints(ix) : pda[m] # Absent
  /\ pc = "close" /\ ix.dest # "pda" => Holding(pda[OutMint(ix)]) <= snapshot[OutMint(ix)]

-----------------------------------------------------------------------------
\* A leg's share of the available balance is at most that balance.
LEMMA ShareBound ==
  ASSUME NEW a \in Nat, NEW w \in Nat, NEW t \in Nat \ {0}, w <= t
  PROVE  /\ (a * w) \div t \in Nat
         /\ (a * w) \div t <= a
<1>1. a * w \in Nat /\ a * t \in Nat /\ a * w <= a * t
  BY SMT
<1> DEFINE q == (a * w) \div t
<1>2. q \in Nat /\ q * t <= a * w
  BY <1>1, SMT
<1> HIDE DEF q
<1>3. q * t <= a * t
  BY <1>1, <1>2, SMT
<1>4. q <= a
  BY <1>2, <1>3, SMT
<1> QED BY <1>2, <1>4 DEF q

LEMMA HoldingFacts ==
  ASSUME NEW b \in Balance
  PROVE  Holding(b) \in Nat /\ (b # Absent => Holding(b) = b /\ b \in Nat)
BY DEF Holding, Balance, Absent

LEMMA SubFacts ==
  ASSUME NEW a \in Nat, NEW b \in Nat
  PROVE  SaturatingSub(a, b) \in Nat /\ SaturatingSub(a, b) <= a
BY DEF SaturatingSub

\* What the require!s of execute establish about the route's slots.
LEMMA InputFacts ==
  ASSUME NEW i \in Instructions, InputError(i) = "none"
  PROVE  /\ i \in Instruction
         /\ i.mints \in Nat /\ i.mints > 1 /\ Len(i.swaps) \in Nat /\ Len(i.swaps) > 0
         /\ Len(i.rem) \in Nat /\ Len(i.rem) >= 2 * i.mints
         /\ SlotMints(i) \subseteq Mint
         /\ InMint(i) \in SlotMints(i) /\ OutMint(i) \in SlotMints(i)
         /\ \A s \in 1 .. Len(i.swaps) :
              /\ i.swaps[s] \in Swap
              /\ SlotMint(i, i.swaps[s].from) \in SlotMints(i)
              /\ SlotMint(i, i.swaps[s].to) \in SlotMints(i)
<1>1. i \in Instruction
  BY InputAssumption
<1>2. /\ i.mints \in Nat /\ i.swaps \in Seq(Swap) /\ i.rem \in Seq(RemainingAccount)
      /\ i.ledger \in TokenLedger
  BY <1>1 DEF Instruction
<1>3. /\ i.mints > 1 /\ i.swaps # << >> /\ Len(i.rem) >= 2 * i.mints
      /\ \A s \in 1 .. Len(i.swaps) :
           ~(i.swaps[s].from >= i.mints \/ i.swaps[s].to >= i.mints)
  <2>1. Len(i.rem) \in Nat /\ 2 * i.mints \in Nat
    BY <1>2
  <2>2. ~(Len(i.rem) < 2 * i.mints) /\ i.mints > 1 /\ i.swaps # << >>
    BY DEF InputError
  <2>3. \A s \in 1 .. Len(i.swaps) :
          ~(i.swaps[s].from >= i.mints \/ i.swaps[s].to >= i.mints)
    BY DEF InputError
  <2> QED BY <2>1, <2>2, <2>3
<1>4. \A s \in 1 .. Len(i.swaps) :
        /\ i.swaps[s] \in Swap
        /\ i.swaps[s].from \in 0 .. i.mints - 1
        /\ i.swaps[s].to \in 0 .. i.mints - 1
  <2> TAKE s \in 1 .. Len(i.swaps)
  <2>1. i.swaps[s] \in Swap
    BY <1>2
  <2>2. i.swaps[s].from \in Nat /\ i.swaps[s].to \in Nat
    BY <2>1 DEF Swap
  <2>3. ~(i.swaps[s].from >= i.mints) /\ ~(i.swaps[s].to >= i.mints)
    BY <1>3
  <2> QED BY <1>2, <2>1, <2>2, <2>3
<1>5. Len(i.swaps) \in Nat /\ Len(i.swaps) > 0 /\ Len(i.rem) \in Nat
  BY <1>2, <1>3
<1>6. \A k \in 0 .. i.mints - 1 : i.rem[k + 1] \in RemainingAccount
  BY <1>2, <1>3
<1>7. SlotMints(i) \subseteq Mint
  BY <1>6 DEF SlotMints, SlotMint, RemainingAccount
<1>8. InMint(i) \in SlotMints(i)
  BY <1>2, <1>3 DEF InMint, SlotMints
<1>9. OutMint(i) \in SlotMints(i)
  BY <1>4, <1>5 DEF OutMint, OutSlot, SlotMints
<1> QED BY <1>1, <1>2, <1>3, <1>4, <1>5, <1>7, <1>8, <1>9 DEF SlotMints

LEMMA ReachFacts ==
  ASSUME NEW i \in Instructions
  PROVE  /\ \A ks : PdaMintsAt(i, ks) \subseteq PdaMints(i)
         /\ PdaMintsAt(i, 1 .. BitmapSize) = PdaMints(i)
         /\ PdaMints(i) \subseteq Mint
<1>1. i \in Instruction /\ Len(i.rem) <= BitmapSize /\ Len(i.rem) \in Nat
  BY InputAssumption DEF Instruction
<1> QED BY <1>1, RouteAssumption DEF MintsAt, PdaMintsAt, PdaMints

\* The slots' accounts are among the remaining accounts.
LEMMA SlotReach ==
  ASSUME NEW i \in Instructions, InputError(i) = "none", SlotKinds(i)
  PROVE  SlotMints(i) \subseteq PdaMints(i)
<1> SUFFICES ASSUME NEW k \in 0 .. i.mints - 1
             PROVE  SlotMint(i, k) \in PdaMints(i)
  BY DEF SlotMints
<1>1. k + 1 \in 1 .. i.mints /\ k + 1 \in 1 .. Len(i.rem) /\ (k + 1) - 1 = k
  BY InputFacts
<1>2. i.rem[k + 1].kind = "pda" /\ i.rem[k + 1].mint = SlotMint(i, k)
  BY DEF SlotKinds, SlotMint
<1>3. SlotMint(i, k) \in Mint
  BY InputFacts DEF SlotMints
<1> QED BY <1>1, <1>2, <1>3 DEF PdaMints, PdaMintsAt, MintsAt

-----------------------------------------------------------------------------
LEMMA InitRInv == Init => RInv
<1> SUFFICES ASSUME Init PROVE RInv
  OBVIOUS
<1>1. bank \in Bank
  BY InputAssumption DEF Init
<1>2. TypeOK
  BY <1>1 DEF Init, TypeOK, Bank
<1> QED BY <1>2 DEF Init, RInv, Running, Synced

\* An error puts the accounts back.
LEMMA FailRInv ==
  ASSUME RInv, NEW e, Fail(e)
  PROVE  RInv'
<1>1. TypeOK'
  BY DEF RInv, TypeOK, Fail, Return, Bank
<1> QED BY <1>1 DEF RInv, Fail, Return, Running, Synced

\* A step that changes TitanPDA accounts only where the instruction reaches
\* keeps the frame, and facts about the instruction do not change with it.
LEMMA FrameKept ==
  ASSUME Frame, UNCHANGED <<bank, ix, guarded, snapshot>>,
         \A m \in Mint : m \notin PdaMints(ix) => pda'[m] = pda[m]
  PROVE  Frame'
<1>1. PdaMints(ix)' = PdaMints(ix) /\ SlotMints(ix)' = SlotMints(ix)
  BY DEF PdaMints, PdaMintsAt, MintsAt, SlotMints, SlotMint
<1> QED BY <1>1 DEF Frame

LEMMA InstructionKept ==
  ASSUME UNCHANGED ix
  PROVE  /\ SlotMints(ix)' = SlotMints(ix) /\ OutMint(ix)' = OutMint(ix)
         /\ InputError(ix)' = InputError(ix)
         /\ SlotKinds(ix) => SlotKinds(ix)'
         /\ ix.dest' = ix.dest
BY DEF SlotMints, SlotMint, MintAccount, OutSlot, OutMint, InputError, SlotKinds

\* What a leg may spend is at most what its source account holds.
LEMMA LegInputBound ==
  ASSUME TypeOK, NEW s \in Swap, SlotMint(ix, s.from) \in Mint,
         pda[SlotMint(ix, s.from)] # Absent
  PROVE  LegInput(s) \in Nat /\ LegInput(s) <= pda[SlotMint(ix, s.from)]
<1> DEFINE m == SlotMint(ix, s.from)
<1>1. pda[m] \in Nat /\ snapshot[m] \in Nat
  BY DEF TypeOK, Balance
<1>2. Available(m) \in Nat /\ Available(m) <= pda[m]
  BY <1>1, SubFacts DEF Available
<1>3. Weight(s) \in Nat /\ Weight(s) <= WeightAll /\ WeightAll \in Nat \ {0}
  BY RouteAssumption DEF Weight, Swap
<1> HIDE DEF m
<1>4. /\ (Available(m) * Weight(s)) \div WeightAll \in Nat
      /\ (Available(m) * Weight(s)) \div WeightAll <= Available(m)
  BY <1>2, <1>3, ShareBound
<1>5. LegInput(s) = (Available(m) * Weight(s)) \div WeightAll
  BY DEF LegInput, m
<1>6. LegInput(s) \in Nat /\ LegInput(s) <= pda[m]
  BY <1>1, <1>2, <1>4, <1>5
<1> QED BY <1>6 DEF m

\* What a rogue venue does to the accounts, the control of the PDA's aside.
RogueMoves(s, b, u, p) ==
  /\ \A m \in UserAtas(s) \ UserReach(s) : u[m] >= user[m]
  /\ pda' = [m \in Mint |-> IF m \in LegReach(s) THEN b[m] ELSE pda[m]]
  /\ user' = [m \in Mint |-> IF m \in UserAtas(s) THEN u[m] ELSE user[m]]
  /\ pool' = [m \in Mint |-> IF m \in LegReach(s) \cup UserAtas(s) THEN p[m] ELSE pool[m]]
  /\ lamports' \in IF UserSigns(s) THEN 0 .. lamports ELSE {lamports}
  /\ \A m \in Mint : Circulating(m)' <= Circulating(m)
  /\ exposed' = exposed \cup UserReach(s) \cup (IF UserSigns(s) THEN {NativeMint} ELSE {})

LEMMA RogueFacts ==
  ASSUME NEW s, RogueSwap(s)
  PROVE  /\ \E b \in [LegReach(s) -> Absent .. Supply], u \in [UserAtas(s) -> Absent .. Supply],
              p \in [LegReach(s) \cup UserAtas(s) -> 0 .. Supply] : RogueMoves(s, b, u, p)
         /\ \E c \in [LegReach(s) -> Control] :
              control' = [m \in Mint |-> IF m \in LegReach(s) THEN c[m] ELSE control[m]]
<1>1. PICK b \in [LegReach(s) -> Absent .. Supply], u \in [UserAtas(s) -> Absent .. Supply],
           p \in [LegReach(s) \cup UserAtas(s) -> 0 .. Supply] :
        /\ \A m \in UserAtas(s) \ UserReach(s) : u[m] >= user[m]
        /\ pda' = [m \in Mint |-> IF m \in LegReach(s) THEN b[m] ELSE pda[m]]
        /\ user' = [m \in Mint |-> IF m \in UserAtas(s) THEN u[m] ELSE user[m]]
        /\ pool' = [m \in Mint |-> IF m \in DOMAIN p THEN p[m] ELSE pool[m]]
        /\ lamports' \in IF UserSigns(s) THEN 0 .. lamports ELSE {lamports}
        /\ \A m \in Mint : Circulating(m)' <= Circulating(m)
        /\ exposed' = exposed \cup UserReach(s)
                         \cup (IF UserSigns(s) THEN {NativeMint} ELSE {})
        /\ \E c \in [LegReach(s) -> Control] :
             control' = [m \in Mint |-> IF m \in LegReach(s) THEN c[m] ELSE control[m]]
  BY Zenon DEF RogueSwap
<1>2. DOMAIN p = LegReach(s) \cup UserAtas(s)
  OBVIOUS
<1>3. RogueMoves(s, b, u, p)
  BY <1>1, <1>2, Zenon DEF RogueMoves
<1> QED BY <1>1, <1>3, Zenon

\* What a venue does stays within its leg's slice, and within the types.
LEMMA VenueSwapFacts ==
  ASSUME TypeOK, NEW s \in Swap, SlotMint(ix, s.from) \in Mint,
         SlotMint(ix, s.to) \in Mint, pda[SlotMint(ix, s.from)] # Absent,
         VenueSwap(s, LegInput(s))
  PROVE  /\ pda' \in [Mint -> Balance] /\ pool' \in [Mint -> Nat]
         /\ control' \in [Mint -> Control] /\ user' \in [Mint -> Balance]
         /\ exposed' \subseteq Mint /\ lamports' \in Nat
         /\ \A m \in Mint : m \notin PdaMints(ix) => pda'[m] = pda[m]
<1>1. LegReach(s) \subseteq PdaMints(ix) /\ LegReach(s) \subseteq Mint
  BY ReachFacts DEF TypeOK, LegReach, PdaMintsAt, MintsAt
<1>2. CASE HonestVenues
  <2> DEFINE from == SlotMint(ix, s.from)
             to == SlotMint(ix, s.to)
             amount == LegInput(s)
  <2>1. amount \in Nat /\ amount <= pda[from]
    BY LegInputBound
  <2>2. /\ from \in LegReach(s) /\ to \in LegReach(s) /\ pda[to] # Absent
        /\ from \in Mint /\ to \in Mint
        /\ UNCHANGED <<control, user, exposed, lamports>>
    BY <1>2 DEF VenueSwap, HonestSwap
  <2>3. PICK out \in 0 .. pool[to] :
          /\ pool' = [pool EXCEPT ![from] = @ + amount, ![to] = @ - out]
          /\ pda' = [[pda EXCEPT ![from] = @ - amount] EXCEPT ![to] = @ + out]
    BY <1>2 DEF VenueSwap, HonestSwap
  <2> HIDE DEF from, to, amount
  <2>4. (pda[from] \in Nat /\ pda[to] \in Nat) \/ pda[from] = Absent
    BY <2>2 DEF TypeOK, Balance
  <2>5. pda[from] \in Nat /\ pda[to] \in Nat /\ pool[from] \in Nat /\ pool[to] \in Nat
    BY <2>2, <2>4 DEF TypeOK, from
  <2>6. pda[from] - amount \in Nat /\ out \in Nat /\ pool[to] - out \in Nat
    BY <2>1, <2>5
  <2>7. pda' \in [Mint -> Balance]
    BY <2>2, <2>3, <2>5, <2>6 DEF TypeOK, Balance
  <2>8. pool' \in [Mint -> Nat]
    BY <2>1, <2>2, <2>3, <2>5, <2>6 DEF TypeOK
  <2>9. \A m \in Mint : m \notin PdaMints(ix) => pda'[m] = pda[m]
    BY <1>1, <2>2, <2>3 DEF TypeOK
  <2> QED BY <2>2, <2>7, <2>8, <2>9 DEF TypeOK
<1>3. CASE ~HonestVenues
  <2>1. RogueSwap(s)
    BY <1>3 DEF VenueSwap
  <2>2. PICK b \in [LegReach(s) -> Absent .. Supply], u \in [UserAtas(s) -> Absent .. Supply],
             p \in [LegReach(s) \cup UserAtas(s) -> 0 .. Supply] : RogueMoves(s, b, u, p)
    BY <2>1, RogueFacts
  <2>3. PICK c \in [LegReach(s) -> Control] :
          control' = [m \in Mint |-> IF m \in LegReach(s) THEN c[m] ELSE control[m]]
    BY <2>1, RogueFacts
  <2>4. Absent .. Supply \subseteq Balance
    BY RouteAssumption DEF Balance, Absent
  <2>5. pda' = [m \in Mint |-> IF m \in LegReach(s) THEN b[m] ELSE pda[m]]
    BY <2>2 DEF RogueMoves
  <2>6. pda' \in [Mint -> Balance] /\ \A m \in Mint : m \notin PdaMints(ix) => pda'[m] = pda[m]
    BY <1>1, <2>4, <2>5 DEF TypeOK
  <2>7. user' \in [Mint -> Balance]
    BY <2>2, <2>4 DEF TypeOK, RogueMoves
  <2>8. pool' \in [Mint -> Nat]
    BY <2>2, RouteAssumption DEF TypeOK, RogueMoves
  <2>9. control' \in [Mint -> Control]
    BY <2>3 DEF TypeOK
  <2>10. lamports' \in Nat
    BY <2>2 DEF TypeOK, RogueMoves
  <2>11. exposed' \subseteq Mint
    BY <2>2, RouteAssumption DEF TypeOK, RogueMoves, UserReach, UserAtas, MintsAt
  <2> QED BY <2>6, <2>7, <2>8, <2>9, <2>10, <2>11
<1> QED BY <1>2, <1>3

\* What is taken between transactions comes from accounts signed over before.
LEMMA DrainFacts ==
  ASSUME RInv, Drain
  PROVE  /\ pc = "idle" /\ pc' = "idle" /\ outcome' = "none" /\ TypeOK' /\ Synced /\ Synced'
         /\ \A m \in Mint :
              /\ pda'[m] <= pda[m] /\ (control[m] = "own" => pda'[m] = pda[m])
              /\ user'[m] <= user[m] /\ (m \notin exposed => user'[m] = user[m])
         /\ lamports' <= lamports /\ (NativeMint \notin exposed => lamports' = lamports)
         /\ UNCHANGED <<control, exposed, pool>>
<1>1. /\ pc = "idle" /\ pc' = "idle" /\ outcome' = "none" /\ TypeOK /\ Synced
      /\ UNCHANGED <<control, exposed, pool, ix, created, guarded, snapshot, effective_amount,
                     leg, cursor>>
      /\ bank' = [bank EXCEPT !.pda = pda', !.user = user', !.lamports = lamports']
  BY DEF Drain, RInv, locals
<1>2. /\ pda \in [Mint -> Balance] /\ user \in [Mint -> Balance] /\ lamports \in Nat
      /\ \A b \in Balance : b \in Int /\ b <= b
  BY <1>1 DEF TypeOK, Balance, Absent
<1>3. PICK k \in Mint :
        \/ /\ control[k] # "own"
           /\ \E b \in Absent .. pda[k] - 1 : pda' = [pda EXCEPT ![k] = b]
           /\ UNCHANGED <<user, lamports>>
        \/ /\ k \in exposed
           /\ \E b \in Absent .. user[k] - 1 : user' = [user EXCEPT ![k] = b]
           /\ UNCHANGED <<pda, lamports>>
        \/ /\ k \in exposed /\ k = NativeMint
           /\ lamports' \in 0 .. lamports - 1
           /\ UNCHANGED <<pda, user>>
  BY DEF Drain
<1> DEFINE Lowered ==
      /\ pda' \in [Mint -> Balance] /\ user' \in [Mint -> Balance] /\ lamports' \in Nat
      /\ \A m \in Mint :
           /\ pda'[m] <= pda[m] /\ (control[m] = "own" => pda'[m] = pda[m])
           /\ user'[m] <= user[m] /\ (m \notin exposed => user'[m] = user[m])
      /\ lamports' <= lamports /\ (NativeMint \notin exposed => lamports' = lamports)
<1>4. ASSUME /\ control[k] # "own"
             /\ \E b \in Absent .. pda[k] - 1 : pda' = [pda EXCEPT ![k] = b]
             /\ UNCHANGED <<user, lamports>>
      PROVE  Lowered
  <2>1. PICK b \in Absent .. pda[k] - 1 : pda' = [pda EXCEPT ![k] = b]
    BY <1>4
  <2>2. b \in Balance /\ b <= pda[k]
    BY <1>2, <2>1 DEF Balance, Absent
  <2>3. pda' \in [Mint -> Balance]
    BY <1>2, <2>1, <2>2
  <2>4. \A m \in Mint : pda'[m] <= pda[m] /\ (control[m] = "own" => pda'[m] = pda[m])
    BY <1>2, <1>4, <2>1, <2>2
  <2>5. \A m \in Mint : user'[m] <= user[m] /\ user'[m] = user[m]
    BY <1>2, <1>4
  <2>6. lamports' \in Nat /\ lamports' <= lamports /\ lamports' = lamports /\ user' = user
    BY <1>2, <1>4
  <2> QED BY <1>2, <2>3, <2>4, <2>5, <2>6
<1>5. ASSUME /\ k \in exposed
             /\ \E b \in Absent .. user[k] - 1 : user' = [user EXCEPT ![k] = b]
             /\ UNCHANGED <<pda, lamports>>
      PROVE  Lowered
  <2>1. PICK b \in Absent .. user[k] - 1 : user' = [user EXCEPT ![k] = b]
    BY <1>5
  <2>2. b \in Balance /\ b <= user[k]
    BY <1>2, <2>1 DEF Balance, Absent
  <2>3. user' \in [Mint -> Balance]
    BY <1>2, <2>1, <2>2
  <2>4. \A m \in Mint : user'[m] <= user[m] /\ (m \notin exposed => user'[m] = user[m])
    BY <1>2, <1>5, <2>1, <2>2
  <2>5. \A m \in Mint : pda'[m] <= pda[m] /\ pda'[m] = pda[m]
    BY <1>2, <1>5
  <2>6. lamports' \in Nat /\ lamports' <= lamports /\ lamports' = lamports /\ pda' = pda
    BY <1>2, <1>5
  <2> QED BY <1>2, <2>3, <2>4, <2>5, <2>6
<1>6. ASSUME /\ k \in exposed /\ k = NativeMint
             /\ lamports' \in 0 .. lamports - 1
             /\ UNCHANGED <<pda, user>>
      PROVE  Lowered
  BY <1>2, <1>6
<1>7. Lowered
  BY <1>3, <1>4, <1>5, <1>6
<1>8. bank \in Bank /\ bank' \in Bank /\ Synced'
  BY <1>1, <1>7 DEF TypeOK, Bank, Synced
<1>9. TypeOK'
  BY <1>1, <1>7, <1>8 DEF TypeOK
<1> QED BY <1>1, <1>7, <1>8, <1>9

\* The inductive step, one case per step of execute.
LEMMA NextRInv == RInv /\ [Next]_vars => RInv'
<1> SUFFICES ASSUME RInv, [Next]_vars PROVE RInv'
  OBVIOUS
<1>1. CASE Submit
  <2>1. TypeOK'
    BY <1>1 DEF Submit, RInv, TypeOK, accounts, locals
  <2> QED BY <1>1, <2>1 DEF Submit, RInv, Running, Synced, accounts, locals
<1>2. CASE Prepare
  <2> USE <1>2 DEF Prepare
  <2>1. /\ ix \in Instructions /\ InputError(ix) = "none" /\ SlotKinds(ix)
        /\ pda \in [Mint -> Balance] /\ pda = bank.pda /\ TypeOK
        /\ control \in [Mint -> Control] /\ control = bank.control
    BY DEF RInv, Synced, TypeOK, SlotsArePda, SlotKinds
  <2>2. /\ SlotMints(ix) \subseteq Mint /\ SlotMints(ix) \subseteq PdaMints(ix)
        /\ InMint(ix) \in Mint
        /\ PdaMintsAt(ix, 1 .. BitmapSize) = PdaMints(ix) /\ PdaMints(ix) \subseteq Mint
    BY <2>1, InputFacts, SlotReach, ReachFacts
  <2>3. pda' \in [Mint -> Balance] /\ control' \in [Mint -> Control]
    BY <2>1 DEF Balance, Control
  <2>4. snapshot' \in [Mint -> Nat] /\ guarded' \subseteq Mint
    BY <2>2, <2>3, HoldingFacts DEF Guarded
  <2>5. EffectiveAmount(ix) \in Nat
    <3>1. user[InMint(ix)] \in Balance /\ ix.ledger.amount \in Nat /\ ix.amount \in Nat
      BY <2>1, <2>2, InputAssumption DEF TypeOK, Instruction, TokenLedger
    <3> QED BY <3>1, HoldingFacts, SubFacts DEF EffectiveAmount
  <2>6. TypeOK'
    BY <2>1, <2>2, <2>3, <2>4, <2>5 DEF TypeOK
  <2>7. \A m \in SlotMints(ix) : pda'[m] # Absent /\ control'[m] # "lost"
    <3> SUFFICES ASSUME NEW k \in 0 .. ix.mints - 1
                 PROVE  pda'[SlotMint(ix, k)] # Absent /\ control'[SlotMint(ix, k)] # "lost"
      BY DEF SlotMints
    <3>1. SlotMint(ix, k) \in SlotMints(ix) /\ SlotMint(ix, k) \in Mint
      BY <2>2 DEF SlotMints
    <3>2. pda[SlotMint(ix, k)] = Absent \/ control[SlotMint(ix, k)] # "lost"
      BY DEF SlotsArePda
    <3> QED BY <3>1, <3>2 DEF Absent
  <2>8. Frame'
    <3>1. (SlotMints(ix) \subseteq guarded)'
      BY <2>2, <2>7 DEF Guarded, Owned, SlotMints, SlotMint
    <3>2. ASSUME NEW m \in Mint
          PROVE  /\ Holding(pda'[m]) = Holding(bank.pda[m])
                 /\ m \in PdaMints(ix) /\ m \notin guarded' /\ bank.control[m] # "lost"
                      => pda'[m] = Absent
                 /\ m \notin PdaMints(ix) => pda'[m] = bank.pda[m]
      BY <2>1, <2>2 DEF Holding, Guarded, Owned
    <3>3. ASSUME NEW m \in Mint, pda'[m] = Absent
          PROVE  Holding(bank.pda[m]) = 0
      BY <3>2, <3>3 DEF Holding
    <3>4. (PdaMints(ix))' = PdaMints(ix)
      BY DEF PdaMints, PdaMintsAt, MintsAt
    <3> QED BY <3>1, <3>2, <3>3, <3>4 DEF Frame
  <2>9. SlotKinds(ix)' /\ (InputError(ix) = "none")' /\ SlotMints(ix)' = SlotMints(ix)
    BY <2>1, InstructionKept
  <2> QED BY <2>3, <2>6, <2>7, <2>8, <2>9 DEF RInv
<1>3. CASE Fund
  <2> USE <1>3 DEF Fund
  <2> DEFINE in == InMint(ix)
  <2>1. /\ ix \in Instructions /\ InputError(ix) = "none" /\ SlotKinds(ix)
        /\ TypeOK /\ Frame /\ pda[in] # Absent
        /\ in \in SlotMints(ix) /\ in \in Mint /\ in \in PdaMints(ix)
    BY InputFacts, SlotReach DEF RInv, TypeOK, Running
  <2>2. /\ pda[in] \in Nat /\ user[in] \in Balance /\ effective_amount \in Nat
        /\ user[NativeMint] \in Balance /\ lamports \in Nat
    BY <2>1, RouteAssumption DEF TypeOK, Balance
  <2>3. Wrapped \in Nat /\ lamports - Wrapped \in Nat
    <3>1. WrapAmount \in Nat
      BY <2>2, HoldingFacts, SubFacts DEF WrapAmount
    <3>2. Wrapped \in Nat /\ Wrapped <= lamports
      BY <3>1 DEF FundOk, Wrapped
    <3> QED BY <2>2, <3>2
  <2>4. InputAccountAfter \in Balance
    <3>1. CASE CreatedWsol \/ user[in] = Absent
      BY <3>1 DEF InputAccountAfter, Balance
    <3>2. CASE ~CreatedWsol /\ user[in] # Absent
      <4>1. user[in] \in Nat /\ Holding(user[in]) = user[in]
        BY <2>2, <3>2, HoldingFacts
      <4>2. user[in] + Wrapped - effective_amount \in Nat
        BY <2>2, <2>3, <4>1 DEF FundOk
      <4> QED BY <3>2, <4>2 DEF InputAccountAfter, Balance
    <3> QED BY <3>1, <3>2
  <2> HIDE DEF in
  <2>5. /\ pda' = [pda EXCEPT ![in] = @ + effective_amount]
        /\ user' = [user EXCEPT ![in] = InputAccountAfter]
    BY DEF in
  <2>6. pda' \in [Mint -> Balance] /\ user' \in [Mint -> Balance]
    <3>1. pda[in] + effective_amount \in Balance
      BY <2>2 DEF Balance
    <3> HIDE DEF Fund
    <3> QED BY <2>1, <2>4, <2>5, <3>1 DEF TypeOK
  <2>7. 2 * ix.mints \in Nat
    BY <2>1, InputFacts
  <2>8. TypeOK'
    BY <2>1, <2>3, <2>6, <2>7 DEF TypeOK, locals
  <2>9. Frame'
    <3>1. \A m \in Mint : m \notin PdaMints(ix) => pda'[m] = pda[m]
      BY <2>1, <2>5 DEF TypeOK
    <3> QED BY <2>1, <3>1, FrameKept DEF locals
  <2> QED BY <2>1, <2>8, <2>9, InstructionKept DEF RInv, locals
<1>4. CASE Leg
  <2> USE <1>4 DEF Leg, InLoop
  <2> DEFINE s == ix.swaps[leg]
  <2>1. /\ ix \in Instructions /\ InputError(ix) = "none" /\ SlotKinds(ix)
        /\ TypeOK /\ Frame
    BY DEF RInv, TypeOK, Running
  <2>2. leg \in 1 .. Len(ix.swaps) /\ leg + 1 \in Nat \ {0}
    BY <2>1, InputFacts DEF TypeOK
  <2>3. /\ s \in Swap
        /\ SlotMint(ix, s.from) \in Mint /\ SlotMint(ix, s.to) \in Mint
    BY <2>1, <2>2, InputFacts
  <2>4. /\ pda[SlotMint(ix, s.from)] # Absent
        /\ cursor' = cursor + s.n_accounts
        /\ VenueSwap(s, LegInput(s)) \/ UNCHANGED accounts
    BY DEF LegError
  <2>5. cursor' \in Nat
    BY <2>1, <2>3, <2>4 DEF TypeOK, Swap
  <2> HIDE DEF s
  <2>6. /\ pda' \in [Mint -> Balance] /\ pool' \in [Mint -> Nat]
        /\ control' \in [Mint -> Control] /\ user' \in [Mint -> Balance]
        /\ exposed' \subseteq Mint /\ lamports' \in Nat
        /\ \A m \in Mint : m \notin PdaMints(ix) => pda'[m] = pda[m]
    <3>1. CASE VenueSwap(s, LegInput(s))
      BY <2>1, <2>3, <2>4, <3>1, VenueSwapFacts
    <3>2. CASE UNCHANGED accounts
      BY <2>1, <3>2 DEF TypeOK, accounts
    <3> QED BY <2>4, <3>1, <3>2
  <2>7. TypeOK'
    BY <2>1, <2>2, <2>5, <2>6 DEF TypeOK, locals
  <2>8. Frame'
    BY <2>1, <2>6, FrameKept DEF locals
  <2> QED BY <2>1, <2>7, <2>8, InstructionKept DEF RInv, locals
<1>5. CASE PayOut
  <2> USE <1>5 DEF PayOut, PayOutOk, AfterLegs
  <2> DEFINE out == OutMint(ix)
             paid == IF ix.dest = "pda" THEN 0 ELSE TradedOutput
             got == IF ix.dest = "user" THEN Holding(user[out]) + TradedOutput ELSE user[out]
             fed == IF ix.dest = "other" THEN pool[out] + TradedOutput ELSE pool[out]
  <2>1. /\ ix \in Instructions /\ InputError(ix) = "none" /\ SlotKinds(ix)
        /\ TypeOK /\ Frame
        /\ out \in Mint /\ out \in PdaMints(ix) /\ pda[out] # Absent
    BY InputFacts, SlotReach DEF RInv, TypeOK, Running
  <2>2. /\ pda[out] \in Nat /\ snapshot[out] \in Nat /\ Holding(user[out]) \in Nat
        /\ user[out] \in Balance /\ pool[out] \in Nat
    BY <2>1, HoldingFacts DEF TypeOK, Balance
  <2>3. TradedOutput = SaturatingSub(pda[out], snapshot[out])
    BY DEF TradedOutput
  <2>4. /\ TradedOutput \in Nat /\ pda[out] - TradedOutput \in Nat
        /\ pda[out] - TradedOutput <= snapshot[out]
    BY <2>2, <2>3 DEF SaturatingSub
  <2>5. /\ pda' = [pda EXCEPT ![out] = pda[out] - paid]
        /\ user' = [user EXCEPT ![out] = got]
        /\ pool' = [pool EXCEPT ![out] = fed]
    <3>1. pda[out] - 0 = pda[out]
      BY <2>2
    <3> QED BY <3>1
  <2>6. /\ pda[out] - paid \in Nat /\ got \in Balance /\ fed \in Nat
        /\ ix.dest # "pda" => pda[out] - paid <= snapshot[out]
    BY <2>2, <2>4 DEF Balance
  <2> HIDE DEF out, paid, got, fed
  <2>7. pda' \in [Mint -> Balance] /\ user' \in [Mint -> Balance] /\ pool' \in [Mint -> Nat]
    <3> HIDE DEF PayOut
    <3>1. pda[out] - paid \in Balance
      BY <2>6 DEF Balance
    <3> QED BY <2>1, <2>5, <2>6, <3>1 DEF TypeOK
  <2>8. TypeOK'
    BY <2>1, <2>7 DEF TypeOK, locals
  <2>9. Frame'
    <3>1. \A m \in Mint : m \notin PdaMints(ix) => pda'[m] = pda[m]
      BY <2>1, <2>5 DEF TypeOK
    <3> QED BY <2>1, <3>1, FrameKept DEF locals
  <2>10. ix.dest # "pda" => Holding(pda'[out]) <= snapshot'[out]
    <3>1. pda'[out] = pda[out] - paid
      BY <2>1, <2>5 DEF TypeOK
    <3> QED BY <2>2, <2>6, <3>1 DEF Holding, Absent, locals
  <2> QED BY <2>1, <2>8, <2>9, <2>10, InstructionKept DEF RInv, locals, out
<1>6. CASE Commit
  <2>1. AfterClose \in [Mint -> Balance]
    BY DEF RInv, TypeOK, AfterClose, Balance
  <2>2. bank' \in Bank
    BY <1>6, <2>1 DEF Commit, RInv, TypeOK, Bank
  <2>3. TypeOK'
    BY <1>6, <2>1, <2>2 DEF Commit, Return, RInv, TypeOK
  <2> QED BY <1>6, <2>3 DEF Commit, Return, RInv, Running, Synced
<1>7. CASE PrepareFails \/ FundFails \/ LegFails \/ VenueFails \/ PayOutFails
           \/ CommitFails
  BY <1>7, FailRInv
  DEF PrepareFails, FundFails, LegFails, VenueFails, PayOutFails, CommitFails
<1>8. CASE UNCHANGED vars
  <2>1. TypeOK'
    BY <1>8 DEF RInv, TypeOK, vars, accounts, locals
  <2>2. Running => Frame'
    BY <1>8, FrameKept DEF RInv, vars, accounts, locals
  <2> QED BY <1>8, <2>1, <2>2, InstructionKept
          DEF RInv, Running, Synced, vars, accounts, locals
<1>9. CASE Drain
  BY <1>9, DrainFacts DEF RInv, Running
<1> QED
  BY <1>1, <1>2, <1>3, <1>4, <1>5, <1>6, <1>7, <1>8, <1>9 DEF Next

LEMMA SpecRInv == Spec => []RInv
BY InitRInv, NextRInv, PTL DEF Spec

-----------------------------------------------------------------------------
\* Every balance stays a u64-like natural or absent, for every route.
THEOREM TypeCorrect == Spec => []TypeOK
<1>1. RInv => TypeOK
  BY DEF RInv
<1> QED BY <1>1, SpecRInv, PTL

\* Closing the empty created ATAs changes no holding.
LEMMA CloseKeepsHoldings ==
  ASSUME TypeOK
  PROVE  \A m \in Mint : Holding(AfterClose[m]) = Holding(pda[m])
BY DEF AfterClose, Empty, Holding

\* Only Commit, and between transactions Drain, write the bank.
LEMMA BankWriters ==
  ASSUME [Next]_vars, bank' # bank
  PROVE  Commit \/ Drain
BY DEF Next, Submit, Prepare, PrepareFails, Fund, FundFails, Leg, LegFails, VenueFails,
   PayOut, PayOutFails, CommitFails, Fail, vars

\* For every route and whatever venues do with the PDA's signature, nothing lowers
\* a TitanPDA token account that the PDA alone controls, and no transaction lowers
\* one that the PDA still owns.
THEOREM ReservesAreKept == Spec => ReservesKept
<1>1. RInv /\ [Next]_vars =>
        [\A m \in Mint :
           bank.control[m] = "own" \/ (Committing /\ bank.control[m] = "shared")
             => Holding(bank'.pda[m]) >= Holding(bank.pda[m])]_vars
  <2> SUFFICES ASSUME RInv, Next, NEW m \in Mint,
                      bank.control[m] = "own" \/ (Committing /\ bank.control[m] = "shared")
               PROVE  Holding(bank'.pda[m]) >= Holding(bank.pda[m])
    OBVIOUS
  <2>1. /\ TypeOK /\ bank.pda[m] \in Balance /\ pda[m] \in Balance
    BY DEF RInv, TypeOK, Bank
  <2>2. Holding(bank.pda[m]) \in Nat /\ Holding(pda[m]) \in Nat
    BY <2>1, HoldingFacts
  <2>3. CASE bank' = bank
    BY <2>2, <2>3
  <2>4. CASE Commit
    <3>1. /\ bank'.pda = AfterClose /\ ReservesIntact(AfterClose) /\ Frame
      BY <2>4 DEF Commit, RInv, Running
    <3>2. Holding(AfterClose[m]) = Holding(pda[m])
      BY <2>1, CloseKeepsHoldings
    <3>3. CASE m \in guarded
      BY <3>1, <3>3 DEF Frame, ReservesIntact
    <3>4. CASE m \notin guarded
      BY <2>2, <3>1, <3>2, <3>4 DEF Frame
    <3> QED BY <3>3, <3>4
  <2>5. CASE Drain
    <3>1. control[m] = "own" /\ bank.pda[m] = pda[m] /\ bank'.pda[m] = pda'[m]
      BY <2>5, DrainFacts DEF Committing, Synced
    <3>2. pda'[m] = pda[m]
      BY <2>5, <3>1, DrainFacts
    <3> QED BY <2>2, <3>1, <3>2
  <2> QED BY <2>3, <2>4, <2>5, BankWriters
<1> QED BY <1>1, SpecRInv, PTL DEF Spec, ReservesKept

\* A committed route leaves the TitanPDA's output account exactly as it was, unless
\* it is where the caller wanted the output: all that was traded was handed over.
THEOREM OutputIsForwarded == Spec => OutputForwarded
<1>1. RInv /\ [Next]_vars =>
        [Committing /\ ix.dest # "pda" => Holding(bank'.pda[OutMint(ix)])
                                           = Holding(bank.pda[OutMint(ix)])]_vars
  <2> SUFFICES ASSUME RInv, Next, Committing, ix.dest # "pda"
               PROVE  Holding(bank'.pda[OutMint(ix)]) = Holding(bank.pda[OutMint(ix)])
    OBVIOUS
  <2> DEFINE out == OutMint(ix)
  <2>1. Commit
    BY DEF Committing, Next, Submit, Prepare, PrepareFails, Fund, FundFails, Leg,
       InLoop, LegFails, VenueFails, PayOut, AfterLegs, PayOutFails, CommitFails,
       Drain, Fail, Return
  <2>2. /\ TypeOK /\ Frame /\ ix \in Instructions /\ InputError(ix) = "none"
        /\ Holding(pda[out]) <= snapshot[out]
    BY <2>1 DEF Commit, RInv, Running, TypeOK
  <2>3. out \in SlotMints(ix) /\ out \in Mint /\ out \in guarded
    BY <2>2, InputFacts DEF Frame
  <2>4. bank'.pda = AfterClose /\ ReservesIntact(AfterClose)
    BY <2>1 DEF Commit
  <2>5. Holding(AfterClose[out]) = Holding(pda[out])
    BY <2>2, <2>3, CloseKeepsHoldings
  <2>6. Holding(AfterClose[out]) >= snapshot[out] /\ snapshot[out] = Holding(bank.pda[out])
    BY <2>2, <2>3, <2>4 DEF ReservesIntact, Frame
  <2>7. Holding(pda[out]) \in Nat /\ snapshot[out] \in Nat
    BY <2>2, <2>3, HoldingFacts DEF TypeOK
  <2> QED BY <2>2, <2>4, <2>5, <2>6, <2>7
<1> QED BY <1>1, SpecRInv, PTL DEF Spec, OutputForwarded
=============================================================================
