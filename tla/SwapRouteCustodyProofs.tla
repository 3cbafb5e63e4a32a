----------------------- MODULE SwapRouteCustodyProofs -----------------------
(***************************************************************************)
(* The router's accounting, for every set of mints, instructions, accounts *)
(* and venue behaviours: what the user pays, what honest venues leave      *)
(* behind, and that SwapRoute implements Custody.                          *)
(***************************************************************************)
EXTENDS SwapRouteProofs

\* What the user owns of mint m in the running transaction.
Now(m) == Owns(user, lamports, m)

\* What there was of mint m when the transaction began, and that it grew no more.
Before(m) == Holding(bank.pda[m]) + Wealth(bank, m) + bank.pool[m]
NothingAppeared(m) == Circulating(m) <= Before(m)

\* Before the input is taken: the amount is settled and nothing has moved.
Prepared ==
  /\ user = bank.user /\ lamports = bank.lamports /\ pool = bank.pool
  /\ \A m \in Mint : Holding(pda[m]) = Holding(bank.pda[m])

\* The input mint as Fund leaves it: exactly the amount is gone.
InputSettled == Now(InMint(ix)) = Wealth(bank, InMint(ix)) - effective_amount

\* The user's wSOL account as Fund leaves it.
WsolSettled ==
  /\ user[NativeMint] = Absent <=> bank.user[NativeMint] = Absent
  /\ lamports < bank.lamports => Holding(user[NativeMint]) = 0

\* After the input is taken by honest venues; the output comes on top of it once
\* it is paid.
Funded ==
  /\ pc = "leg" \/ InMint(ix) # OutMint(ix) => InputSettled
  /\ pc = "leg" \/ OutMint(ix) # NativeMint => WsolSettled

\* What the user still has of the mints that were not signed over.
Price(m) == IF m = InMint(ix) THEN effective_amount ELSE 0
UserKept == \A m \in Mint \ exposed : Now(m) >= Wealth(bank, m) - Price(m)

\* With honest venues the guarded accounts never fall below the snapshot, and the
\* created ones stay the PDA's.
NothingBorrowed ==
  \A m \in guarded : pda[m] # Absent /\ pda[m] >= snapshot[m]
NothingTaken == \A m \in created : control[m] = "own"

AInv ==
  /\ RInv
  /\ pc = "fund" => Prepared
  /\ Running => effective_amount = Due(bank, ix)
  /\ pc \in {"leg", "close"} => UserKept /\ (HonestVenues => Funded)
  /\ \A m \in Mint : NothingAppeared(m)
  /\ bank.exposed \subseteq exposed
  /\ Running => created = {m \in SlotMints(ix) : bank.pda[m] = Absent}
  /\ HonestVenues /\ Running => NothingBorrowed /\ NothingTaken
  /\ HonestVenues => outcome # "ReservedBalanceViolation"

-----------------------------------------------------------------------------
\* Every amount is a number.
LEMMA Amounts ==
  ASSUME TypeOK, NEW m \in Mint
  PROVE  /\ Holding(pda[m]) \in Nat /\ Holding(user[m]) \in Nat /\ Now(m) \in Nat
         /\ pool[m] \in Nat /\ Circulating(m) = Holding(pda[m]) + Now(m) + pool[m]
         /\ Holding(bank.pda[m]) \in Nat /\ Wealth(bank, m) \in Nat /\ bank.pool[m] \in Nat
         /\ Before(m) = Holding(bank.pda[m]) + Wealth(bank, m) + bank.pool[m]
<1>1. /\ pda[m] \in Balance /\ user[m] \in Balance /\ pool[m] \in Nat /\ lamports \in Nat
      /\ bank.pda[m] \in Balance /\ bank.user[m] \in Balance /\ bank.pool[m] \in Nat
      /\ bank.lamports \in Nat
  BY DEF TypeOK, Bank
<1>2. /\ Holding(pda[m]) \in Nat /\ Holding(user[m]) \in Nat
      /\ Holding(bank.pda[m]) \in Nat /\ Holding(bank.user[m]) \in Nat
  BY <1>1, HoldingFacts
<1> QED BY <1>1, <1>2 DEF Now, Owns, Wealth, Circulating, Before

\* A smaller balance is a smaller holding.
LEMMA HoldingMonotone ==
  ASSUME NEW a \in Balance, NEW b \in Balance, a <= b
  PROVE  Holding(a) <= Holding(b)
BY DEF Holding, Balance, Absent

\* What the route takes is what is due.
LEMMA DueFacts ==
  ASSUME TypeOK, ix \in Instructions, InputError(ix) = "none", user = bank.user, LedgerOk(ix)
  PROVE  EffectiveAmount(ix) = Due(bank, ix)
<1>1. InMint(ix) \in Mint /\ ix \in Instruction
  BY InputFacts
<1>2. user[InMint(ix)] \in Balance /\ ix.ledger.amount \in Nat
  BY <1>1 DEF TypeOK, Instruction, TokenLedger
<1>3. ix.ledger.kind = "stored" =>
        Holding(user[InMint(ix)]) \in Nat /\ Holding(user[InMint(ix)]) > ix.ledger.amount
  BY <1>2, HoldingFacts DEF LedgerOk
<1> QED BY <1>2, <1>3 DEF EffectiveAmount, Due, SaturatingSub

\* What the input account and the lamports look like after the transfer.
LEMMA FundFacts ==
  ASSUME TypeOK, FundOk, ix \in Instructions, InputError(ix) = "none"
  PROVE  /\ Wrapped \in Nat /\ Wrapped <= lamports
         /\ InMint(ix) # NativeMint => Wrapped = 0
         /\ Holding(InputAccountAfter) = Holding(user[InMint(ix)]) + Wrapped - effective_amount
         /\ InputAccountAfter = Absent <=> user[InMint(ix)] = Absent
         /\ Wrapped > 0 => Holding(InputAccountAfter) = 0
<1> DEFINE in == InMint(ix)
           u == user[in]
           e == effective_amount
<1>1. in \in Mint
  BY InputFacts
<1>2. u \in Balance /\ e \in Nat /\ lamports \in Nat
  BY <1>1 DEF TypeOK
<1>3. Holding(u) \in Nat /\ (u # Absent => Holding(u) = u /\ u \in Nat)
  BY <1>2, HoldingFacts
<1>4. u = Absent => Holding(u) = 0
  BY DEF Holding
<1>6. WrapAmount = IF e >= Holding(u) THEN e - Holding(u) ELSE 0
  BY DEF WrapAmount, SaturatingSub
<1>7. /\ Wrapped = IF WrapsSol THEN WrapAmount ELSE 0
      /\ CreatedWsol <=> WrapsSol /\ u = Absent
      /\ Wrapped <= lamports
      /\ in # NativeMint => Wrapped = 0 /\ ~CreatedWsol
      /\ e > 0 => Holding(u) + Wrapped >= e
  BY DEF Wrapped, CreatedWsol, FundOk
<1>9. InputAccountAfter = IF u = Absent THEN Absent ELSE u + Wrapped - e
  BY <1>7 DEF InputAccountAfter
<1> HIDE DEF in, u, e
<1>10. Wrapped \in Nat /\ (Wrapped > 0 => Wrapped = e - Holding(u))
  BY <1>2, <1>3, <1>6, <1>7
<1>11. CASE u = Absent
  <2>1. Wrapped = e
    BY <1>2, <1>4, <1>6, <1>7, <1>10, <1>11
  <2>2. Holding(InputAccountAfter) = 0 /\ InputAccountAfter = Absent
    BY <1>9, <1>11 DEF Holding
  <2> QED BY <1>2, <1>4, <1>7, <1>10, <1>11, <2>1, <2>2 DEF in, u, e
<1>12. CASE u # Absent
  <2>1. InputAccountAfter = u + Wrapped - e /\ InputAccountAfter \in Nat
    BY <1>2, <1>3, <1>7, <1>9, <1>10, <1>12
  <2>2. Holding(InputAccountAfter) = InputAccountAfter /\ InputAccountAfter # Absent
    BY <2>1 DEF Holding, Absent
  <2>3. Wrapped > 0 => Holding(InputAccountAfter) = 0
    BY <1>2, <1>3, <1>10, <1>12, <2>1, <2>2
  <2> QED BY <1>3, <1>7, <1>10, <1>12, <2>1, <2>2, <2>3 DEF in, u, e
<1> QED BY <1>11, <1>12

-----------------------------------------------------------------------------
\* A transaction that has changed nothing keeps every account.
LEMMA SyncedKeeps ==
  ASSUME TypeOK, Synced
  PROVE  (\A m \in Mint : NothingAppeared(m)) /\ bank.exposed \subseteq exposed
<1> SUFFICES ASSUME NEW m \in Mint PROVE NothingAppeared(m)
  BY DEF Synced
<1>1. Circulating(m) = Before(m)
  BY DEF Synced, Circulating, Before, Wealth
<1>2. Before(m) \in Nat
  BY Amounts
<1> QED BY <1>1, <1>2 DEF NothingAppeared

LEMMA InitAInv == Init => AInv
<1> SUFFICES ASSUME Init PROVE AInv
  OBVIOUS
<1>1. RInv /\ TypeOK /\ Synced /\ pc = "idle" /\ outcome = "none"
  BY InitRInv DEF RInv, Init
<1>2. (\A m \in Mint : NothingAppeared(m)) /\ bank.exposed \subseteq exposed
  BY <1>1, SyncedKeeps
<1> QED BY <1>1, <1>2 DEF AInv, Running

\* An error puts everything back, and so does the start of a new transaction.
LEMMA IdleAInv ==
  ASSUME RInv', pc' \in {"idle", "prepare"},
         HonestVenues => outcome' # "ReservedBalanceViolation"
  PROVE  AInv'
<1>1. (TypeOK /\ Synced => (\A m \in Mint : NothingAppeared(m)) /\ bank.exposed \subseteq exposed)'
  BY SyncedKeeps, PTL
<1>2. TypeOK' /\ Synced'
  BY DEF RInv
<1> QED BY <1>1, <1>2 DEF AInv, Running

LEMMA FailAInv ==
  ASSUME AInv, NEW e, Fail(e), HonestVenues => e # "ReservedBalanceViolation"
  PROVE  AInv'
<1>1. RInv'
  BY FailRInv DEF AInv
<1>2. /\ pc' = "idle" /\ (HonestVenues => outcome' # "ReservedBalanceViolation")
  BY DEF Fail, Return
<1> QED BY <1>1, <1>2, IdleAInv

\* No venue makes tokens, nor takes what the user did not sign over.
LEMMA VenueBounds ==
  ASSUME TypeOK, TypeOK', NEW s \in Swap, SlotMint(ix, s.from) \in Mint,
         SlotMint(ix, s.to) \in Mint, pda[SlotMint(ix, s.from)] # Absent,
         VenueSwap(s, LegInput(s))
  PROVE  /\ exposed \subseteq exposed'
         /\ \A m \in Mint : Circulating(m)' <= Circulating(m)
         /\ \A m \in Mint \ exposed' : Now(m)' >= Now(m)
         /\ HonestVenues => UNCHANGED <<control, user, lamports>>
<1>1. CASE HonestVenues
  <2> DEFINE from == SlotMint(ix, s.from)
             to == SlotMint(ix, s.to)
             amount == LegInput(s)
  <2>1. amount \in Nat /\ amount <= pda[from]
    BY LegInputBound
  <2>2. /\ pda[to] # Absent /\ from \in Mint /\ to \in Mint
        /\ UNCHANGED <<control, user, exposed, lamports>>
    BY <1>1 DEF VenueSwap, HonestSwap
  <2>3. PICK out \in 0 .. pool[to] :
          /\ pool' = [pool EXCEPT ![from] = @ + amount, ![to] = @ - out]
          /\ pda' = [[pda EXCEPT ![from] = @ - amount] EXCEPT ![to] = @ + out]
    BY <1>1 DEF VenueSwap, HonestSwap
  <2>4. pda[from] \in Nat /\ pda[to] \in Nat /\ pool[from] \in Nat /\ pool[to] \in Nat
    BY <2>2 DEF TypeOK, Balance
  <2> HIDE DEF from, to, amount
  <2>5. ASSUME NEW m \in Mint
        PROVE  Holding(pda'[m]) + pool'[m] = Holding(pda[m]) + pool[m]
    <3>1. CASE m # from /\ m # to
      BY <2>2, <2>3, <3>1 DEF TypeOK
    <3>2. CASE m = from /\ m # to
      <4>1. pda'[m] = pda[m] - amount /\ pool'[m] = pool[m] + amount
        BY <2>2, <2>3, <3>2 DEF TypeOK
      <4> QED BY <2>1, <2>4, <3>2, <4>1 DEF Holding, Absent
    <3>3. CASE m # from /\ m = to
      <4>1. pda'[m] = pda[m] + out /\ pool'[m] = pool[m] - out
        BY <2>2, <2>3, <3>3 DEF TypeOK
      <4> QED BY <2>4, <3>3, <4>1 DEF Holding, Absent
    <3>4. CASE m = from /\ m = to
      <4>1. pda'[m] = pda[m] - amount + out /\ pool'[m] = pool[m] + amount - out
        BY <2>1, <2>2, <2>3, <2>4, <3>4 DEF TypeOK
      <4> QED BY <2>1, <2>4, <3>4, <4>1 DEF Holding, Absent
    <3> QED BY <3>1, <3>2, <3>3, <3>4
  <2>6. ASSUME NEW m \in Mint
        PROVE  Now(m)' = Now(m) /\ Now(m) \in Nat /\ Circulating(m)' <= Circulating(m)
    <3>1. Now(m)' = Now(m)
      BY <2>2 DEF Now, Owns
    <3>2. Circulating(m)' = Holding(pda'[m]) + Now(m)' + pool'[m]
      BY DEF Circulating, Now
    <3>3. /\ Holding(pda[m]) \in Nat /\ Now(m) \in Nat /\ pool[m] \in Nat
          /\ Circulating(m) = Holding(pda[m]) + Now(m) + pool[m]
      BY Amounts
    <3>4. Holding(pda'[m]) \in Nat /\ pool'[m] \in Nat
      BY HoldingFacts DEF TypeOK
    <3> QED BY <2>5, <3>1, <3>2, <3>3, <3>4
  <2> QED BY <2>2, <2>6
<1>2. CASE ~HonestVenues
  <2>1. RogueSwap(s)
    BY <1>2 DEF VenueSwap
  <2>2. PICK b \in [LegReach(s) -> Absent .. Supply], u \in [UserAtas(s) -> Absent .. Supply],
             p \in [LegReach(s) \cup UserAtas(s) -> 0 .. Supply] : RogueMoves(s, b, u, p)
    BY <2>1, RogueFacts
  <2>3. /\ \A m \in UserAtas(s) \ UserReach(s) : u[m] >= user[m]
        /\ user' = [m \in Mint |-> IF m \in UserAtas(s) THEN u[m] ELSE user[m]]
        /\ lamports' \in IF UserSigns(s) THEN 0 .. lamports ELSE {lamports}
        /\ \A m \in Mint : Circulating(m)' <= Circulating(m)
        /\ exposed' = exposed \cup UserReach(s) \cup (IF UserSigns(s) THEN {NativeMint} ELSE {})
    BY <2>2, Zenon DEF RogueMoves
  <2>4. ASSUME NEW m \in Mint \ exposed'
        PROVE  Now(m)' >= Now(m)
    <3>1. m \notin UserReach(s) /\ (m = NativeMint => lamports' = lamports)
      BY <2>3, <2>4
    <3>2. user'[m] >= user[m] /\ user[m] \in Balance /\ user'[m] \in Balance
      <4>1. user[m] \in Balance /\ user'[m] \in Balance
        BY <2>4 DEF TypeOK
      <4>2. user'[m] = u[m] \/ user'[m] = user[m]
        BY <2>3, <2>4
      <4>3. user[m] \in Int
        BY <4>1 DEF Balance, Absent
      <4> QED BY <2>3, <2>4, <3>1, <4>1, <4>3
    <3>3. Holding(user'[m]) >= Holding(user[m])
      <4>1. Holding(user[m]) <= Holding(user'[m]) /\ Holding(user[m]) \in Nat /\ Holding(user'[m]) \in Nat
        <5>1. user[m] <= user'[m]
          BY <3>2 DEF Balance, Absent
        <5> QED BY <3>2, <5>1, HoldingMonotone, HoldingFacts
      <4> QED BY <4>1
    <3>4. /\ Now(m) = Holding(user[m]) + (IF m = NativeMint THEN lamports ELSE 0)
          /\ Now(m)' = Holding(user'[m]) + (IF m = NativeMint THEN lamports' ELSE 0)
      BY DEF Now, Owns
    <3>5. Holding(user[m]) \in Nat /\ Holding(user'[m]) \in Nat /\ lamports \in Nat
      BY <3>2, HoldingFacts DEF TypeOK
    <3> QED BY <3>1, <3>3, <3>4, <3>5
  <2> QED BY <1>2, <2>3, <2>4
<1> QED BY <1>1, <1>2

\* An honest swap takes at most what the route brought in.
LEMMA HonestSwapKeeps ==
  ASSUME TypeOK, NEW s \in Swap, SlotMint(ix, s.from) \in guarded,
         SlotMint(ix, s.to) \in Mint, NothingBorrowed,
         HonestVenues, VenueSwap(s, LegInput(s)), UNCHANGED <<guarded, snapshot>>
  PROVE  NothingBorrowed'
<1> DEFINE from == SlotMint(ix, s.from)
           to == SlotMint(ix, s.to)
           amount == LegInput(s)
<1>1. /\ pda[from] # Absent /\ pda[from] >= snapshot[from] /\ from \in Mint /\ to \in Mint
      /\ guarded \subseteq Mint
  BY DEF NothingBorrowed, TypeOK
<1>2. pda[from] \in Nat /\ snapshot[from] \in Nat
  BY <1>1 DEF TypeOK, Balance
<1>3. amount \in Nat /\ amount <= pda[from] - snapshot[from]
  <2>1. Available(from) = pda[from] - snapshot[from] /\ Available(from) \in Nat
    BY <1>1, <1>2 DEF Available, SaturatingSub
  <2>2. Weight(s) \in Nat /\ Weight(s) <= WeightAll /\ WeightAll \in Nat \ {0}
    BY RouteAssumption DEF Weight, Swap
  <2>3. amount = (Available(from) * Weight(s)) \div WeightAll
    BY DEF LegInput
  <2> HIDE DEF from, amount
  <2>4. /\ (Available(from) * Weight(s)) \div WeightAll \in Nat
        /\ (Available(from) * Weight(s)) \div WeightAll <= Available(from)
    BY <2>1, <2>2, ShareBound
  <2> QED BY <2>1, <2>3, <2>4
<1>4. /\ pda[to] # Absent
      /\ \E out \in 0 .. pool[to] :
           pda' = [[pda EXCEPT ![from] = @ - amount] EXCEPT ![to] = @ + out]
  BY DEF VenueSwap, HonestSwap
<1>5. PICK out \in 0 .. pool[to] :
        pda' = [[pda EXCEPT ![from] = @ - amount] EXCEPT ![to] = @ + out]
  BY <1>4
<1>6. pda[to] \in Nat /\ pool[to] \in Nat /\ out \in Nat
  BY <1>1, <1>4 DEF TypeOK, Balance
<1> HIDE DEF from, to, amount
<1> SUFFICES ASSUME NEW m \in guarded
             PROVE  pda'[m] # Absent /\ pda'[m] >= snapshot[m]
  BY DEF NothingBorrowed
<1>7. /\ m \in Mint /\ pda[m] # Absent /\ pda[m] >= snapshot[m]
      /\ pda[m] \in Nat /\ snapshot[m] \in Nat
  BY <1>1 DEF NothingBorrowed, TypeOK, Balance
<1>8. pda'[m] = IF m = to THEN (IF to = from THEN pda[m] - amount ELSE pda[m]) + out
                ELSE IF m = from THEN pda[m] - amount ELSE pda[m]
  BY <1>1, <1>5, <1>7 DEF TypeOK
<1> QED BY <1>2, <1>3, <1>6, <1>7, <1>8 DEF Absent

\* Closing the empty ATAs of the route does not disturb what is guarded.
LEMMA HonestReserves ==
  ASSUME TypeOK, NothingBorrowed
  PROVE  ReservesIntact(AfterClose)
<1> SUFFICES ASSUME NEW m \in guarded
             PROVE  Holding(AfterClose[m]) >= snapshot[m]
  BY DEF ReservesIntact
<1>1. m \in Mint /\ pda[m] # Absent /\ pda[m] >= snapshot[m]
  BY DEF TypeOK, NothingBorrowed
<1>2. Holding(AfterClose[m]) = Holding(pda[m])
  BY <1>1, CloseKeepsHoldings
<1> QED BY <1>1, <1>2 DEF Holding

-----------------------------------------------------------------------------
\* What the input's transfer does to the accounting.
LEMMA FundAInv ==
  ASSUME AInv, RInv', Fund
  PROVE  AInv'
<1> DEFINE in == InMint(ix)
<1>0. RInv /\ TypeOK /\ TypeOK'
  BY DEF AInv, RInv
<1>1. /\ Prepared /\ FundOk /\ ix \in Instructions /\ InputError(ix) = "none"
      /\ in \in Mint /\ in \in SlotMints(ix) /\ pda[in] # Absent
  BY <1>0, InputFacts DEF Fund, AInv, RInv, TypeOK
<1>2. /\ Wrapped \in Nat /\ Wrapped <= lamports
      /\ in # NativeMint => Wrapped = 0
      /\ Holding(InputAccountAfter) = Holding(user[in]) + Wrapped - effective_amount
      /\ InputAccountAfter = Absent <=> user[in] = Absent
      /\ Wrapped > 0 => Holding(InputAccountAfter) = 0
  BY <1>0, <1>1, FundFacts
<1>3. /\ InMint(ix)' = in /\ in' = in /\ OutMint(ix)' = OutMint(ix) /\ SlotMints(ix)' = SlotMints(ix)
      /\ lamports' = lamports - Wrapped
      /\ user' = [user EXCEPT ![in] = InputAccountAfter]
      /\ pda' = [pda EXCEPT ![in] = @ + effective_amount]
      /\ pc = "fund" /\ pc' = "leg"
      /\ UNCHANGED <<bank, control, exposed, pool, ix, created, guarded, snapshot,
                     effective_amount, outcome>>
  BY DEF Fund, InMint, OutMint, OutSlot, SlotMint, SlotMints, locals
<1> HIDE DEF in
<1>4. /\ user = bank.user /\ lamports = bank.lamports /\ pool = bank.pool
      /\ \A m \in Mint : Holding(pda[m]) = Holding(bank.pda[m])
  BY <1>1 DEF Prepared
<1>5. /\ user \in [Mint -> Balance] /\ pda \in [Mint -> Balance] /\ pool \in [Mint -> Nat]
      /\ lamports \in Nat /\ effective_amount \in Nat /\ NativeMint \in Mint
  BY <1>0, RouteAssumption DEF TypeOK
<1>6. /\ user'[in] = InputAccountAfter /\ pda'[in] = pda[in] + effective_amount
      /\ \A m \in Mint : m # in => user'[m] = user[m] /\ pda'[m] = pda[m]
  BY <1>1, <1>3, <1>5
<1>7. /\ Holding(user[in]) \in Nat /\ pda[in] \in Nat
      /\ Holding(pda[in]) = pda[in] /\ Holding(pda'[in]) = pda[in] + effective_amount
  BY <1>1, <1>5, <1>6, HoldingFacts DEF Balance, Holding, Absent
<1>8. /\ Now(in)' = Wealth(bank, in) - effective_amount
      /\ Wealth(bank, in) \in Nat
  <2>1. Now(in)' = Holding(InputAccountAfter)
                     + (IF in = NativeMint THEN lamports - Wrapped ELSE 0)
    BY <1>3, <1>6 DEF Now, Owns, in
  <2>2. Wealth(bank, in) = Holding(user[in]) + (IF in = NativeMint THEN lamports ELSE 0)
    BY <1>4 DEF Wealth, Owns
  <2> QED BY <1>2, <1>5, <1>7, <2>1, <2>2
<1>9. ASSUME NEW m \in Mint, m # in
      PROVE  Now(m)' = Wealth(bank, m) /\ Wealth(bank, m) \in Nat
  <2>1. m = NativeMint => lamports' = lamports
    BY <1>2, <1>3, <1>5, <1>9
  <2>2. Now(m)' = Now(m) /\ Now(m) = Wealth(bank, m)
    BY <1>4, <1>6, <1>9, <2>1 DEF Now, Owns, Wealth
  <2> QED BY <1>0, <2>2, Amounts
<1>10. \A m \in Mint : Wealth(bank, m)' = Wealth(bank, m) /\ Price(m)' = Price(m)
  BY <1>3 DEF Wealth, Owns, Price, in
<1>11. UserKept'
  <2> SUFFICES ASSUME NEW m \in Mint PROVE Now(m)' >= Wealth(bank, m) - Price(m)
    BY <1>10 DEF UserKept
  <2>1. Price(m) = IF m = in THEN effective_amount ELSE 0
    BY DEF Price, in
  <2>2. CASE m = in
    <3>1. Now(m)' = Now(in)'
      BY <1>3, <2>2 DEF Now, Owns
    <3> QED BY <1>5, <1>8, <2>1, <2>2, <3>1
  <2>3. CASE m # in
    BY <1>9, <2>1, <2>3
  <2> QED BY <2>2, <2>3
<1>12. Funded'
  <2>1. InputSettled'
    <3>1. Now(InMint(ix))' = Now(in)' /\ Wealth(bank, InMint(ix))' = Wealth(bank, in)
      BY <1>3 DEF in, Wealth, Owns
    <3> QED BY <1>3, <1>8, <3>1 DEF InputSettled
  <2>2. WsolSettled'
    <3>1. CASE in = NativeMint
      BY <1>2, <1>3, <1>4, <1>5, <1>6, <3>1 DEF WsolSettled
    <3>2. CASE in # NativeMint
      BY <1>2, <1>3, <1>4, <1>5, <1>6, <3>2 DEF WsolSettled
    <3> QED BY <3>1, <3>2
  <2> QED BY <2>1, <2>2 DEF Funded
<1>13. ASSUME NEW m \in Mint PROVE NothingAppeared(m)'
  <2>1. /\ Circulating(m)' = Holding(pda'[m]) + Now(m)' + pool[m] /\ Before(m)' = Before(m)
    BY <1>3 DEF Circulating, Now, Before, Wealth
  <2>2. /\ Before(m) = Holding(pda[m]) + Wealth(bank, m) + pool[m]
        /\ Holding(pda[m]) \in Nat /\ Wealth(bank, m) \in Nat /\ pool[m] \in Nat
    BY <1>0, <1>4, Amounts
  <2>3. CASE m = in
    <3>1. Now(m)' = Now(in)'
      BY <1>3, <2>3 DEF Now, Owns
    <3> QED BY <1>5, <1>7, <1>8, <2>1, <2>2, <2>3, <3>1 DEF NothingAppeared
  <2>4. CASE m # in
    BY <1>6, <1>9, <2>1, <2>2, <2>4 DEF NothingAppeared
  <2> QED BY <2>3, <2>4
<1>14. NothingBorrowed => NothingBorrowed'
  <2> SUFFICES ASSUME NothingBorrowed, NEW m \in guarded
               PROVE  pda'[m] # Absent /\ pda'[m] >= snapshot[m]
    BY <1>3 DEF NothingBorrowed
  <2>1. /\ m \in Mint /\ pda[m] # Absent /\ pda[m] >= snapshot[m]
        /\ pda[m] \in Nat /\ snapshot[m] \in Nat
    BY <1>0 DEF NothingBorrowed, TypeOK, Balance
  <2>2. pda'[m] = IF m = in THEN pda[m] + effective_amount ELSE pda[m]
    BY <1>6, <2>1
  <2> QED BY <1>5, <2>1, <2>2 DEF Absent
<1>15. (effective_amount = Due(bank, ix))' /\ (NothingTaken => NothingTaken')
  BY <1>3 DEF AInv, Running, Due, InMint, SlotMint, NothingTaken
<1> QED BY <1>0, <1>3, <1>11, <1>12, <1>13, <1>14, <1>15 DEF AInv, Running

\* A leg keeps the accounting, whatever its venue does.
LEMMA LegAInv ==
  ASSUME AInv, RInv', Leg
  PROVE  AInv'
<1> DEFINE s == ix.swaps[leg]
<1>0. RInv /\ TypeOK /\ TypeOK'
  BY DEF AInv, RInv
<1>1. /\ ix \in Instructions /\ InputError(ix) = "none" /\ SlotMints(ix) \subseteq guarded
      /\ pc = "leg" /\ pc' = "leg" /\ leg <= Len(ix.swaps)
      /\ UNCHANGED <<bank, ix, created, guarded, snapshot, effective_amount, outcome>>
  BY <1>0 DEF Leg, InLoop, RInv, Running, Frame, TypeOK, locals
<1>2. leg \in 1 .. Len(ix.swaps)
  BY <1>0, <1>1, InputFacts DEF TypeOK
<1>3. /\ s \in Swap
      /\ SlotMint(ix, s.from) \in SlotMints(ix) /\ SlotMint(ix, s.to) \in SlotMints(ix)
      /\ SlotMints(ix) \subseteq Mint
  BY <1>1, <1>2, InputFacts
<1>4. /\ pda[SlotMint(ix, s.from)] # Absent
      /\ VenueSwap(s, LegInput(s)) \/ UNCHANGED <<pda, control, user, exposed, lamports, pool>>
  BY DEF Leg, LegError, accounts
<1> HIDE DEF s
<1>5. /\ exposed \subseteq exposed'
      /\ \A m \in Mint : Circulating(m)' <= Circulating(m)
      /\ \A m \in Mint \ exposed' : Now(m)' >= Now(m)
      /\ HonestVenues => UNCHANGED <<control, user, lamports>>
  <2>1. CASE VenueSwap(s, LegInput(s))
    BY <1>0, <1>3, <1>4, <2>1, VenueBounds
  <2>2. CASE UNCHANGED <<pda, control, user, exposed, lamports, pool>>
    <3>1. ASSUME NEW m \in Mint PROVE Circulating(m)' <= Circulating(m) /\ Now(m)' >= Now(m)
      <4>1. Circulating(m)' = Circulating(m) /\ Now(m)' = Now(m)
        BY <2>2 DEF Circulating, Now, Owns
      <4>2. Circulating(m) \in Nat /\ Now(m) \in Nat
        BY <1>0, Amounts
      <4> QED BY <4>1, <4>2
    <3> QED BY <2>2, <3>1
  <2> QED BY <1>4, <2>1, <2>2
<1>6. ASSUME NEW m \in Mint PROVE NothingAppeared(m)'
  <2>1. Before(m)' = Before(m) /\ NothingAppeared(m) /\ Circulating(m)' <= Circulating(m)
    BY <1>1, <1>5 DEF AInv, Before, Wealth
  <2>2. Before(m) \in Nat /\ Circulating(m) \in Nat
    BY <1>0, Amounts
  <2>3. Circulating(m)' \in Nat
    <3>1. pda'[m] \in Balance /\ user'[m] \in Balance /\ lamports' \in Nat /\ pool'[m] \in Nat
      BY <1>0 DEF TypeOK
    <3> QED BY <3>1, HoldingFacts DEF Circulating, Owns
  <2> QED BY <2>1, <2>2, <2>3 DEF NothingAppeared
<1>7. UserKept'
  <2> SUFFICES ASSUME NEW m \in Mint \ exposed' PROVE (Now(m) >= Wealth(bank, m) - Price(m))'
    BY DEF UserKept
  <2>1. /\ Wealth(bank, m)' = Wealth(bank, m) /\ Price(m)' = Price(m)
        /\ Now(m)' >= Now(m) /\ Now(m) >= Wealth(bank, m) - Price(m)
    BY <1>1, <1>5 DEF AInv, UserKept, Wealth, Price, InMint, SlotMint
  <2>2. Wealth(bank, m) \in Nat /\ Now(m) \in Nat /\ Price(m) \in Nat
    BY <1>0, Amounts DEF Price, TypeOK
  <2>3. Now(m)' \in Nat
    <3>1. user'[m] \in Balance /\ lamports' \in Nat
      BY <1>0 DEF TypeOK
    <3> QED BY <3>1, HoldingFacts DEF Now, Owns
  <2> QED BY <2>1, <2>2, <2>3
<1>8. HonestVenues => Funded' /\ NothingTaken'
  <2> SUFFICES ASSUME HonestVenues PROVE Funded' /\ NothingTaken'
    OBVIOUS
  <2>1. /\ Funded /\ NothingTaken /\ UNCHANGED <<control, user, lamports>>
        /\ InMint(ix)' = InMint(ix) /\ OutMint(ix)' = OutMint(ix)
    BY <1>1, <1>5 DEF AInv, Running, InMint, OutMint, OutSlot, SlotMint
  <2> QED BY <1>1, <2>1
          DEF Funded, InputSettled, WsolSettled, Now, Owns, Wealth, NothingTaken
<1>9. HonestVenues => NothingBorrowed'
  <2> SUFFICES ASSUME HonestVenues PROVE NothingBorrowed'
    OBVIOUS
  <2>1. NothingBorrowed
    BY <1>1 DEF AInv, Running
  <2>2. CASE VenueSwap(s, LegInput(s))
    BY <1>0, <1>1, <1>3, <2>1, <2>2, HonestSwapKeeps
  <2>3. CASE UNCHANGED <<pda, control, user, exposed, lamports, pool>>
    BY <1>1, <2>1, <2>3 DEF NothingBorrowed
  <2> QED BY <1>4, <2>2, <2>3
<1>10. SlotMints(ix)' = SlotMints(ix) /\ (effective_amount = Due(bank, ix))'
  BY <1>1, InstructionKept DEF AInv, Running, Due, InMint, SlotMint
<1>11. bank'.exposed \subseteq exposed'
  BY <1>1, <1>5 DEF AInv
<1> QED BY <1>0, <1>1, <1>6, <1>7, <1>8, <1>9, <1>10, <1>11 DEF AInv, Running

\* So does the payout, whoever it goes to.
LEMMA PayOutAInv ==
  ASSUME AInv, RInv', PayOut
  PROVE  AInv'
<1> DEFINE out == OutMint(ix)
           paid == IF ix.dest = "pda" THEN 0 ELSE TradedOutput
           got == IF ix.dest = "user" THEN TradedOutput ELSE 0
           fed == IF ix.dest = "other" THEN TradedOutput ELSE 0
<1>0. RInv /\ TypeOK /\ TypeOK'
  BY DEF AInv, RInv
<1>1. /\ pc = "leg" /\ pc' = "close" /\ ix \in Instructions /\ InputError(ix) = "none"
      /\ UNCHANGED <<bank, control, exposed, lamports, ix, created, guarded, snapshot,
                     effective_amount, outcome>>
      /\ pda[out] # Absent /\ out \in Mint
      /\ pda' = [pda EXCEPT ![out] = IF ix.dest = "pda" THEN @ ELSE @ - TradedOutput]
      /\ user' = [user EXCEPT ![out] = IF ix.dest = "user" THEN Holding(@) + TradedOutput ELSE @]
      /\ pool' = [pool EXCEPT ![out] = IF ix.dest = "other" THEN @ + TradedOutput ELSE @]
  BY <1>0, InputFacts DEF PayOut, PayOutOk, AfterLegs, RInv, TypeOK, locals
<1>2. /\ InMint(ix)' = InMint(ix) /\ OutMint(ix)' = out /\ SlotMints(ix)' = SlotMints(ix)
      /\ out' = out
  BY <1>1 DEF InMint, OutMint, OutSlot, SlotMint, SlotMints
<1>3. /\ user \in [Mint -> Balance] /\ pda \in [Mint -> Balance] /\ pool \in [Mint -> Nat]
      /\ snapshot \in [Mint -> Nat] /\ lamports \in Nat /\ guarded \subseteq Mint
  BY <1>0 DEF TypeOK
<1>4. /\ pda[out] \in Nat /\ snapshot[out] \in Nat /\ Holding(user[out]) \in Nat
      /\ Holding(pda[out]) = pda[out] /\ pool[out] \in Nat /\ user[out] \in Balance
  BY <1>1, <1>3, HoldingFacts
<1>5. /\ TradedOutput \in Nat /\ TradedOutput <= pda[out]
      /\ pda[out] - TradedOutput >= IF pda[out] >= snapshot[out] THEN snapshot[out] ELSE 0
  BY <1>4 DEF TradedOutput, SaturatingSub
<1>6. /\ paid \in Nat /\ paid <= pda[out] /\ got \in Nat /\ fed \in Nat /\ got + fed <= paid
      /\ pda[out] - paid >= IF pda[out] >= snapshot[out] THEN snapshot[out] ELSE 0
  BY <1>4, <1>5
<1>7. /\ pda'[out] = pda[out] - paid /\ pool'[out] = pool[out] + fed
      /\ Holding(user'[out]) = Holding(user[out]) + got
      /\ \A m \in Mint : m # out => user'[m] = user[m] /\ pda'[m] = pda[m] /\ pool'[m] = pool[m]
  <2>1. /\ pda'[out] = IF ix.dest = "pda" THEN pda[out] ELSE pda[out] - TradedOutput
        /\ user'[out] = IF ix.dest = "user" THEN Holding(user[out]) + TradedOutput ELSE user[out]
        /\ pool'[out] = IF ix.dest = "other" THEN pool[out] + TradedOutput ELSE pool[out]
        /\ \A m \in Mint : m # out => user'[m] = user[m] /\ pda'[m] = pda[m] /\ pool'[m] = pool[m]
    BY <1>1, <1>3
  <2>2. ix.dest = "user" => Holding(user'[out]) = user'[out]
    BY <1>4, <1>5, <2>1 DEF Holding, Absent
  <2> QED BY <1>4, <1>5, <2>1, <2>2
<1> HIDE DEF out, paid, got, fed
<1>8. Holding(pda'[out]) = pda[out] - paid
  BY <1>4, <1>6, <1>7 DEF Holding, Absent
<1>9. ASSUME NEW m \in Mint
      PROVE  /\ Now(m)' = Now(m) + (IF m = out THEN got ELSE 0)
             /\ Now(m) \in Nat
  <2>1. Now(m) \in Nat /\ Holding(user[m]) \in Nat
    BY <1>0, Amounts
  <2>2. /\ Now(m) = Holding(user[m]) + (IF m = NativeMint THEN lamports ELSE 0)
        /\ Now(m)' = Holding(user'[m]) + (IF m = NativeMint THEN lamports ELSE 0)
    BY <1>1 DEF Now, Owns
  <2>3. Holding(user'[m]) = Holding(user[m]) + (IF m = out THEN got ELSE 0)
    BY <1>7, <2>1
  <2> QED BY <1>3, <1>6, <2>1, <2>2, <2>3
<1>10. ASSUME NEW m \in Mint PROVE NothingAppeared(m)'
  <2>1. /\ Circulating(m)' = Holding(pda'[m]) + Now(m)' + pool'[m] /\ Before(m)' = Before(m)
        /\ NothingAppeared(m)
    BY <1>1 DEF AInv, Circulating, Now, Before, Wealth
  <2>2. /\ Circulating(m) = Holding(pda[m]) + Now(m) + pool[m] /\ Before(m) \in Nat
        /\ Holding(pda[m]) \in Nat /\ pool[m] \in Nat
    BY <1>0, Amounts
  <2>3. CASE m = out
    BY <1>4, <1>6, <1>7, <1>8, <1>9, <2>1, <2>2, <2>3 DEF NothingAppeared
  <2>4. CASE m # out
    BY <1>7, <1>9, <2>1, <2>2, <2>4 DEF NothingAppeared
  <2> QED BY <2>3, <2>4
<1>11. UserKept'
  <2> SUFFICES ASSUME NEW m \in Mint \ exposed' PROVE (Now(m) >= Wealth(bank, m) - Price(m))'
    BY DEF UserKept
  <2>1. /\ Wealth(bank, m)' = Wealth(bank, m) /\ Price(m)' = Price(m)
        /\ Now(m) >= Wealth(bank, m) - Price(m)
    BY <1>1, <1>2 DEF AInv, UserKept, Wealth, Price
  <2>2. Wealth(bank, m) \in Nat /\ Price(m) \in Nat
    BY <1>0, Amounts DEF Price, TypeOK
  <2> QED BY <1>6, <1>9, <2>1, <2>2
<1>12. HonestVenues => Funded'
  <2> SUFFICES ASSUME HonestVenues PROVE Funded'
    OBVIOUS
  <2>1. InputSettled /\ WsolSettled
    BY <1>1 DEF AInv, Funded
  <2>2. InMint(ix) \in Mint /\ NativeMint \in Mint
    BY <1>1, InputFacts, RouteAssumption
  <2>3. InMint(ix) # out => InputSettled'
    <3> SUFFICES ASSUME InMint(ix) # out PROVE InputSettled'
      OBVIOUS
    <3>1. user'[InMint(ix)] = user[InMint(ix)]
      BY <1>7, <2>2
    <3> QED BY <1>1, <1>2, <2>1, <3>1 DEF InputSettled, Now, Owns, Wealth
  <2>4. out # NativeMint => WsolSettled'
    BY <1>1, <1>7, <2>1, <2>2 DEF WsolSettled
  <2> QED BY <1>1, <1>2, <2>3, <2>4 DEF Funded
<1>13. NothingBorrowed => NothingBorrowed'
  <2> SUFFICES ASSUME NothingBorrowed, NEW m \in guarded
               PROVE  pda'[m] # Absent /\ pda'[m] >= snapshot[m]
    BY <1>1 DEF NothingBorrowed
  <2>1. m \in Mint /\ pda[m] # Absent /\ pda[m] >= snapshot[m] /\ snapshot[m] \in Nat
    BY <1>3 DEF NothingBorrowed
  <2> QED BY <1>4, <1>6, <1>7, <2>1 DEF Absent
<1>14. (effective_amount = Due(bank, ix))' /\ (NothingTaken => NothingTaken')
  BY <1>1 DEF AInv, Running, Due, InMint, SlotMint, NothingTaken
<1> QED BY <1>0, <1>1, <1>2, <1>10, <1>11, <1>12, <1>13, <1>14 DEF AInv, Running

\* The inductive step, one case per step of execute.
LEMMA NextAInv == AInv /\ [Next]_vars => AInv'
<1> SUFFICES ASSUME AInv, [Next]_vars PROVE AInv'
  OBVIOUS
<1>0. RInv /\ RInv' /\ TypeOK /\ TypeOK'
  BY NextRInv DEF AInv, RInv
<1>1. CASE Submit
  <2>1. pc' \in {"idle", "prepare"} /\ outcome' # "ReservedBalanceViolation"
    BY <1>1 DEF Submit, InputError
  <2> QED BY <1>0, <2>1, IdleAInv
<1>2. CASE Prepare
  <2> USE <1>2 DEF Prepare
  <2>1. /\ user = bank.user /\ lamports = bank.lamports /\ pool = bank.pool
        /\ exposed = bank.exposed /\ LedgerOk(ix) /\ InputError(ix) = "none"
        /\ ix \in Instructions
        /\ pda = bank.pda /\ pda \in [Mint -> Balance] /\ pda' \in [Mint -> Balance]
    BY <1>0 DEF RInv, Synced, TypeOK
  <2>2. \A m \in Mint : Holding(pda'[m]) = Holding(bank.pda[m])
    BY <2>1 DEF Holding
  <2>3. Prepared'
    BY <2>1, <2>2 DEF Prepared
  <2>4. ASSUME NEW m \in Mint PROVE NothingAppeared(m)'
    <3>1. Circulating(m)' = Before(m)' /\ Before(m)' = Before(m)
      BY <2>1, <2>2 DEF Circulating, Before, Wealth
    <3>2. Before(m) \in Nat
      BY <1>0, Amounts
    <3> QED BY <3>1, <3>2 DEF NothingAppeared
  <2>5. (created = {m \in SlotMints(ix) : bank.pda[m] = Absent})'
    BY <2>1 DEF SlotMints, SlotMint
  <2>6. NothingBorrowed'
    <3> SUFFICES ASSUME NEW m \in guarded'
                 PROVE  pda'[m] # Absent /\ pda'[m] >= snapshot'[m]
      BY DEF NothingBorrowed
    <3>1. m \in Mint /\ pda'[m] # Absent /\ snapshot'[m] = Holding(pda'[m])
      BY <1>0 DEF Guarded, Owned, TypeOK
    <3>2. pda'[m] \in Balance
      BY <2>1, <3>1
    <3> HIDE <1>2 DEF Prepare
    <3>3. Holding(pda'[m]) = pda'[m] /\ pda'[m] \in Nat
      BY <3>1, <3>2, HoldingFacts
    <3> QED BY <3>1, <3>3
  <2>7. NothingTaken'
    BY <1>0 DEF NothingTaken, TypeOK
  <2>8. effective_amount' = Due(bank, ix) /\ Due(bank, ix)' = Due(bank, ix)
    BY <1>0, <2>1, DueFacts DEF Due, InMint, SlotMint
  <2>9. bank'.exposed \subseteq exposed'
    BY <2>1
  <2> QED BY <1>0, <2>3, <2>4, <2>5, <2>6, <2>7, <2>8, <2>9 DEF AInv
<1>3. CASE Fund
  BY <1>0, <1>3, FundAInv
<1>4. CASE Leg
  BY <1>0, <1>4, LegAInv
<1>5. CASE PayOut
  BY <1>0, <1>5, PayOutAInv
<1>6. CASE Commit
  <2>1. pc' = "idle" /\ outcome' = "ok"
    BY <1>6 DEF Commit, Return
  <2> QED BY <1>0, <2>1, IdleAInv
<1>7. CASE PrepareFails \/ FundFails \/ LegFails \/ VenueFails \/ PayOutFails
  <2>1. \A s : LegError(s) # "ReservedBalanceViolation"
    BY DEF LegError
  <2> QED BY <1>7, <2>1, FailAInv
          DEF PrepareFails, FundFails, LegFails, VenueFails, PayOutFails
<1>8. CASE CommitFails
  <2>1. CASE CloseMayFail /\ Fail("TokenProgramError")
    BY <2>1, FailAInv
  <2>2. CASE CloseOk /\ ~ReservesIntact(AfterClose) /\ Fail("ReservedBalanceViolation")
    <3>1. HonestVenues => ReservesIntact(AfterClose)
      BY <1>0, <1>8, HonestReserves DEF CommitFails, AInv, Running
    <3> QED BY <2>2, <3>1, FailAInv
  <2> QED BY <1>8, <2>1, <2>2 DEF CommitFails
<1>9. CASE Drain
  <2>1. pc' = "idle" /\ outcome' = "none"
    BY <1>0, <1>9, DrainFacts
  <2> QED BY <1>0, <2>1, IdleAInv
<1>10. CASE UNCHANGED vars
  <2>1. UNCHANGED <<bank, pda, control, user, exposed, lamports, pool, pc, ix, created, guarded,
                    snapshot, effective_amount, outcome>>
    BY <1>10 DEF vars, accounts, locals
  <2>2. \A m \in Mint : NothingAppeared(m)' <=> NothingAppeared(m)
    BY <2>1 DEF NothingAppeared, Circulating, Before, Wealth, Owns
  <2>3. /\ Prepared => Prepared'
        /\ Funded => Funded'
        /\ NothingBorrowed => NothingBorrowed'
        /\ NothingTaken => NothingTaken'
        /\ SlotMints(ix)' = SlotMints(ix) /\ Due(bank, ix)' = Due(bank, ix)
    BY <2>1 DEF Prepared, Funded, InputSettled, WsolSettled, Now, Owns, Wealth, NothingBorrowed,
       NothingTaken, Due, InMint, OutMint, OutSlot, SlotMint, SlotMints
  <2>4. UserKept => UserKept'
    BY <2>1 DEF UserKept, Now, Owns, Wealth, Price, InMint, SlotMint
  <2> QED BY <1>0, <2>1, <2>2, <2>3, <2>4 DEF AInv, Running
<1>11. CASE Next
  BY <1>1, <1>2, <1>3, <1>4, <1>5, <1>6, <1>7, <1>8, <1>9, <1>11 DEF Next
<1> QED BY <1>10, <1>11

LEMMA SpecAInv == Spec => []AInv
BY InitAInv, NextAInv, PTL DEF Spec

-----------------------------------------------------------------------------
\* Only Commit ends a transaction with "ok".
LEMMA OnlyCommit ==
  ASSUME Next, Committing
  PROVE  Commit
BY DEF Committing, Next, Submit, Prepare, PrepareFails, Fund, FundFails, Leg,
   InLoop, LegFails, VenueFails, PayOut, AfterLegs, PayOutFails, CommitFails,
   Drain, Fail, Return

\* What holds at a commit, in terms of the two bank states.
LEMMA CommitFacts ==
  ASSUME AInv, Commit
  PROVE  /\ TypeOK /\ Frame /\ ix \in Instructions /\ InputError(ix) = "none"
         /\ pc = "close" /\ UserKept /\ (HonestVenues => Funded)
         /\ bank' = [pda |-> AfterClose, control |-> control, user |-> user,
                     exposed |-> exposed, lamports |-> lamports, pool |-> pool]
         /\ created = {m \in SlotMints(ix) : bank.pda[m] = Absent}
         /\ InMint(ix) \in Mint /\ OutMint(ix) \in Mint /\ SlotMints(ix) \subseteq Mint
         /\ \A m \in Mint : Wealth(bank', m) = Now(m)
         /\ \A m \in Mint : Holding(bank'.pda[m]) = Holding(pda[m])
         /\ effective_amount = Due(bank, ix) /\ effective_amount \in Nat
<1>1. /\ pc = "close" /\ RInv /\ TypeOK /\ Frame /\ InputError(ix) = "none"
      /\ UserKept /\ (HonestVenues => Funded)
      /\ ix \in Instructions /\ effective_amount \in Nat
      /\ created = {m \in SlotMints(ix) : bank.pda[m] = Absent}
      /\ effective_amount = Due(bank, ix)
  BY DEF Commit, AInv, RInv, Running, TypeOK
<1>2. bank' = [pda |-> AfterClose, control |-> control, user |-> user,
               exposed |-> exposed, lamports |-> lamports, pool |-> pool]
  BY DEF Commit
<1>3. InMint(ix) \in Mint /\ OutMint(ix) \in Mint /\ SlotMints(ix) \subseteq Mint
  BY <1>1, InputFacts
<1>4. \A m \in Mint : Holding(AfterClose[m]) = Holding(pda[m])
  BY <1>1, CloseKeepsHoldings
<1> QED BY <1>1, <1>2, <1>3, <1>4 DEF Now, Wealth

\* With honest venues the reserve check never fires and closing the created ATAs
\* never fails, whatever the route.
THEOREM HonestVenuesNeverBlamed == Spec => []HonestNeverBlamed
<1>1. AInv => HonestNeverBlamed
  <2> SUFFICES ASSUME AInv, HonestVenues
               PROVE  /\ outcome # "ReservedBalanceViolation"
                      /\ pc = "close" => ~CloseMayFail
    BY DEF HonestNeverBlamed
  <2>1. ASSUME pc = "close" PROVE ~CloseMayFail
    <3>1. NothingBorrowed /\ NothingTaken /\ Frame /\ created \subseteq SlotMints(ix)
      BY <2>1 DEF AInv, RInv, Running
    <3> QED BY <3>1 DEF CloseMayFail, Closable, Empty, NothingBorrowed, NothingTaken, Frame
  <2> QED BY <2>1 DEF AInv
<1> QED BY <1>1, SpecAInv, PTL

\* With honest venues a committed route costs the user exactly the amount, or
\* exactly what arrived since the token ledger was stored.
THEOREM UsersPayExactly == Spec => UserPaysExactly
<1>1. AInv /\ [Next]_vars =>
        [HonestVenues /\ Committing /\ InMint(ix) # OutMint(ix) =>
           Wealth(bank', InMint(ix)) = Wealth(bank, InMint(ix)) - Due(bank, ix)]_vars
  <2> SUFFICES ASSUME AInv, Next, HonestVenues, Committing, InMint(ix) # OutMint(ix)
               PROVE  Wealth(bank', InMint(ix)) = Wealth(bank, InMint(ix)) - Due(bank, ix)
    OBVIOUS
  <2>1. /\ Funded /\ pc = "close" /\ effective_amount = Due(bank, ix)
        /\ Wealth(bank', InMint(ix)) = Now(InMint(ix))
    BY OnlyCommit, CommitFacts
  <2>2. InputSettled
    BY <2>1 DEF Funded
  <2> QED BY <2>1, <2>2 DEF InputSettled
<1> QED BY <1>1, SpecAInv, PTL DEF Spec, UserPaysExactly

\* Whatever the venues do with the signatures that reach them, a committed route
\* takes at most the amount of the input mint and nothing of any other mint from a
\* user who signed no account of that mint over.
THEOREM UsersPayAtMost == Spec => UserPaysAtMost
<1>1. AInv /\ [Next]_vars =>
        [Committing => \A m \in Mint \ bank'.exposed :
           Wealth(bank', m) >= Wealth(bank, m)
                                 - (IF m = InMint(ix) THEN Due(bank, ix) ELSE 0)]_vars
  <2> SUFFICES ASSUME AInv, Next, Committing, NEW m \in Mint \ bank'.exposed
               PROVE  Wealth(bank', m) >= Wealth(bank, m)
                                            - (IF m = InMint(ix) THEN Due(bank, ix) ELSE 0)
    OBVIOUS
  <2>1. /\ UserKept /\ effective_amount = Due(bank, ix) /\ bank'.exposed = exposed
        /\ Wealth(bank', m) = Now(m)
    BY OnlyCommit, CommitFacts
  <2>2. Now(m) >= Wealth(bank, m) - Price(m)
    BY <2>1 DEF UserKept
  <2> QED BY <2>1, <2>2 DEF Price
<1> QED BY <1>1, SpecAInv, PTL DEF Spec, UserPaysAtMost

\* With honest venues, wrapping SOL for an input leaves no stray account and wraps
\* no more than needed.
THEOREM WsolIsRestored == Spec => WsolRestored
<1>1. AInv /\ [Next]_vars =>
        [HonestVenues /\ Committing /\ OutMint(ix) # NativeMint =>
           /\ (bank'.user[NativeMint] = Absent) = (bank.user[NativeMint] = Absent)
           /\ bank'.lamports < bank.lamports => Holding(bank'.user[NativeMint]) = 0]_vars
  <2> SUFFICES ASSUME AInv, Next, HonestVenues, Committing, OutMint(ix) # NativeMint
               PROVE  /\ (bank'.user[NativeMint] = Absent) = (bank.user[NativeMint] = Absent)
                      /\ bank'.lamports < bank.lamports => Holding(bank'.user[NativeMint]) = 0
    OBVIOUS
  <2>1. Funded /\ pc = "close" /\ bank'.user = user /\ bank'.lamports = lamports
    BY OnlyCommit, CommitFacts
  <2>2. WsolSettled
    BY <2>1 DEF Funded
  <2> QED BY <2>1, <2>2 DEF WsolSettled
<1> QED BY <1>1, SpecAInv, PTL DEF Spec, WsolRestored

\* ATAs created for a route stay only if they hold something, and honest venues
\* leave those that existed open.
THEOREM AtasAreTidied == Spec => AtasTidied
<1>1. AInv /\ [Next]_vars =>
        [Committing => \A m \in SlotMints(ix) :
           /\ bank.pda[m] = Absent => bank'.pda[m] # 0
           /\ HonestVenues /\ bank.pda[m] # Absent => bank'.pda[m] # Absent]_vars
  <2> SUFFICES ASSUME AInv, Next, Committing, NEW m \in SlotMints(ix)
               PROVE  /\ bank.pda[m] = Absent => bank'.pda[m] # 0
                      /\ HonestVenues /\ bank.pda[m] # Absent => bank'.pda[m] # Absent
    OBVIOUS
  <2>1. Commit
    BY OnlyCommit
  <2>2. /\ bank'.pda = AfterClose /\ m \in Mint /\ Frame /\ pc = "close"
        /\ created = {k \in SlotMints(ix) : bank.pda[k] = Absent}
    BY <2>1, CommitFacts
  <2>3. AfterClose[m] = IF m \in Empty THEN Absent ELSE pda[m]
    BY <2>2 DEF AfterClose
  <2>4. bank.pda[m] = Absent => bank'.pda[m] # 0
    BY <2>2, <2>3 DEF Empty, Holding, Absent
  <2>5. ASSUME HonestVenues, bank.pda[m] # Absent PROVE bank'.pda[m] # Absent
    <3>1. NothingBorrowed /\ m \in guarded /\ m \notin Empty
      BY <2>2, <2>5 DEF AInv, Running, Frame, Empty
    <3> QED BY <2>2, <2>3, <3>1 DEF NothingBorrowed
  <2> QED BY <2>4, <2>5
<1> QED BY <1>1, SpecAInv, PTL DEF Spec, AtasTidied

\* SwapRoute implements Custody: a committed transaction is one of its Route steps,
\* what is taken through authority signed over earlier is a Take step, and everything
\* else, failed transactions included, changes nothing it sees.
THEOREM RouterKeepsCustody == Spec => KeepsCustody
<1>1. AInv => Custodian!Init
  <2> SUFFICES ASSUME AInv, NEW m \in Mint
               PROVE  Holding(bank.pda[m]) >= 0 /\ Wealth(bank, m) >= 0 /\ bank.pool[m] >= 0
    BY DEF Custodian!Init
  <2>1. Holding(bank.pda[m]) \in Nat /\ Wealth(bank, m) \in Nat /\ bank.pool[m] \in Nat
    BY Amounts DEF AInv, RInv
  <2> QED BY <2>1
<1>2. ASSUME AInv, AInv', Commit
      PROVE  \E in \in Mint : Custodian!Route(in)
  <2> DEFINE in == InMint(ix)
  <2>1. /\ TypeOK /\ Frame /\ UserKept /\ in \in Mint
        /\ bank'.pda = AfterClose /\ bank'.exposed = exposed /\ bank'.pool = pool
        /\ \A m \in Mint : Wealth(bank', m) = Now(m)
        /\ \A m \in Mint : Holding(bank'.pda[m]) = Holding(pda[m])
    BY <1>2, CommitFacts
  <2>2. ReservesIntact(AfterClose)
    BY <1>2 DEF Commit
  <2> HIDE DEF in
  <2>3. ASSUME NEW m \in Mint, bank.control[m] # "lost"
        PROVE  Holding(bank'.pda[m]) >= Holding(bank.pda[m])
    <3>1. Holding(bank.pda[m]) \in Nat /\ Holding(pda[m]) \in Nat
      BY <2>1, Amounts
    <3>2. CASE m \in guarded
      BY <2>1, <2>2, <3>2 DEF Frame, ReservesIntact
    <3>3. CASE m \notin guarded
      BY <2>1, <2>3, <3>1, <3>3 DEF Frame
    <3> QED BY <3>2, <3>3
  <2>4. ASSUME NEW m \in Mint
        PROVE  Holding(bank'.pda[m]) + Wealth(bank', m) + bank'.pool[m]
                 <= Holding(bank.pda[m]) + Wealth(bank, m) + bank.pool[m]
    <3>1. NothingAppeared(m)
      BY <1>2 DEF AInv
    <3>2. /\ Circulating(m) = Holding(pda[m]) + Now(m) + pool[m]
          /\ Before(m) = Holding(bank.pda[m]) + Wealth(bank, m) + bank.pool[m]
      BY <2>1, Amounts
    <3> QED BY <2>1, <3>1, <3>2 DEF NothingAppeared
  <2>5. ASSUME NEW m \in Mint, m # in, m \notin bank'.exposed
        PROVE  Wealth(bank', m) >= Wealth(bank, m)
    <3>1. Now(m) >= Wealth(bank, m) - 0 /\ Wealth(bank, m) \in Nat
      BY <2>1, <2>5, Amounts DEF UserKept, Price, in
    <3> QED BY <2>1, <3>1
  <2>6. bank.exposed \subseteq bank'.exposed
    BY <1>2, <2>1 DEF AInv
  <2>7. Custodian!Route(in)
    BY <2>3, <2>4, <2>5, <2>6 DEF Custodian!Route, Custodian!Total
  <2> QED BY <2>1, <2>7
<1>3. ASSUME AInv, AInv', Drain
      PROVE  Custodian!Take
  <2>1. /\ TypeOK /\ TypeOK' /\ Synced /\ Synced'
        /\ \A m \in Mint :
             /\ pda'[m] <= pda[m] /\ (control[m] = "own" => pda'[m] = pda[m])
             /\ user'[m] <= user[m] /\ (m \notin exposed => user'[m] = user[m])
        /\ lamports' <= lamports /\ (NativeMint \notin exposed => lamports' = lamports)
        /\ UNCHANGED <<control, exposed, pool>>
    BY <1>3, DrainFacts DEF AInv, RInv
  <2>2. UNCHANGED <<bank.pool, bank.control, bank.exposed>>
    BY <2>1 DEF Synced
  <2>3. ASSUME NEW m \in Mint
        PROVE  /\ Holding(bank'.pda[m]) + Wealth(bank', m) + bank'.pool[m]
                    <= Holding(bank.pda[m]) + Wealth(bank, m) + bank.pool[m]
               /\ bank.control[m] = "own" => Holding(bank'.pda[m]) = Holding(bank.pda[m])
               /\ m \notin bank.exposed => Wealth(bank', m) = Wealth(bank, m)
    <3>1. /\ bank.pda[m] = pda[m] /\ bank'.pda[m] = pda'[m] /\ bank.control = control
          /\ bank.exposed = exposed /\ bank'.pool[m] = bank.pool[m] /\ bank.pool[m] \in Nat
          /\ Wealth(bank, m) = Holding(user[m]) + (IF m = NativeMint THEN lamports ELSE 0)
          /\ Wealth(bank', m) = Holding(user'[m]) + (IF m = NativeMint THEN lamports' ELSE 0)
      BY <2>1 DEF Synced, Wealth, Owns, TypeOK
    <3>2. /\ pda[m] \in Balance /\ pda'[m] \in Balance /\ user[m] \in Balance
          /\ user'[m] \in Balance /\ lamports \in Nat /\ lamports' \in Nat
      BY <2>1 DEF TypeOK
    <3>3. /\ Holding(pda'[m]) <= Holding(pda[m]) /\ Holding(user'[m]) <= Holding(user[m])
          /\ Holding(pda[m]) \in Nat /\ Holding(pda'[m]) \in Nat
          /\ Holding(user[m]) \in Nat /\ Holding(user'[m]) \in Nat
      BY <2>1, <3>2, HoldingMonotone, HoldingFacts
    <3>4. Holding(bank'.pda[m]) + Wealth(bank', m) + bank'.pool[m]
            <= Holding(bank.pda[m]) + Wealth(bank, m) + bank.pool[m]
      BY <2>1, <3>1, <3>2, <3>3
    <3>5. bank.control[m] = "own" => Holding(bank'.pda[m]) = Holding(bank.pda[m])
      BY <2>1, <3>1
    <3>6. m \notin bank.exposed => Wealth(bank', m) = Wealth(bank, m)
      BY <2>1, <3>1
    <3> QED BY <3>4, <3>5, <3>6
  <2> QED BY <2>2, <2>3 DEF Custodian!Take, Custodian!Total
<1>4. AInv /\ AInv' /\ [Next]_vars => [Custodian!Next]_(Custodian!vars)
  <2> SUFFICES ASSUME AInv, AInv', [Next]_vars
               PROVE  [Custodian!Next]_(Custodian!vars)
    OBVIOUS
  <2>1. CASE bank' = bank
    BY <2>1 DEF Custodian!vars, Wealth
  <2>2. CASE Commit \/ Drain
    BY <1>2, <1>3, <2>2 DEF Custodian!Next
  <2> QED BY <2>1, <2>2, BankWriters
<1> QED BY <1>1, <1>4, SpecAInv, PTL DEF Spec, KeepsCustody, Custodian!Spec
=============================================================================
