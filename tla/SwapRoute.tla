----------------------------- MODULE SwapRoute ------------------------------
(***************************************************************************)
(* The on-chain router: SwapRouteV3::execute of the program template       *)
(* (instructions/swap_route_v3.rs), run as a sequence of transactions over *)
(* the token accounts of the TitanPDA, of one user and of the venues.      *)
(*                                                                         *)
(* The runtime (external) executes a transaction on a working copy of the  *)
(* accounts - pda, user, lamports, pool - and either commits the copy to   *)
(* bank or drops it.  Transactions that write the same accounts are        *)
(* serialised by the runtime, so one runs at a time.                       *)
(*                                                                         *)
(* The PDA and the user have one token account per mint (their ATAs); an   *)
(* account that does not exist has balance Absent.  The caller chooses the *)
(* input and the output account: user[m] stands for the one it names, and  *)
(* dest says whose the output account is.  Rent is not modelled.           *)
(*                                                                         *)
(* A signature that reaches a venue lets it do more than move tokens: it   *)
(* can make itself a delegate, the closing authority or the owner of a     *)
(* token account, and so reach it after the transaction too.  control says *)
(* who can move the PDA's accounts, exposed which of the user's a venue    *)
(* was given power over.                                                   *)
(***************************************************************************)
EXTENDS Integers, Sequences

CONSTANTS
  Mint,          \* the mints
  NativeMint,    \* spl_token::native_mint
  WeightAll,     \* 1_000_000_000, the weight of a whole balance
  MaxMints,      \* MAX_MINTS
  MaxSwaps,      \* MAX_SWAPS
  BitmapSize,    \* 256, the indices TitanPdaBitmap can hold
  HonestVenues,  \* TRUE: venues swap as asked; FALSE: they move what they reach
  Supply,        \* bound on what a rogue venue can put into an account
  Instructions,  \* the instructions submitted
  InitialBanks   \* the account states to start from

Absent == -1
Balance == Nat \cup {Absent}

\* A remaining account: kind "pda" is the TitanPDA's token account of mint,
\* "mint" the mint account, "ata" the user's token account of mint, "user" the
\* user's own key, which signs, "other" any other one (a program id).
RemainingAccount == [kind : {"pda", "mint", "ata", "user", "other"}, mint : Mint]

\* Who moves a TitanPDA token account: the PDA alone, somebody besides it (a
\* delegate or a closing authority), or a new owner.
Control == {"own", "shared", "lost"}

\* SwapSpecInputV2; the venue tag only selects which program the CPI calls.
Swap == [from : Nat, to : Nat, weight : Nat, n_accounts : Nat]

\* token_ledger: none passed, one for another token account, or a stored amount.
TokenLedger == [kind : {"none", "foreign", "stored"}, amount : Nat]

Instruction == [amount : Nat, mints : Nat, swaps : Seq(Swap),
                ledger : TokenLedger, dest : {"user", "pda", "other"},
                rem : Seq(RemainingAccount)]

Bank == [pda : [Mint -> Balance], control : [Mint -> Control],
         user : [Mint -> Balance], exposed : SUBSET Mint,
         lamports : Nat, pool : [Mint -> Nat]]

ASSUME RouteAssumption ==
  /\ NativeMint \in Mint
  /\ WeightAll \in Nat \ {0} /\ MaxMints \in Nat /\ MaxSwaps \in Nat
  /\ BitmapSize \in Nat /\ Supply \in Nat /\ HonestVenues \in BOOLEAN

\* The runtime passes an instruction at most BitmapSize accounts.
ASSUME InputAssumption ==
  /\ \A i \in Instructions : i \in Instruction /\ Len(i.rem) <= BitmapSize
  /\ \A b \in InitialBanks : b \in Bank

VARIABLES
  bank,                        \* the committed accounts
  pda, control, user, exposed, \* the accounts the running transaction sees
  lamports, pool,
  pc, ix,                      \* the step of execute, and its instruction
  created,                     \* created_atas, as a set of mints
  guarded, snapshot,           \* titan_pda_ata_bitmap and ..._balances
  effective_amount,
  leg, cursor,                 \* the swap loop and remaining_account_index
  outcome                      \* how the last transaction ended

accounts == <<pda, control, user, exposed, lamports, pool>>
locals == <<created, guarded, snapshot, effective_amount>>
vars == <<bank, accounts, pc, ix, locals, leg, cursor, outcome>>

-----------------------------------------------------------------------------
\* extract_token_amount(..).unwrap_or(0)
Holding(b) == IF b = Absent THEN 0 ELSE b

SaturatingSub(a, b) == IF a >= b THEN a - b ELSE 0

\* The mint of the token account, and the mint account, of the k-th (zero-based)
\* route slot.  Nothing compares the two when the token account exists.
SlotMint(i, k) == i.rem[k + 1].mint
MintAccount(i, k) == i.rem[i.mints + k + 1]
Matches(i, k) ==
  MintAccount(i, k).kind = "mint" /\ MintAccount(i, k).mint = SlotMint(i, k)
OutSlot(i) == i.swaps[Len(i.swaps)].to
SlotMints(i) == {SlotMint(i, k) : k \in 0 .. i.mints - 1}
InMint(i) == SlotMint(i, 0)
OutMint(i) == SlotMint(i, OutSlot(i))

\* The mints whose account of the given kind is among the remaining accounts
\* with indices in ks.
MintsAt(i, kind, ks) ==
  {m \in Mint : \E k \in ks : k \in 1 .. Len(i.rem) /\ i.rem[k].kind = kind
                              /\ i.rem[k].mint = m}

PdaMintsAt(i, ks) == MintsAt(i, "pda", ks)
PdaMints(i) == PdaMintsAt(i, 1 .. Len(i.rem))

\* The require!s at the top of execute, in their order, then the token ledger
\* and the decimals of the input and the output mint.
InputError(i) ==
  IF \/ ~(i.mints > 1 /\ i.swaps # << >>)
     \/ Len(i.swaps) > MaxSwaps
     \/ i.mints > MaxMints
  THEN "InvalidSwapInput"
  ELSE IF Len(i.rem) < 2 * i.mints
  THEN "MissingRemainingAccount"
  ELSE IF \/ i.swaps[1].from # 0
          \/ \E s \in 1 .. Len(i.swaps) :
               i.swaps[s].from >= i.mints \/ i.swaps[s].to >= i.mints
  THEN "InvalidSwapInput"
  ELSE IF \/ i.ledger.kind = "foreign"
          \/ MintAccount(i, 0).kind = "other" \/ MintAccount(i, OutSlot(i)).kind = "other"
  THEN "InvalidAccountData"
  ELSE "none"

Init ==
  /\ bank \in InitialBanks
  /\ pda = bank.pda /\ control = bank.control
  /\ user = bank.user /\ exposed = bank.exposed
  /\ lamports = bank.lamports /\ pool = bank.pool
  /\ pc = "idle" /\ ix \in Instructions
  /\ created = {} /\ guarded = {} /\ snapshot = [m \in Mint |-> 0]
  /\ effective_amount = 0 /\ leg = 1 /\ cursor = 0 /\ outcome = "none"

\* execute returns, with outcome o: its locals are gone.
Return(o) ==
  /\ pc' = "idle" /\ outcome' = o
  /\ created' = {} /\ guarded' = {} /\ snapshot' = [m \in Mint |-> 0]
  /\ effective_amount' = 0 /\ leg' = 1 /\ cursor' = 0

\* An error of execute: the runtime drops the working copy (external).
Fail(error) ==
  /\ Return(error)
  /\ pda' = bank.pda /\ control' = bank.control
  /\ user' = bank.user /\ exposed' = bank.exposed
  /\ lamports' = bank.lamports /\ pool' = bank.pool
  /\ UNCHANGED <<bank, ix>>

Submit ==
  /\ pc = "idle"
  /\ ix' \in Instructions
  /\ IF InputError(ix') = "none"
     THEN pc' = "prepare" /\ outcome' = "none"
     ELSE pc' = "idle" /\ outcome' = InputError(ix')
  /\ UNCHANGED <<bank, accounts, locals, leg, cursor>>

-----------------------------------------------------------------------------
\* A missing slot ATA is created for the slot's mint account, so it has to be
\* that mint's, and every slot must then hold a TitanPDA token account.
SlotsArePda(i) ==
  \A k \in 0 .. i.mints - 1 :
    /\ i.rem[k + 1].kind = "pda"
    /\ pda[SlotMint(i, k)] = Absent \/ control[SlotMint(i, k)] # "lost"
    /\ pda[SlotMint(i, k)] = Absent /\ (\A j \in 0 .. k - 1 : SlotMint(i, j) # SlotMint(i, k))
         => Matches(i, k)

\* Fault: a stored ledger is ignored and the whole account is routed.
EffectiveAmount_Whole(i) ==
  IF i.ledger.kind = "stored" THEN Holding(user[InMint(i)]) ELSE i.amount

\* The amount to route: the argument, or what arrived since the ledger was set.
EffectiveAmount(i) ==
  IF i.ledger.kind = "stored"
  THEN SaturatingSub(Holding(user[InMint(i)]), i.ledger.amount)
  ELSE i.amount

\* The input account must exist and have grown since the ledger was stored.
LedgerOk(i) ==
  i.ledger.kind = "stored" =>
    user[InMint(i)] # Absent /\ user[InMint(i)] > i.ledger.amount

\* is_titan_pda_token_account: the account exists and the PDA is its owner.
Owned(balances, ctl) == {m \in Mint : balances[m] # Absent /\ ctl[m] # "lost"}

\* Fault: only the route's slots are guarded.
Guarded_Slots(i, owned) == PdaMintsAt(i, 1 .. i.mints) \cap owned

\* The bitmap and the balances: every TitanPDA token account among the remaining
\* accounts that exists once the missing slot ATAs have been created.
Guarded(i, owned) == PdaMintsAt(i, 1 .. BitmapSize) \cap owned

\* Create the missing slot ATAs, snapshot the TitanPDA's balances and settle the
\* amount to route.
Prepare ==
  /\ pc = "prepare"
  /\ SlotsArePda(ix) /\ LedgerOk(ix)
  /\ created' = {m \in SlotMints(ix) : pda[m] = Absent}
  /\ pda' = [m \in Mint |-> IF m \in created' THEN 0 ELSE pda[m]]
  /\ control' = [m \in Mint |-> IF m \in created' THEN "own" ELSE control[m]]
  /\ guarded' = Guarded(ix, Owned(pda', control'))
  /\ snapshot' = [m \in Mint |-> Holding(pda'[m])]
  /\ effective_amount' = EffectiveAmount(ix)
  /\ pc' = "fund"
  /\ UNCHANGED <<bank, user, exposed, lamports, pool, ix, leg, cursor, outcome>>

PrepareFails ==
  /\ pc = "prepare"
  /\ ~(SlotsArePda(ix) /\ LedgerOk(ix))
  /\ Fail("InvalidAccountData")

-----------------------------------------------------------------------------
\* setup_wsol_input_account runs on a native input mint without a ledger.
WrapsSol ==
  /\ ix.ledger.kind = "none"
  /\ MintAccount(ix, 0).kind = "mint" /\ MintAccount(ix, 0).mint = NativeMint

\* Fault: the wSOL the user already has is not counted.
WrapAmount_Full == effective_amount

\* The lamports it wraps: all of the amount into a fresh account, else the
\* deficit of the existing one.
WrapAmount == SaturatingSub(effective_amount, Holding(user[InMint(ix)]))
Wrapped == IF WrapsSol THEN WrapAmount ELSE 0
CreatedWsol == WrapsSol /\ user[InMint(ix)] = Absent

\* transfer_tokens is skipped for a zero amount; otherwise the token program
\* needs the account and the balance.  Only a wSOL account can be created for
\* or synced with wrapped lamports.
FundOk ==
  /\ Wrapped <= lamports
  /\ InMint(ix) # NativeMint => Wrapped = 0 /\ ~CreatedWsol
  /\ effective_amount > 0 =>
       Holding(user[InMint(ix)]) + Wrapped >= effective_amount

\* Fault: the input is credited to the TitanPDA but not taken from the user.
InputAccountAfter_Kept ==
  IF CreatedWsol THEN Absent
  ELSE IF user[InMint(ix)] = Absent THEN Absent
  ELSE user[InMint(ix)] + Wrapped

\* The user's input account after the transfer; a wSOL account that was created
\* for it is closed again.
InputAccountAfter ==
  IF CreatedWsol THEN Absent
  ELSE IF user[InMint(ix)] = Absent THEN Absent
  ELSE user[InMint(ix)] + Wrapped - effective_amount

Fund ==
  /\ pc = "fund"
  /\ FundOk
  /\ lamports' = lamports - Wrapped
  /\ user' = [user EXCEPT ![InMint(ix)] = InputAccountAfter]
  /\ pda' = [pda EXCEPT ![InMint(ix)] = @ + effective_amount]
  /\ leg' = 1 /\ cursor' = 2 * ix.mints
  /\ pc' = "leg"
  /\ UNCHANGED <<bank, control, exposed, pool, ix, locals, outcome>>

\* The token program also refuses an input account that is the user's no more.
FundFails ==
  /\ pc = "fund"
  /\ ~FundOk \/ (effective_amount > 0 /\ InMint(ix) \in exposed)
  /\ Fail("TokenProgramError")

-----------------------------------------------------------------------------
\* Fault: a leg may spend what the TitanPDA held before the route.
Available_Whole(m) == Holding(pda[m])

\* available_balance * min(weight, 1e9) / 1e9: a leg spends only what the
\* route brought in, never what the TitanPDA held before.
Available(m) == SaturatingSub(pda[m], snapshot[m])
Weight(s) == IF s.weight > WeightAll THEN WeightAll ELSE s.weight

\* Fault: the weight is not scaled down.
LegInput_Unscaled(s) == Available(SlotMint(ix, s.from)) * Weight(s)

LegInput(s) == (Available(SlotMint(ix, s.from)) * Weight(s)) \div WeightAll

LegError(s) ==
  IF s.n_accounts = 0 THEN "InvalidSwapInput"
  ELSE IF cursor + s.n_accounts > Len(ix.rem) THEN "MissingRemainingAccount"
  ELSE IF pda[SlotMint(ix, s.from)] = Absent THEN "InvalidAccountData"
  ELSE "none"

\* The leg's slice of the remaining accounts without the trailing program id,
\* and the TitanPDA's and the user's token accounts in it.
Slice(s) == cursor + 1 .. cursor + s.n_accounts - 1
LegReach(s) == PdaMintsAt(ix, Slice(s))
UserAtas(s) == MintsAt(ix, "ata", Slice(s))

\* An account that signed the transaction keeps its signature in the CPI, so the
\* user's key in a slice signs the user's accounts over, lamports included.
UserSigns(s) == \E k \in Slice(s) : k \in 1 .. Len(ix.rem) /\ ix.rem[k].kind = "user"
UserReach(s) == {m \in UserAtas(s) : UserSigns(s) \/ m \in exposed}

\* A venue that does what it is asked (external): it takes the input from the
\* source account and pays some output into the destination account.
HonestSwap(s, amount) ==
  LET from == SlotMint(ix, s.from)
      to   == SlotMint(ix, s.to)
  IN  /\ from \in LegReach(s) /\ to \in LegReach(s) /\ pda[to] # Absent
      /\ \E out \in 0 .. pool[to] :
           /\ pool' = [pool EXCEPT ![from] = @ + amount, ![to] = @ - out]
           /\ pda' = [[pda EXCEPT ![from] = @ - amount]
                           EXCEPT ![to] = @ + out]
      /\ UNCHANGED <<control, user, exposed, lamports>>

\* What the user owns of mint m: the token account and, for the native mint,
\* the lamports it can wrap.
Owns(account, sol, m) == Holding(account[m]) + (IF m = NativeMint THEN sol ELSE 0)

\* All there is of mint m.
Circulating(m) == Holding(pda[m]) + Owns(user, lamports, m) + pool[m]

\* A venue that misbehaves (external).  With the TitanPDA's signature it moves,
\* burns and closes what is in the PDA's accounts of its slice, and takes or
\* shares control of them; with the user's it does the same to the user's
\* accounts and lamports.  Into any account of its slice it can pay.
RogueSwap(s) ==
  \E b \in [LegReach(s) -> Absent .. Supply], u \in [UserAtas(s) -> Absent .. Supply],
     p \in [LegReach(s) \cup UserAtas(s) -> 0 .. Supply] :
    /\ \A m \in UserAtas(s) \ UserReach(s) : u[m] >= user[m]
    /\ pda' = [m \in Mint |-> IF m \in LegReach(s) THEN b[m] ELSE pda[m]]
    /\ user' = [m \in Mint |-> IF m \in UserAtas(s) THEN u[m] ELSE user[m]]
    /\ pool' = [m \in Mint |-> IF m \in DOMAIN p THEN p[m] ELSE pool[m]]
    /\ lamports' \in IF UserSigns(s) THEN 0 .. lamports ELSE {lamports}
    /\ \A m \in Mint : Circulating(m)' <= Circulating(m)
    /\ exposed' = exposed \cup UserReach(s)
                     \cup (IF UserSigns(s) THEN {NativeMint} ELSE {})
    /\ \E c \in [LegReach(s) -> Control] :
         control' = [m \in Mint |-> IF m \in LegReach(s) THEN c[m] ELSE control[m]]

VenueSwap(s, amount) ==
  IF HonestVenues THEN HonestSwap(s, amount) ELSE RogueSwap(s)

InLoop == pc = "leg" /\ leg <= Len(ix.swaps)

\* One leg; its slice is consumed whether or not the CPI is made.
Leg ==
  /\ InLoop
  /\ LET s == ix.swaps[leg] IN
       /\ LegError(s) = "none"
       /\ \/ LegInput(s) > 0 /\ VenueSwap(s, LegInput(s))
          \/ LegInput(s) = 0 /\ UNCHANGED accounts
       /\ cursor' = cursor + s.n_accounts
  /\ leg' = leg + 1
  /\ UNCHANGED <<bank, pc, ix, locals, outcome>>

LegFails ==
  /\ InLoop
  /\ LegError(ix.swaps[leg]) # "none"
  /\ Fail(LegError(ix.swaps[leg]))

\* The venue's program returns an error (external).
VenueFails ==
  /\ InLoop
  /\ LegError(ix.swaps[leg]) = "none" /\ LegInput(ix.swaps[leg]) > 0
  /\ Fail("VenueError")

-----------------------------------------------------------------------------
\* Fault: the output is measured on the input account.
TradedOutput_OfInput == SaturatingSub(pda[InMint(ix)], snapshot[InMint(ix)])

\* Everything above the snapshot in the output account goes to the user, whose
\* output account is created if it is missing.
TradedOutput == SaturatingSub(pda[OutMint(ix)], snapshot[OutMint(ix)])

AfterLegs == pc = "leg" /\ leg > Len(ix.swaps)

\* Both accounts of the transfer: the user's is created for the output's mint
\* account, so a missing one has to be that mint's.
PayOutOk ==
  /\ pda[OutMint(ix)] # Absent
  /\ ix.dest = "user" /\ user[OutMint(ix)] = Absent => Matches(ix, OutSlot(ix))

\* The PDA signs for the transfer, which a zero amount skips.
PayOutSigned == TradedOutput = 0 \/ control[OutMint(ix)] # "lost"

PayOut ==
  /\ AfterLegs
  /\ PayOutOk /\ PayOutSigned
  /\ LET out == OutMint(ix) IN
       /\ pda' = [pda EXCEPT ![out] = IF ix.dest = "pda" THEN @ ELSE @ - TradedOutput]
       /\ user' = [user EXCEPT ![out] = IF ix.dest = "user" THEN Holding(@) + TradedOutput
                                        ELSE @]
       /\ pool' = [pool EXCEPT ![out] = IF ix.dest = "other" THEN @ + TradedOutput ELSE @]
  /\ pc' = "close"
  /\ UNCHANGED <<bank, control, exposed, lamports, ix, locals, leg, cursor, outcome>>

PayOutFails ==
  /\ AfterLegs
  /\ ~(PayOutOk /\ PayOutSigned)
  /\ Fail(IF PayOutOk THEN "TokenProgramError" ELSE "InvalidAccountData")

\* Fault: the created ATAs are never closed.
Empty_Never == {}

\* The ATAs this transaction created and that ended empty are closed.  Closing
\* one that a venue closed or took is an error of the token program, and one it
\* shares may have another closing authority.
Empty == {m \in created : Holding(pda[m]) = 0}
Closable(m) == pda[m] # Absent /\ control[m] # "lost"
CloseOk == \A m \in Empty : Closable(m)
CloseMayFail == \E m \in Empty : ~Closable(m) \/ control[m] = "shared"
AfterClose == [m \in Mint |-> IF m \in Empty THEN Absent ELSE pda[m]]

\* Every guarded account still holds what the snapshot says; only its amount is
\* read again.
ReservesIntact(balances) ==
  \A m \in guarded : Holding(balances[m]) >= snapshot[m]

Commit ==
  /\ pc = "close"
  /\ CloseOk /\ ReservesIntact(AfterClose)
  /\ pda' = AfterClose
  /\ bank' = [pda |-> pda', control |-> control, user |-> user, exposed |-> exposed,
              lamports |-> lamports, pool |-> pool]
  /\ Return("ok")
  /\ UNCHANGED <<control, user, exposed, lamports, pool, ix>>

CommitFails ==
  /\ pc = "close"
  /\ \/ CloseMayFail /\ Fail("TokenProgramError")
     \/ CloseOk /\ ~ReservesIntact(AfterClose) /\ Fail("ReservedBalanceViolation")

-----------------------------------------------------------------------------
\* Between transactions whoever was given power over an account uses it and takes
\* from it (external).
Drain ==
  /\ pc = "idle"
  /\ \E m \in Mint :
       \/ /\ control[m] # "own"
          /\ \E b \in Absent .. pda[m] - 1 : pda' = [pda EXCEPT ![m] = b]
          /\ UNCHANGED <<user, lamports>>
       \/ /\ m \in exposed
          /\ \E b \in Absent .. user[m] - 1 : user' = [user EXCEPT ![m] = b]
          /\ UNCHANGED <<pda, lamports>>
       \/ /\ m \in exposed /\ m = NativeMint
          /\ lamports' \in 0 .. lamports - 1
          /\ UNCHANGED <<pda, user>>
  /\ bank' = [bank EXCEPT !.pda = pda', !.user = user', !.lamports = lamports']
  /\ outcome' = "none"
  /\ UNCHANGED <<control, exposed, pool, pc, ix, locals, leg, cursor>>

Next ==
  \/ Submit
  \/ Prepare \/ PrepareFails
  \/ Fund \/ FundFails
  \/ Leg \/ LegFails \/ VenueFails
  \/ PayOut \/ PayOutFails
  \/ Commit \/ CommitFails
  \/ Drain

Spec == Init /\ [][Next]_vars

-----------------------------------------------------------------------------
\* Type invariant.
TypeOK ==
  /\ bank \in Bank
  /\ pda \in [Mint -> Balance] /\ control \in [Mint -> Control]
  /\ user \in [Mint -> Balance] /\ exposed \subseteq Mint
  /\ lamports \in Nat /\ pool \in [Mint -> Nat]
  /\ pc \in {"idle", "prepare", "fund", "leg", "close"}
  /\ ix \in Instructions
  /\ created \subseteq Mint /\ guarded \subseteq Mint
  /\ snapshot \in [Mint -> Nat]
  /\ effective_amount \in Nat /\ leg \in Nat \ {0} /\ cursor \in Nat

Committing == pc = "close" /\ outcome' = "ok"

Wealth(b, m) == Owns(b.user, b.lamports, m)

\* The TitanPDA's reserves: whatever venues do with the PDA's signature, nothing
\* ever lowers an account that the PDA alone controls, and no transaction lowers
\* one that it shares with a delegate.  The ReservedBalanceViolation check protects
\* amounts only: it is control, given away earlier, that lets an account fall.
ReservesKept ==
  [][\A m \in Mint :
       bank.control[m] = "own" \/ (Committing /\ bank.control[m] = "shared")
         => Holding(bank'.pda[m]) >= Holding(bank.pda[m])]_vars

\* Nothing of the output is left behind: the TitanPDA's output account ends a
\* committed route with exactly what it held before it, unless the caller named
\* that very account as the output account.
OutputForwarded ==
  [][Committing /\ ix.dest # "pda" =>
       Holding(bank'.pda[OutMint(ix)]) = Holding(bank.pda[OutMint(ix)])]_vars

\* What a route takes from the user: the amount argument, or what arrived since
\* the token ledger was stored.
Due(b, i) ==
  IF i.ledger.kind = "stored" THEN Holding(b.user[InMint(i)]) - i.ledger.amount ELSE i.amount

\* With venues that swap as asked a committed route costs the user exactly the
\* amount argument, wrapped SOL included, or exactly what arrived since the token
\* ledger was stored.
UserPaysExactly ==
  [][HonestVenues /\ Committing /\ InMint(ix) # OutMint(ix) =>
       Wealth(bank', InMint(ix)) = Wealth(bank, InMint(ix)) - Due(bank, ix)]_vars

\* Whatever the venues do, no transaction takes anything from the user beyond the
\* amount of the input mint, as long as the user's accounts of the mint were never
\* in a slice together with the user's signing key (and for SOL, the key alone).
UserPaysAtMost ==
  [][Committing => \A m \in Mint \ bank'.exposed :
       Wealth(bank', m) >= Wealth(bank, m) - (IF m = InMint(ix) THEN Due(bank, ix) ELSE 0)]_vars

\* Wrapping SOL leaves no trace: a wSOL account made for the input is gone
\* again, one the user had stays, and lamports are only wrapped to cover what
\* the account was short of (venues that swap as asked).
WsolRestored ==
  [][HonestVenues /\ Committing /\ OutMint(ix) # NativeMint =>
       /\ (bank'.user[NativeMint] = Absent) = (bank.user[NativeMint] = Absent)
       /\ bank'.lamports < bank.lamports => Holding(bank'.user[NativeMint]) = 0]_vars

\* ATAs created for a route stay only if they hold something; ATAs that existed
\* before it stay open.
AtasTidied ==
  [][Committing => \A m \in SlotMints(ix) :
       /\ bank.pda[m] = Absent => bank'.pda[m] # 0
       /\ HonestVenues /\ bank.pda[m] # Absent => bank'.pda[m] # Absent]_vars

\* Venues that swap what they are asked to never trip the reserve check or the
\* closing of the created ATAs: the legs only ever spend what the route brought.
HonestNeverBlamed ==
  HonestVenues =>
    /\ outcome # "ReservedBalanceViolation"
    /\ pc = "close" => ~CloseMayFail

\* What the committed accounts show of the router's promise.
Custodian == INSTANCE Custody WITH
  held    <- [m \in Mint |-> Holding(bank.pda[m])],
  wealth  <- [m \in Mint |-> Wealth(bank, m)],
  pools   <- bank.pool,
  control <- bank.control,
  exposed <- bank.exposed

\* The router implements Custody: every committed transaction is one Route step,
\* every failed one changes nothing, and only accounts that were signed over to a
\* venue change otherwise.
KeepsCustody == Custodian!Spec
=============================================================================
