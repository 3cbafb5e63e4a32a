----------------------------- MODULE HumaQuote ------------------------------
(***************************************************************************)
(* HumaVenue::quote (src/src/huma/venue.rs) with the share and fee         *)
(* arithmetic it rests on (math.rs, state.rs), over one decoded snapshot   *)
(* of the pool.  A caller asks for one quote after another; the loop of    *)
(* compute_instant_withdrawal_fee is one step per fee bracket.  One quoted *)
(* deposit may land, which gives the snapshot the withdrawal of its shares *)
(* is quoted on.                                                           *)
(*                                                                         *)
(* Numbers are exact; `as u64` is a truncation and saturating arithmetic   *)
(* saturates.  A price is a fraction <<numerator, denominator>>.           *)
(***************************************************************************)
EXTENDS Integers, Sequences, FiniteSets

CONSTANTS
  MaxU64,        \* u64::MAX
  HundredPct,    \* HUNDRED_PERCENT_BPS
  Day,           \* SECONDS_PER_DAY
  MaxStaleness,  \* MAX_ASSETS_STALENESS_SECS
  Pools,         \* the snapshots to quote on
  Amounts,       \* the amounts asked for
  Accrue(_, _, _)  \* Accrue(assets, apy, seconds): the f64 compound growth

U64 == 0 .. MaxU64

\* InstantWithdrawalFeeConfig
FeeBracket == [liquid_asset_ratio_lt_bps : Nat, fee_bps : Nat]

\* RedemptionGating: what was requested in the day that starts at the window.
Gating == [total_shares_requested : Nat, window_starts_at : Nat]

\* The decoded accounts a quote reads.  assets is the ModeState of this mode,
\* others that of the pool's other modes taken together; balance is the pool's
\* underlying balance and strategy what the lending strategy can pay out.  The
\* amounts that are u128 on chain are Nat here: the code truncates them.
Pool == [on : BOOLEAN, paused : BOOLEAN, current_ts : Nat, apy : Int,
         assets : Nat, assets_refreshed_at : Nat,
         others : Nat, others_refreshed_at : Nat,
         mode_supply : U64, balance : U64, disbursement_reserve : Nat,
         reserve_limit : U64, liquid_assets_deployed : U64, strategy : U64,
         brackets : Seq(FeeBracket), liquidity_cap : Nat,
         min_deposit_amount : U64, max_instant : Nat, max_total : Nat,
         instant_withdrawal_gating : Gating, global_redemption_gating : Gating]

\* Brackets are listed by ascending ratio and none exceeds a ratio of 100%.
Ascending(b) ==
  /\ \A n \in 1 .. Len(b) : b[n].liquid_asset_ratio_lt_bps \in 1 .. HundredPct
  /\ \A n \in 2 .. Len(b) :
       b[n - 1].liquid_asset_ratio_lt_bps < b[n].liquid_asset_ratio_lt_bps

\* A snapshot as decoded; the growth of its assets saturates at a u64.
Decoded(p) ==
  /\ p \in Pool /\ Ascending(p.brackets)
  /\ \A a \in U64, s \in 0 .. p.current_ts : Accrue(a, p.apy, s) \in U64

ASSUME QuoteAssumption ==
  /\ MaxU64 \in Nat /\ HundredPct \in Nat \ {0}
  /\ Day \in Nat \ {0} /\ MaxStaleness \in Nat
  /\ Amounts \subseteq U64
  /\ \A p \in Pools : Decoded(p)

VARIABLES
  pool,             \* the snapshot; a quote takes &self and leaves it alone
  pc,               \* "idle", or "fee" inside the bracket loop
  request,          \* the shares asked for
  amount,           \* shares_to_serve
  i, enter, total_fee,  \* bracket index, withdrawal_amount_enter, total_fee
  quote,            \* the last quote returned
  prev,             \* the one before it, on the same snapshot
  landed            \* the deposit that was executed, if any

vars == <<pool, pc, request, amount, i, enter, total_fee, quote, prev, landed>>

-----------------------------------------------------------------------------
AsU64(x) == x % (MaxU64 + 1)
SatSub(a, b) == IF a >= b THEN a - b ELSE 0
SatAdd(a, b) == IF a + b > MaxU64 THEN MaxU64 ELSE a + b
Lesser(a, b) == IF a <= b THEN a ELSE b
DivCeil(a, b) == (a + b - 1) \div b

is_active == ~pool.paused /\ pool.on

cached_assets == AsU64(pool.assets)

refreshed_assets ==
  LET elapsed == SatSub(pool.current_ts, pool.assets_refreshed_at)
  IN  IF pool.apy <= 0 \/ pool.assets_refreshed_at = 0 \/ elapsed = 0
      THEN cached_assets
      ELSE Accrue(cached_assets, pool.apy, elapsed)

refreshed_total_assets ==
  SatAdd(AsU64(pool.assets + pool.others), SatSub(refreshed_assets, cached_assets))

get_available_balance ==
  SatSub(SatSub(pool.balance, AsU64(pool.disbursement_reserve)), pool.reserve_limit)

all_mode_assets_fresh ==
  \A t \in {pool.assets_refreshed_at, pool.others_refreshed_at} :
    SatSub(pool.current_ts, t) <= MaxStaleness

\* A redemption window that started before today has no usage yet.
would_exceed(gating, shares, max_shares) ==
  LET start_of_today == (pool.current_ts \div Day) * Day
      used == IF start_of_today > gating.window_starts_at THEN 0
              ELSE AsU64(gating.total_shares_requested)
  IN  SatAdd(used, shares) > AsU64(max_shares)

-----------------------------------------------------------------------------
(* The progressive instant-withdrawal fee.                                 *)

withdrawal_amount(shares) ==
  AsU64((shares * refreshed_assets) \div pool.mode_supply)

liquid_assets_before ==
  Lesser(SatAdd(pool.liquid_assets_deployed, get_available_balance),
         refreshed_total_assets)

\* position(|c| liquid * 100% <= c.ratio * total), 0 when no bracket matches.
BracketAt(liquid, total) ==
  LET matches == {n \in 1 .. Len(pool.brackets) :
                    liquid * HundredPct
                      <= pool.brackets[n].liquid_asset_ratio_lt_bps * total}
  IN  IF matches = {} THEN 0
      ELSE CHOOSE n \in matches : \A m \in matches : n <= m

i_start == BracketAt(liquid_assets_before, refreshed_total_assets)
i_end(w) == BracketAt(SatSub(liquid_assets_before, w),
                      SatSub(refreshed_total_assets, w))

None == -1

\* The fee rate of the last atom, None when the withdrawal is not served.
marginal_fee_bps(w) ==
  IF \/ SatSub(refreshed_total_assets, w) = 0
     \/ i_end(w) = 0
  THEN None
  ELSE IF pool.brackets[i_end(w)].fee_bps >= HundredPct
  THEN None
  ELSE pool.brackets[i_end(w)].fee_bps

\* The early returns of compute_instant_withdrawal_fee.
FeeDefined(w) == w = 0 \/ (marginal_fee_bps(w) # None /\ i_start # 0)

\* Fault: the wrong divisor.
withdrawal_amount_at_boundary_Wrong(boundary) ==
  AsU64((liquid_assets_before * HundredPct - boundary * refreshed_total_assets)
          \div boundary)

withdrawal_amount_at_boundary(boundary) ==
  AsU64((liquid_assets_before * HundredPct - boundary * refreshed_total_assets)
          \div (HundredPct - boundary))

\* Where the loop leaves bracket n.
withdrawal_amount_exit(n) ==
  IF n = i_end(withdrawal_amount(amount)) THEN withdrawal_amount(amount)
  ELSE withdrawal_amount_at_boundary(pool.brackets[n - 1].liquid_asset_ratio_lt_bps)

\* Fault: a slice's fee is rounded down.
SliceFee_Floor(n) ==
  AsU64(((withdrawal_amount_exit(n) - enter) * pool.brackets[n].fee_bps)
          \div HundredPct)

SliceFee(n) ==
  AsU64(DivCeil((withdrawal_amount_exit(n) - enter) * pool.brackets[n].fee_bps,
                HundredPct))

-----------------------------------------------------------------------------
(* Prices and share arithmetic.                                            *)

deposit_price ==
  IF pool.mode_supply = 0 THEN <<1, 1>> ELSE <<pool.mode_supply, refreshed_assets>>

NoPrice == <<0, 0>>

\* Faults in the price: the fee is added, and the fee is forgotten.
instant_withdraw_price_FeeAdded(shares) ==
  IF pool.mode_supply = 0 THEN NoPrice
  ELSE LET fee == marginal_fee_bps(withdrawal_amount(shares)) IN
         IF fee = None THEN NoPrice
         ELSE <<refreshed_assets * (HundredPct + fee),
                pool.mode_supply * HundredPct>>
instant_withdraw_price_Gross(shares) ==
  IF pool.mode_supply = 0 THEN NoPrice
  ELSE IF marginal_fee_bps(withdrawal_amount(shares)) = None THEN NoPrice
  ELSE <<refreshed_assets, pool.mode_supply>>

instant_withdraw_price(shares) ==
  IF pool.mode_supply = 0 THEN NoPrice
  ELSE LET fee == marginal_fee_bps(withdrawal_amount(shares)) IN
         IF fee = None THEN NoPrice
         ELSE <<refreshed_assets * (HundredPct - fee),
                pool.mode_supply * HundredPct>>

\* Fault: shares are rounded up.
shares_for_deposit_Ceil(assets) ==
  IF pool.mode_supply = 0 THEN assets
  ELSE IF refreshed_assets = 0 THEN 0
  ELSE AsU64(DivCeil(assets * pool.mode_supply, refreshed_assets))

\* Shares minted; 0 stands for None, which the code returns for it too.
shares_for_deposit(assets) ==
  IF pool.mode_supply = 0 THEN assets
  ELSE IF refreshed_assets = 0 THEN 0
  ELSE AsU64((assets * pool.mode_supply) \div refreshed_assets)

\* Fault: the pool's reserves are promised too.
max_servable_underlying_Gross ==
  Lesser(SatAdd(pool.balance, pool.strategy), refreshed_assets)

max_servable_underlying ==
  Lesser(SatAdd(get_available_balance, pool.strategy), refreshed_assets)

max_shares ==
  IF refreshed_assets = 0 THEN 0
  ELSE AsU64((max_servable_underlying * pool.mode_supply) \div refreshed_assets)

\* Fault: a request beyond what can be served is served nothing.
shares_to_serve_AllOrNothing(shares) == IF shares <= max_shares THEN shares ELSE 0

shares_to_serve(shares) == Lesser(shares, max_shares)

-----------------------------------------------------------------------------
(* The quote.                                                              *)

Answer(d, n, status, served, out, nel, price) ==
  [dir |-> d, request |-> n, status |-> status, amount |-> served,
   expected_output |-> out, not_enough_liquidity |-> nel, price |-> price]

NoQuote == Answer("none", 0, "none", 0, 0, FALSE, NoPrice)
Err(d, n, error) == Answer(d, n, error, 0, 0, FALSE, NoPrice)

\* price_for(n)? - an error when the price is None.
Priced(d, n, served, out, nel, price) ==
  IF price = NoPrice THEN Err(d, n, "NotAvailable")
  ELSE Answer(d, n, "Ok", served, out, nel, price)

quote_deposit(assets) ==
  LET available_cap == AsU64(SatSub(pool.liquidity_cap, refreshed_total_assets))
      served == Lesser(assets, available_cap)
      shares == shares_for_deposit(served)
  IN  IF assets = 0
      THEN Answer("deposit", 0, "Ok", 0, 0, FALSE, deposit_price)
      ELSE IF assets < pool.min_deposit_amount
      THEN Err("deposit", assets, "BelowMinimum")
      ELSE IF available_cap = 0
      THEN Err("deposit", assets, "CapReached")
      ELSE IF shares = 0
      THEN Err("deposit", assets, "ZeroShares")
      ELSE Answer("deposit", assets, "Ok", served, shares, served < assets,
                  deposit_price)

\* Everything quote_instant_withdraw returns before it computes the fee; "fee"
\* when it goes on to the bracket loop.
WithdrawGate(shares) ==
  LET served == shares_to_serve(shares)
      w == withdrawal_amount(served)
  IN  IF shares = 0
      THEN Priced("withdraw", 0, 0, 0, FALSE, instant_withdraw_price(0))
      ELSE IF ~all_mode_assets_fresh
      THEN Err("withdraw", shares, "Stale")
      ELSE IF \/ would_exceed(pool.instant_withdrawal_gating, shares, pool.max_instant)
              \/ would_exceed(pool.global_redemption_gating, shares, pool.max_total)
      THEN Err("withdraw", shares, "WindowLimit")
      ELSE IF served = 0
      THEN Priced("withdraw", shares, 0, 0, TRUE, instant_withdraw_price(0))
      ELSE IF pool.mode_supply = 0 \/ ~FeeDefined(w)
      THEN Err("withdraw", shares, "NotAvailable")
      ELSE Answer("withdraw", shares, "fee", served, 0, served < shares, NoPrice)

\* No deposit has landed: nothing paid for no shares.
NoDeposit == [paid |-> 0, shares |-> 0, unowned |-> 0]

Init ==
  /\ pool \in Pools
  /\ pc = "idle" /\ request = 0 /\ amount = 0
  /\ i = 0 /\ enter = 0 /\ total_fee = 0
  /\ quote = NoQuote /\ prev = NoQuote /\ landed = NoDeposit

\* quote() returns q; its locals are gone.
Return(q) ==
  /\ pc' = "idle" /\ quote' = q
  /\ request' = 0 /\ amount' = 0
  /\ i' = 0 /\ enter' = 0 /\ total_fee' = 0
  /\ UNCHANGED <<pool, landed>>

QuoteInactive(d, n) ==
  /\ pc = "idle" /\ ~is_active
  /\ Return(Err(d, n, "InactivePool")) /\ prev' = quote

QuoteDeposit(assets) ==
  /\ pc = "idle" /\ is_active
  /\ Return(quote_deposit(assets)) /\ prev' = quote

QuoteWithdraw(shares) ==
  /\ pc = "idle" /\ is_active
  /\ WithdrawGate(shares).status # "fee"
  /\ Return(WithdrawGate(shares)) /\ prev' = quote

\* A withdrawal of nothing (it rounds to zero) costs no fee and skips the loop.
FirstBracket(w) == IF w = 0 THEN 0 ELSE i_start

StartFee(shares) ==
  LET served == WithdrawGate(shares).amount
      w == withdrawal_amount(served)
  IN  /\ pc = "idle" /\ is_active
      /\ WithdrawGate(shares).status = "fee"
      /\ pc' = "fee" /\ request' = shares /\ amount' = served
      /\ i' = FirstBracket(w)
      /\ enter' = 0 /\ total_fee' = 0
      /\ prev' = quote /\ quote' = NoQuote
      /\ UNCHANGED <<pool, landed>>

LoopOver == i = 0 \/ i < i_end(withdrawal_amount(amount))

FeeSlice ==
  /\ pc = "fee" /\ ~LoopOver
  /\ total_fee' = total_fee + SliceFee(i)
  /\ enter' = withdrawal_amount_exit(i)
  /\ i' = i - 1
  /\ UNCHANGED <<pool, pc, request, amount, quote, prev, landed>>

FinishWithdraw ==
  LET out == SatSub(withdrawal_amount(amount), total_fee)
  IN  /\ pc = "fee" /\ LoopOver
      /\ IF out = 0
         THEN Return(Err("withdraw", request, "NotAvailable"))
         ELSE Return(Priced("withdraw", request, amount, out, amount < request,
                            instant_withdraw_price(amount)))
      /\ UNCHANGED prev

\* Assets that no share has a claim on.
unowned_assets == IF pool.mode_supply = 0 THEN refreshed_assets ELSE 0

\* The deposit instruction, executed by the pool's program as it was quoted, and
\* the snapshot after it.  The program refreshes the assets first.  A pool whose
\* assets exceed the u64 the quote reads would mint other shares than quoted.
\* One deposit lands in a behaviour.
DepositLands ==
  /\ pc = "idle" /\ landed = NoDeposit
  /\ quote.dir = "deposit" /\ quote.status = "Ok" /\ quote.amount > 0
  /\ pool.assets <= MaxU64
  /\ pool.mode_supply + quote.expected_output <= MaxU64
  /\ pool.balance + quote.amount <= MaxU64
  /\ pool' = [pool EXCEPT !.assets = refreshed_assets + quote.amount,
                          !.assets_refreshed_at = pool.current_ts,
                          !.mode_supply = @ + quote.expected_output,
                          !.balance = @ + quote.amount]
  /\ landed' = [paid |-> quote.amount, shares |-> quote.expected_output,
                unowned |-> unowned_assets]
  /\ quote' = NoQuote /\ prev' = NoQuote
  /\ UNCHANGED <<pc, request, amount, i, enter, total_fee>>

Next ==
  \/ \E n \in Amounts : \/ \E d \in {"deposit", "withdraw"} : QuoteInactive(d, n)
                        \/ QuoteDeposit(n) \/ QuoteWithdraw(n) \/ StartFee(n)
  \/ FeeSlice \/ FinishWithdraw \/ DepositLands

Spec == Init /\ [][Next]_vars
-----------------------------------------------------------------------------
\* The type of the state: every amount fits its u64 and the loop index its schedule.
TypeOK ==
  /\ pc \in {"idle", "fee"}
  /\ request \in U64 /\ amount \in U64 /\ enter \in U64 /\ total_fee \in U64
  /\ i \in 0 .. Len(pool.brackets)
  /\ \A q \in {quote, prev} : q.amount \in U64 /\ q.expected_output \in U64

\* The unchecked subtractions and the division of the fee loop are safe: the
\* boundaries are met in order, none lies above the liquid assets, and the
\* divisor (100% - boundary) is never zero, so no amount leaves its type.
LoopNeverUnderflows ==
  /\ TypeOK
  /\ pc = "fee" /\ ~LoopOver =>
       /\ withdrawal_amount_exit(i) >= enter
       /\ i # i_end(withdrawal_amount(amount)) =>
            LET boundary == pool.brackets[i - 1].liquid_asset_ratio_lt_bps
            IN  /\ boundary < HundredPct
                /\ liquid_assets_before * HundredPct >= boundary * refreshed_total_assets

\* The bracket that the k-th withdrawn atom is charged in: the lowest one whose
\* ratio the pool has fallen below once k atoms are gone.
AtomBracket(k) ==
  LET below == {n \in 1 .. i_start :
                  (liquid_assets_before - k) * HundredPct
                    < pool.brackets[n].liquid_asset_ratio_lt_bps
                        * (refreshed_total_assets - k)}
  IN  IF below = {} THEN i_start ELSE CHOOSE n \in below : \A m \in below : n <= m

\* The fee of w atoms, charged atom by atom and rounded up once per bracket.
ReferenceFee(w) ==
  LET atoms(n) == Cardinality({k \in 1 .. w : AtomBracket(k) = n})
      sum[n \in 0 .. Len(pool.brackets)] ==
        IF n = 0 THEN 0
        ELSE sum[n - 1] + DivCeil(atoms(n) * pool.brackets[n].fee_bps, HundredPct)
  IN  sum[Len(pool.brackets)]

\* compute_instant_withdrawal_fee, which jumps from boundary to boundary, charges
\* what charging each atom in its own bracket would.
FeeIsProgressive ==
  pc = "fee" /\ LoopOver => total_fee = ReferenceFee(withdrawal_amount(amount))

\* A withdrawal quote never promises more than the pool and its strategy can pay
\* now, nor burns more shares than exist, and flags exactly the partial fills.
PayoutCovered ==
  quote.dir = "withdraw" /\ quote.status = "Ok" =>
    /\ quote.expected_output <= get_available_balance + pool.strategy
    /\ quote.amount <= pool.mode_supply
    /\ quote.not_enough_liquidity = (quote.amount < quote.request)

\* Two successful quotes in one direction, the smaller request first.
Pair == /\ prev.status = "Ok" /\ quote.status = "Ok" /\ prev.dir = quote.dir
        /\ prev.request <= quote.request

\* The trait's first pricing requirement: a larger request never gets less, also
\* across the fee brackets and their roundings, and when it is filled in part.
MonotonicOutput == Pair => prev.expected_output <= quote.expected_output

\* Lower liquidity costs more: what makes the fee schedule progressive.
FeesRise ==
  \A m, n \in 1 .. Len(pool.brackets) :
    m <= n => pool.brackets[m].fee_bps >= pool.brackets[n].fee_bps

\* "mode_supply > 0 implies mode_assets > 0 for any solvent pool" (math.rs:9).
Solvent == pool.mode_supply = 0 \/ refreshed_assets # 0

\* The trait's second requirement: on a pool with a progressive fee schedule a
\* larger request never gets a better price, and on a solvent pool every answer
\* has a price above zero, and a finite one.  (On an insolvent pool, shares with
\* no assets, the code still answers a zero request, with 0 or with n / 0.)
PriceNonIncreasing ==
  /\ Pair /\ FeesRise =>
       quote.price[1] * prev.price[2] <= prev.price[1] * quote.price[2]
  /\ quote.status = "Ok" /\ Solvent => quote.price[1] > 0 /\ quote.price[2] > 0

\* The trait's third requirement up to rounding: the realised rate between two
\* fills lies between the two prices, give or take one atom for each rounding.
Slack == Len(pool.brackets) + 1
PriceBracketsChord ==
  Pair /\ FeesRise =>
    LET gained == quote.expected_output - prev.expected_output
        sold   == quote.amount - prev.amount
    IN  /\ quote.price[1] * sold <= (gained + Slack) * quote.price[2]
        /\ (gained - Slack) * prev.price[2] <= prev.price[1] * sold

\* Depositing and then withdrawing shares received, quoted on the pool as the
\* deposit left it, gains nothing but assets that no share owned before: the
\* first deposit into a mode with left-over assets is minted 1:1 and owns them.
NoRoundTripGain ==
  /\ quote.dir = "withdraw" /\ quote.status = "Ok"
  /\ quote.request <= landed.shares
  => quote.expected_output <= landed.paid + landed.unowned

\* The trait's doc: "the venue must handle zero input amounts without panicking
\* or returning an error".
DocZeroInput ==
  quote.dir # "none" /\ quote.request = 0 /\ is_active => quote.status = "Ok"
=============================================================================
