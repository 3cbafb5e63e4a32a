---------------------------- MODULE RaydiumVenue ----------------------------
(***************************************************************************)
(* The Raydium AMM example venue: RaydiumAmmVenue (src/src/example/mod.rs) *)
(* with its swap arithmetic (example/amm.rs, example/raydium/math.rs).     *)
(* update_state writes the venue's fields one after another and may stop   *)
(* in between; quote() then works with whatever the fields hold.           *)
(*                                                                         *)
(* Operators end in a venue or a number, or in one of the outcomes Err and *)
(* Panic.  Amounts are u64, products U128; f64 prices are exact fractions. *)
(***************************************************************************)
EXTENDS Integers

CONSTANTS
  MaxU64,     \* u64::MAX
  AmmInfos,   \* the contents the AMM account may have
  Balances,   \* the amounts the vaults may hold
  Requests    \* the amounts asked for

MaxU128 == (MaxU64 + 1) * (MaxU64 + 1) - 1
U64 == 0 .. MaxU64

\* The fields of AmmInfo that matter; status is AmmStatus as a number.
AmmInfo == [status : U64, need_take_pnl_pc : U64, need_take_pnl_coin : U64,
            swap_fee_numerator : U64, swap_fee_denominator : U64]

ASSUME RaydiumAssumption ==
  /\ MaxU64 \in Nat \ {0}
  /\ AmmInfos \subseteq AmmInfo /\ Balances \subseteq U64 /\ Requests \subseteq U64

\* What the cache answers for the AMM account, for a vault and for the mints: no
\* account, bytes that do not decode, or the content.  A vault that is no SPL
\* token account ("foreign", e.g. one with Token-2022 extensions) still has 8
\* bytes where the amount is read; a "short" one has not.
Missing == [kind |-> "missing", amount |-> 0]
Short == [kind |-> "short", amount |-> 0]
Vaults == {Missing, Short} \cup [kind : {"token", "foreign"}, amount : Balances]
Amms == [kind : {"missing", "garbage"}] \cup [kind : {"amm"}, info : AmmInfos]

\* The answer to the five keys of update_state; the two mint accounts both decode
\* ("tokens"), or one is missing, or both exist and one does not decode.
Accounts == [amm : Amms, pc : Vaults, coin : Vaults,
             mints : {"tokens", "missing", "garbage"}]

VARIABLES
  venue,   \* the RaydiumAmmVenue
  outcome, \* how the last update_state ended
  source   \* history: what the last update that got to a calculate_result would
           \* have made of a fresh venue

vars == <<venue, outcome, source>>

\* Outcomes of a computation that are not numbers, and None.
Err == -1
Panic == -2
None == [pc |-> 0, coin |-> 0, num |-> 0, den |-> 0, some |-> FALSE]

-----------------------------------------------------------------------------
(* raydium/math.rs and amm.rs *)

\* Fault: the quotient is always rounded up.
checked_ceil_div_True(a, b) ==
  IF b = 0 THEN Err ELSE (a + b - 1) \div b

\* CheckedCeilDiv: rounds up, except that a quotient below one half becomes 0.
checked_ceil_div(a, b) ==
  IF b = 0 THEN Err
  ELSE IF a \div b = 0 THEN (IF 2 * a >= b THEN 1 ELSE 0)
  ELSE a \div b + (IF a % b > 0 THEN 1 ELSE 0)

\* AmmStatus::from_u64 knows the values up to 7; Initialized and OrderBookOnly
\* may use the order book.
KnownStatus(s) == s <= 7
orderbook_permission(s) == s \in {1, 5}

\* calc_total_without_take_pnl_no_orderbook, for one of the two tokens.
calc_total(balance, pnl) == IF balance >= pnl THEN balance - pnl ELSE Err

\* calculate_pool_vault_amounts_from_accounts reads the three accounts in this
\* order: Err for one that is missing or does not decode.
Readable(a) == a.amm.kind = "amm" /\ a.pc.kind = "token" /\ a.coin.kind = "token"

CalculatedFrom(a) ==
  LET info == a.amm.info IN
  [pc |-> calc_total(a.pc.amount, info.need_take_pnl_pc),
   coin |-> calc_total(a.coin.amount, info.need_take_pnl_coin),
   num |-> info.swap_fee_numerator, den |-> info.swap_fee_denominator, some |-> TRUE]

Calculation(a) ==
  IF ~Readable(a) THEN "Err"
  ELSE IF ~KnownStatus(a.amm.info.status) THEN "Panic"
  ELSE IF orderbook_permission(a.amm.info.status) THEN "Err"
  ELSE IF CalculatedFrom(a).pc = Err \/ CalculatedFrom(a).coin = Err THEN "Err"
  ELSE "Ok"

\* The reserves behind the token sold and behind the token bought.
InputOf(dir, pc, coin) == IF dir = "PC2Coin" THEN pc ELSE coin
OutputOf(dir, pc, coin) == IF dir = "PC2Coin" THEN coin ELSE pc

\* Fault: the input is not added to its reserve.
swap_token_amount_base_in_NoInput(x, in, out) ==
  IF in = 0 THEN Panic ELSE (out * x) \div in

\* out * x / (in + x), rounded down; the unwrap of a division by zero panics.
swap_token_amount_base_in(x, in, out) ==
  IF in + x = 0 THEN Panic ELSE (out * x) \div (in + x)

\* in * y / (out - y); both unwraps panic when y reaches the reserve.
swap_token_amount_base_out(y, in, out) ==
  IF y >= out THEN Panic ELSE checked_ceil_div(in * y, out - y)

\* Fault: a fee that does not come out even is refused instead of rounded.
SwapFee_Even(x, num, den) ==
  IF den = 0 \/ (x * num) % den # 0 THEN Err ELSE (x * num) \div den

SwapFee(x, num, den) == checked_ceil_div(x * num, den)

ExactInAmount(x, in, out, num, den) ==
  LET fee == SwapFee(x, num, den) IN
  IF fee = Err \/ fee = 0 \/ fee > x THEN Err
  ELSE swap_token_amount_base_in(x - fee, in, out)

ExactOutAmount(y, in, out, num, den) ==
  LET before == swap_token_amount_base_out(y, in, out) IN
  IF before = Panic THEN Panic
  ELSE IF before * den > MaxU128 \/ num > den THEN Err
  ELSE LET after == checked_ceil_div(before * den, den - num)
       IN  IF after > MaxU64 THEN Panic ELSE after   \* as_u64

swap_exact_amount(dir, n, exactIn, c) ==
  LET in == InputOf(dir, c.pc, c.coin)
      out == OutputOf(dir, c.pc, c.coin)
  IN  IF exactIn THEN ExactInAmount(n, in, out, c.num, c.den)
      ELSE ExactOutAmount(n, in, out, c.num, c.den)

\* pc_amount.checked_add(amount_specified), or coin_amount.
Overflows(dir, n, v) == InputOf(dir, v.pc_balance, v.coin_balance) + n > MaxU64

\* Fault: the vault balances are passed for the amounts without pnl as well.
swap_with_slippage_Balances(dir, n, exactIn, v) ==
  LET c == [v.calculate_result EXCEPT !.pc = v.pc_balance, !.coin = v.coin_balance]
      other == swap_exact_amount(dir, n, exactIn, c)
  IN  IF Overflows(dir, n, v) THEN Err
      ELSE IF other < 0 THEN other
      ELSE IF other >= OutputOf(dir, c.pc, c.coin) THEN Err
      ELSE other

\* swap_with_slippage with slippage_bps = 0, which scales by 10_000 / 10_000.  The
\* last check compares with the output vault, also when the number is an input.
swap_with_slippage(dir, n, exactIn, v) ==
  LET c == v.calculate_result
      other == swap_exact_amount(dir, n, exactIn, c)
  IN  IF Overflows(dir, n, v) THEN Err
      ELSE IF other < 0 THEN other
      ELSE IF other >= OutputOf(dir, c.pc, c.coin) THEN Err
      ELSE other

-----------------------------------------------------------------------------
(* mod.rs *)

\* Fault: the price leaves the fee out.
price_NoFee(c, dir, n) ==
  LET in == InputOf(dir, c.pc, c.coin)
      out == OutputOf(dir, c.pc, c.coin)
  IN  << out * in, (in + n) * (in + n) >>

\* price: out * keep * in / (in + keep * n)^2 with keep = 1 - num / den, as a pair
\* numerator and denominator (0/0 is the NaN of an empty pool).
price(c, dir, n) ==
  LET in == InputOf(dir, c.pc, c.coin)
      out == OutputOf(dir, c.pc, c.coin)
      d == IF c.den = 0 THEN 1 ELSE c.den
      k == IF c.den = 0 THEN 1 ELSE c.den - c.num
  IN  << out * k * in * d, (d * in + k * n) * (d * in + k * n) >>

Directions == {"PC2Coin", "Coin2PC"}

\* The number quote() reports as expected_output, or Err (MissingState before the
\* first calculation, MathError), or Panic.
quote(v, dir, n, exactIn) ==
  IF ~v.calculate_result.some THEN Err
  ELSE IF n = 0 THEN 0
  ELSE swap_with_slippage(dir, n, exactIn, v)

\* from_account: the keys are fixed, all else is empty.
Fresh == [calculate_result |-> None, pc_balance |-> 0, coin_balance |-> 0,
          found_all_pubkeys |-> FALSE, token_info |-> FALSE]

\* The balances are taken over from the vaults that are there, the pc vault
\* first; a short one panics in the slice and stops the rest.
WithBalances(v, a) ==
  LET pc == IF a.pc.kind \in {"missing", "short"} THEN v.pc_balance ELSE a.pc.amount
      coin == IF a.coin.kind \in {"missing", "short"} \/ a.pc.kind = "short"
              THEN v.coin_balance ELSE a.coin.amount
  IN  [v EXCEPT !.pc_balance = pc, !.coin_balance = coin]

BalancesPanic(a) == a.pc.kind = "short" \/ a.coin.kind = "short"

\* TokenInfo::new fails on a mint account that does not decode.
TokenInfoFails(a) == a.mints = "garbage"

\* Mints that are missing leave token_info as it was, and are no error.
WithTokens(v, a) == IF a.mints = "tokens" THEN [v EXCEPT !.token_info = TRUE] ELSE v

\* Fault: an initialized venue keeps its calculate_result.
Calculated_Once(v, a) ==
  IF v.found_all_pubkeys THEN v ELSE [v EXCEPT !.calculate_result = CalculatedFrom(a)]

Calculated(v, a) == [v EXCEPT !.calculate_result = CalculatedFrom(a)]

\* venue_update_state_step_2, and found_all_pubkeys on success: the venue as far
\* as it was written, and how the call ended.
Updated(v, a) ==
  LET balanced == WithBalances(v, a)
      calculated == Calculated(balanced, a)
  IN  IF BalancesPanic(a) THEN [to |-> balanced, outcome |-> "Panic"]
      ELSE IF Calculation(a) # "Ok" THEN [to |-> balanced, outcome |-> Calculation(a)]
      ELSE IF TokenInfoFails(a) THEN [to |-> calculated, outcome |-> "Err"]
      ELSE [to |-> [WithTokens(calculated, a) EXCEPT !.found_all_pubkeys = TRUE],
            outcome |-> "Ok"]

Init == venue = Fresh /\ outcome = "none" /\ source = Fresh

\* update_state with the accounts a: the cache may answer each key from another
\* moment, so any combination can come back.
UpdateState(a) ==
  /\ venue' = Updated(venue, a).to
  /\ outcome' = Updated(venue, a).outcome
  /\ source' = IF ~BalancesPanic(a) /\ Calculation(a) = "Ok"
               THEN Updated(Fresh, a).to ELSE source

\* get_accounts fails: nothing was written yet.
CacheError ==
  /\ outcome' = "Err"
  /\ UNCHANGED <<venue, source>>

Next == CacheError \/ \E a \in Accounts : UpdateState(a)

Spec == Init /\ [][Next]_vars

-----------------------------------------------------------------------------
(* quote() takes &self, so a property of quotes is one of every reachable      *)
(* venue and every request.                                                    *)

ExactIn(dir, n) == quote(venue, dir, n, TRUE)
In(dir) == InputOf(dir, venue.calculate_result.pc, venue.calculate_result.coin)
Out(dir) == OutputOf(dir, venue.calculate_result.pc, venue.calculate_result.coin)

\* Whatever updates failed half way before, a quote is the one that a new venue
\* would give after the last update that calculated: reserves, pnl and fee of one
\* answer of the cache.  Newer balances only move the overflow check.
QuotesOneSnapshot ==
  \A dir \in Directions, n \in Requests, exactIn \in BOOLEAN :
    \/ quote(venue, dir, n, exactIn) = quote(source, dir, n, exactIn)
    \/ n > 0 /\ (Overflows(dir, n, venue) \/ Overflows(dir, n, source))

\* No earlier failure outlives an update that gets all its accounts: the venue is
\* then the one a fresh update would have built, ready for quotes and bounds.
RecoversFully ==
  \A a \in Accounts :
    Calculation(a) = "Ok" /\ a.mints = "tokens" => Updated(venue, a) = Updated(Fresh, a)

\* A swap as quoted never lowers the product of the reserves, nor empties one.
ProductNeverShrinks ==
  \A dir \in Directions, n \in Requests :
    LET out == ExactIn(dir, n) IN
    out > 0 => /\ out < Out(dir)
               /\ (In(dir) + n) * (Out(dir) - out) >= In(dir) * Out(dir)

\* What find_boundaries relies on: the amounts with a usable quote (not zero, not
\* an error) have no holes, from the dust the fee rejects to the overflow check.
UsableIsInterval ==
  \A dir \in Directions, a, b, c \in Requests :
    a < b /\ b < c /\ ExactIn(dir, a) > 0 /\ ExactIn(dir, c) > 0 => ExactIn(dir, b) > 0

\* The trait's pricing requirements on a pool with reserves: a larger input never
\* gets less, the price never rises (nor reaches zero, with a fee below 100%), and
\* the rate realised between two inputs lies between their prices, up to an output
\* atom and what an input atom is worth.
PricingRequirements ==
  \A dir \in Directions, a, b \in Requests :
    LET gained == ExactIn(dir, b) - ExactIn(dir, a)
        pa == price(venue.calculate_result, dir, a)
        pb == price(venue.calculate_result, dir, b)
        \* gained, give or take 1 + Out / In, times In
        most == (gained + 1) * In(dir) + Out(dir)
        least == (gained - 1) * In(dir) - Out(dir)
    IN  a < b /\ ExactIn(dir, a) >= 0 /\ ExactIn(dir, b) >= 0 /\ In(dir) > 0 /\ Out(dir) > 0
        => /\ gained >= 0
           /\ venue.calculate_result.num < venue.calculate_result.den => 0 < pb[1]
           /\ pb[1] * pa[2] <= pa[1] * pb[2]
           /\ pb[1] * (b - a) * In(dir) <= most * pb[2]
           /\ least * pa[2] <= pa[1] * (b - a) * In(dir)

\* Titan only routes ExactIn: with a fee below one half no amount makes such a
\* quote panic, also on a pool whose vaults hold nothing but pnl.
ExactInNeverPanics ==
  \A dir \in Directions, n \in Requests :
    2 * venue.calculate_result.num < venue.calculate_result.den
      => ExactIn(dir, n) # Panic

\* The trait's doc: venues need not implement ExactOut "but must not panic on it".
DocExactOutNeverPanics ==
  \A dir \in Directions, n \in Requests : quote(venue, dir, n, FALSE) # Panic
=============================================================================
