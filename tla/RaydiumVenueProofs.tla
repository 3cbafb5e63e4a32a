------------------------- MODULE RaydiumVenueProofs -------------------------
(***************************************************************************)
(* Proofs about RaydiumVenue for every width of the amounts, every AMM     *)
(* account, every vault balance and every sequence of updates.             *)
(***************************************************************************)
EXTENDS RaydiumVenue, TLAPS

CalculateResult == [pc : U64, coin : U64, num : U64, den : U64, some : BOOLEAN]

Venue == [calculate_result : CalculateResult, pc_balance : U64, coin_balance : U64,
          found_all_pubkeys : BOOLEAN, token_info : BOOLEAN]

\* The venue's calculation is the one of its source; balances may be newer.
VInv ==
  /\ venue \in Venue /\ source \in Venue
  /\ venue.calculate_result = source.calculate_result

-----------------------------------------------------------------------------
(* The updates. *)

LEMMA FreshVenue == Fresh \in Venue
BY RaydiumAssumption DEF Fresh, None, Venue, CalculateResult, U64

\* The amount of a vault account that is there.
LEMMA VaultAmounts ==
  ASSUME NEW a \in Accounts
  PROVE  /\ a.pc.kind \notin {"missing", "short"} => a.pc.amount \in U64
         /\ a.coin.kind \notin {"missing", "short"} => a.coin.amount \in U64
BY RaydiumAssumption DEF Accounts, Vaults, Missing, Short

\* A calculation that succeeds yields u64 numbers.
LEMMA CalculatedOk ==
  ASSUME NEW a \in Accounts, Calculation(a) = "Ok"
  PROVE  CalculatedFrom(a) \in CalculateResult
<1>1. /\ a.amm.kind = "amm" /\ a.pc.kind = "token" /\ a.coin.kind = "token"
      /\ CalculatedFrom(a).pc # Err /\ CalculatedFrom(a).coin # Err
  BY DEF Calculation, Readable
<1>2. a.amm.info \in AmmInfo /\ a.pc.amount \in U64 /\ a.coin.amount \in U64
  BY VaultAmounts, <1>1, RaydiumAssumption DEF Accounts, Amms
<1> DEFINE info == a.amm.info
<1>3. /\ info.need_take_pnl_pc \in U64 /\ info.need_take_pnl_coin \in U64
      /\ info.swap_fee_numerator \in U64 /\ info.swap_fee_denominator \in U64
  BY <1>2 DEF AmmInfo
<1>4. /\ calc_total(a.pc.amount, info.need_take_pnl_pc) \in U64
      /\ calc_total(a.coin.amount, info.need_take_pnl_coin) \in U64
  <2>1. \A b, p \in U64 : calc_total(b, p) # Err => calc_total(b, p) \in U64
    BY RaydiumAssumption DEF calc_total, U64
  <2> QED BY <1>1, <1>2, <1>3, <2>1 DEF CalculatedFrom
<1> QED BY <1>3, <1>4 DEF CalculatedFrom, CalculateResult

\* What an update writes into a venue, by how far it gets.
LEMMA UpdateFacts ==
  ASSUME NEW v \in Venue, NEW a \in Accounts
  PROVE  /\ Updated(v, a).to \in Venue
         /\ IF ~BalancesPanic(a) /\ Calculation(a) = "Ok"
            THEN Updated(v, a).to.calculate_result = CalculatedFrom(a)
            ELSE Updated(v, a).to.calculate_result = v.calculate_result
<1> DEFINE w == WithBalances(v, a)
<1>1. w \in Venue /\ w.calculate_result = v.calculate_result
  BY VaultAmounts DEF WithBalances, Venue
<1> HIDE DEF w
<1>2. CASE BalancesPanic(a) \/ Calculation(a) # "Ok"
  BY <1>1, <1>2 DEF Updated, w
<1>3. CASE ~BalancesPanic(a) /\ Calculation(a) = "Ok"
  <2> DEFINE c == Calculated(w, a)
  <2>1. c \in Venue /\ c.calculate_result = CalculatedFrom(a)
    BY <1>1, <1>3, CalculatedOk DEF Calculated, Venue
  <2> HIDE DEF c
  <2>2. WithTokens(c, a) \in Venue /\ WithTokens(c, a).calculate_result = CalculatedFrom(a)
    BY <2>1 DEF WithTokens, Venue
  <2> DEFINE f == [WithTokens(c, a) EXCEPT !.found_all_pubkeys = TRUE]
  <2>3. f \in Venue /\ f.calculate_result = CalculatedFrom(a)
    BY <2>2 DEF Venue
  <2>4. Updated(v, a).to = c \/ Updated(v, a).to = f
    BY <1>3 DEF Updated, w, c
  <2> QED BY <1>3, <2>1, <2>3, <2>4
<1> QED BY <1>2, <1>3

LEMMA SpecVInv == Spec => []VInv
<1>1. Init => VInv
  BY FreshVenue DEF Init, VInv
<1>2. VInv /\ [Next]_vars => VInv'
  <2> SUFFICES ASSUME VInv, [Next]_vars PROVE VInv'
    OBVIOUS
  <2>1. CASE CacheError \/ UNCHANGED vars
    BY <2>1 DEF CacheError, VInv, vars
  <2>2. ASSUME NEW a \in Accounts, UpdateState(a) PROVE VInv'
    <3>1. /\ venue' = Updated(venue, a).to
          /\ source' = IF ~BalancesPanic(a) /\ Calculation(a) = "Ok"
                       THEN Updated(Fresh, a).to ELSE source
      BY <2>2 DEF UpdateState
    <3>2. venue' \in Venue /\ source' \in Venue
      BY <3>1, UpdateFacts, FreshVenue DEF VInv
    <3>3. venue'.calculate_result = source'.calculate_result
      BY <3>1, UpdateFacts, FreshVenue DEF VInv
    <3> QED BY <3>2, <3>3 DEF VInv
  <2> QED BY <2>1, <2>2 DEF Next
<1> QED BY <1>1, <1>2, PTL DEF Spec

\* Quotes of a venue that failed updates have half written are those of a venue
\* that only saw the last update that calculated.
THEOREM QuotesAreOfOneSnapshot == Spec => []QuotesOneSnapshot
<1>1. VInv => QuotesOneSnapshot
  <2> SUFFICES ASSUME VInv, NEW dir \in Directions, NEW n \in Requests, NEW exactIn \in BOOLEAN,
                      ~(n > 0 /\ (Overflows(dir, n, venue) \/ Overflows(dir, n, source)))
               PROVE  quote(venue, dir, n, exactIn) = quote(source, dir, n, exactIn)
    BY DEF QuotesOneSnapshot
  <2>1. n \in Nat
    BY RaydiumAssumption DEF U64
  <2>2. venue.calculate_result = source.calculate_result
    BY DEF VInv
  <2> QED BY <2>1, <2>2 DEF quote, swap_with_slippage
<1> QED BY <1>1, SpecVInv, PTL

\* An update that gets all its accounts builds the venue that a fresh one would
\* become, whatever went wrong before.
THEOREM UpdatesRecoverFully == Spec => []RecoversFully
<1>1. VInv => RecoversFully
  <2> SUFFICES ASSUME VInv, NEW a \in Accounts, Calculation(a) = "Ok", a.mints = "tokens"
               PROVE  Updated(venue, a) = Updated(Fresh, a)
    BY DEF RecoversFully
  <2>1. a.pc.kind = "token" /\ a.coin.kind = "token"
    BY DEF Calculation, Readable
  <2> DEFINE r == [calculate_result |-> CalculatedFrom(a), pc_balance |-> a.pc.amount,
                   coin_balance |-> a.coin.amount, found_all_pubkeys |-> TRUE,
                   token_info |-> TRUE]
  <2>2. ASSUME NEW v \in Venue PROVE Updated(v, a) = [to |-> r, outcome |-> "Ok"]
    <3>1. ~BalancesPanic(a) /\ ~TokenInfoFails(a)
      BY <2>1 DEF BalancesPanic, TokenInfoFails
    <3>2. WithBalances(v, a) = [v EXCEPT !.pc_balance = a.pc.amount, !.coin_balance = a.coin.amount]
      BY <2>1 DEF WithBalances
    <3> DEFINE z == Updated(v, a).to
    <3>3. /\ Updated(v, a) = [to |-> z, outcome |-> "Ok"]
          /\ z = [WithTokens(Calculated(WithBalances(v, a), a), a) EXCEPT !.found_all_pubkeys = TRUE]
      BY <3>1 DEF Updated
    <3>4. z \in Venue /\ r \in Venue
      BY <2>1, UpdateFacts, VaultAmounts, CalculatedOk DEF Venue
    <3>5. /\ z.calculate_result = CalculatedFrom(a) /\ z.pc_balance = a.pc.amount
          /\ z.coin_balance = a.coin.amount /\ z.found_all_pubkeys = TRUE /\ z.token_info = TRUE
      BY <3>2, <3>3 DEF WithTokens, Calculated, Venue
    <3>6. z = r
      <4> HIDE DEF z
      <4> QED BY <3>4, <3>5 DEF Venue
    <3> QED BY <3>3, <3>6
  <2> QED BY <2>2, FreshVenue DEF VInv
<1> QED BY <1>1, SpecVInv, PTL
-----------------------------------------------------------------------------
(* The arithmetic. *)

\* Products grow with their factors.
LEMMA MulGrows ==
  ASSUME NEW a \in Int, NEW b \in Int, NEW c \in Nat, a <= b
  PROVE  a * c <= b * c
OBVIOUS

LEMMA DivFacts ==
  ASSUME NEW a \in Nat, NEW b \in Nat \ {0}
  PROVE  /\ a \div b \in Nat /\ a % b \in 0 .. b - 1
         /\ a = b * (a \div b) + (a % b)
OBVIOUS

\* A ceiling that is not zero is the true one; it is zero for a quotient below 1/2.
LEMMA CeilDivFacts ==
  ASSUME NEW a \in Nat, NEW b \in Nat \ {0}
  PROVE  LET c == checked_ceil_div(a, b) IN
           /\ c \in Nat /\ c <= a \div b + 1
           /\ c = 0 <=> 2 * a < b
           /\ c > 0 => b * (c - 1) < a /\ a <= b * c
<1> DEFINE q == a \div b
           r == a % b
           c == checked_ceil_div(a, b)
<1>1. q \in Nat /\ r \in 0 .. b - 1 /\ a = b * q + r
  BY DivFacts
<1>2. c = IF q = 0 THEN (IF 2 * a >= b THEN 1 ELSE 0) ELSE q + (IF r > 0 THEN 1 ELSE 0)
  BY DEF checked_ceil_div
<1> HIDE DEF q, r, c
<1>3. CASE q = 0
  <2>1. a = r /\ a < b
    BY <1>1, <1>3
  <2>2. CASE 2 * a >= b
    BY <1>1, <1>2, <1>3, <2>1, <2>2 DEF c, q
  <2>3. CASE 2 * a < b
    BY <1>1, <1>2, <1>3, <2>1, <2>3 DEF c, q
  <2> QED BY <2>2, <2>3
<1>4. CASE q # 0
  <2>1. b * q >= b
    BY <1>1, <1>4
  <2>2. CASE r > 0
    <3>1. c = q + 1 /\ c \in Nat
      BY <1>1, <1>2, <1>4, <2>2
    <3>2. b * (c - 1) < a /\ a <= b * c
      BY <1>1, <2>2, <3>1
    <3> QED BY <1>1, <1>4, <2>1, <3>1, <3>2 DEF c, q
  <2>3. CASE r = 0
    <3>1. c = q /\ c \in Nat
      BY <1>1, <1>2, <1>4, <2>3
    <3>2. b * (c - 1) < a /\ a <= b * c
      BY <1>1, <2>3, <3>1
    <3> QED BY <1>1, <1>4, <2>1, <3>1, <3>2 DEF c, q
  <2> QED BY <1>1, <2>2, <2>3
<1> QED BY <1>3, <1>4

\* What is left of n after the fee: the true share, rounded down.
Kept(n, x, num, den) ==
  /\ den > 0 /\ num <= den /\ x \in Nat /\ x <= n
  /\ den * x <= (den - num) * n /\ (den - num) * n < den * x + den

LEMMA KeptFacts ==
  ASSUME NEW n \in Nat \ {0}, NEW num \in Nat, NEW den \in Nat,
         LET fee == SwapFee(n, num, den) IN fee # Err /\ fee # 0 /\ fee <= n
  PROVE  Kept(n, n - SwapFee(n, num, den), num, den) /\ SwapFee(n, num, den) \in Nat
<1> DEFINE fee == SwapFee(n, num, den)
<1>1. den # 0
  BY DEF SwapFee, checked_ceil_div
<1>2. n * num \in Nat
  OBVIOUS
<1>3. fee \in Nat /\ (fee > 0 => den * (fee - 1) < n * num /\ n * num <= den * fee)
  BY <1>1, <1>2, CeilDivFacts DEF SwapFee
<1>4. fee # 0 /\ fee <= n
  OBVIOUS
<1> HIDE DEF fee
<1>5. den * (fee - 1) < n * num /\ n * num <= den * fee
  BY <1>3, <1>4
<1>6. num <= den
  <2>1. den * fee <= den * n
    BY <1>3, <1>4
  <2>2. n * num <= n * den
    BY <1>3, <1>5, <2>1
  <2>3. CASE num > den
    <3>1. n * (den + 1) <= n * num
      BY <2>3
    <3> QED BY <2>2, <3>1
  <2> QED BY <2>3
<1>7. /\ den * (n - fee) = den * n - den * fee
      /\ (den - num) * n = den * n - n * num
      /\ den * (fee - 1) = den * fee - den
  BY <1>3
<1>8. den * n \in Nat /\ den * fee \in Nat
  BY <1>3
<1> QED BY <1>1, <1>2, <1>3, <1>4, <1>5, <1>6, <1>7, <1>8 DEF Kept, fee

\* The constant-product output q for the input x that is left, rounded down.
Sold(x, q, in, out) ==
  /\ in + x > 0 /\ q \in Nat /\ q <= out
  /\ q * (in + x) <= out * x /\ out * x < (q + 1) * (in + x)

LEMMA SoldFacts ==
  ASSUME NEW x \in Nat, NEW in \in Nat, NEW out \in Nat, in + x # 0
  PROVE  Sold(x, swap_token_amount_base_in(x, in, out), in, out)
<1> DEFINE q == (out * x) \div (in + x)
           t == in + x
<1>1. out * x \in Nat /\ t \in Nat \ {0}
  OBVIOUS
<1>2. q \in Nat /\ out * x = t * q + ((out * x) % t) /\ (out * x) % t \in 0 .. t - 1
  BY <1>1, DivFacts
<1> DEFINE r == (out * x) % t
<1>3. out * x = t * q + r /\ r \in 0 .. t - 1 /\ q \in Nat /\ t = in + x
  BY <1>2
<1>4. swap_token_amount_base_in(x, in, out) = q
  BY DEF swap_token_amount_base_in
<1> HIDE DEF q, r, t
<1>5. q * t <= out * x /\ out * x < (q + 1) * t
  BY <1>1, <1>3
<1>6. q <= out
  <2>1. out * x <= out * t
    BY <1>1, <1>3
  <2>2. q * t <= out * t
    BY <1>1, <1>3, <1>5, <2>1
  <2>3. CASE q > out
    <3>1. (out + 1) * t <= q * t
      BY <1>1, <1>3, <2>3
    <3>2. (out + 1) * t = out * t + t
      BY <1>1
    <3> QED BY <1>1, <1>3, <2>2, <3>1, <3>2
  <2> QED BY <1>3, <2>3
<1> QED BY <1>1, <1>3, <1>4, <1>5, <1>6 DEF Sold
\* More of the input is left of a larger amount.
LEMMA KeptGrows ==
  ASSUME NEW a \in Nat, NEW b \in Nat, a <= b, NEW x, NEW y,
         NEW num \in Nat, NEW den \in Nat, Kept(a, x, num, den), Kept(b, y, num, den)
  PROVE  x <= y
<1> DEFINE k == den - num
<1>1. /\ k \in Nat /\ x \in Nat /\ y \in Nat /\ den > 0
      /\ den * x <= k * a /\ k * b < den * y + den
  BY DEF Kept
<1> HIDE DEF k
<1>2. k * a <= k * b
  BY <1>1
<1>3. den * x < den * (y + 1)
  <2>1. den * (y + 1) = den * y + den
    BY <1>1
  <2> QED BY <1>1, <1>2, <2>1
<1>4. CASE x >= y + 1
  <2>1. den * (y + 1) <= den * x
    BY <1>1, <1>4
  <2> QED BY <1>1, <1>3, <2>1
<1> QED BY <1>1, <1>4

\* A larger input never buys less.
LEMMA SoldGrows ==
  ASSUME NEW x \in Nat, NEW y \in Nat, x <= y, NEW in \in Nat, NEW out \in Nat,
         NEW p, NEW q, Sold(x, p, in, out), Sold(y, q, in, out)
  PROVE  p <= q
<1>1. /\ p \in Nat /\ q \in Nat /\ p <= out /\ in + x > 0 /\ in + y > 0
      /\ p * (in + x) <= out * x /\ out * y < (q + 1) * (in + y)
  BY DEF Sold
<1>2. PICK d \in Nat : y = x + d
  <2>1. y - x \in Nat /\ y = x + (y - x)
    OBVIOUS
  <2> QED BY <2>1
<1>3. p * (in + y) <= out * y
  <2>1. p * (in + y) = p * (in + x) + p * d /\ out * y = out * x + out * d
    BY <1>1, <1>2
  <2>2. p * d <= out * d
    BY <1>1
  <2> QED BY <1>1, <2>1, <2>2
<1>4. CASE p >= q + 1
  <2>1. (q + 1) * (in + y) <= p * (in + y)
    BY <1>1, <1>4
  <2> QED BY <1>1, <1>3, <2>1
<1> QED BY <1>1, <1>4

\* An output q for n atoms is at most the exact n * out * k / (den * in + k * n)
\* with k = den - num, and short of it by at most 1 + out / in.
Near(n, q, in, out, num, den) ==
  LET k == den - num
      N == den * in + k * n
  IN  q * N <= out * k * n /\ out * k * n * in <= (q * in + in + out) * N

LEMMA SoldIsNear ==
  ASSUME NEW n \in Nat, NEW x, NEW q, NEW in \in Nat, NEW out \in Nat,
         NEW num \in Nat, NEW den \in Nat, Kept(n, x, num, den), Sold(x, q, in, out)
  PROVE  Near(n, q, in, out, num, den)
<1> DEFINE k == den - num
           r == k * n - den * x
           N == den * in + k * n
<1>1. /\ k \in Nat /\ x \in Nat /\ q \in Nat /\ den > 0 /\ q <= out
      /\ r \in Nat /\ r < den
      /\ q * (in + x) <= out * x /\ out * x < (q + 1) * (in + x)
  BY DEF Kept, Sold
<1>2. k * n = den * x + r /\ N = den * (in + x) + r
  BY <1>1
<1>3. out * k * n = out * (k * n)
  BY <1>1
<1> HIDE DEF k, r, N
<1>4. q * N <= out * (den * x + r)
  <2>1. q * N = (q * (in + x)) * den + q * r
    BY <1>1, <1>2
  <2>2. (q * (in + x)) * den <= (out * x) * den
    BY <1>1, MulGrows
  <2>3. q * r <= out * r
    BY <1>1, MulGrows
  <2>4. out * (den * x + r) = (out * x) * den + out * r
    BY <1>1
  <2> QED BY <1>1, <2>1, <2>2, <2>3, <2>4
<1>5. (out * (den * x + r)) * in <= (q * in + in + out) * N
  <2> DEFINE i == in * den
  <2>1. (q * in + in + out) * N = (((q + 1) * (in + x)) * i + (q + 1) * in * r) + out * N
    BY <1>1, <1>2
  <2>2. ((q + 1) * (in + x)) * i >= (out * x) * i
    <3>1. i \in Nat /\ (q + 1) * (in + x) \in Nat /\ out * x \in Nat
      BY <1>1
    <3> HIDE DEF i
    <3> QED BY <1>1, <3>1, MulGrows
  <2>3. (q + 1) * in * r >= 0
    BY <1>1
  <2>4. out * N >= out * (in * r)
    <3>1. in * r <= in * den
      BY <1>1
    <3>2. in * den <= N
      BY <1>1, <1>2
    <3>3. N \in Nat /\ in * r \in Nat
      BY <1>1, <1>2
    <3> QED BY <1>1, <3>1, <3>2, <3>3
  <2>5. (out * (den * x + r)) * in = (out * x) * i + out * (in * r)
    BY <1>1
  <2> QED BY <1>1, <1>2, <2>1, <2>2, <2>3, <2>4, <2>5
<1>6. out * (den * x + r) = out * k * n
  BY <1>2, <1>3
<1> QED BY <1>4, <1>5, <1>6 DEF Near, k, N
\* Between two inputs the exact output grows by P * (b - a) / (A * B), so the outputs
\* differ by that much give or take 1 + out / in, and the prices P / A^2 and P / B^2
\* bracket the rate.
LEMMA NearChord ==
  ASSUME NEW a \in Nat, NEW b \in Nat, a < b, NEW p \in Nat, NEW q \in Nat,
         NEW in \in Nat \ {0}, NEW out \in Nat, NEW num \in Nat, NEW den \in Nat \ {0}, num <= den,
         Near(a, p, in, out, num, den), Near(b, q, in, out, num, den)
  PROVE  LET k == den - num
             A == den * in + k * a
             B == den * in + k * b
             P == out * k * in * den
             most == (q - p + 1) * in + out
             least == (q - p - 1) * in - out
         IN  /\ P * (b - a) * in <= most * (B * B)
             /\ least * (A * A) <= P * (b - a) * in
             /\ P * (A * A) <= P * (B * B)
<1> DEFINE k == den - num
           A == den * in + k * a
           B == den * in + k * b
           P == out * k * in * den
           most == (q - p + 1) * in + out
           least == (q - p - 1) * in - out
           oka == out * k * a
           okb == out * k * b
           up == p * in + in + out
           uq == q * in + in + out
           G == P * (b - a) * in
<1>1. k \in Nat /\ A \in Nat /\ B \in Nat /\ P \in Nat /\ oka \in Nat /\ okb \in Nat
      /\ up \in Nat /\ uq \in Nat /\ most \in Int /\ least \in Int
  OBVIOUS
<1>2. p * A <= oka /\ oka * in <= up * A
  BY DEF Near
<1>3. q * B <= okb /\ okb * in <= uq * B
  BY DEF Near
<1>4. A <= B /\ A > 0
  <2>1. k * a <= k * b /\ den * in > 0
    BY <1>1
  <2> QED BY <1>1, <2>1
<1>5. G = (okb * A - oka * B) * in /\ G \in Nat
  <2>1. b - a \in Nat
    OBVIOUS
  <2>2. okb * A - oka * B = P * (b - a)
    BY <1>1
  <2> HIDE DEF k, A, B, P, oka, okb
  <2>3. P * (b - a) \in Nat
    BY <1>1, <2>1
  <2> QED BY <2>2, <2>3
<1>6. most = uq - p * in /\ least = q * in - up
  OBVIOUS
<1> HIDE DEF k, A, B, P, oka, okb, up, uq, most, least, G
<1>7. G <= most * (A * B)
  <2>1. (okb * in) * A <= (uq * B) * A
    BY <1>1, <1>3, MulGrows
  <2>2. (p * A) * (B * in) <= oka * (B * in)
    <3>1. B * in \in Nat /\ p * A \in Nat
      BY <1>1
    <3> QED BY <1>1, <1>2, <3>1, MulGrows
  <2>3. most * (A * B) = (uq * B) * A - (p * A) * (B * in)
    BY <1>1, <1>6
  <2>4. G = (okb * in) * A - oka * (B * in)
    BY <1>1, <1>5
  <2> QED BY <1>1, <2>1, <2>2, <2>3, <2>4
<1>8. least * (A * B) <= G
  <2>1. (oka * in) * B <= (up * A) * B
    BY <1>1, <1>2, MulGrows
  <2>2. (q * B) * (A * in) <= okb * (A * in)
    <3>1. A * in \in Nat /\ q * B \in Nat
      BY <1>1
    <3> QED BY <1>1, <1>3, <3>1, MulGrows
  <2>3. least * (A * B) = (q * B) * (A * in) - (up * A) * B
    BY <1>1, <1>6
  <2>4. G = okb * (A * in) - (oka * in) * B
    BY <1>1, <1>5
  <2> QED BY <1>1, <2>1, <2>2, <2>3, <2>4
<1>9. A * A <= A * B /\ A * B <= B * B /\ A * B > 0 /\ A * A \in Nat /\ B * B \in Nat /\ A * B \in Nat
  BY <1>1, <1>4
<1>10. G <= most * (B * B)
  <2>1. most >= 0
    <3>1. CASE most < 0
      <4>1. most * (A * B) < 0 /\ most * (A * B) \in Int
        BY <1>1, <1>9, <3>1
      <4> QED BY <1>5, <1>7, <4>1
    <3> QED BY <1>1, <3>1
  <2>2. (A * B) * most <= (B * B) * most
    BY <1>1, <1>9, <2>1, MulGrows
  <2> QED BY <1>1, <1>5, <1>7, <1>9, <2>2
<1>11. least * (A * A) <= G
  <2>1. CASE least <= 0
    <3>1. least * (A * A) <= 0
      BY <1>1, <1>9, <2>1
    <3> QED BY <1>1, <1>5, <1>9, <3>1
  <2>2. CASE least > 0
    <3>1. (A * A) * least <= (A * B) * least
      BY <1>1, <1>9, <2>2, MulGrows
    <3> QED BY <1>1, <1>5, <1>8, <1>9, <3>1
  <2> QED BY <1>1, <2>1, <2>2
<1>12. P * (A * A) <= P * (B * B)
  <2>1. A * A <= B * B
    BY <1>9
  <2>2. (A * A) * P <= (B * B) * P
    BY <1>1, <1>9, <2>1, MulGrows
  <2> QED BY <1>1, <1>9, <2>2
<1> QED BY <1>10, <1>11, <1>12 DEF k, A, B, P, most, least, G
-----------------------------------------------------------------------------
(* The quotes of a reachable venue. *)

\* The numbers a quote works with.
LEMMA VenueNumbers ==
  ASSUME VInv, NEW dir \in Directions
  PROVE  /\ In(dir) \in Nat /\ Out(dir) \in Nat
         /\ venue.calculate_result.num \in Nat /\ venue.calculate_result.den \in Nat
         /\ InputOf(dir, venue.pc_balance, venue.coin_balance) \in Nat
<1>1. venue \in Venue /\ venue.calculate_result \in CalculateResult
  BY DEF VInv, Venue
<1> QED BY <1>1, RaydiumAssumption
        DEF Venue, CalculateResult, U64, In, Out, InputOf, OutputOf

\* When a quote of n atoms is a number, and which.
LEMMA QuoteFacts ==
  ASSUME VInv, NEW dir \in Directions, NEW n \in Requests, n # 0
  PROVE  LET c == venue.calculate_result
             fee == SwapFee(n, c.num, c.den)
             q == swap_token_amount_base_in(n - fee, In(dir), Out(dir))
         IN  ExactIn(dir, n) =
               IF ~c.some \/ Overflows(dir, n, venue) \/ fee = Err \/ fee = 0 \/ fee > n THEN Err
               ELSE IF q < 0 THEN q
               ELSE IF q >= Out(dir) THEN Err
               ELSE q
<1>1. Err = -1
  BY DEF Err
<1> QED BY <1>1 DEF ExactIn, quote, swap_with_slippage, swap_exact_amount, ExactInAmount, In, Out

\* An empty request gets an empty quote.
LEMMA ZeroQuote ==
  ASSUME NEW dir, ExactIn(dir, 0) >= 0
  PROVE  ExactIn(dir, 0) = 0
<1>1. ExactIn(dir, 0) = Err \/ ExactIn(dir, 0) = 0
  BY DEF ExactIn, quote
<1> QED BY <1>1 DEF Err

\* Quotes are integers, two of which stand for an error and a panic.
LEMMA QuoteType ==
  ASSUME VInv, NEW dir \in Directions, NEW n \in Requests
  PROVE  ExactIn(dir, n) \in Int
<1>1. CASE n = 0
  <2>1. ExactIn(dir, n) = Err \/ ExactIn(dir, n) = 0
    BY <1>1 DEF ExactIn, quote
  <2> QED BY <2>1 DEF Err
<1>2. CASE n # 0
  <2> DEFINE c == venue.calculate_result
             fee == SwapFee(n, c.num, c.den)
             q == swap_token_amount_base_in(n - fee, In(dir), Out(dir))
  <2>1. /\ In(dir) \in Nat /\ Out(dir) \in Nat /\ c.num \in Nat /\ c.den \in Nat
        /\ n \in Nat \ {0}
    BY <1>2, VenueNumbers, RaydiumAssumption DEF U64
  <2>2. \/ ExactIn(dir, n) = Err
        \/ ExactIn(dir, n) = q /\ fee # Err /\ fee # 0 /\ ~(fee > n)
    BY <1>2, QuoteFacts
  <2> HIDE DEF c, q
  <2>3. ASSUME fee # Err, fee # 0, ~(fee > n) PROVE q \in Int
    <3>1. c.den # 0
      BY <2>3 DEF SwapFee, checked_ceil_div
    <3>2. n * c.num \in Nat
      BY <2>1
    <3>3. fee \in Nat
      BY <2>1, <3>1, <3>2, CeilDivFacts DEF SwapFee
    <3> HIDE DEF fee
    <3>4. n - fee \in Nat
      BY <2>1, <2>3, <3>3
    <3>5. CASE In(dir) + (n - fee) = 0
      BY <3>5 DEF q, swap_token_amount_base_in, Panic
    <3>6. CASE In(dir) + (n - fee) # 0
      BY <2>1, <3>4, <3>6, SoldFacts DEF q, Sold
    <3> QED BY <3>5, <3>6
  <2> QED BY <2>2, <2>3 DEF Err
<1> QED BY <1>1, <1>2

\* A quote that is a number, as the two roundings it consists of.
LEMMA QuoteIsSold ==
  ASSUME VInv, NEW dir \in Directions, NEW n \in Requests, n # 0, ExactIn(dir, n) >= 0
  PROVE  LET c == venue.calculate_result
             x == n - SwapFee(n, c.num, c.den)
         IN  /\ c.some /\ ~Overflows(dir, n, venue)
             /\ Kept(n, x, c.num, c.den)
             /\ Sold(x, ExactIn(dir, n), In(dir), Out(dir))
             /\ ExactIn(dir, n) = swap_token_amount_base_in(x, In(dir), Out(dir))
             /\ ExactIn(dir, n) < Out(dir)
<1> DEFINE c == venue.calculate_result
           fee == SwapFee(n, c.num, c.den)
           x == n - fee
           q == swap_token_amount_base_in(x, In(dir), Out(dir))
<1>1. /\ In(dir) \in Nat /\ Out(dir) \in Nat /\ c.num \in Nat /\ c.den \in Nat
      /\ n \in Nat \ {0}
  BY VenueNumbers, RaydiumAssumption DEF U64
<1>2. ExactIn(dir, n) =
        IF ~c.some \/ Overflows(dir, n, venue) \/ fee = Err \/ fee = 0 \/ fee > n THEN Err
        ELSE IF q < 0 THEN q
        ELSE IF q >= Out(dir) THEN Err
        ELSE q
  BY QuoteFacts
<1> HIDE DEF c, fee, x, q
<1>3. c.some /\ ~Overflows(dir, n, venue) /\ fee # Err /\ fee # 0 /\ ~(fee > n)
  <2>1. ASSUME ~c.some \/ Overflows(dir, n, venue) \/ fee = Err \/ fee = 0 \/ fee > n
        PROVE  FALSE
    <3>1. ExactIn(dir, n) = Err
      BY <1>2, <2>1
    <3> QED BY <3>1 DEF Err
  <2> QED BY <2>1
<1>4. fee \in Nat
  <2>1. c.den # 0
    BY <1>3 DEF fee, SwapFee, checked_ceil_div
  <2>2. n * c.num \in Nat
    BY <1>1
  <2> QED BY <1>1, <2>1, <2>2, CeilDivFacts DEF fee, SwapFee
<1>5. Kept(n, x, c.num, c.den) /\ x \in Nat
  <2>1. fee <= n
    BY <1>1, <1>3, <1>4
  <2> QED BY <1>1, <1>3, <1>4, <2>1, KeptFacts DEF fee, x
<1>6. ExactIn(dir, n) = IF q < 0 THEN q ELSE IF q >= Out(dir) THEN Err ELSE q
  BY <1>2, <1>3
<1>7. In(dir) + x # 0
  <2>1. ASSUME In(dir) + x = 0 PROVE FALSE
    <3>1. q = Panic
      BY <2>1 DEF q, swap_token_amount_base_in
    <3> QED BY <1>6, <3>1 DEF Panic, Err
  <2> QED BY <2>1
<1>8. Sold(x, q, In(dir), Out(dir)) /\ q \in Nat
  BY <1>1, <1>5, <1>7, SoldFacts DEF q, Sold
<1>9. q < Out(dir) /\ ExactIn(dir, n) = q
  BY <1>1, <1>6, <1>8 DEF Err
<1> QED BY <1>3, <1>5, <1>8, <1>9 DEF c, fee, x, q

\* No quoted swap lowers the product of the reserves or empties one of them.
THEOREM ProductIsKept == Spec => []ProductNeverShrinks
<1>1. VInv => ProductNeverShrinks
  <2> SUFFICES ASSUME VInv, NEW dir \in Directions, NEW n \in Requests, ExactIn(dir, n) > 0
               PROVE  /\ ExactIn(dir, n) < Out(dir)
                      /\ (In(dir) + n) * (Out(dir) - ExactIn(dir, n)) >= In(dir) * Out(dir)
    BY DEF ProductNeverShrinks
  <2> DEFINE c == venue.calculate_result
             x == n - SwapFee(n, c.num, c.den)
             q == ExactIn(dir, n)
             in == In(dir)
             out == Out(dir)
  <2>1. n \in Nat /\ in \in Nat /\ out \in Nat
    BY VenueNumbers, RaydiumAssumption DEF U64
  <2>2. q >= 0 /\ n # 0
    <3>1. q \in Int /\ q > 0
      BY QuoteType
    <3> QED BY <3>1, ZeroQuote
  <2>3. Kept(n, x, c.num, c.den) /\ Sold(x, q, in, out) /\ q < out
    BY <2>2, QuoteIsSold
  <2> HIDE DEF c, x, q, in, out
  <2>4. x \in Nat /\ x <= n /\ q \in Nat /\ q * (in + x) <= out * x
    BY <2>3 DEF Kept, Sold
  <2>5. (in + x) * (out - q) <= (in + n) * (out - q)
    <3>1. out - q \in Nat
      BY <2>1, <2>3, <2>4
    <3> QED BY <2>1, <2>4, <3>1, MulGrows
  <2>6. (in + x) * (out - q) = in * out + out * x - q * (in + x)
    BY <2>1, <2>4
  <2>7. (in + n) * (out - q) >= in * out
    BY <2>1, <2>4, <2>5, <2>6
  <2> QED BY <2>3, <2>7 DEF q, in, out
<1> QED BY <1>1, SpecVInv, PTL

\* With a fee below one half no input makes an ExactIn quote panic.
THEOREM ExactInQuotesNeverPanic == Spec => []ExactInNeverPanics
<1>1. VInv => ExactInNeverPanics
  <2> SUFFICES ASSUME VInv, NEW dir \in Directions, NEW n \in Requests,
                      2 * venue.calculate_result.num < venue.calculate_result.den,
                      ExactIn(dir, n) = Panic
               PROVE  FALSE
    BY DEF ExactInNeverPanics
  <2> DEFINE c == venue.calculate_result
             fee == SwapFee(n, c.num, c.den)
             x == n - fee
             s == swap_token_amount_base_in(x, In(dir), Out(dir))
  <2>1. n \in Nat /\ In(dir) \in Nat /\ Out(dir) \in Nat /\ c.num \in Nat /\ c.den \in Nat
    BY VenueNumbers, RaydiumAssumption DEF U64
  <2>2. n # 0
    <3>1. n = 0 => ExactIn(dir, n) \in {Err, 0}
      BY DEF ExactIn, quote
    <3> QED BY <3>1 DEF Err, Panic
  <2>3. ExactIn(dir, n) =
          IF ~c.some \/ Overflows(dir, n, venue) \/ fee = Err \/ fee = 0 \/ fee > n THEN Err
          ELSE IF s < 0 THEN s
          ELSE IF s >= Out(dir) THEN Err
          ELSE s
    BY <2>2, QuoteFacts
  <2>4. fee # Err /\ fee # 0 /\ ~(fee > n) /\ s = Panic
    BY <2>3 DEF Err, Panic
  <2>5. c.den > 0 /\ 2 * c.num < c.den /\ n * c.num \in Nat
    BY <2>1
  <2> DEFINE a == n * c.num
             f == a \div c.den
  <2>6. /\ fee \in Nat /\ fee <= f + 1 /\ (fee = 0 <=> 2 * a < c.den)
        /\ f \in Nat /\ c.den * f <= a
    <3>1. a \in Nat /\ c.den \in Nat \ {0}
      BY <2>1, <2>5
    <3>2. fee = checked_ceil_div(a, c.den)
      BY DEF SwapFee
    <3>3. f \in Nat /\ a % c.den \in 0 .. c.den - 1 /\ a = c.den * f + (a % c.den)
      BY <3>1, DivFacts
    <3> HIDE DEF fee, a, c, f
    <3>4. c.den * f <= a
      <4>1. c.den * f \in Nat /\ a % c.den \in Nat
        BY <3>1, <3>3
      <4> QED BY <3>1, <3>3, <4>1
    <3>5. fee \in Nat /\ fee <= f + 1 /\ (fee = 0 <=> 2 * a < c.den)
      BY <3>1, <3>2, CeilDivFacts DEF f
    <3> QED BY <3>3, <3>4, <3>5
  <2> HIDE DEF fee, f
  <2>7. n >= 2
    <3>1. n = 1 => a = c.num
      BY <2>1
    <3> QED BY <2>1, <2>2, <2>4, <2>5, <2>6, <3>1
  <2>8. 2 * f < n
    <3>1. 2 * a < n * c.den
      <4>1. n * (2 * c.num) < n * c.den
        BY <2>1, <2>2, <2>5
      <4> QED BY <2>1, <4>1
    <3>2. CASE 2 * f >= n
      <4>1. c.den * n <= c.den * (2 * f)
        BY <2>1, <2>6, <3>2
      <4> QED BY <2>1, <2>6, <3>1, <4>1
    <3> QED BY <2>1, <2>6, <3>2
  <2>9. x \in Nat /\ x > 0
    BY <2>1, <2>4, <2>6, <2>7, <2>8
  <2>10. s \in Nat
    <3>1. In(dir) + x # 0
      BY <2>1, <2>9
    <3> HIDE DEF x
    <3> QED BY <2>1, <2>9, <3>1, SoldFacts DEF Sold
  <2> QED BY <2>4, <2>10 DEF Panic
<1> QED BY <1>1, SpecVInv, PTL

\* Between two usable amounts every amount is usable: the fee grows past its dust
\* and stays below the amount, the overflow check only stops larger inputs, and
\* the output lies between the two.
THEOREM UsableAmountsAreAnInterval == Spec => []UsableIsInterval
<1>1. VInv => UsableIsInterval
  <2> SUFFICES ASSUME VInv, NEW dir \in Directions, NEW a \in Requests, NEW b \in Requests,
                      NEW c \in Requests, a < b, b < c, ExactIn(dir, a) > 0, ExactIn(dir, c) > 0
               PROVE  ExactIn(dir, b) > 0
    BY DEF UsableIsInterval
  <2> DEFINE num == venue.calculate_result.num
             den == venue.calculate_result.den
             in == In(dir)
             out == Out(dir)
             left(n) == n - SwapFee(n, num, den)
             fee == SwapFee(b, num, den)
             q == swap_token_amount_base_in(b - fee, in, out)
             p == ExactIn(dir, a)
             r == ExactIn(dir, c)
  <2>1. /\ a \in Nat /\ b \in Nat /\ c \in Nat /\ in \in Nat /\ out \in Nat
        /\ num \in Nat /\ den \in Nat /\ InputOf(dir, venue.pc_balance, venue.coin_balance) \in Nat
    BY VenueNumbers, RaydiumAssumption DEF U64
  <2>2. p \in Int /\ r \in Int /\ p >= 0 /\ r >= 0 /\ p > 0 /\ r > 0
    BY QuoteType
  <2>3. a # 0 /\ b # 0 /\ c # 0
    BY <2>1, <2>2, ZeroQuote
  <2>4. /\ venue.calculate_result.some
        /\ Kept(a, left(a), num, den) /\ Sold(left(a), p, in, out)
    BY <2>2, <2>3, QuoteIsSold
  <2>5. /\ Kept(c, left(c), num, den) /\ Sold(left(c), r, in, out) /\ r < out
        /\ ~Overflows(dir, c, venue)
    BY <2>2, <2>3, QuoteIsSold
  <2>6. ~Overflows(dir, b, venue)
    BY <2>1, <2>5, RaydiumAssumption DEF Overflows
  <2>7. den \in Nat \ {0} /\ num <= den
    <3> HIDE DEF num, den, left
    <3> QED BY <2>1, <2>4 DEF Kept
  <2>8. fee \in Nat /\ fee # 0
    <3>1. SwapFee(a, num, den) # 0
      <4>1. SwapFee(a, num, den) # Err /\ SwapFee(a, num, den) # 0
        <5>1. ExactIn(dir, a) # Err
          BY <2>2 DEF Err
        <5> QED BY <2>3, <5>1, QuoteFacts
      <4> QED BY <4>1
    <3> HIDE DEF num, den
    <3>2. a * num \in Nat /\ b * num \in Nat /\ a * num <= b * num
      BY <2>1
    <3>3. ~(2 * (a * num) < den)
      BY <2>7, <3>1, <3>2, CeilDivFacts DEF SwapFee
    <3>4. ~(2 * (b * num) < den)
      BY <2>1, <3>2, <3>3
    <3> QED BY <2>7, <3>2, <3>4, CeilDivFacts DEF SwapFee
  <2>9. fee <= b
    <3>1. den * (fee - 1) < b * num
      <4>1. b * num \in Nat /\ fee > 0
        BY <2>1, <2>8
      <4> HIDE DEF num, den
      <4> QED BY <2>7, <4>1, CeilDivFacts DEF SwapFee
    <3> HIDE DEF fee, num, den
    <3>2. b * num <= b * den
      BY <2>1, <2>7
    <3>3. CASE fee >= b + 1
      <4>1. den * b <= den * (fee - 1)
        BY <2>1, <2>7, <2>8, <3>3
      <4> QED BY <2>1, <2>8, <3>1, <3>2, <4>1
    <3> QED BY <2>1, <2>8, <3>3
  <2>10. Kept(b, left(b), num, den)
    <3>1. fee # Err
      BY <2>8 DEF Err
    <3> QED BY <2>1, <2>3, <2>8, <2>9, <3>1, KeptFacts
  <2> HIDE DEF num, den, in, out, left, p, r
  <2>11. left(a) \in Nat /\ left(b) \in Nat /\ left(c) \in Nat /\ left(a) <= left(b) /\ left(b) <= left(c)
    <3>1. left(a) \in Nat /\ left(b) \in Nat /\ left(c) \in Nat
      BY <2>4, <2>5, <2>10 DEF Kept
    <3>2. left(a) <= left(b)
      BY <2>1, <2>4, <2>10, KeptGrows
    <3>3. left(b) <= left(c)
      BY <2>1, <2>5, <2>10, KeptGrows
    <3> QED BY <3>1, <3>2, <3>3
  <2>12. in + left(b) # 0
    BY <2>1, <2>4, <2>11 DEF Sold
  <2>13. Sold(left(b), q, in, out)
    <3>1. q = swap_token_amount_base_in(left(b), in, out)
      BY DEF left
    <3> HIDE DEF q
    <3>2. Sold(left(b), swap_token_amount_base_in(left(b), in, out), in, out)
      BY <2>1, <2>11, <2>12, SoldFacts
    <3> QED BY <3>1, <3>2
  <2> HIDE DEF fee, q
  <2>14. p <= q /\ q <= r
    BY <2>1, <2>4, <2>5, <2>11, <2>13, SoldGrows
  <2>15. q \in Nat /\ q > 0 /\ q < out
    BY <2>1, <2>2, <2>5, <2>13, <2>14 DEF Sold
  <2>16. ExactIn(dir, b) =
           IF ~venue.calculate_result.some \/ Overflows(dir, b, venue)
              \/ fee = Err \/ fee = 0 \/ fee > b THEN Err
           ELSE IF q < 0 THEN q
           ELSE IF q >= out THEN Err
           ELSE q
    BY <2>3, QuoteFacts DEF fee, q, num, den, in, out
  <2>17. ExactIn(dir, b) = q
    BY <2>1, <2>4, <2>6, <2>8, <2>9, <2>15, <2>16 DEF Err
  <2> QED BY <2>15, <2>17
<1> QED BY <1>1, SpecVInv, PTL

\* A quote that is a number is near the exact output.
LEMMA QuoteIsNear ==
  ASSUME VInv, NEW dir \in Directions, NEW n \in Requests, ExactIn(dir, n) >= 0
  PROVE  /\ ExactIn(dir, n) \in Nat
         /\ Near(n, ExactIn(dir, n), In(dir), Out(dir),
                 venue.calculate_result.num, venue.calculate_result.den)
            \/ venue.calculate_result.num > venue.calculate_result.den
<1> DEFINE num == venue.calculate_result.num
           den == venue.calculate_result.den
           in == In(dir)
           out == Out(dir)
           q == ExactIn(dir, n)
<1>1. n \in Nat /\ in \in Nat /\ out \in Nat /\ num \in Nat /\ den \in Nat
  BY VenueNumbers, RaydiumAssumption DEF U64
<1>2. CASE n = 0
  <2>1. q = 0
    BY <1>2, ZeroQuote
  <2> HIDE DEF num, den, in, out, q
  <2>2. ASSUME num <= den PROVE Near(n, q, in, out, num, den)
    <3>1. out * (den - num) * n = 0 /\ q * (den * in + (den - num) * n) = 0
      BY <1>1, <1>2, <2>1
    <3>2. out * (den - num) * n * in = 0
      BY <1>1, <3>1
    <3>3. (q * in + in + out) * (den * in + (den - num) * n) >= 0
      <4>1. q * in + in + out \in Nat /\ den * in + (den - num) * n \in Nat
        BY <1>1, <1>2, <2>1, <2>2
      <4> QED BY <4>1
    <3> QED BY <3>1, <3>2, <3>3 DEF Near
  <2> QED BY <1>1, <2>1, <2>2 DEF num, den, in, out, q
<1>3. CASE n # 0
  <2>1. /\ Kept(n, n - SwapFee(n, num, den), num, den)
        /\ Sold(n - SwapFee(n, num, den), q, in, out)
    BY <1>3, QuoteIsSold
  <2> HIDE DEF num, den, in, out, q
  <2>2. q \in Nat /\ Near(n, q, in, out, num, den)
    BY <1>1, <2>1, SoldIsNear DEF Sold
  <2> QED BY <2>2 DEF num, den, in, out, q
<1> QED BY <1>2, <1>3

\* The trait's pricing requirements hold for quote() and price() on every pool with
\* reserves: outputs grow, prices fall, and the prices bracket the realised rate.
THEOREM PricingIsAsRequired == Spec => []PricingRequirements
<1>1. VInv => PricingRequirements
  <2> SUFFICES ASSUME VInv, NEW dir \in Directions, NEW a \in Requests, NEW b \in Requests,
                      a < b, ExactIn(dir, a) >= 0, ExactIn(dir, b) >= 0,
                      In(dir) > 0, Out(dir) > 0
               PROVE  LET gained == ExactIn(dir, b) - ExactIn(dir, a)
                          pa == price(venue.calculate_result, dir, a)
                          pb == price(venue.calculate_result, dir, b)
                          most == (gained + 1) * In(dir) + Out(dir)
                          least == (gained - 1) * In(dir) - Out(dir)
                      IN  /\ gained >= 0
                          /\ venue.calculate_result.num < venue.calculate_result.den => 0 < pb[1]
                          /\ pb[1] * pa[2] <= pa[1] * pb[2]
                          /\ pb[1] * (b - a) * In(dir) <= most * pb[2]
                          /\ least * pa[2] <= pa[1] * (b - a) * In(dir)
    BY DEF PricingRequirements
  <2> DEFINE num == venue.calculate_result.num
             den == venue.calculate_result.den
             in == In(dir)
             out == Out(dir)
             p == ExactIn(dir, a)
             q == ExactIn(dir, b)
             k == den - num
             A == den * in + k * a
             B == den * in + k * b
             P == out * k * in * den
             left(n) == n - SwapFee(n, num, den)
  <2>1. /\ a \in Nat /\ b \in Nat \ {0} /\ in \in Nat \ {0} /\ out \in Nat \ {0}
        /\ num \in Nat /\ den \in Nat
    BY VenueNumbers, RaydiumAssumption DEF U64
  <2>2. Kept(b, left(b), num, den) /\ Sold(left(b), q, in, out)
    BY <2>1, QuoteIsSold
  <2>3. den \in Nat \ {0} /\ num <= den /\ k \in Nat
    <3> HIDE DEF num, den, left
    <3> QED BY <2>1, <2>2 DEF Kept
  <2>4. /\ p \in Nat /\ q \in Nat
        /\ Near(a, p, in, out, num, den) /\ Near(b, q, in, out, num, den)
    BY <2>1, <2>3, QuoteIsNear
  <2>5. p <= q
    <3>1. CASE a = 0
      <4>1. p = 0
        BY <3>1, ZeroQuote
      <4> QED BY <2>4, <4>1
    <3>2. CASE a # 0
      <4>1. Kept(a, left(a), num, den) /\ Sold(left(a), p, in, out)
        BY <3>2, QuoteIsSold
      <4> HIDE DEF num, den, in, out, left, p, q
      <4>2. left(a) \in Nat /\ left(b) \in Nat
        BY <2>2, <4>1 DEF Kept
      <4>3. left(a) <= left(b)
        BY <2>1, <2>2, <4>1, KeptGrows
      <4> QED BY <2>1, <2>2, <4>1, <4>2, <4>3, SoldGrows
    <3> QED BY <3>1, <3>2
  <2>6. /\ price(venue.calculate_result, dir, a) = <<P, A * A>>
        /\ price(venue.calculate_result, dir, b) = <<P, B * B>>
    BY <2>3 DEF price, In, Out
  <2>7. num < den => 0 < P
    <3> HIDE DEF num, den, in, out
    <3>1. ASSUME num < den PROVE out * k > 0 /\ in * den > 0
      <4>1. k > 0
        BY <2>1, <2>3, <3>1
      <4> HIDE DEF k
      <4> QED BY <2>1, <2>3, <4>1
    <3>2. P = (out * k) * (in * den)
      BY <2>1, <2>3
    <3> HIDE DEF k, P
    <3>3. out * k \in Nat /\ in * den \in Nat
      BY <2>1, <2>3
    <3> QED BY <3>1, <3>2, <3>3
  <2>8. LET most == (q - p + 1) * in + out
            least == (q - p - 1) * in - out
        IN  /\ P * (b - a) * in <= most * (B * B)
            /\ least * (A * A) <= P * (b - a) * in
            /\ P * (A * A) <= P * (B * B)
    <3> HIDE DEF num, den, in, out, p, q
    <3> QED BY <2>1, <2>3, <2>4, NearChord
  <2>9. q - p >= 0
    <3> HIDE DEF p, q
    <3> QED BY <2>4, <2>5
  <2> QED BY <2>6, <2>7, <2>8, <2>9
<1> QED BY <1>1, SpecVInv, PTL
=============================================================================
