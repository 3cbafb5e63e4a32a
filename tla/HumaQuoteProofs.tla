--------------------------- MODULE HumaQuoteProofs --------------------------
(***************************************************************************)
(* Proofs about HumaQuote for every snapshot of a pool, every fee schedule *)
(* of any length, and every sequence of requests.                          *)
(***************************************************************************)
EXTENDS HumaQuote, FiniteSetTheorems, WellFoundedInduction, TLAPS

\* A bracket that is served is not followed by one that charges more than all.
FeesFair(b) ==
  \A m, n \in 1 .. Len(b) :
    m <= n /\ b[m].fee_bps < HundredPct => b[n].fee_bps <= HundredPct

-----------------------------------------------------------------------------
(* Natural numbers. *)

LEMMA MulGrows ==
  ASSUME NEW a \in Int, NEW b \in Int, NEW c \in Nat, a <= b
  PROVE  a * c <= b * c
OBVIOUS

LEMMA BelowSum ==
  ASSUME NEW a \in Int, NEW b \in Int, NEW c \in Int, NEW e \in Int,
         a <= b, b <= c, 0 < e
  PROVE  a < c + e
OBVIOUS

LEMMA DivFacts ==
  ASSUME NEW a \in Nat, NEW b \in Nat \ {0}
  PROVE  /\ a \div b \in Nat
         /\ (a \div b) * b <= a /\ a < (a \div b + 1) * b
<1> DEFINE q == a \div b
           r == a % b
<1>1. q \in Nat /\ r \in 0 .. b - 1 /\ a = b * q + r
  OBVIOUS
<1> HIDE DEF q, r
<1>2. q * b <= a /\ a < (q + 1) * b
  BY <1>1
<1> QED BY <1>1, <1>2 DEF q

\* q * b <= a < (r + 1) * b orders two quotients.
LEMMA QuotientOrder ==
  ASSUME NEW q \in Int, NEW r \in Int, NEW b \in Nat \ {0}, q * b < (r + 1) * b
  PROVE  q <= r
<1>1. CASE q >= r + 1
  <2>1. (r + 1) * b <= q * b
    BY <1>1, MulGrows
  <2>2. (r + 1) * b \in Int /\ q * b \in Int
    OBVIOUS
  <2> QED BY <2>1, <2>2
<1> QED BY <1>1

\* Quotients grow with the dividend.
LEMMA DivGrows ==
  ASSUME NEW a \in Nat, NEW c \in Nat, NEW b \in Nat \ {0}, a <= c
  PROVE  a \div b <= c \div b
<1> DEFINE q == a \div b
           r == c \div b
<1>1. q \in Nat /\ r \in Nat /\ q * b <= a /\ c < (r + 1) * b
  BY DivFacts
<1> HIDE DEF q, r
<1>2. q * b < (r + 1) * b
  BY <1>1
<1>3. q <= r
  BY <1>1, <1>2, QuotientOrder
<1> QED BY <1>3 DEF q, r

\* Every set of natural numbers that is not empty has a least element.
LEMMA LeastNat ==
  ASSUME NEW T, T \subseteq Nat, T # {}
  PROVE  \E x \in T : \A y \in T : x <= y
<1>1. PICK x \in T : \A y \in T : ~(<<y, x>> \in OpToRel(<, Nat))
  BY NatLessThanWellFounded, WFMin
<1>2. ASSUME NEW y \in T PROVE x <= y
  <2>1. ~(<<y, x>> \in {ss \in Nat \X Nat : ss[1] < ss[2]})
    BY <1>1 DEF OpToRel
  <2> QED BY <2>1
<1> QED BY <1>2

-----------------------------------------------------------------------------
(* Where the loop leaves a bracket. *)

Boundary(L, T, H, r) == (L * H - r * T) \div (H - r)

\* The liquid part of a pool falls below ratio r after Boundary atoms, not before.
LEMMA BoundaryFacts ==
  ASSUME NEW L \in Nat, NEW T \in Nat, L <= T, NEW H \in Nat, NEW r \in Nat, r < H,
         r * T <= L * H
  PROVE  /\ Boundary(L, T, H, r) \in Nat
         /\ Boundary(L, T, H, r) <= L
         /\ Boundary(L, T, H, r) * (H - r) <= L * H - r * T
         /\ L * H - r * T < (Boundary(L, T, H, r) + 1) * (H - r)
<1> DEFINE e == Boundary(L, T, H, r)
<1>1. L * H - r * T \in Nat /\ H - r \in Nat \ {0}
  OBVIOUS
<1>2. e \in Nat /\ e * (H - r) <= L * H - r * T /\ L * H - r * T < (e + 1) * (H - r)
  BY <1>1, DivFacts DEF Boundary
<1> HIDE DEF e
<1>3. e <= L
  <2>1. r * L <= r * T
    OBVIOUS
  <2>2. L * (H - r) = L * H - r * L
    OBVIOUS
  <2>3. (L + 1) * (H - r) = L * (H - r) + (H - r)
    OBVIOUS
  <2>4. e * (H - r) < (L + 1) * (H - r)
    BY <1>1, <1>2, <2>1, <2>2, <2>3
  <2> QED BY <1>1, <1>2, <2>4, QuotientOrder
<1> QED BY <1>2, <1>3 DEF e

\* Lower ratios are reached later.
LEMMA BoundaryOrder ==
  ASSUME NEW L \in Nat, NEW T \in Nat, L <= T, NEW H \in Nat, NEW r \in Nat, NEW s \in Nat,
         r < s, s < H, s * T <= L * H
  PROVE  r * T <= L * H /\ Boundary(L, T, H, s) <= Boundary(L, T, H, r)
<1> DEFINE e == Boundary(L, T, H, s)
           f == Boundary(L, T, H, r)
<1>1. r * T <= s * T
  OBVIOUS
<1>2. r * T <= L * H
  BY <1>1
<1>3. e \in Nat /\ e <= L /\ e * (H - s) <= L * H - s * T
  BY BoundaryFacts
<1>4. f \in Nat /\ L * H - r * T < (f + 1) * (H - r)
  BY <1>2, BoundaryFacts
<1> HIDE DEF e, f
<1>5. e * (s - r) <= T * (s - r)
  BY <1>3
<1>6. e * (H - r) = e * (H - s) + e * (s - r) /\ L * H - r * T = (L * H - s * T) + T * (s - r)
  BY <1>3
<1>7. e * (H - r) < (f + 1) * (H - r)
  BY <1>3, <1>4, <1>5, <1>6
<1> QED BY <1>2, <1>3, <1>4, <1>7, QuotientOrder DEF e, f

\* Ratio r matches once w atoms of the pool are gone.
Below(L, T, H, r, w) == SatSub(L, w) * H <= r * SatSub(T, w)

\* A ratio that matches goes on matching.
LEMMA BelowStays ==
  ASSUME NEW L \in Nat, NEW T \in Nat, L <= T, NEW H \in Nat, NEW r \in Nat, r <= H,
         NEW v \in Nat, NEW w \in Nat, v <= w, w < T, Below(L, T, H, r, v)
  PROVE  Below(L, T, H, r, w)
<1>1. SatSub(T, v) = T - v /\ SatSub(T, w) = T - w
  BY DEF SatSub
<1>2. CASE w >= L
  <2>1. SatSub(L, w) = 0
    BY <1>2 DEF SatSub
  <2>2. r * (T - w) >= 0
    OBVIOUS
  <2> QED BY <1>1, <2>1, <2>2 DEF Below
<1>3. CASE w < L
  <2>1. SatSub(L, v) = L - v /\ SatSub(L, w) = L - w
    BY <1>3 DEF SatSub
  <2>2. (L - v) * H <= r * (T - v)
    BY <1>1, <2>1 DEF Below
  <2>3. r * (w - v) <= H * (w - v)
    OBVIOUS
  <2>4. (L - v) * H - (L - w) * H = H * (w - v) /\ r * (T - v) - r * (T - w) = r * (w - v)
    OBVIOUS
  <2>5. (L - w) * H <= r * (T - w)
    BY <2>2, <2>3, <2>4
  <2> QED BY <1>1, <2>1, <2>5 DEF Below
<1> QED BY <1>2, <1>3

\* A ratio that matches after w atoms has its boundary at or before w.
LEMMA BelowIsPast ==
  ASSUME NEW L \in Nat, NEW T \in Nat, L <= T, NEW H \in Nat, NEW r \in Nat, r < H,
         r * T <= L * H, NEW w \in Nat, w < T
  PROVE  IF Below(L, T, H, r, w) THEN Boundary(L, T, H, r) <= w ELSE w <= Boundary(L, T, H, r)
<1> DEFINE e == Boundary(L, T, H, r)
           h == H - r
<1>1. /\ e \in Nat /\ e <= L /\ e * h <= L * H - r * T /\ L * H - r * T < (e + 1) * h
      /\ h \in Nat \ {0}
  BY BoundaryFacts
<1>2. SatSub(T, w) = T - w
  BY DEF SatSub
<1>3. CASE w >= L
  <2>1. SatSub(L, w) = 0
    BY <1>3 DEF SatSub
  <2>2. r * (T - w) >= 0
    OBVIOUS
  <2>3. Below(L, T, H, r, w)
    BY <1>2, <2>1, <2>2 DEF Below
  <2> QED BY <1>1, <1>3, <2>3
<1>4. CASE w < L
  <2>1. Below(L, T, H, r, w) <=> (L - w) * H <= r * (T - w)
    BY <1>2, <1>4 DEF Below, SatSub
  <2>2. (L - w) * H - r * (T - w) = (L * H - r * T) - w * h
    OBVIOUS
  <2> HIDE DEF e, h
  <2>3. (L - w) * H \in Int /\ r * (T - w) \in Int /\ L * H - r * T \in Int /\ w * h \in Int
        /\ e * h \in Int
    BY <1>1
  <2>4. CASE Below(L, T, H, r, w)
    <3>1. L * H - r * T <= w * h
      BY <2>1, <2>2, <2>3, <2>4
    <3>2. e * h < (w + 1) * h
      <4>1. (w + 1) * h = w * h + h
        BY <1>1
      <4> QED BY <1>1, <2>3, <3>1, <4>1
    <3>3. e <= w
      BY <1>1, <3>2, QuotientOrder
    <3> QED BY <2>4, <3>3 DEF e
  <2>5. CASE ~Below(L, T, H, r, w)
    <3>1. w * h < L * H - r * T
      BY <2>1, <2>2, <2>3, <2>5
    <3>2. w * h < (e + 1) * h
      BY <1>1, <2>3, <3>1
    <3>3. w <= e
      BY <1>1, <3>2, QuotientOrder
    <3> QED BY <2>5, <3>3 DEF e
  <2> QED BY <2>4, <2>5
<1> QED BY <1>3, <1>4

-----------------------------------------------------------------------------
(* A quote reads one snapshot. *)

LEMMA PoolNumbersKept ==
  ASSUME pool' = pool
  PROVE  /\ cached_assets' = cached_assets
         /\ refreshed_assets' = refreshed_assets
         /\ refreshed_total_assets' = refreshed_total_assets
         /\ get_available_balance' = get_available_balance
         /\ liquid_assets_before' = liquid_assets_before
         /\ max_servable_underlying' = max_servable_underlying
         /\ max_shares' = max_shares
         /\ deposit_price' = deposit_price
<1>0. cached_assets' = cached_assets
  BY DEF cached_assets
<1>1. refreshed_assets' = refreshed_assets
  BY <1>0 DEF refreshed_assets
<1>2. refreshed_total_assets' = refreshed_total_assets
  BY <1>0, <1>1 DEF refreshed_total_assets
<1>3. get_available_balance' = get_available_balance
  BY DEF get_available_balance
<1>4. liquid_assets_before' = liquid_assets_before
  BY <1>2, <1>3 DEF liquid_assets_before
<1>5. max_servable_underlying' = max_servable_underlying
  BY <1>1, <1>3 DEF max_servable_underlying
<1>6. max_shares' = max_shares
  BY <1>1, <1>5 DEF max_shares
<1>7. deposit_price' = deposit_price
  BY <1>1 DEF deposit_price
<1> QED BY <1>0, <1>1, <1>2, <1>3, <1>4, <1>5, <1>6, <1>7

LEMMA PoolOperatorsKept ==
  ASSUME pool' = pool
  PROVE  /\ i_start' = i_start
         /\ \A w : i_end(w)' = i_end(w)
         /\ \A n : withdrawal_amount(n)' = withdrawal_amount(n)
         /\ \A n : shares_to_serve(n)' = shares_to_serve(n)
         /\ \A n : shares_for_deposit(n)' = shares_for_deposit(n)
         /\ \A w : marginal_fee_bps(w)' = marginal_fee_bps(w)
         /\ \A n : instant_withdraw_price(n)' = instant_withdraw_price(n)
<1>1. ASSUME NEW l, NEW t PROVE BracketAt(l, t)' = BracketAt(l, t)
  BY DEF BracketAt
<1>2. i_start' = i_start /\ \A w : i_end(w)' = i_end(w)
  BY <1>1, PoolNumbersKept DEF i_start, i_end
<1>3. \A n : withdrawal_amount(n)' = withdrawal_amount(n)
  BY PoolNumbersKept DEF withdrawal_amount
<1>4. \A n : shares_to_serve(n)' = shares_to_serve(n)
  BY PoolNumbersKept DEF shares_to_serve
<1>5. \A n : shares_for_deposit(n)' = shares_for_deposit(n)
  BY PoolNumbersKept DEF shares_for_deposit
<1>6. \A w : marginal_fee_bps(w)' = marginal_fee_bps(w)
  BY <1>2, PoolNumbersKept DEF marginal_fee_bps
<1>7. \A n : instant_withdraw_price(n)' = instant_withdraw_price(n)
  BY <1>3, <1>6, PoolNumbersKept DEF instant_withdraw_price
<1> QED BY <1>2, <1>3, <1>4, <1>5, <1>6, <1>7
-----------------------------------------------------------------------------
(* The numbers of a snapshot. *)

LEMMA PoolFields ==
  ASSUME Decoded(pool)
  PROVE  /\ MaxU64 \in Nat /\ HundredPct \in Nat \ {0}
         /\ pool \in Pool /\ Ascending(pool.brackets)
         /\ pool.current_ts \in Nat /\ pool.assets_refreshed_at \in Nat
         /\ pool.assets \in Nat /\ pool.others \in Nat /\ pool.mode_supply \in U64
         /\ pool.balance \in U64 /\ pool.disbursement_reserve \in Nat
         /\ pool.reserve_limit \in U64 /\ pool.liquid_assets_deployed \in U64
         /\ pool.strategy \in U64 /\ pool.brackets \in Seq(FeeBracket)
         /\ pool.liquidity_cap \in Nat
<1>1. pool \in Pool /\ Ascending(pool.brackets) /\ MaxU64 \in Nat /\ HundredPct \in Nat \ {0}
  BY QuoteAssumption DEF Decoded
<1> QED BY <1>1 DEF Pool

\* A number of a u64 is not truncated.
LEMMA Fits ==
  ASSUME NEW x \in Nat, x <= MaxU64, MaxU64 \in Nat
  PROVE  AsU64(x) = x /\ AsU64(x) \in U64
BY DEF AsU64, U64

LEMMA AsU64Type ==
  ASSUME NEW x \in Nat, MaxU64 \in Nat
  PROVE  AsU64(x) \in U64
BY DEF AsU64, U64

LEMMA SatAddFacts ==
  ASSUME NEW x \in U64, NEW y \in U64, MaxU64 \in Nat
  PROVE  SatAdd(x, y) \in U64 /\ SatAdd(x, y) <= x + y
BY DEF SatAdd, U64

LEMMA PoolNumbers ==
  ASSUME Decoded(pool)
  PROVE  /\ refreshed_assets \in U64
         /\ refreshed_total_assets \in U64
         /\ get_available_balance \in U64
         /\ liquid_assets_before \in U64
         /\ liquid_assets_before <= refreshed_total_assets
         /\ max_servable_underlying \in U64
         /\ max_servable_underlying <= refreshed_assets
         /\ max_servable_underlying <= get_available_balance + pool.strategy
<1> USE PoolFields
<1>0. cached_assets \in U64 /\ AsU64(pool.disbursement_reserve) \in U64
  BY AsU64Type DEF cached_assets
<1>1. refreshed_assets \in U64
  <2> DEFINE s == SatSub(pool.current_ts, pool.assets_refreshed_at)
  <2>1. s \in 0 .. pool.current_ts
    BY DEF SatSub
  <2>2. Accrue(cached_assets, pool.apy, s) \in U64
    BY <1>0, <2>1 DEF Decoded
  <2> QED BY <1>0, <2>2 DEF refreshed_assets
<1>2. refreshed_total_assets \in U64
  <2>1. pool.assets + pool.others \in Nat
    OBVIOUS
  <2>2. AsU64(pool.assets + pool.others) \in U64
    BY <2>1, AsU64Type
  <2>3. SatSub(refreshed_assets, cached_assets) \in U64
    BY <1>0, <1>1 DEF SatSub, U64
  <2> QED BY <2>2, <2>3, SatAddFacts DEF refreshed_total_assets
<1>3. get_available_balance \in U64
  BY <1>0 DEF get_available_balance, SatSub, U64
<1>4. SatAdd(pool.liquid_assets_deployed, get_available_balance) \in U64
  BY <1>3, SatAddFacts
<1>5. liquid_assets_before \in U64 /\ liquid_assets_before <= refreshed_total_assets
  BY <1>2, <1>4 DEF liquid_assets_before, Lesser, U64
<1>6. /\ SatAdd(get_available_balance, pool.strategy) \in U64
      /\ SatAdd(get_available_balance, pool.strategy) <= get_available_balance + pool.strategy
  BY <1>3, SatAddFacts
<1>7. /\ max_servable_underlying \in U64 /\ max_servable_underlying <= refreshed_assets
      /\ max_servable_underlying <= get_available_balance + pool.strategy
  <2> DEFINE b == SatAdd(get_available_balance, pool.strategy)
  <2>1. max_servable_underlying = Lesser(b, refreshed_assets)
    BY DEF max_servable_underlying
  <2> HIDE DEF b
  <2>2. b \in U64 /\ b <= get_available_balance + pool.strategy
    BY <1>6 DEF b
  <2> QED BY <1>1, <1>3, <2>1, <2>2 DEF Lesser, U64
<1> QED BY <1>1, <1>2, <1>3, <1>5, <1>7

LEMMA Figures ==
  ASSUME Decoded(pool)
  PROVE  /\ liquid_assets_before \in Nat /\ refreshed_total_assets \in Nat
         /\ liquid_assets_before <= refreshed_total_assets
         /\ liquid_assets_before <= MaxU64
         /\ refreshed_assets \in Nat /\ pool.mode_supply \in Nat
         /\ max_servable_underlying \in Nat /\ max_servable_underlying <= MaxU64
         /\ HundredPct \in Nat \ {0} /\ MaxU64 \in Nat
<1>1. HundredPct \in Nat \ {0} /\ MaxU64 \in Nat /\ pool.mode_supply \in U64
  BY PoolFields
<1>2. /\ liquid_assets_before \in U64 /\ refreshed_total_assets \in U64
      /\ liquid_assets_before <= refreshed_total_assets
      /\ refreshed_assets \in U64 /\ max_servable_underlying \in U64
  BY PoolNumbers
<1> QED BY <1>1, <1>2 DEF U64

\* The shares that are served: no more than exist, nor than the pool can pay for.
LEMMA MaxSharesFacts ==
  ASSUME Decoded(pool)
  PROVE  /\ max_shares \in U64 /\ max_shares <= pool.mode_supply
         /\ max_shares * refreshed_assets <= max_servable_underlying * pool.mode_supply
<1> USE PoolFields, PoolNumbers
<1> DEFINE A == refreshed_assets
           M == max_servable_underlying
           S == pool.mode_supply
           q == (M * S) \div A
<1>1. A \in Nat /\ M \in Nat /\ S \in Nat /\ M <= A /\ S <= MaxU64
  BY DEF U64
<1>2. max_shares = IF A = 0 THEN 0 ELSE AsU64(q)
  BY DEF max_shares
<1>3. CASE A = 0
  <2>1. max_shares = 0 /\ M * S \in Nat
    BY <1>1, <1>2, <1>3
  <2> QED BY <1>1, <1>3, <2>1 DEF U64
<1>4. CASE A # 0
  <2>1. M * S \in Nat
    BY <1>1
  <2>2. q \in Nat /\ q * A <= M * S
    BY <1>1, <1>4, <2>1, DivFacts
  <2> HIDE DEF A, M, S, q
  <2>3. M * S <= A * S
    BY <1>1, MulGrows
  <2>4. (S + 1) * A = A * S + A
    BY <1>1
  <2>5. q * A < (S + 1) * A
    <3>1. q * A \in Int /\ A * S \in Int /\ 0 < A
      BY <1>1, <1>4, <2>2
    <3> QED BY <1>1, <2>1, <2>2, <2>3, <2>4, <3>1, BelowSum
  <2>6. q <= S
    BY <1>1, <1>4, <2>2, <2>5, QuotientOrder
  <2>7. AsU64(q) = q /\ AsU64(q) \in U64
    BY <1>1, <2>2, <2>6, Fits
  <2> QED BY <1>2, <1>4, <2>2, <2>6, <2>7 DEF A, M, S
<1> QED BY <1>3, <1>4
\* What a withdrawal of x served shares is worth: x * assets \div supply, rounded
\* down and not truncated, and no more than the pool and its strategy can pay.
LEMMA WithdrawalFacts ==
  ASSUME Decoded(pool), pool.mode_supply # 0, NEW x \in U64, x <= max_shares
  PROVE  /\ withdrawal_amount(x) \in U64
         /\ withdrawal_amount(x) * pool.mode_supply <= x * refreshed_assets
         /\ x * refreshed_assets < (withdrawal_amount(x) + 1) * pool.mode_supply
         /\ withdrawal_amount(x) <= max_servable_underlying
<1> DEFINE A == refreshed_assets
           M == max_servable_underlying
           S == pool.mode_supply
           q == (x * A) \div S
<1>1. /\ A \in Nat /\ M \in Nat /\ S \in Nat \ {0} /\ M <= MaxU64 /\ x \in Nat
      /\ max_shares \in Nat /\ MaxU64 \in Nat
  BY Figures, MaxSharesFacts DEF U64
<1>2. withdrawal_amount(x) = AsU64(q)
  BY DEF withdrawal_amount
<1>3. max_shares * A <= M * S
  BY MaxSharesFacts
<1>4. x * A \in Nat
  BY <1>1
<1>5. q \in Nat /\ q * S <= x * A /\ x * A < (q + 1) * S
  BY <1>1, <1>4, DivFacts
<1> HIDE DEF A, M, S, q
<1>6. x * A <= max_shares * A
  BY <1>1, MulGrows
<1>7. (M + 1) * S = M * S + S
  BY <1>1
<1>8. max_shares * A \in Nat /\ M * S \in Nat /\ q * S \in Nat
  BY <1>1, <1>5
<1>9. q * S < (M + 1) * S
  BY <1>1, <1>3, <1>4, <1>5, <1>6, <1>7, <1>8
<1>10. q <= M
  BY <1>1, <1>5, <1>9, QuotientOrder
<1>11. AsU64(q) = q /\ AsU64(q) \in U64
  BY <1>1, <1>5, <1>10, Fits
<1> QED BY <1>2, <1>5, <1>10, <1>11 DEF A, M, S

LEMMA ServedFacts ==
  ASSUME Decoded(pool), NEW n \in U64
  PROVE  /\ shares_to_serve(n) \in U64 /\ shares_to_serve(n) <= n
         /\ shares_to_serve(n) <= max_shares /\ shares_to_serve(n) <= pool.mode_supply
<1>1. max_shares \in U64 /\ max_shares <= pool.mode_supply /\ MaxU64 \in Nat /\ pool.mode_supply \in U64
  BY MaxSharesFacts, PoolFields
<1> QED BY <1>1 DEF shares_to_serve, Lesser, U64

\* More shares are worth no less.
LEMMA WithdrawalGrows ==
  ASSUME Decoded(pool), pool.mode_supply # 0,
         NEW x \in U64, NEW y \in U64, x <= y, y <= max_shares
  PROVE  withdrawal_amount(x) <= withdrawal_amount(y)
<1> DEFINE A == refreshed_assets
           S == pool.mode_supply
           v == withdrawal_amount(x)
           w == withdrawal_amount(y)
<1>1. A \in Nat /\ S \in Nat \ {0} /\ x \in Nat /\ y \in Nat /\ max_shares \in Nat
  BY Figures, MaxSharesFacts DEF U64
<1>2. x <= max_shares
  BY <1>1
<1>3. v \in U64 /\ v * S <= x * A /\ w \in U64 /\ y * A < (w + 1) * S
  BY <1>2, WithdrawalFacts
<1> HIDE DEF A, S, v, w
<1>4. x * A <= y * A
  BY <1>1, MulGrows
<1>5. v \in Nat /\ w \in Nat
  BY <1>3 DEF U64
<1>6. v * S < (w + 1) * S
  BY <1>1, <1>3, <1>4, <1>5
<1>7. v <= w
  BY <1>1, <1>5, <1>6, QuotientOrder
<1> QED BY <1>7 DEF v, w

LEMMA ServedGrows ==
  ASSUME Decoded(pool), NEW m \in U64, NEW n \in U64, m <= n
  PROVE  shares_to_serve(m) <= shares_to_serve(n)
<1>1. max_shares \in U64 /\ MaxU64 \in Nat
  BY MaxSharesFacts, PoolFields
<1> QED BY <1>1 DEF shares_to_serve, Lesser, U64

-----------------------------------------------------------------------------
(* The brackets of a withdrawal. *)

LEMMA BracketTypes ==
  ASSUME Decoded(pool)
  PROVE  /\ Len(pool.brackets) \in Nat
         /\ \A n \in 1 .. Len(pool.brackets) :
              /\ pool.brackets[n].liquid_asset_ratio_lt_bps \in Nat
              /\ pool.brackets[n].liquid_asset_ratio_lt_bps <= HundredPct
              /\ pool.brackets[n].fee_bps \in Nat
         /\ \A n \in 1 .. Len(pool.brackets) : n > 1 =>
              pool.brackets[n - 1].liquid_asset_ratio_lt_bps
                < pool.brackets[n].liquid_asset_ratio_lt_bps
<1> DEFINE b == pool.brackets
<1>1. b \in Seq(FeeBracket) /\ Ascending(b) /\ HundredPct \in Nat
  BY PoolFields
<1> HIDE DEF b
<1>2. Len(b) \in Nat /\ \A n \in 1 .. Len(b) : b[n] \in FeeBracket
  BY <1>1
<1>3. \A n \in 1 .. Len(b) : b[n].liquid_asset_ratio_lt_bps \in 1 .. HundredPct
  BY <1>1 DEF Ascending
<1>4. \A n \in 2 .. Len(b) : b[n - 1].liquid_asset_ratio_lt_bps < b[n].liquid_asset_ratio_lt_bps
  BY <1>1 DEF Ascending
<1>5. ASSUME NEW n \in 1 .. Len(b)
      PROVE  /\ b[n].liquid_asset_ratio_lt_bps \in Nat
             /\ b[n].liquid_asset_ratio_lt_bps <= HundredPct
             /\ b[n].fee_bps \in Nat
  BY <1>1, <1>2, <1>3 DEF FeeBracket
<1>6. ASSUME NEW n \in 1 .. Len(b), n > 1
      PROVE  b[n - 1].liquid_asset_ratio_lt_bps < b[n].liquid_asset_ratio_lt_bps
  BY <1>2, <1>4, <1>6
<1> QED BY <1>2, <1>5, <1>6 DEF b

\* The bracket found is 0, or the first that matches.
LEMMA BracketAtFacts ==
  ASSUME Decoded(pool), NEW l, NEW t
  PROVE  LET b == pool.brackets
             matches(n) == l * HundredPct <= b[n].liquid_asset_ratio_lt_bps * t
         IN  \/ BracketAt(l, t) = 0 /\ \A n \in 1 .. Len(b) : ~matches(n)
             \/ /\ BracketAt(l, t) \in 1 .. Len(b) /\ matches(BracketAt(l, t))
                /\ \A n \in 1 .. Len(b) : n < BracketAt(l, t) => ~matches(n)
<1> DEFINE b == pool.brackets
           matches(n) == l * HundredPct <= b[n].liquid_asset_ratio_lt_bps * t
           m == {n \in 1 .. Len(b) : matches(n)}
           k == CHOOSE n \in m : \A x \in m : n <= x
<1>1. BracketAt(l, t) = IF m = {} THEN 0 ELSE k
  BY DEF BracketAt
<1>2. Len(b) \in Nat
  BY BracketTypes
<1> HIDE DEF b, matches
<1>3. CASE m = {}
  BY <1>1, <1>3 DEF b, matches
<1>4. CASE m # {}
  <2>1. m \subseteq Nat
    BY <1>2
  <2>2. \E n \in m : \A x \in m : n <= x
    BY <1>4, <2>1, LeastNat
  <2>3. k \in m /\ \A x \in m : k <= x
    BY <2>2
  <2> HIDE DEF k
  <2>4. k \in 1 .. Len(b) /\ matches(k)
    BY <2>3
  <2>5. ASSUME NEW n \in 1 .. Len(b), n < k, matches(n) PROVE FALSE
    BY <1>2, <2>3, <2>4, <2>5
  <2>6. BracketAt(l, t) = k
    BY <1>1, <1>4
  <2> QED BY <2>4, <2>5, <2>6 DEF b, matches
<1> QED BY <1>3, <1>4
Ratio(n) == pool.brackets[n].liquid_asset_ratio_lt_bps
Rate(n) == pool.brackets[n].fee_bps

\* The atoms withdrawn when the loop enters bracket n.
Enter(n) ==
  IF n = i_start THEN 0
  ELSE Boundary(liquid_assets_before, refreshed_total_assets, HundredPct, Ratio(n))

\* A withdrawal of w atoms whose fee and marginal price exist.
Charged(w) == w \in U64 /\ marginal_fee_bps(w) # None /\ i_start # 0

LEMMA StartFacts ==
  ASSUME Decoded(pool), i_start # 0
  PROVE  /\ i_start \in Nat /\ i_start \in 1 .. Len(pool.brackets)
         /\ Below(liquid_assets_before, refreshed_total_assets, HundredPct, Ratio(i_start), 0)
         /\ \A n \in 1 .. i_start : n < i_start =>
              /\ Ratio(n) < HundredPct
              /\ Ratio(n) * refreshed_total_assets <= liquid_assets_before * HundredPct
<1> DEFINE L == liquid_assets_before
           T == refreshed_total_assets
           H == HundredPct
           b == pool.brackets
           k == i_start
<1>1. L \in Nat /\ T \in Nat /\ H \in Nat
  BY Figures
<1>2. /\ Len(b) \in Nat
      /\ \A n \in 1 .. Len(b) : Ratio(n) \in Nat /\ Ratio(n) <= H
      /\ \A n \in 1 .. Len(b) : n > 1 => Ratio(n - 1) < Ratio(n)
  BY BracketTypes DEF Ratio
<1>3. /\ k \in 1 .. Len(b) /\ L * H <= Ratio(k) * T
      /\ \A n \in 1 .. Len(b) : n < k => ~(L * H <= Ratio(n) * T)
  BY BracketAtFacts DEF i_start, Ratio
<1> HIDE DEF L, T, H, b, k
<1>4. k \in Nat
  BY <1>2, <1>3
<1>5. SatSub(L, 0) = L /\ SatSub(T, 0) = T
  BY <1>1 DEF SatSub
<1>6. Below(L, T, H, Ratio(k), 0)
  BY <1>3, <1>5 DEF Below
<1>7. ASSUME NEW n \in 1 .. k, n < k
      PROVE  Ratio(n) < H /\ Ratio(n) * T <= L * H
  <2>1. n \in 1 .. Len(b) /\ n + 1 \in 1 .. Len(b) /\ n + 1 > 1 /\ (n + 1) - 1 = n
    BY <1>2, <1>3, <1>4, <1>7
  <2>2. Ratio(n) < Ratio(n + 1) /\ Ratio(n + 1) <= H /\ Ratio(n) \in Nat /\ Ratio(n + 1) \in Nat
    BY <1>2, <2>1
  <2>3. ~(L * H <= Ratio(n) * T)
    BY <1>3, <1>7, <2>1
  <2>4. L * H \in Nat /\ Ratio(n) * T \in Nat
    BY <1>1, <2>2
  <2> QED BY <1>1, <2>2, <2>3, <2>4
<1> QED BY <1>3, <1>4, <1>6, <1>7 DEF L, T, H, b, k

\* The loop meets the boundaries in order, and none is truncated.
LEMMA EnterFacts ==
  ASSUME Decoded(pool), i_start # 0, NEW n \in 1 .. i_start
  PROVE  /\ Enter(n) \in Nat /\ Enter(n) <= liquid_assets_before
         /\ n > 1 =>
              /\ Enter(n - 1) \in Nat /\ Enter(n) <= Enter(n - 1)
              /\ Enter(n - 1) <= liquid_assets_before
              /\ withdrawal_amount_at_boundary(Ratio(n - 1)) = Enter(n - 1)
<1> DEFINE L == liquid_assets_before
           T == refreshed_total_assets
           H == HundredPct
           k == i_start
           B(m) == Boundary(L, T, H, Ratio(m))
<1>1. L \in Nat /\ T \in Nat /\ H \in Nat /\ L <= T /\ L <= MaxU64 /\ MaxU64 \in Nat
  BY Figures
<1>2. /\ Len(pool.brackets) \in Nat
      /\ \A m \in 1 .. Len(pool.brackets) : Ratio(m) \in Nat
      /\ \A m \in 1 .. Len(pool.brackets) : m > 1 => Ratio(m - 1) < Ratio(m)
  BY BracketTypes DEF Ratio
<1>3. /\ k \in Nat /\ k <= Len(pool.brackets) /\ n \in 1 .. k /\ n \in Nat /\ n >= 1 /\ n <= k
      /\ \A m \in 1 .. k : m < k => Ratio(m) < H /\ Ratio(m) * T <= L * H
  BY StartFacts, <1>2
<1>4. \A m \in 1 .. k : Enter(m) = IF m = k THEN 0 ELSE B(m)
  BY DEF Enter
<1> HIDE DEF L, T, H, k
<1>5. ASSUME NEW m \in 1 .. k, m # k
      PROVE  B(m) \in Nat /\ B(m) <= L /\ m < k /\ Ratio(m) \in Nat
  <2>1. m < k /\ Ratio(m) < H /\ Ratio(m) * T <= L * H /\ Ratio(m) \in Nat
    BY <1>2, <1>3, <1>5
  <2> QED BY <1>1, <2>1, BoundaryFacts
<1>6. Enter(n) \in Nat /\ Enter(n) <= L
  <2>1. CASE n = k
    BY <1>1, <1>3, <1>4, <2>1
  <2>2. CASE n # k
    BY <1>3, <1>4, <1>5, <2>2
  <2> QED BY <2>1, <2>2
<1>7. ASSUME n > 1
      PROVE  /\ Enter(n - 1) \in Nat /\ Enter(n) <= Enter(n - 1)
             /\ Enter(n - 1) <= L
             /\ withdrawal_amount_at_boundary(Ratio(n - 1)) = Enter(n - 1)
  <2>1. n - 1 \in 1 .. k /\ n - 1 # k /\ n \in 1 .. Len(pool.brackets)
    BY <1>2, <1>3, <1>7
  <2>2. B(n - 1) \in Nat /\ B(n - 1) <= L /\ Enter(n - 1) = B(n - 1) /\ Ratio(n - 1) \in Nat
    BY <1>4, <1>5, <2>1
  <2>3. withdrawal_amount_at_boundary(Ratio(n - 1)) = AsU64(B(n - 1))
    BY DEF withdrawal_amount_at_boundary, Boundary, L, T, H
  <2>4. AsU64(B(n - 1)) = B(n - 1)
    <3> HIDE DEF B
    <3> QED BY <1>1, <2>2, Fits
  <2>5. Enter(n) <= Enter(n - 1)
    <3>1. CASE n = k
      <4>1. Enter(n) = 0
        BY <1>4, <3>1
      <4> HIDE DEF B
      <4> QED BY <2>2, <4>1
    <3>2. CASE n # k
      <4>1. Enter(n) = B(n) /\ n < k /\ Ratio(n) \in Nat
        BY <1>3, <1>4, <1>5, <3>2
      <4>2. Ratio(n) < H /\ Ratio(n) * T <= L * H
        BY <1>3, <4>1
      <4>3. Ratio(n - 1) < Ratio(n)
        BY <1>2, <1>7, <2>1
      <4>4. B(n) <= B(n - 1)
        BY <1>1, <2>2, <4>1, <4>2, <4>3, BoundaryOrder
      <4> QED BY <2>2, <4>1, <4>4
    <3> QED BY <3>1, <3>2
  <2> QED BY <2>2, <2>3, <2>4, <2>5
<1> QED BY <1>6, <1>7 DEF L
\* A withdrawal ends in a bracket it can pay for, between that bracket's boundaries.
LEMMA EndFacts ==
  ASSUME Decoded(pool), NEW w, Charged(w)
  PROVE  /\ i_start # 0 /\ i_start \in Nat /\ i_start <= Len(pool.brackets)
         /\ w \in Nat /\ w < refreshed_total_assets
         /\ i_end(w) \in Nat /\ i_end(w) \in 1 .. i_start
         /\ marginal_fee_bps(w) = Rate(i_end(w)) /\ Rate(i_end(w)) < HundredPct
         /\ Enter(i_end(w)) <= w
         /\ i_end(w) > 1 => w <= Enter(i_end(w) - 1)
         /\ Below(liquid_assets_before, refreshed_total_assets, HundredPct, Ratio(i_end(w)), w)
         /\ \A n \in 1 .. Len(pool.brackets) :
              Below(liquid_assets_before, refreshed_total_assets, HundredPct, Ratio(n), w)
                => i_end(w) <= n
<1> DEFINE L == liquid_assets_before
           T == refreshed_total_assets
           H == HundredPct
           b == pool.brackets
           k == i_start
           j == i_end(w)
           B(m) == Boundary(L, T, H, Ratio(m))
<1>1. L \in Nat /\ T \in Nat /\ H \in Nat \ {0} /\ L <= T
  BY Figures
<1>2. /\ Len(b) \in Nat
      /\ \A m \in 1 .. Len(b) : Ratio(m) \in Nat /\ Rate(m) \in Nat /\ Ratio(m) <= H
  BY BracketTypes DEF Ratio, Rate
<1>3. w \in Nat /\ marginal_fee_bps(w) # None /\ k # 0
  BY DEF Charged, U64
<1>4. SatSub(T, w) # 0 /\ j # 0
  BY <1>3 DEF marginal_fee_bps
<1>5. w < T
  BY <1>1, <1>3, <1>4 DEF SatSub
<1>6. /\ j \in 1 .. Len(b) /\ Below(L, T, H, Ratio(j), w)
      /\ \A m \in 1 .. Len(b) : m < j => ~Below(L, T, H, Ratio(m), w)
  BY <1>4, BracketAtFacts DEF i_end, Ratio, Below
<1>7. ~(Rate(j) >= H) /\ marginal_fee_bps(w) = Rate(j)
  BY <1>3 DEF marginal_fee_bps, Rate
<1>8. /\ k \in Nat /\ k \in 1 .. Len(b) /\ Below(L, T, H, Ratio(k), 0)
      /\ \A m \in 1 .. k : m < k => Ratio(m) < H /\ Ratio(m) * T <= L * H
  BY <1>3, StartFacts
<1>9. \A m \in 1 .. k : Enter(m) = IF m = k THEN 0 ELSE B(m)
  BY DEF Enter
<1> HIDE DEF L, T, H, b, k, j
<1>10. Below(L, T, H, Ratio(k), w)
  BY <1>1, <1>2, <1>3, <1>5, <1>8, BelowStays
<1>11. j \in Nat /\ j <= k /\ k <= Len(b) /\ j >= 1
  BY <1>2, <1>6, <1>8, <1>10
<1>12. ASSUME NEW m \in 1 .. k, m < k
       PROVE  IF Below(L, T, H, Ratio(m), w) THEN B(m) <= w ELSE w <= B(m)
  <2>1. Ratio(m) < H /\ Ratio(m) * T <= L * H /\ Ratio(m) \in Nat
    BY <1>2, <1>8, <1>11, <1>12
  <2> QED BY <1>1, <1>3, <1>5, <2>1, BelowIsPast
<1>13. Enter(j) <= w
  <2>1. CASE j = k
    BY <1>3, <1>9, <1>11, <2>1
  <2>2. CASE j # k
    <3>1. j \in 1 .. k /\ j < k
      BY <1>8, <1>11, <2>2
    <3> QED BY <1>6, <1>9, <1>12, <2>2, <3>1
  <2> QED BY <2>1, <2>2
<1>14. ASSUME j > 1 PROVE w <= Enter(j - 1)
  <2>1. j - 1 \in 1 .. k /\ j - 1 < k /\ j - 1 < j /\ j - 1 \in 1 .. Len(b) /\ j - 1 # k
    BY <1>2, <1>8, <1>11, <1>14
  <2> QED BY <1>6, <1>9, <1>12, <2>1
<1>15. Rate(j) < H
  BY <1>1, <1>2, <1>6, <1>7
<1>16. \A m \in 1 .. Len(b) : Below(L, T, H, Ratio(m), w) => j <= m
  BY <1>2, <1>6, <1>11
<1> QED BY <1>3, <1>5, <1>6, <1>7, <1>11, <1>13, <1>14, <1>15, <1>16, <1>8 DEF L, T, H, b, k, j

\* Larger withdrawals end in lower brackets.
LEMMA EndFalls ==
  ASSUME Decoded(pool), NEW v, NEW w, Charged(v), Charged(w), v <= w
  PROVE  i_end(w) <= i_end(v)
<1> DEFINE L == liquid_assets_before
           T == refreshed_total_assets
           H == HundredPct
           j == i_end(v)
<1>1. L \in Nat /\ T \in Nat /\ H \in Nat /\ L <= T
  BY Figures
<1>2. /\ v \in Nat /\ j \in 1 .. Len(pool.brackets) /\ Below(L, T, H, Ratio(j), v)
  BY EndFacts
<1>3. w \in Nat /\ w < T
      /\ \A n \in 1 .. Len(pool.brackets) : Below(L, T, H, Ratio(n), w) => i_end(w) <= n
  BY EndFacts
<1>4. Ratio(j) \in Nat /\ Ratio(j) <= H
  BY <1>2, BracketTypes DEF Ratio
<1>5. Below(L, T, H, Ratio(j), w)
  <2> HIDE DEF L, T, H, j
  <2> QED BY <1>1, <1>2, <1>3, <1>4, BelowStays
<1> QED BY <1>2, <1>3, <1>5
LEMMA NothingEndsAtStart ==
  ASSUME Decoded(pool)
  PROVE  i_end(0) = i_start
<1>1. /\ SatSub(liquid_assets_before, 0) = liquid_assets_before
      /\ SatSub(refreshed_total_assets, 0) = refreshed_total_assets
  BY Figures DEF SatSub
<1> QED BY <1>1 DEF i_start, i_end

-----------------------------------------------------------------------------
(* Rounding up. *)

LEMMA CeilFacts ==
  ASSUME NEW a \in Nat, NEW H \in Nat \ {0}
  PROVE  /\ DivCeil(a, H) \in Nat
         /\ a <= DivCeil(a, H) * H /\ DivCeil(a, H) * H < a + H
<1> DEFINE c == DivCeil(a, H)
<1>1. a + H - 1 \in Nat
  OBVIOUS
<1>2. c \in Nat /\ c * H <= a + H - 1 /\ a + H - 1 < (c + 1) * H
  BY <1>1, DivFacts DEF DivCeil
<1> HIDE DEF c
<1>3. (c + 1) * H = c * H + H /\ c * H \in Nat
  BY <1>2
<1>4. a <= c * H /\ c * H < a + H
  BY <1>2, <1>3
<1> QED BY <1>2, <1>4 DEF c

\* The fee on x - y more atoms is at most x - y, at a rate of at most 100%.
LEMMA CeilStep ==
  ASSUME NEW x \in Nat, NEW y \in Nat, y <= x, NEW f \in Nat, NEW H \in Nat \ {0}
  PROVE  /\ DivCeil(x * f, H) \in Nat /\ DivCeil(y * f, H) \in Nat
         /\ f <= H => DivCeil(x * f, H) <= DivCeil(y * f, H) + (x - y)
         /\ H * (DivCeil(x * f, H) - DivCeil(y * f, H)) <= f * (x - y) + H
         /\ f * (x - y) - H <= H * (DivCeil(x * f, H) - DivCeil(y * f, H))
<1> DEFINE c == DivCeil(x * f, H)
           d == DivCeil(y * f, H)
<1>1. x * f \in Nat /\ y * f \in Nat
  OBVIOUS
<1>2. c \in Nat /\ d \in Nat
  BY <1>1, CeilFacts
<1>3. x * f <= c * H /\ c * H < x * f + H /\ y * f <= d * H /\ d * H < y * f + H
  BY <1>1, CeilFacts
<1> HIDE DEF c, d
<1>4. f * (x - y) = x * f - y * f /\ H * (c - d) = c * H - d * H
  BY <1>2
<1>5. H * (c - d) <= f * (x - y) + H /\ f * (x - y) - H <= H * (c - d)
  BY <1>1, <1>2, <1>3, <1>4
<1>6. ASSUME f <= H PROVE c <= d + (x - y)
  <2> DEFINE q == c - d - (x - y)
  <2>1. f * (x - y) <= H * (x - y)
    BY <1>6, MulGrows
  <2>2. q * H = (c * H - d * H) - H * (x - y)
    BY <1>2
  <2>3. q * H < (0 + 1) * H
    <3> HIDE DEF q
    <3> QED BY <1>1, <1>2, <1>3, <1>4, <2>1, <2>2
  <2>4. q <= 0
    <3>1. q \in Int
      BY <1>2
    <3> HIDE DEF q
    <3> QED BY <2>3, <3>1, QuotientOrder
  <2> QED BY <1>2, <2>4
<1> QED BY <1>2, <1>5, <1>6 DEF c, d

\* The fee on x atoms at a rate of at most 100% is at most x.
LEMMA CeilWithin ==
  ASSUME NEW x \in Nat, NEW f \in Nat, NEW H \in Nat \ {0}
  PROVE  /\ DivCeil(x * f, H) \in Nat
         /\ f <= H => DivCeil(x * f, H) <= x
         /\ f * x <= H * DivCeil(x * f, H) /\ H * DivCeil(x * f, H) <= f * x + H
<1>1. x * f \in Nat /\ x * f = f * x
  OBVIOUS
<1>2. /\ DivCeil(x * f, H) \in Nat /\ x * f <= DivCeil(x * f, H) * H
      /\ DivCeil(x * f, H) * H < x * f + H
  BY <1>1, CeilFacts
<1>3. ASSUME f <= H PROVE DivCeil(x * f, H) <= x
  <2> DEFINE c == DivCeil(x * f, H)
  <2>1. x * f <= x * H /\ (x + 1) * H = x * H + H
    BY <1>3
  <2>2. c \in Nat /\ c * H < (x + 1) * H
    BY <1>1, <1>2, <2>1
  <2> HIDE DEF c
  <2>3. c <= x
    BY <2>2, QuotientOrder
  <2> QED BY <2>3 DEF c
<1>4. DivCeil(x * f, H) * H = H * DivCeil(x * f, H)
  BY <1>2
<1> QED BY <1>1, <1>2, <1>3, <1>4
-----------------------------------------------------------------------------
(* The inductive invariant. *)

\* F[n] is the fee charged when the loop enters bracket n.
FeeTable(F) ==
  /\ F \in [1 .. i_start -> Nat] /\ F[i_start] = 0
  /\ \A n \in 2 .. i_start :
       F[n - 1] = F[n] + DivCeil((Enter(n - 1) - Enter(n)) * Rate(n), HundredPct)

\* The fee of a withdrawal of w atoms.
FeeOf(F, w) ==
  F[i_end(w)] + DivCeil((w - Enter(i_end(w))) * Rate(i_end(w)), HundredPct)

\* The loop of compute_instant_withdrawal_fee for a withdrawal of w atoms.
LoopAt(w) ==
  /\ i \in Int /\ i_end(w) - 1 <= i /\ i <= i_start
  /\ enter = IF i < i_end(w) THEN w ELSE Enter(i)
  /\ FeesFair(pool.brackets) =>
       /\ total_fee <= enter
       /\ \A F : FeeTable(F) => total_fee = IF i < i_end(w) THEN FeeOf(F, w) ELSE F[i]

Locals ==
  IF pc = "idle" THEN request = 0 /\ amount = 0 /\ i = 0 /\ enter = 0 /\ total_fee = 0
  ELSE /\ pc = "fee" /\ quote = NoQuote /\ total_fee \in Nat
       /\ request \in U64 /\ amount = shares_to_serve(request) /\ pool.mode_supply # 0
       /\ FeeDefined(withdrawal_amount(amount))
       /\ withdrawal_amount(amount) = 0 => i = 0 /\ enter = 0 /\ total_fee = 0
       /\ withdrawal_amount(amount) # 0 => LoopAt(withdrawal_amount(amount))

DepositOk(q) ==
  /\ q.request \in Amounts
  /\ q.amount = Lesser(q.request, AsU64(SatSub(pool.liquidity_cap, refreshed_total_assets)))
  /\ q.expected_output = shares_for_deposit(q.amount)
  /\ q.request # 0 => q.expected_output # 0
  /\ q.price = deposit_price

WithdrawOk(q) ==
  /\ q.request \in U64 /\ pool.mode_supply # 0
  /\ q.amount = shares_to_serve(q.request)
  /\ q.not_enough_liquidity = (q.amount < q.request)
  /\ Charged(withdrawal_amount(q.amount))
  /\ q.price = instant_withdraw_price(q.amount)
  /\ q.expected_output <= withdrawal_amount(q.amount)
  /\ FeesFair(pool.brackets) =>
       \A F : FeeTable(F) => q.expected_output = withdrawal_amount(q.amount)
                                                   - FeeOf(F, withdrawal_amount(q.amount))

\* What an answer says of the snapshot it was computed from.
AnswerOk(q) ==
  /\ q.amount \in U64 /\ q.expected_output \in U64
  /\ q.status = "Ok" => q.dir \in {"deposit", "withdraw"}
  /\ q.status = "Ok" /\ q.dir = "deposit" => DepositOk(q)
  /\ q.status = "Ok" /\ q.dir = "withdraw" => WithdrawOk(q)

QInv == Decoded(pool) /\ Locals /\ AnswerOk(quote) /\ AnswerOk(prev)

\* An answer stays right: the snapshot does not change.
LEMMA TablesKept ==
  ASSUME pool' = pool
  PROVE  /\ \A n : Enter(n)' = Enter(n)
         /\ \A n : Rate(n)' = Rate(n)
         /\ \A F : FeeTable(F)' <=> FeeTable(F)
         /\ \A F, w : FeeOf(F, w)' = FeeOf(F, w)
         /\ \A w : Charged(w)' <=> Charged(w)
         /\ \A w : FeeDefined(w)' <=> FeeDefined(w)
<1> USE PoolNumbersKept, PoolOperatorsKept
<1>1. \A n : Rate(n)' = Rate(n)
  BY DEF Rate
<1>2. \A n : Enter(n)' = Enter(n)
  BY DEF Enter, Ratio
<1>3. \A F : FeeTable(F)' <=> FeeTable(F)
  BY <1>1, <1>2 DEF FeeTable
<1>4. \A F, w : FeeOf(F, w)' = FeeOf(F, w)
  BY <1>1, <1>2 DEF FeeOf
<1>5. \A w : Charged(w)' <=> Charged(w)
  BY DEF Charged
<1>6. \A w : FeeDefined(w)' <=> FeeDefined(w)
  BY DEF FeeDefined
<1> QED BY <1>1, <1>2, <1>3, <1>4, <1>5, <1>6

LEMMA AnswerKept ==
  ASSUME pool' = pool, NEW c, AnswerOk(c)
  PROVE  AnswerOk(c)'
<1> USE PoolNumbersKept, PoolOperatorsKept, TablesKept
<1>1. DepositOk(c) => DepositOk(c)'
  BY DEF DepositOk
<1>2. WithdrawOk(c) => WithdrawOk(c)'
  BY DEF WithdrawOk
<1> QED BY <1>1, <1>2 DEF AnswerOk

LEMMA QuoteKept ==
  ASSUME pool' = pool, NEW c, quote' = c, AnswerOk(c)
  PROVE  AnswerOk(quote)'
<1>1. AnswerOk(c)'
  BY AnswerKept
<1>2. DepositOk(c)' => DepositOk(quote)'
  BY DEF DepositOk
<1>3. WithdrawOk(c)' => WithdrawOk(quote)'
  BY DEF WithdrawOk
<1> QED BY <1>1, <1>2, <1>3 DEF AnswerOk
LEMMA PrevKept ==
  ASSUME pool' = pool, NEW c, prev' = c, AnswerOk(c)
  PROVE  AnswerOk(prev)'
<1>1. AnswerOk(c)'
  BY AnswerKept
<1>2. DepositOk(c)' => DepositOk(prev)'
  BY DEF DepositOk
<1>3. WithdrawOk(c)' => WithdrawOk(prev)'
  BY DEF WithdrawOk
<1> QED BY <1>1, <1>2, <1>3 DEF AnswerOk

-----------------------------------------------------------------------------
(* Every answer is right. *)

LEMMA ZeroInU64 ==
  ASSUME Decoded(pool)
  PROVE  0 \in U64
BY PoolFields DEF U64

LEMMA FailureOk ==
  ASSUME Decoded(pool), NEW d, NEW n, NEW e, e # "Ok"
  PROVE  AnswerOk(Err(d, n, e))
BY ZeroInU64 DEF Err, Answer, AnswerOk

LEMMA NoQuoteOk ==
  ASSUME Decoded(pool)
  PROVE  AnswerOk(NoQuote)
BY ZeroInU64 DEF NoQuote, Answer, AnswerOk

\* The shares of a deposit, before they are truncated to a u64.
LEMMA SharesFacts ==
  ASSUME Decoded(pool), NEW a \in U64
  PROVE  shares_for_deposit(a) \in U64 /\ (a = 0 => shares_for_deposit(a) = 0)
<1> DEFINE A == refreshed_assets
           S == pool.mode_supply
           q == (a * S) \div A
<1>1. A \in Nat /\ S \in Nat /\ MaxU64 \in Nat /\ a \in Nat /\ 0 \in U64
  BY Figures DEF U64
<1>2. shares_for_deposit(a) = IF S = 0 THEN a ELSE IF A = 0 THEN 0 ELSE AsU64(q)
  BY DEF shares_for_deposit
<1>3. ASSUME A # 0 PROVE AsU64(q) \in U64 /\ (a = 0 => AsU64(q) = 0)
  <2>1. a * S \in Nat
    BY <1>1
  <2>2. q \in Nat
    BY <1>1, <1>3, <2>1, DivFacts
  <2>3. ASSUME a = 0 PROVE q = 0
    <3>1. a * S = 0
      BY <1>1, <2>3
    <3>2. q = 0 \div A
      BY <3>1
    <3>3. 0 \div A = 0
      BY <1>1, <1>3
    <3> QED BY <3>2, <3>3
  <2> HIDE DEF q
  <2>4. AsU64(q) \in U64
    BY <1>1, <2>2, AsU64Type
  <2>5. q = 0 => AsU64(q) = 0
    BY <1>1, Fits
  <2> QED BY <2>3, <2>4, <2>5
<1> HIDE DEF A, S, q
<1> QED BY <1>1, <1>2, <1>3

LEMMA DepositIsOk ==
  ASSUME Decoded(pool), NEW n \in Amounts
  PROVE  AnswerOk(quote_deposit(n))
<1> DEFINE cap == AsU64(SatSub(pool.liquidity_cap, refreshed_total_assets))
           served == Lesser(n, cap)
           shares == shares_for_deposit(served)
<1>1. n \in U64 /\ MaxU64 \in Nat /\ 0 \in U64
  BY QuoteAssumption, ZeroInU64
<1>2. SatSub(pool.liquidity_cap, refreshed_total_assets) \in Nat
  BY PoolFields, Figures DEF SatSub
<1>3. cap \in U64
  BY <1>1, <1>2, AsU64Type
<1>4. served \in U64 /\ (n = 0 => served = 0)
  <2> HIDE DEF cap
  <2> QED BY <1>1, <1>3 DEF Lesser, U64
<1>5. shares \in U64 /\ (n = 0 => shares = 0)
  BY <1>4, SharesFacts
<1>6. quote_deposit(n) =
        IF n = 0 THEN Answer("deposit", 0, "Ok", 0, 0, FALSE, deposit_price)
        ELSE IF n < pool.min_deposit_amount THEN Err("deposit", n, "BelowMinimum")
        ELSE IF cap = 0 THEN Err("deposit", n, "CapReached")
        ELSE IF shares = 0 THEN Err("deposit", n, "ZeroShares")
        ELSE Answer("deposit", n, "Ok", served, shares, served < n, deposit_price)
  BY DEF quote_deposit
<1>7. shares # 0 =>
        AnswerOk(Answer("deposit", n, "Ok", served, shares, served < n, deposit_price))
  BY <1>4, <1>5 DEF AnswerOk, Answer, DepositOk
<1>8. n = 0 => AnswerOk(Answer("deposit", 0, "Ok", 0, 0, FALSE, deposit_price))
  <2> HAVE n = 0
  <2>1. served = 0 /\ shares = 0
    BY <1>4, <1>5
  <2> QED BY <1>1, <2>1 DEF AnswerOk, Answer, DepositOk
<1>9. /\ AnswerOk(Err("deposit", n, "BelowMinimum")) /\ AnswerOk(Err("deposit", n, "CapReached"))
      /\ AnswerOk(Err("deposit", n, "ZeroShares"))
  BY FailureOk
<1> HIDE DEF cap, served, shares
<1> QED BY <1>6, <1>7, <1>8, <1>9

\* A marginal price exists where a marginal fee does.
LEMMA PricedIsCharged ==
  ASSUME Decoded(pool), NEW x, instant_withdraw_price(x) # NoPrice,
         withdrawal_amount(x) \in U64, withdrawal_amount(x) = 0 \/ i_start # 0
  PROVE  pool.mode_supply # 0 /\ Charged(withdrawal_amount(x))
<1>1. pool.mode_supply # 0 /\ marginal_fee_bps(withdrawal_amount(x)) # None
  BY DEF instant_withdraw_price
<1>2. i_end(withdrawal_amount(x)) # 0
  BY <1>1 DEF marginal_fee_bps
<1> QED BY <1>1, <1>2, NothingEndsAtStart DEF Charged

\* Nothing served is answered with the price at which serving would start.
LEMMA NothingServedOk ==
  ASSUME Decoded(pool), NEW n \in U64, shares_to_serve(n) = 0, NEW nel, nel = (0 < n)
  PROVE  AnswerOk(Priced("withdraw", n, 0, 0, nel, instant_withdraw_price(0)))
<1>1. CASE instant_withdraw_price(0) = NoPrice
  BY <1>1, FailureOk DEF Priced
<1>2. CASE instant_withdraw_price(0) # NoPrice
  <2> DEFINE q == Answer("withdraw", n, "Ok", 0, 0, nel, instant_withdraw_price(0))
  <2>1. pool.mode_supply # 0
    BY <1>2 DEF instant_withdraw_price
  <2>2. withdrawal_amount(0) = 0
    <3>1. /\ withdrawal_amount(0) \in U64
          /\ withdrawal_amount(0) * pool.mode_supply <= 0 * refreshed_assets
      <4>1. 0 \in U64 /\ 0 <= max_shares
        BY ZeroInU64, MaxSharesFacts DEF U64
      <4> QED BY <2>1, <4>1, WithdrawalFacts
    <3>2. pool.mode_supply \in Nat \ {0} /\ refreshed_assets \in Nat
      BY <2>1, Figures DEF U64
    <3>3. withdrawal_amount(0) * pool.mode_supply <= 0
      BY <3>1, <3>2
    <3>4. withdrawal_amount(0) \in Nat
      BY <3>1 DEF U64
    <3>5. withdrawal_amount(0) >= 1 => pool.mode_supply <= withdrawal_amount(0) * pool.mode_supply
      BY <3>2, <3>4
    <3> QED BY <3>2, <3>3, <3>4, <3>5
  <2>3. Charged(0)
    BY <1>2, <2>2, ZeroInU64, PricedIsCharged
  <2>4. ASSUME NEW F, FeeTable(F) PROVE FeeOf(F, 0) = 0
    <3>1. i_end(0) = i_start /\ i_start \in 1 .. Len(pool.brackets) /\ i_start \in Nat
      BY <2>3, NothingEndsAtStart, StartFacts DEF Charged
    <3>2. FeeOf(F, 0) = 0 + DivCeil((0 - 0) * Rate(i_start), HundredPct)
      BY <2>4, <3>1 DEF FeeOf, FeeTable, Enter
    <3>3. Rate(i_start) \in Nat /\ HundredPct \in Nat \ {0}
      BY <3>1, BracketTypes, Figures DEF Rate
    <3>4. DivCeil(0 * Rate(i_start), HundredPct) = 0
      <4>1. DivCeil(0 * Rate(i_start), HundredPct) \in Nat
        BY <3>3, CeilFacts
      <4>2. 0 * Rate(i_start) = 0
        BY <3>3
      <4>3. (0 + HundredPct - 1) \div HundredPct = 0
        BY <3>3
      <4> QED BY <4>2, <4>3 DEF DivCeil
    <3> QED BY <3>2, <3>4
  <2>5. WithdrawOk(q)
    BY <2>1, <2>2, <2>3, <2>4 DEF WithdrawOk, Answer
  <2>6. AnswerOk(q)
    BY <2>5, ZeroInU64 DEF AnswerOk, Answer
  <2> QED BY <1>2, <2>6 DEF Priced
<1> QED BY <1>1, <1>2
\* What quote_instant_withdraw returns before the loop, and when it goes on.
LEMMA GateFacts ==
  ASSUME Decoded(pool), NEW n \in U64
  PROVE  IF WithdrawGate(n).status = "fee"
         THEN /\ WithdrawGate(n).amount = shares_to_serve(n)
              /\ pool.mode_supply # 0
              /\ FeeDefined(withdrawal_amount(shares_to_serve(n)))
         ELSE AnswerOk(WithdrawGate(n))
<1> DEFINE served == shares_to_serve(n)
           w == withdrawal_amount(served)
           zero == Priced("withdraw", 0, 0, 0, FALSE, instant_withdraw_price(0))
           none == Priced("withdraw", n, 0, 0, TRUE, instant_withdraw_price(0))
           fee == Answer("withdraw", n, "fee", served, 0, served < n, NoPrice)
           exceeded == \/ would_exceed(pool.instant_withdrawal_gating, n, pool.max_instant)
                       \/ would_exceed(pool.global_redemption_gating, n, pool.max_total)
<1>1. WithdrawGate(n) =
        IF n = 0 THEN zero
        ELSE IF ~all_mode_assets_fresh THEN Err("withdraw", n, "Stale")
        ELSE IF exceeded THEN Err("withdraw", n, "WindowLimit")
        ELSE IF served = 0 THEN none
        ELSE IF pool.mode_supply = 0 \/ ~FeeDefined(w) THEN Err("withdraw", n, "NotAvailable")
        ELSE fee
  BY DEF WithdrawGate
<1>2. n \in Nat /\ served \in U64 /\ served <= n
  BY ServedFacts DEF U64
<1>3. ASSUME NEW e, e \notin {"Ok", "fee"}
      PROVE  AnswerOk(Err("withdraw", n, e)) /\ Err("withdraw", n, e).status # "fee"
  BY <1>3, FailureOk DEF Err, Answer
<1>4. n = 0 => AnswerOk(zero) /\ zero.status # "fee"
  <2> HAVE n = 0
  <2>1. served = 0 /\ FALSE = (0 < n)
    BY <1>2 DEF U64
  <2>2. AnswerOk(Priced("withdraw", n, 0, 0, FALSE, instant_withdraw_price(0)))
    BY <2>1, NothingServedOk
  <2>3. zero.status # "fee"
    BY DEF Priced, Err, Answer
  <2> QED BY <2>2, <2>3
<1>5. n # 0 /\ served = 0 => AnswerOk(none) /\ none.status # "fee"
  <2> HAVE n # 0 /\ served = 0
  <2>1. TRUE = (0 < n)
    BY <1>2
  <2>2. AnswerOk(none)
    BY <2>1, NothingServedOk
  <2>3. none.status # "fee"
    BY DEF Priced, Err, Answer
  <2> QED BY <2>2, <2>3
<1>6. fee.status = "fee" /\ fee.amount = served
  BY DEF Answer
<1> HIDE DEF zero, none, fee, exceeded, served, w
<1>7. CASE n = 0
  BY <1>1, <1>4, <1>7
<1>8. CASE n # 0 /\ (~all_mode_assets_fresh \/ exceeded)
  BY <1>1, <1>3, <1>8
<1>9. CASE n # 0 /\ ~(~all_mode_assets_fresh \/ exceeded) /\ served = 0
  BY <1>1, <1>5, <1>9
<1>10. CASE n # 0 /\ ~(~all_mode_assets_fresh \/ exceeded) /\ served # 0
  <2>1. CASE pool.mode_supply = 0 \/ ~FeeDefined(w)
    BY <1>1, <1>3, <1>10, <2>1
  <2>2. CASE ~(pool.mode_supply = 0 \/ ~FeeDefined(w))
    BY <1>1, <1>6, <1>10, <2>2 DEF w, served
  <2> QED BY <2>1, <2>2
<1> QED BY <1>7, <1>8, <1>9, <1>10

-----------------------------------------------------------------------------
(* One step of the fee loop. *)

\* A withdrawal under way is charged, and its bracket is one of the schedule's.
LEMMA LoopFacts ==
  ASSUME QInv, pc = "fee"
  PROVE  /\ withdrawal_amount(amount) \in U64 /\ amount \in U64
         /\ withdrawal_amount(amount) # 0 =>
              /\ Charged(withdrawal_amount(amount)) /\ LoopAt(withdrawal_amount(amount))
         /\ ~LoopOver =>
              /\ withdrawal_amount(amount) # 0
              /\ i \in Nat /\ i \in i_end(withdrawal_amount(amount)) .. i_start
<1> DEFINE w == withdrawal_amount(amount)
<1>1. /\ Decoded(pool) /\ request \in U64 /\ amount = shares_to_serve(request)
      /\ pool.mode_supply # 0 /\ FeeDefined(w)
      /\ w = 0 => i = 0
      /\ w # 0 => LoopAt(w)
  BY DEF QInv, Locals
<1>2. amount \in U64 /\ amount <= max_shares
  BY <1>1, ServedFacts
<1>3. w \in U64
  BY <1>1, <1>2, WithdrawalFacts
<1>4. w # 0 => Charged(w)
  BY <1>1, <1>3 DEF Charged, FeeDefined
<1>5. ASSUME ~LoopOver PROVE w # 0 /\ i \in Nat /\ i \in i_end(w) .. i_start
  <2>1. i # 0 /\ ~(i < i_end(w)) /\ w # 0
    BY <1>1, <1>5 DEF LoopOver
  <2>2. i_end(w) \in Nat /\ i_start \in Nat
    BY <1>1, <1>4, <2>1, EndFacts
  <2>3. i \in Int /\ i <= i_start
    BY <1>1, <2>1 DEF LoopAt
  <2> QED BY <2>1, <2>2, <2>3
<1> QED BY <1>1, <1>2, <1>3, <1>4, <1>5

LEMMA FairRate ==
  ASSUME Decoded(pool), NEW w, Charged(w), FeesFair(pool.brackets),
         NEW n \in i_end(w) .. i_start
  PROVE  Rate(n) <= HundredPct
<1>1. /\ i_end(w) \in Nat /\ i_end(w) \in 1 .. i_start /\ i_start \in Nat
      /\ i_start <= Len(pool.brackets) /\ Rate(i_end(w)) < HundredPct
  BY EndFacts
<1>2. n \in 1 .. Len(pool.brackets) /\ i_end(w) \in 1 .. Len(pool.brackets) /\ i_end(w) <= n
  BY <1>1, BracketTypes
<1> QED BY <1>1, <1>2 DEF FeesFair, Rate

\* Bracket n leaves no earlier than it is entered, within the liquid assets or at
\* the end of the withdrawal; its fee is not truncated.
LEMMA SliceFacts ==
  ASSUME QInv, pc = "fee", ~LoopOver
  PROVE  LET w == withdrawal_amount(amount)
             exit == withdrawal_amount_exit(i)
         IN  /\ enter = Enter(i) /\ enter \in Nat /\ exit \in U64 /\ enter <= exit
             /\ exit = IF i = i_end(w) THEN w ELSE Enter(i - 1)
             /\ Rate(i) \in Nat /\ SliceFee(i) \in Nat
             /\ i # i_end(w) => i > 1
             /\ FeesFair(pool.brackets) =>
                  /\ SliceFee(i) = DivCeil((exit - enter) * Rate(i), HundredPct)
                  /\ SliceFee(i) <= exit - enter
<1> DEFINE w == withdrawal_amount(amount)
           exit == withdrawal_amount_exit(i)
           c == DivCeil((exit - enter) * Rate(i), HundredPct)
<1>1. Decoded(pool) /\ Charged(w) /\ LoopAt(w) /\ w # 0 /\ w \in U64
  BY LoopFacts DEF QInv
<1>2. /\ i \in Nat /\ i \in i_end(w) .. i_start
  BY LoopFacts
<1>3. /\ i_end(w) \in Nat /\ i_end(w) >= 1 /\ i_start \in Nat /\ i_start # 0
      /\ i_start <= Len(pool.brackets) /\ w \in Nat
      /\ Enter(i_end(w)) <= w
  BY <1>1, EndFacts
<1>4. i \in 1 .. i_start /\ ~(i < i_end(w)) /\ i \in 1 .. Len(pool.brackets)
  BY <1>2, <1>3, BracketTypes, <1>1
<1>5. enter = Enter(i)
  BY <1>1, <1>4 DEF LoopAt
<1>6. /\ Enter(i) \in Nat
      /\ i > 1 => /\ Enter(i - 1) \in Nat /\ Enter(i) <= Enter(i - 1)
                  /\ Enter(i - 1) <= liquid_assets_before
                  /\ withdrawal_amount_at_boundary(Ratio(i - 1)) = Enter(i - 1)
  BY <1>1, <1>3, <1>4, EnterFacts
<1>7. i # i_end(w) => i > 1
  BY <1>2, <1>3
<1>8. exit = IF i = i_end(w) THEN w ELSE Enter(i - 1)
  BY <1>6, <1>7 DEF withdrawal_amount_exit, Ratio
<1>9. exit \in U64 /\ enter <= exit
  BY <1>1, <1>3, <1>5, <1>6, <1>7, <1>8, Figures DEF U64
<1>10. Rate(i) \in Nat /\ HundredPct \in Nat \ {0} /\ MaxU64 \in Nat
  BY <1>1, <1>4, BracketTypes, Figures DEF Rate
<1>11. SliceFee(i) = AsU64(c)
  BY DEF SliceFee, Rate
<1>12. exit - enter \in Nat /\ exit \in Nat /\ exit <= MaxU64 /\ enter \in Nat
  BY <1>5, <1>6, <1>9, <1>10 DEF U64
<1> HIDE DEF exit
<1>13. c \in Nat /\ (Rate(i) <= HundredPct => c <= exit - enter)
  BY <1>10, <1>12, CeilWithin
<1> HIDE DEF c
<1>14. SliceFee(i) \in Nat
  BY <1>10, <1>11, <1>13, AsU64Type DEF U64
<1>15. FeesFair(pool.brackets) => SliceFee(i) = c /\ SliceFee(i) <= exit - enter
  <2> HAVE FeesFair(pool.brackets)
  <2>1. Rate(i) <= HundredPct
    BY <1>1, <1>2, FairRate
  <2>2. c <= exit - enter
    BY <1>13, <2>1
  <2>3. AsU64(c) = c
    BY <1>10, <1>12, <1>13, <2>2, Fits
  <2> QED BY <1>11, <2>2, <2>3
<1> QED BY <1>5, <1>6, <1>7, <1>8, <1>9, <1>10, <1>14, <1>15 DEF exit, c
-----------------------------------------------------------------------------
(* The invariant is inductive. *)

LEMMA InitQInv ==
  ASSUME Init
  PROVE  QInv
<1>1. Decoded(pool) /\ Locals /\ quote = NoQuote /\ prev = NoQuote
  BY QuoteAssumption DEF Init, Locals
<1> QED BY <1>1, NoQuoteOk DEF QInv

\* A call that returns: its answer is right and its locals are gone.
LEMMA ReturnKeepsQInv ==
  ASSUME QInv, NEW q, Return(q), AnswerOk(q), NEW p, prev' = p, AnswerOk(p)
  PROVE  QInv'
<1>1. pool' = pool /\ quote' = q
  BY DEF Return
<1>2. Decoded(pool)'
  BY <1>1 DEF QInv
<1>3. Locals'
  BY DEF Return, Locals
<1>4. AnswerOk(quote)' /\ AnswerOk(prev)'
  BY <1>1, QuoteKept, PrevKept
<1> QED BY <1>2, <1>3, <1>4 DEF QInv

LEMMA StartKeepsQInv ==
  ASSUME QInv, NEW n \in Amounts, StartFee(n)
  PROVE  QInv'
<1> DEFINE served == shares_to_serve(n)
<1>1. Decoded(pool) /\ AnswerOk(quote) /\ n \in U64
  BY QuoteAssumption DEF QInv
<1>2. /\ WithdrawGate(n).status = "fee" /\ pool' = pool /\ pc' = "fee"
      /\ request' = n /\ amount' = WithdrawGate(n).amount
      /\ i' = FirstBracket(withdrawal_amount(WithdrawGate(n).amount))
      /\ enter' = 0 /\ total_fee' = 0 /\ prev' = quote /\ quote' = NoQuote
  BY DEF StartFee
<1>3. /\ WithdrawGate(n).amount = served /\ pool.mode_supply # 0
      /\ FeeDefined(withdrawal_amount(served))
  BY <1>1, <1>2, GateFacts
<1> PICK w : w = withdrawal_amount(served)
  OBVIOUS
<1>4. amount' = served /\ i' = IF w = 0 THEN 0 ELSE i_start
  BY <1>2, <1>3 DEF FirstBracket
<1>5. served \in U64 /\ served <= max_shares
  BY <1>1, ServedFacts
<1>6. w \in U64
  BY <1>1, <1>3, <1>5, WithdrawalFacts
<1>7. withdrawal_amount(amount)' = w
  BY <1>2, <1>4, PoolNumbersKept DEF withdrawal_amount
<1>8. w # 0 => LoopAt(w)'
  <2> HAVE w # 0
  <2>1. Charged(w)
    BY <1>3, <1>6 DEF Charged, FeeDefined
  <2>2. i_end(w) \in Nat /\ i_end(w) \in 1 .. i_start /\ i_start \in Nat
    BY <1>1, <2>1, EndFacts
  <2>3. i' = i_start /\ ~(i' < i_end(w)) /\ i' \in Int /\ i_end(w) - 1 <= i' /\ i' <= i_start
    BY <1>4, <2>2
  <2>4. Enter(i_start) = 0 /\ \A F : FeeTable(F) => F[i_start] = 0
    BY DEF Enter, FeeTable
  <2>5. i_start' = i_start /\ i_end(w)' = i_end(w) /\ Enter(i)' = 0
    <3>1. Enter(i)' = Enter(i_start)
      BY <1>2, <2>3, TablesKept, PoolNumbersKept, PoolOperatorsKept DEF Enter, Ratio
    <3> QED BY <1>2, <2>4, <3>1, PoolOperatorsKept
  <2>6. \A F : FeeTable(F)' => F[i_start] = 0
    BY <1>2, <2>4, TablesKept
  <2> QED BY <1>2, <2>3, <2>5, <2>6 DEF LoopAt
<1>9. Locals'
  <2>1. w # 0 => LoopAt(withdrawal_amount(amount))'
    BY <1>7, <1>8 DEF LoopAt, FeeOf
  <2>2. FeeDefined(withdrawal_amount(amount))'
    BY <1>2, <1>3, <1>7, PoolOperatorsKept DEF FeeDefined
  <2>3. shares_to_serve(request)' = served
    BY <1>2, PoolNumbersKept DEF shares_to_serve
  <2>4. pool'.mode_supply # 0 /\ request' \in U64 /\ amount' = served /\ pc' # "idle"
    BY <1>1, <1>2, <1>3, <1>4
  <2> HIDE DEF served
  <2> QED BY <1>2, <1>4, <1>7, <2>1, <2>2, <2>3, <2>4 DEF Locals
<1>10. AnswerOk(quote)' /\ AnswerOk(prev)'
  <2>1. AnswerOk(NoQuote)
    BY <1>1, NoQuoteOk
  <2> QED BY <1>1, <1>2, <2>1, QuoteKept, PrevKept
<1> QED BY <1>1, <1>2, <1>9, <1>10 DEF QInv

LEMMA SliceKeepsQInv ==
  ASSUME QInv, FeeSlice
  PROVE  QInv'
<1> PICK w : w = withdrawal_amount(amount)
  OBVIOUS
<1> DEFINE exit == withdrawal_amount_exit(i)
<1>1. /\ pool' = pool /\ pc' = pc /\ pc = "fee" /\ ~LoopOver
      /\ request' = request /\ amount' = amount /\ quote' = quote /\ prev' = prev
      /\ total_fee' = total_fee + SliceFee(i) /\ enter' = exit /\ i' = i - 1
  BY DEF FeeSlice
<1>2. /\ Decoded(pool) /\ AnswerOk(quote) /\ AnswerOk(prev) /\ quote = NoQuote
      /\ total_fee \in Nat /\ request \in U64 /\ amount = shares_to_serve(request)
      /\ pool.mode_supply # 0 /\ FeeDefined(w)
  BY <1>1 DEF QInv, Locals
<1>3. /\ w # 0 /\ w \in U64 /\ Charged(w) /\ LoopAt(w) /\ i \in Nat /\ i \in i_end(w) .. i_start
  BY <1>1, LoopFacts
<1>4. i_end(w) \in Nat /\ i_end(w) >= 1 /\ i_start \in Nat
  BY <1>2, <1>3, EndFacts
<1>5. /\ enter = Enter(i) /\ enter \in Nat /\ exit \in U64 /\ enter <= exit
      /\ exit = IF i = i_end(w) THEN w ELSE Enter(i - 1)
      /\ SliceFee(i) \in Nat /\ (i # i_end(w) => i > 1)
      /\ FeesFair(pool.brackets) =>
           /\ SliceFee(i) = DivCeil((exit - enter) * Rate(i), HundredPct)
           /\ SliceFee(i) <= exit - enter
  BY <1>1, SliceFacts
<1>6. withdrawal_amount(amount)' = w
  BY <1>1, PoolNumbersKept DEF withdrawal_amount
<1> HIDE DEF exit
<1>7. exit \in Nat /\ total_fee' \in Nat
  BY <1>1, <1>2, <1>5 DEF U64
<1>8. /\ i' \in Int /\ i_end(w) - 1 <= i' /\ i' <= i_start
      /\ i' < i_end(w) <=> i = i_end(w)
  BY <1>1, <1>3, <1>4
<1>9. enter' = IF i' < i_end(w) THEN w ELSE Enter(i')
  BY <1>1, <1>5, <1>8
<1>10. ASSUME FeesFair(pool.brackets)
       PROVE  /\ total_fee' <= enter'
              /\ \A F : FeeTable(F) => total_fee' = IF i' < i_end(w) THEN FeeOf(F, w) ELSE F[i']
  <2>1. total_fee <= enter /\ \A F : FeeTable(F) => total_fee = F[i]
    <3>1. ~(i < i_end(w))
      BY <1>3, <1>4
    <3> QED BY <1>3, <1>10, <3>1 DEF LoopAt
  <2>2. total_fee' <= enter'
    BY <1>1, <1>2, <1>5, <1>7, <1>10, <2>1
  <2>3. ASSUME NEW F, FeeTable(F)
        PROVE  total_fee' = IF i' < i_end(w) THEN FeeOf(F, w) ELSE F[i']
    <3>1. total_fee' = F[i] + DivCeil((exit - Enter(i)) * Rate(i), HundredPct)
      BY <1>1, <1>5, <1>10, <2>1, <2>3
    <3>2. CASE i = i_end(w)
      BY <1>5, <1>8, <3>1, <3>2 DEF FeeOf
    <3>3. CASE i # i_end(w)
      <4>1. i \in 2 .. i_start
        BY <1>3, <1>4, <1>5, <3>3
      <4>2. F[i - 1] = F[i] + DivCeil((Enter(i - 1) - Enter(i)) * Rate(i), HundredPct)
        BY <2>3, <4>1 DEF FeeTable
      <4> QED BY <1>1, <1>5, <1>8, <3>1, <3>3, <4>2
    <3> QED BY <3>2, <3>3
  <2> QED BY <2>2, <2>3
<1>11. LoopAt(w)'
  <2>1. i_start' = i_start /\ i_end(w)' = i_end(w)
    BY <1>1, PoolOperatorsKept
  <2>2. Enter(i)' = Enter(i')
    BY <1>1, PoolNumbersKept, PoolOperatorsKept DEF Enter, Ratio
  <2>3. \A F : (FeeTable(F)' <=> FeeTable(F)) /\ FeeOf(F, w)' = FeeOf(F, w)
    BY <1>1, TablesKept
  <2> QED BY <1>1, <1>8, <1>9, <1>10, <2>1, <2>2, <2>3 DEF LoopAt
<1>12. Locals'
  <2>1. LoopAt(withdrawal_amount(amount))'
    BY <1>6, <1>11 DEF LoopAt, FeeOf
  <2>2. FeeDefined(withdrawal_amount(amount))'
    BY <1>1, <1>2, <1>6, PoolOperatorsKept DEF FeeDefined
  <2>3. amount' = shares_to_serve(request)'
    BY <1>1, <1>2, PoolNumbersKept DEF shares_to_serve
  <2> QED BY <1>1, <1>2, <1>3, <1>6, <1>7, <2>1, <2>2, <2>3 DEF Locals
<1>13. AnswerOk(quote)' /\ AnswerOk(prev)'
  BY <1>1, <1>2, QuoteKept, PrevKept
<1> QED BY <1>1, <1>2, <1>12, <1>13 DEF QInv
LEMMA FinishKeepsQInv ==
  ASSUME QInv, FinishWithdraw
  PROVE  QInv'
<1> DEFINE w == withdrawal_amount(amount)
           out == SatSub(w, total_fee)
           price == instant_withdraw_price(amount)
           q == Answer("withdraw", request, "Ok", amount, out, amount < request, price)
           e == Err("withdraw", request, "NotAvailable")
<1>1. /\ pc = "fee" /\ LoopOver /\ prev' = prev
      /\ IF out = 0 THEN Return(e)
         ELSE Return(Priced("withdraw", request, amount, out, amount < request, price))
  BY DEF FinishWithdraw
<1>2. /\ Decoded(pool) /\ AnswerOk(prev) /\ total_fee \in Nat /\ request \in U64
      /\ amount = shares_to_serve(request) /\ pool.mode_supply # 0
      /\ w = 0 => total_fee = 0
  BY <1>1 DEF QInv, Locals
<1>3. w \in U64 /\ amount \in U64 /\ w \in Nat /\ MaxU64 \in Nat
  BY <1>1, <1>2, LoopFacts, PoolFields DEF U64
<1>4. AnswerOk(e)
  BY <1>2, FailureOk
<1>5. ASSUME out # 0, price # NoPrice PROVE AnswerOk(q)
  <2>1. w # 0
    BY <1>2, <1>3, <1>5 DEF SatSub
  <2>2. Charged(w) /\ LoopAt(w)
    BY <1>1, <2>1, LoopFacts
  <2>3. i_end(w) \in Nat /\ i_end(w) >= 1 /\ i_start \in Nat
    BY <1>2, <2>2, EndFacts
  <2>4. i < i_end(w)
    BY <1>1, <2>3 DEF LoopOver
  <2>5. FeesFair(pool.brackets) =>
          total_fee <= w /\ \A F : FeeTable(F) => total_fee = FeeOf(F, w)
    BY <2>2, <2>4 DEF LoopAt
  <2> HIDE DEF w, price
  <2>6. out \in U64 /\ out <= w /\ (total_fee <= w => out = w - total_fee)
    BY <1>2, <1>3 DEF SatSub, U64
  <2> HIDE DEF out
  <2>7. FeesFair(pool.brackets) => \A F : FeeTable(F) => out = w - FeeOf(F, w)
    BY <2>5, <2>6
  <2>8. /\ q.request = request /\ q.amount = amount /\ q.expected_output = out
        /\ q.price = price /\ q.not_enough_liquidity = (amount < request)
        /\ q.status = "Ok" /\ q.dir = "withdraw"
    BY DEF Answer
  <2> HIDE DEF q
  <2>9. WithdrawOk(q)
    BY <1>2, <2>2, <2>6, <2>7, <2>8 DEF WithdrawOk, w, price
  <2> QED BY <1>3, <2>6, <2>8, <2>9 DEF AnswerOk
<1>6. CASE out = 0
  BY <1>1, <1>2, <1>4, <1>6, ReturnKeepsQInv
<1>7. CASE out # 0 /\ price = NoPrice
  BY <1>1, <1>2, <1>4, <1>7, ReturnKeepsQInv DEF Priced
<1>8. CASE out # 0 /\ price # NoPrice
  <2>1. Return(q) /\ AnswerOk(q)
    BY <1>1, <1>5, <1>8 DEF Priced
  <2> HIDE DEF q
  <2> QED BY <1>1, <1>2, <2>1, ReturnKeepsQInv
<1> QED BY <1>6, <1>7, <1>8

\* A deposit that lands leaves a snapshot and no answer on it.
LEMMA LandsKeepsQInv ==
  ASSUME QInv, DepositLands
  PROVE  QInv'
<1>1. Decoded(pool) /\ Locals /\ pc = "idle"
  BY DEF QInv, DepositLands
<1>2. /\ refreshed_assets + quote.amount \in Nat /\ pool.current_ts \in Nat
      /\ pool.mode_supply + quote.expected_output \in U64
      /\ pool.balance + quote.amount \in U64
  <2>1. /\ refreshed_assets \in U64 /\ quote.amount \in U64 /\ quote.expected_output \in U64
        /\ pool.mode_supply \in U64 /\ pool.balance \in U64 /\ MaxU64 \in Nat
        /\ pool.current_ts \in Nat
    BY <1>1, PoolNumbers, PoolFields DEF QInv, AnswerOk
  <2>2. /\ pool.mode_supply + quote.expected_output <= MaxU64
        /\ pool.balance + quote.amount <= MaxU64
    BY DEF DepositLands
  <2> QED BY <2>1, <2>2 DEF U64
<1>3. pool \in Pool
  BY <1>1 DEF Decoded
<1>4. pool' = [pool EXCEPT !.assets = refreshed_assets + quote.amount,
                           !.assets_refreshed_at = pool.current_ts,
                           !.mode_supply = pool.mode_supply + quote.expected_output,
                           !.balance = pool.balance + quote.amount]
  BY DEF DepositLands
<1>5. pool' \in Pool
  BY <1>2, <1>3, <1>4 DEF Pool
<1>6. /\ pool'.brackets = pool.brackets /\ pool'.apy = pool.apy
      /\ pool'.current_ts = pool.current_ts
  BY <1>3, <1>4 DEF Pool
<1>7. Decoded(pool)'
  BY <1>1, <1>5, <1>6 DEF Decoded, Ascending
<1>8. Locals'
  BY <1>1 DEF Locals, DepositLands
<1>9. AnswerOk(quote)' /\ AnswerOk(prev)'
  BY <1>1, ZeroInU64 DEF AnswerOk, NoQuote, Answer, DepositLands
<1> QED BY <1>7, <1>8, <1>9 DEF QInv

LEMMA NextKeepsQInv ==
  ASSUME QInv, [Next]_vars
  PROVE  QInv'
<1>1. Decoded(pool) /\ AnswerOk(quote) /\ AnswerOk(prev) /\ Amounts \subseteq U64
  BY QuoteAssumption DEF QInv
<1>2. ASSUME NEW n \in Amounts, NEW d, QuoteInactive(d, n) PROVE QInv'
  <2>1. AnswerOk(Err(d, n, "InactivePool"))
    BY <1>1, FailureOk
  <2> QED BY <1>1, <1>2, <2>1, ReturnKeepsQInv DEF QuoteInactive
<1>3. ASSUME NEW n \in Amounts, QuoteDeposit(n) PROVE QInv'
  <2>1. AnswerOk(quote_deposit(n))
    BY <1>1, DepositIsOk
  <2> QED BY <1>1, <1>3, <2>1, ReturnKeepsQInv DEF QuoteDeposit
<1>4. ASSUME NEW n \in Amounts, QuoteWithdraw(n) PROVE QInv'
  <2>1. WithdrawGate(n).status # "fee" /\ n \in U64
    BY <1>1, <1>4 DEF QuoteWithdraw
  <2>2. AnswerOk(WithdrawGate(n))
    BY <1>1, <2>1, GateFacts
  <2> QED BY <1>1, <1>4, <2>2, ReturnKeepsQInv DEF QuoteWithdraw
<1>5. ASSUME NEW n \in Amounts, StartFee(n) PROVE QInv'
  BY <1>5, StartKeepsQInv
<1>6. CASE FeeSlice
  BY <1>6, SliceKeepsQInv
<1>7. CASE FinishWithdraw
  BY <1>7, FinishKeepsQInv
<1>9. CASE DepositLands
  BY <1>9, LandsKeepsQInv
<1>8. CASE UNCHANGED vars
  <2>1. pool' = pool /\ quote' = quote /\ prev' = prev
    BY <1>8 DEF vars
  <2>2. AnswerOk(quote)' /\ AnswerOk(prev)'
    BY <1>1, <2>1, QuoteKept, PrevKept
  <2>3. Locals'
    <3>1. Locals
      BY DEF QInv
    <3> PICK w : w = withdrawal_amount(amount)
      OBVIOUS
    <3>2. withdrawal_amount(amount)' = w
      BY <1>8, PoolNumbersKept DEF withdrawal_amount, vars
    <3>3. FeeDefined(w) => FeeDefined(withdrawal_amount(amount))'
      BY <2>1, <3>2, PoolOperatorsKept DEF FeeDefined
    <3>4. shares_to_serve(request)' = shares_to_serve(request)
      BY <1>8, PoolNumbersKept DEF shares_to_serve, vars
    <3>5. LoopAt(w) => LoopAt(w)'
      <4>1. Enter(i)' = Enter(i)
        BY <1>8, PoolNumbersKept, PoolOperatorsKept DEF Enter, Ratio, vars
      <4> QED BY <1>8, <2>1, <4>1, TablesKept, PoolOperatorsKept DEF LoopAt, vars
    <3>6. LoopAt(w)' => LoopAt(withdrawal_amount(amount))'
      BY <3>2 DEF LoopAt, FeeOf
    <3> QED BY <1>8, <3>1, <3>2, <3>3, <3>4, <3>5, <3>6 DEF Locals, vars
  <2> QED BY <1>1, <2>1, <2>2, <2>3 DEF QInv
<1> QED BY <1>2, <1>3, <1>4, <1>5, <1>6, <1>7, <1>8, <1>9 DEF Next

LEMMA QInvAlways == Spec => []QInv
<1>1. Init => QInv
  BY InitQInv
<1>2. QInv /\ [Next]_vars => QInv'
  BY NextKeepsQInv
<1> QED BY <1>1, <1>2, PTL DEF Spec
-----------------------------------------------------------------------------
(* What one quote promises. *)

\* quote_instant_withdraw never promises more than the pool's available balance
\* and its lending strategy can pay, burns no more shares than exist, and flags
\* exactly the requests it fills in part.
THEOREM PayoutsAreCovered == Spec => []PayoutCovered
<1>1. QInv => PayoutCovered
  <2> SUFFICES ASSUME QInv, quote.dir = "withdraw", quote.status = "Ok"
               PROVE  /\ quote.expected_output <= get_available_balance + pool.strategy
                      /\ quote.amount <= pool.mode_supply
                      /\ quote.not_enough_liquidity = (quote.amount < quote.request)
    BY DEF PayoutCovered
  <2> DEFINE x == quote.amount
             w == withdrawal_amount(x)
  <2>1. Decoded(pool) /\ WithdrawOk(quote) /\ quote.expected_output \in U64
    BY DEF QInv, AnswerOk
  <2>2. /\ pool.mode_supply # 0 /\ x = shares_to_serve(quote.request) /\ quote.request \in U64
        /\ quote.expected_output <= w
        /\ quote.not_enough_liquidity = (quote.amount < quote.request)
    BY <2>1 DEF WithdrawOk
  <2>3. x \in U64 /\ x <= max_shares /\ x <= pool.mode_supply
    BY <2>1, <2>2, ServedFacts
  <2>4. w \in U64 /\ w <= max_servable_underlying
    BY <2>1, <2>2, <2>3, WithdrawalFacts
  <2>5. /\ max_servable_underlying \in Nat /\ get_available_balance + pool.strategy \in Nat
        /\ max_servable_underlying <= get_available_balance + pool.strategy
    <3>1. /\ max_servable_underlying \in U64 /\ get_available_balance \in U64
          /\ pool.strategy \in U64
          /\ max_servable_underlying <= get_available_balance + pool.strategy
      BY <2>1, PoolNumbers, PoolFields
    <3> QED BY <3>1 DEF U64
  <2>6. quote.expected_output \in Nat /\ w \in Nat
    BY <2>1, <2>4 DEF U64
  <2> HIDE DEF x, w
  <2>7. quote.expected_output <= get_available_balance + pool.strategy
    BY <2>2, <2>4, <2>5, <2>6
  <2> QED BY <2>2, <2>3, <2>7 DEF x
<1> QED BY <1>1, QInvAlways, PTL

\* The shares of a deposit are worth no more than it.
LEMMA SharesWorth ==
  ASSUME Decoded(pool), NEW a \in U64, pool.mode_supply # 0
  PROVE  shares_for_deposit(a) * refreshed_assets <= a * pool.mode_supply
<1> DEFINE s == shares_for_deposit(a)
           A == refreshed_assets
           S == pool.mode_supply
           q == (a * S) \div A
<1>1. A \in Nat /\ S \in Nat \ {0} /\ MaxU64 \in Nat /\ a \in Nat /\ s \in Nat
  BY Figures, SharesFacts DEF U64
<1>2. a * S \in Nat
  BY <1>1
<1>3. CASE A = 0
  <2>1. s * A = 0
    BY <1>1, <1>3
  <2> QED BY <1>2, <2>1
<1>4. CASE A # 0
  <2>1. s = AsU64(q)
    BY <1>4 DEF shares_for_deposit
  <2>2. q \in Nat /\ q * A <= a * S
    BY <1>1, <1>2, <1>4, DivFacts
  <2> HIDE DEF q, s, A, S
  <2>3. s <= q
    BY <1>1, <2>1, <2>2 DEF AsU64
  <2>4. s * A <= q * A
    BY <1>1, <2>2, <2>3, MulGrows
  <2>5. s * A <= a * S
    BY <1>1, <1>2, <2>2, <2>4
  <2> QED BY <2>5 DEF s, A, S
<1> QED BY <1>3, <1>4

\* What a deposit that landed bought: its shares claim no more of the pool it
\* left than was paid and was nobody's.
LandedOk ==
  /\ landed.shares \in Nat /\ landed.paid \in Nat /\ landed.unowned \in Nat
  /\ landed.shares * refreshed_assets
       <= (landed.paid + landed.unowned) * pool.mode_supply

\* The assets and shares after a deposit of d for s shares.
LEMMA ClaimAfter ==
  ASSUME NEW A \in Nat, NEW S \in Nat, NEW d \in Nat, NEW s \in Nat, NEW B \in Nat,
         B <= A + d, s * A <= d * S
  PROVE  s * B <= d * (S + s)
<1>1. B * s <= (A + d) * s
  BY MulGrows
<1>2. (A + d) * s = s * A + d * s /\ d * (S + s) = d * S + d * s /\ B * s = s * B
  OBVIOUS
<1>3. s * A \in Int /\ d * S \in Int /\ d * s \in Int /\ s * B \in Int
  OBVIOUS
<1> QED BY <1>1, <1>2, <1>3

LEMMA LandsMakesLandedOk ==
  ASSUME QInv, DepositLands
  PROVE  LandedOk'
<1> DEFINE d == quote.amount
           s == quote.expected_output
           A == refreshed_assets
           S == pool.mode_supply
           B == AsU64(A + d)
<1>1. /\ Decoded(pool) /\ pool \in Pool /\ DepositOk(quote)
      /\ d \in U64 /\ s \in U64 /\ s = shares_for_deposit(d)
  BY DEF QInv, AnswerOk, DepositOk, DepositLands, Decoded
<1>2. A \in Nat /\ S \in Nat /\ d \in Nat /\ s \in Nat /\ MaxU64 \in Nat
  BY <1>1, Figures DEF U64
<1>3. /\ pool' = [pool EXCEPT !.assets = A + d, !.assets_refreshed_at = pool.current_ts,
                               !.mode_supply = S + s, !.balance = pool.balance + d]
      /\ landed' = [paid |-> d, shares |-> s, unowned |-> unowned_assets]
  BY DEF DepositLands
<1>4. /\ pool'.assets = A + d /\ pool'.assets_refreshed_at = pool'.current_ts
      /\ pool'.mode_supply = S + s /\ pool'.current_ts \in Nat
  BY <1>1, <1>3 DEF Pool
<1>5. refreshed_assets' = B
  <2>1. SatSub(pool'.current_ts, pool'.assets_refreshed_at) = 0
    BY <1>4 DEF SatSub
  <2> QED BY <1>4, <2>1 DEF refreshed_assets, cached_assets
<1>6. B \in Nat /\ B <= A + d
  <2> HIDE DEF A, d
  <2>1. A + d \in Nat
    BY <1>2
  <2> QED BY <1>2, <2>1 DEF AsU64
<1>7. landed'.paid = d /\ landed'.shares = s /\ landed'.unowned = unowned_assets
  BY <1>3
<1>8. CASE S = 0
  <2>1. s = d /\ unowned_assets = A
    BY <1>1, <1>8 DEF shares_for_deposit, unowned_assets
  <2> HIDE DEF A, S, d, s, B
  <2>2. B * d <= (A + d) * d
    BY <1>2, <1>6, MulGrows
  <2>3. B * d = d * B /\ (A + d) * d = (d + A) * (0 + d)
    BY <1>2, <1>6
  <2>4. d * B <= (d + A) * (0 + d)
    BY <2>2, <2>3
  <2> QED BY <1>2, <1>4, <1>5, <1>7, <1>8, <2>1, <2>4 DEF LandedOk
<1>9. CASE S # 0
  <2>1. s * A <= d * S /\ unowned_assets = 0
    BY <1>1, <1>9, SharesWorth DEF unowned_assets
  <2> HIDE DEF A, S, d, s, B
  <2>2. s * B <= d * (S + s) /\ d + 0 = d
    BY <1>2, <1>6, <2>1, ClaimAfter
  <2> QED BY <1>2, <1>4, <1>5, <1>7, <2>1, <2>2 DEF LandedOk
<1> QED BY <1>8, <1>9

LEMMA LandedAlways == Spec => [](QInv /\ LandedOk)
<1>1. Init => LandedOk
  <2> SUFFICES ASSUME Init PROVE LandedOk
    OBVIOUS
  <2>1. Decoded(pool) /\ landed = [paid |-> 0, shares |-> 0, unowned |-> 0]
    BY QuoteAssumption DEF Init, NoDeposit
  <2>2. refreshed_assets \in Nat /\ pool.mode_supply \in Nat
    BY <2>1, Figures
  <2>3. 0 * refreshed_assets = 0 /\ (0 + 0) * pool.mode_supply = 0
    BY <2>2
  <2> QED BY <2>1, <2>3 DEF LandedOk
<1>2. QInv /\ LandedOk /\ [Next]_vars => LandedOk'
  <2> SUFFICES ASSUME QInv, LandedOk, [Next]_vars PROVE LandedOk'
    OBVIOUS
  <2>1. ASSUME pool' = pool, landed' = landed PROVE LandedOk'
    BY <2>1, PoolNumbersKept DEF LandedOk
  <2>2. DepositLands \/ (pool' = pool /\ landed' = landed)
    BY DEF Next, vars, QuoteInactive, QuoteDeposit, QuoteWithdraw, Return, StartFee,
           FeeSlice, FinishWithdraw
  <2> QED BY <2>1, <2>2, LandsMakesLandedOk
<1> QED BY <1>1, <1>2, QInvAlways, PTL DEF Spec

\* Shares are rounded down and assets are rounded down: withdrawing shares that a
\* deposit bought, quoted on the pool the deposit left, returns no more than was
\* paid, and than the assets no share owned when the first deposit was minted 1:1.
THEOREM RoundTripsGainNothing == Spec => []NoRoundTripGain
<1>1. QInv /\ LandedOk => NoRoundTripGain
  <2> SUFFICES ASSUME QInv, LandedOk, quote.dir = "withdraw", quote.status = "Ok",
                      quote.request <= landed.shares
               PROVE  quote.expected_output <= landed.paid + landed.unowned
    BY DEF NoRoundTripGain
  <2> DEFINE n == quote.request
             x == quote.amount
             w == withdrawal_amount(x)
             A == refreshed_assets
             S == pool.mode_supply
             b == landed.paid + landed.unowned
             s == landed.shares
  <2>1. /\ Decoded(pool) /\ WithdrawOk(quote) /\ quote.expected_output \in U64
    BY DEF QInv, AnswerOk
  <2>2. S # 0 /\ quote.expected_output <= w /\ n \in U64 /\ x = shares_to_serve(n)
    BY <2>1 DEF WithdrawOk
  <2>3. x \in U64 /\ x <= n /\ x <= max_shares
    BY <2>1, <2>2, ServedFacts
  <2>4. w \in U64 /\ w * S <= x * A
    BY <2>1, <2>2, <2>3, WithdrawalFacts
  <2>5. A \in Nat /\ S \in Nat \ {0} /\ b \in Nat /\ s \in Nat /\ s * A <= b * S
    BY <2>1, <2>2, Figures DEF LandedOk
  <2>6. x \in Nat /\ n \in Nat /\ w \in Nat /\ quote.expected_output \in Nat /\ n <= s
    BY <2>1, <2>2, <2>3, <2>4 DEF U64
  <2> HIDE DEF n, x, w, A, S, b, s
  <2>7. x * A <= s * A
    <3>1. x <= s
      BY <2>3, <2>5, <2>6
    <3> QED BY <2>5, <2>6, <3>1, MulGrows
  <2>8. (b + 1) * S = b * S + S /\ b * S \in Int /\ w * S \in Int /\ x * A \in Int /\ s * A \in Int
    BY <2>5, <2>6
  <2>9. w * S < (b + 1) * S
    <3>1. w * S <= s * A /\ 0 < S
      BY <2>4, <2>5, <2>7, <2>8
    <3> QED BY <2>5, <2>8, <3>1, BelowSum
  <2>10. w <= b
    BY <2>5, <2>6, <2>9, QuotientOrder
  <2> QED BY <2>2, <2>5, <2>6, <2>10 DEF b
<1> QED BY <1>1, LandedAlways, PTL

\* The loop of compute_instant_withdrawal_fee subtracts no larger amount from a
\* smaller one, never divides by zero and never leaves a u64, on every schedule
\* in which no bracket of a served withdrawal charges more than 100%.
THEOREM FeeLoopNeverUnderflows == Spec => [](FeesFair(pool.brackets) => LoopNeverUnderflows)
<1>1. QInv /\ FeesFair(pool.brackets) => TypeOK
  <2> SUFFICES ASSUME QInv, FeesFair(pool.brackets) PROVE TypeOK
    OBVIOUS
  <2>1. Decoded(pool) /\ AnswerOk(quote) /\ AnswerOk(prev) /\ Locals
    BY DEF QInv
  <2>2. \A q \in {quote, prev} : q.amount \in U64 /\ q.expected_output \in U64
    BY <2>1 DEF AnswerOk
  <2>3. 0 \in U64 /\ Len(pool.brackets) \in Nat /\ MaxU64 \in Nat
    BY <2>1, ZeroInU64, BracketTypes, PoolFields
  <2>4. CASE pc = "idle"
    BY <2>1, <2>2, <2>3, <2>4 DEF Locals, TypeOK
  <2>5. CASE pc # "idle"
    <3> DEFINE w == withdrawal_amount(amount)
    <3>1. /\ pc = "fee" /\ request \in U64 /\ total_fee \in Nat
          /\ w = 0 => i = 0 /\ enter = 0 /\ total_fee = 0
      BY <2>1, <2>5 DEF Locals
    <3>2. w \in U64 /\ amount \in U64 /\ (w # 0 => Charged(w) /\ LoopAt(w))
      BY <3>1, LoopFacts
    <3>3. CASE w = 0
      BY <2>2, <2>3, <3>1, <3>2, <3>3 DEF TypeOK
    <3>4. CASE w # 0
      <4>1. /\ i_end(w) \in Nat /\ i_end(w) >= 1 /\ i_start \in Nat /\ i_start # 0
            /\ i_start <= Len(pool.brackets)
        BY <2>1, <3>2, <3>4, EndFacts
      <4>2. /\ i \in Int /\ i_end(w) - 1 <= i /\ i <= i_start
            /\ enter = IF i < i_end(w) THEN w ELSE Enter(i)
            /\ total_fee <= enter
        BY <3>2, <3>4 DEF LoopAt
      <4>3. i \in 0 .. Len(pool.brackets)
        BY <2>3, <4>1, <4>2
      <4>4. enter \in U64
        <5>1. CASE i < i_end(w)
          BY <3>2, <4>2, <5>1
        <5>2. CASE ~(i < i_end(w))
          <6>1. i \in 1 .. i_start
            BY <4>1, <4>2, <5>2
          <6>2. Enter(i) \in Nat /\ Enter(i) <= liquid_assets_before
            BY <2>1, <4>1, <6>1, EnterFacts
          <6> QED BY <2>1, <4>2, <5>2, <6>2, Figures DEF U64
        <5> QED BY <5>1, <5>2
      <4>5. total_fee \in U64
        BY <2>3, <3>1, <4>2, <4>4 DEF U64
      <4> QED BY <2>2, <3>1, <3>2, <4>3, <4>4, <4>5 DEF TypeOK
    <3> QED BY <3>3, <3>4
  <2> QED BY <2>4, <2>5
<1>2. ASSUME QInv, pc = "fee", ~LoopOver
      PROVE  /\ withdrawal_amount_exit(i) >= enter
             /\ i # i_end(withdrawal_amount(amount)) =>
                  /\ Ratio(i - 1) < HundredPct
                  /\ liquid_assets_before * HundredPct >= Ratio(i - 1) * refreshed_total_assets
  <2> DEFINE w == withdrawal_amount(amount)
  <2>1. /\ enter <= withdrawal_amount_exit(i) /\ (i # i_end(w) => i > 1)
        /\ enter \in Nat /\ withdrawal_amount_exit(i) \in U64
    BY <1>2, SliceFacts
  <2>2. Decoded(pool) /\ Charged(w) /\ i \in Nat /\ i \in i_end(w) .. i_start
    BY <1>2, LoopFacts DEF QInv
  <2>3. i_start \in Nat /\ i_start # 0 /\ i_end(w) \in Nat
    BY <2>2, EndFacts
  <2>4. ASSUME i # i_end(w)
        PROVE  /\ Ratio(i - 1) < HundredPct
               /\ Ratio(i - 1) * refreshed_total_assets <= liquid_assets_before * HundredPct
               /\ Ratio(i - 1) \in Nat
    <3>1. i - 1 \in 1 .. i_start /\ i - 1 < i_start
      BY <2>1, <2>2, <2>3, <2>4
    <3>2. i - 1 \in 1 .. Len(pool.brackets)
      BY <2>2, <2>3, <3>1, StartFacts, BracketTypes
    <3> QED BY <2>2, <2>3, <3>1, <3>2, StartFacts, BracketTypes DEF Ratio
  <2>5. liquid_assets_before * HundredPct \in Nat /\ refreshed_total_assets \in Nat
    BY <2>2, Figures
  <2>6. withdrawal_amount_exit(i) >= enter
    BY <2>1 DEF U64
  <2> QED BY <2>4, <2>5, <2>6
<1>3. QInv => (FeesFair(pool.brackets) => LoopNeverUnderflows)
  BY <1>1, <1>2 DEF LoopNeverUnderflows, Ratio
<1> QED BY <1>3, QInvAlways, PTL
-----------------------------------------------------------------------------
(* Two quotes in one direction. *)

\* Two withdrawals, the smaller first: what they are worth, where they end and
\* how they are priced.
LEMMA PairFacts ==
  ASSUME QInv, Pair, quote.dir = "withdraw"
  PROVE  LET v == withdrawal_amount(prev.amount)
             w == withdrawal_amount(quote.amount)
             H == HundredPct
         IN  /\ Decoded(pool) /\ WithdrawOk(prev) /\ WithdrawOk(quote)
             /\ pool.mode_supply \in Nat \ {0} /\ refreshed_assets \in Nat
             /\ prev.amount \in Nat /\ quote.amount \in Nat /\ prev.amount <= quote.amount
             /\ v \in Nat /\ w \in Nat /\ v <= w /\ Charged(v) /\ Charged(w)
             /\ v * pool.mode_supply <= prev.amount * refreshed_assets
             /\ prev.amount * refreshed_assets < (v + 1) * pool.mode_supply
             /\ w * pool.mode_supply <= quote.amount * refreshed_assets
             /\ quote.amount * refreshed_assets < (w + 1) * pool.mode_supply
             /\ prev.price = <<refreshed_assets * (H - Rate(i_end(v))), pool.mode_supply * H>>
             /\ quote.price = <<refreshed_assets * (H - Rate(i_end(w))), pool.mode_supply * H>>
<1> DEFINE x == prev.amount
           y == quote.amount
           v == withdrawal_amount(x)
           w == withdrawal_amount(y)
           H == HundredPct
<1>1. Decoded(pool) /\ WithdrawOk(prev) /\ WithdrawOk(quote) /\ prev.request <= quote.request
  BY DEF QInv, AnswerOk, Pair
<1>2. /\ prev.request \in U64 /\ quote.request \in U64 /\ pool.mode_supply # 0
      /\ x = shares_to_serve(prev.request) /\ y = shares_to_serve(quote.request)
      /\ Charged(v) /\ Charged(w)
      /\ prev.price = instant_withdraw_price(x) /\ quote.price = instant_withdraw_price(y)
  BY <1>1 DEF WithdrawOk
<1>3. x \in U64 /\ y \in U64 /\ x <= max_shares /\ y <= max_shares /\ x <= y
  BY <1>1, <1>2, ServedFacts, ServedGrows
<1>4. v <= w
  BY <1>1, <1>2, <1>3, WithdrawalGrows
<1>5. /\ v \in U64 /\ w \in U64
      /\ v * pool.mode_supply <= x * refreshed_assets
      /\ x * refreshed_assets < (v + 1) * pool.mode_supply
      /\ w * pool.mode_supply <= y * refreshed_assets
      /\ y * refreshed_assets < (w + 1) * pool.mode_supply
  BY <1>1, <1>2, <1>3, WithdrawalFacts
<1>6. pool.mode_supply \in Nat \ {0} /\ refreshed_assets \in Nat
  BY <1>1, <1>2, Figures DEF U64
<1>7. marginal_fee_bps(v) = Rate(i_end(v)) /\ marginal_fee_bps(w) = Rate(i_end(w))
  BY <1>1, <1>2, EndFacts
<1>8. /\ prev.price = <<refreshed_assets * (H - Rate(i_end(v))), pool.mode_supply * H>>
      /\ quote.price = <<refreshed_assets * (H - Rate(i_end(w))), pool.mode_supply * H>>
  <2>1. marginal_fee_bps(v) # None /\ marginal_fee_bps(w) # None
    BY <1>2 DEF Charged
  <2> QED BY <1>2, <1>7, <2>1 DEF instant_withdraw_price
<1>9. x \in Nat /\ y \in Nat /\ v \in Nat /\ w \in Nat
  BY <1>3, <1>5 DEF U64
<1> QED BY <1>1, <1>2, <1>3, <1>4, <1>5, <1>6, <1>8, <1>9

\* With fees that rise as liquidity falls, larger withdrawals end at higher rates.
LEMMA RatesRise ==
  ASSUME Decoded(pool), NEW v, NEW w, Charged(v), Charged(w), v <= w, FeesRise
  PROVE  Rate(i_end(v)) <= Rate(i_end(w))
<1>1. i_end(w) <= i_end(v)
  BY EndFalls
<1>2. i_end(v) \in 1 .. Len(pool.brackets) /\ i_end(w) \in 1 .. Len(pool.brackets)
  <2>1. /\ i_end(v) \in Nat /\ i_end(v) \in 1 .. i_start /\ i_end(w) \in 1 .. i_start
        /\ i_start \in Nat /\ i_start <= Len(pool.brackets) /\ i_end(w) \in Nat
    BY EndFacts
  <2> QED BY <2>1, BracketTypes
<1>3. Rate(i_end(w)) >= Rate(i_end(v))
  BY <1>1, <1>2 DEF FeesRise, Rate
<1>4. Rate(i_end(w)) \in Nat /\ Rate(i_end(v)) \in Nat
  BY <1>2, BracketTypes DEF Rate
<1> QED BY <1>3, <1>4

LEMMA EndRate ==
  ASSUME Decoded(pool), NEW w, Charged(w)
  PROVE  Rate(i_end(w)) \in Nat /\ Rate(i_end(w)) < HundredPct /\ HundredPct \in Nat \ {0}
<1>1. /\ i_end(w) \in Nat /\ i_end(w) \in 1 .. i_start /\ i_start \in Nat
      /\ i_start <= Len(pool.brackets) /\ Rate(i_end(w)) < HundredPct
  BY EndFacts
<1>2. i_end(w) \in 1 .. Len(pool.brackets)
  BY <1>1, BracketTypes
<1> QED BY <1>1, <1>2, BracketTypes, Figures DEF Rate

\* A withdrawal is priced at what its last share is worth less the rate of the
\* bracket it ends in.
LEMMA WithdrawPrice ==
  ASSUME Decoded(pool), NEW q, WithdrawOk(q)
  PROVE  LET w == withdrawal_amount(q.amount)
         IN  /\ Charged(w) /\ pool.mode_supply \in Nat \ {0}
             /\ q.price = <<refreshed_assets * (HundredPct - Rate(i_end(w))),
                            pool.mode_supply * HundredPct>>
<1> DEFINE w == withdrawal_amount(q.amount)
<1>1. Charged(w) /\ q.price = instant_withdraw_price(q.amount) /\ pool.mode_supply # 0
  BY DEF WithdrawOk
<1>2. marginal_fee_bps(w) = Rate(i_end(w)) /\ marginal_fee_bps(w) # None
  BY <1>1, EndFacts DEF Charged
<1>3. pool.mode_supply \in Nat
  BY Figures
<1> QED BY <1>1, <1>2, <1>3 DEF instant_withdraw_price

\* Every answer of a solvent pool has a positive price.
LEMMA PricePositive ==
  ASSUME Decoded(pool), NEW q, AnswerOk(q), q.status = "Ok", Solvent
  PROVE  q.price[1] > 0 /\ q.price[2] > 0
<1>1. refreshed_assets \in Nat /\ pool.mode_supply \in Nat
  BY Figures
<1>2. CASE q.dir = "deposit"
  <2>1. q.price = deposit_price
    BY <1>2 DEF AnswerOk, DepositOk
  <2> QED BY <1>1, <2>1 DEF deposit_price, Solvent
<1>3. CASE q.dir = "withdraw"
  <2> DEFINE w == withdrawal_amount(q.amount)
             A == refreshed_assets
             S == pool.mode_supply
             H == HundredPct
             f == Rate(i_end(w))
  <2>1. Charged(w) /\ S \in Nat \ {0} /\ q.price = <<A * (H - f), S * H>>
    BY <1>3, WithdrawPrice DEF AnswerOk
  <2>2. f \in Nat /\ f < H /\ H \in Nat \ {0}
    BY <2>1, EndRate
  <2>3. A \in Nat \ {0}
    BY <1>1, <2>1 DEF Solvent
  <2> HIDE DEF A, S, H, f
  <2>4. H - f \in Nat \ {0}
    BY <2>2
  <2>5. A * (H - f) > 0 /\ S * H > 0
    BY <2>1, <2>2, <2>3, <2>4
  <2> QED BY <2>1, <2>5
<1> QED BY <1>2, <1>3 DEF AnswerOk

\* On a schedule whose fees rise as liquidity falls, a larger request is never
\* quoted a better marginal price, in either direction; on a solvent pool every
\* price is positive.
THEOREM PricesNeverRise == Spec => []PriceNonIncreasing
<1>1. ASSUME QInv, Pair, FeesRise
      PROVE  quote.price[1] * prev.price[2] <= prev.price[1] * quote.price[2]
  <2> USE <1>1
  <2>1. Decoded(pool) /\ AnswerOk(quote) /\ AnswerOk(prev)
    BY DEF QInv
  <2>2. CASE quote.dir = "deposit"
    <3>1. prev.price = deposit_price /\ quote.price = deposit_price
      BY <2>1, <2>2 DEF AnswerOk, DepositOk, Pair
    <3>2. deposit_price[1] \in Nat /\ deposit_price[2] \in Nat
      BY <2>1, Figures DEF deposit_price, U64
    <3>3. deposit_price[1] * deposit_price[2] \in Nat
      BY <3>2
    <3> QED BY <3>1, <3>3
  <2>3. CASE quote.dir = "withdraw"
    <3> DEFINE v == withdrawal_amount(prev.amount)
               w == withdrawal_amount(quote.amount)
               A == refreshed_assets
               S == pool.mode_supply
               H == HundredPct
               f == Rate(i_end(v))
               g == Rate(i_end(w))
    <3>1. /\ S \in Nat /\ A \in Nat /\ v <= w /\ Charged(v) /\ Charged(w)
          /\ prev.price = <<A * (H - f), S * H>> /\ quote.price = <<A * (H - g), S * H>>
      BY <2>3, PairFacts
    <3>2. f \in Nat /\ g \in Nat /\ f < H /\ g < H /\ H \in Nat
      BY <2>1, <3>1, EndRate
    <3>3. f <= g
      BY <2>1, <3>1, RatesRise
    <3> HIDE DEF A, S, H, f, g
    <3>4. H - g \in Nat /\ H - f \in Nat /\ H - g <= H - f /\ S * H \in Nat
      BY <3>1, <3>2, <3>3
    <3>5. A * (H - g) <= A * (H - f) /\ A * (H - g) \in Nat /\ A * (H - f) \in Nat
      BY <3>1, <3>4
    <3>6. (A * (H - g)) * (S * H) <= (A * (H - f)) * (S * H)
      BY <3>4, <3>5, MulGrows
    <3> QED BY <3>1, <3>6
  <2>4. quote.dir \in {"deposit", "withdraw"}
    BY <2>1 DEF AnswerOk, Pair
  <2> QED BY <2>2, <2>3, <2>4
<1>2. QInv => PriceNonIncreasing
  BY <1>1, PricePositive DEF PriceNonIncreasing, QInv
<1> QED BY <1>2, QInvAlways, PTL
-----------------------------------------------------------------------------
(* The fee of a whole withdrawal. *)

\* Induction over the natural numbers, for a set.
LEMMA NatSetInduction ==
  ASSUME NEW S, 0 \in S, \A n \in Nat : n \in S => n + 1 \in S
  PROVE  Nat \subseteq S
<1> DEFINE T == {n \in Nat : n \notin S}
<1>1. ASSUME T # {} PROVE FALSE
  <2>1. T \subseteq Nat
    OBVIOUS
  <2>2. PICK x \in T : \A y \in T : x <= y
    BY <1>1, <2>1, LeastNat
  <2>3. x \in Nat /\ x \notin S
    OBVIOUS
  <2>4. x # 0
    BY <2>3
  <2>5. x - 1 \in Nat /\ (x - 1) + 1 = x
    BY <2>3, <2>4
  <2>6. x - 1 \in S
    BY <2>2, <2>3, <2>5
  <2> QED BY <2>3, <2>5, <2>6
<1> QED BY <1>1

\* The running sum of d.
LEMMA RunningSum ==
  ASSUME NEW d \in [Nat -> Nat], NEW N \in Nat
  PROVE  \E G \in [Nat -> Nat] : G[0] = 0 /\ \A k \in 1 .. N : G[k] = G[k - 1] + d[k]
<1> DEFINE Sum(G, n) == G[0] = 0 /\ \A k \in 1 .. n : G[k] = G[k - 1] + d[k]
           S == {n \in Nat : \E G \in [Nat -> Nat] : Sum(G, n)}
<1>1. 0 \in S
  <2> DEFINE Z == [n \in Nat |-> 0]
  <2>1. Z \in [Nat -> Nat] /\ Sum(Z, 0)
    OBVIOUS
  <2> QED BY <2>1
<1>2. ASSUME NEW n \in Nat, n \in S PROVE n + 1 \in S
  <2>1. PICK G \in [Nat -> Nat] : Sum(G, n)
    BY <1>2
  <2> DEFINE E == [m \in Nat |-> IF m = n + 1 THEN G[n] + d[n + 1] ELSE G[m]]
  <2>2. E \in [Nat -> Nat] /\ E[0] = 0
    BY <2>1
  <2>3. ASSUME NEW k \in 1 .. n + 1 PROVE E[k] = E[k - 1] + d[k]
    <3>1. k \in Nat /\ k - 1 \in Nat /\ k - 1 # n + 1
      OBVIOUS
    <3>2. CASE k = n + 1
      BY <3>1, <3>2
    <3>3. CASE k # n + 1
      <4>1. k \in 1 .. n
        BY <3>3
      <4>2. E[k] = G[k] /\ E[k - 1] = G[k - 1]
        BY <3>1, <3>3
      <4> QED BY <2>1, <4>1, <4>2
    <3> QED BY <3>2, <3>3
  <2>4. Sum(E, n + 1)
    BY <2>2, <2>3
  <2> HIDE DEF E, Sum
  <2> QED BY <2>2, <2>4
<1> HIDE DEF Sum
<1>3. N \in S
  <2> HIDE DEF S
  <2> QED BY <1>1, <1>2, NatSetInduction
<1> QED BY <1>3 DEF Sum

\* The fees charged up to each bracket exist.
LEMMA FeeTableExists ==
  ASSUME Decoded(pool), i_start # 0
  PROVE  \E F : FeeTable(F)
<1> DEFINE k == i_start
           slice(n) == DivCeil((Enter(n - 1) - Enter(n)) * Rate(n), HundredPct)
           d == [m \in Nat |-> IF m \in 1 .. k - 1 THEN slice(k + 1 - m) ELSE 0]
<1>1. k \in Nat /\ k \in 1 .. Len(pool.brackets) /\ k >= 1
  BY StartFacts, BracketTypes
<1>2. ASSUME NEW n \in 2 .. k PROVE slice(n) \in Nat
  <2>1. n \in 1 .. i_start /\ n > 1 /\ n \in 1 .. Len(pool.brackets)
    BY <1>1, BracketTypes
  <2>2. Enter(n) \in Nat /\ Enter(n - 1) \in Nat /\ Enter(n) <= Enter(n - 1)
    BY <2>1, EnterFacts
  <2>3. Enter(n - 1) - Enter(n) \in Nat /\ Rate(n) \in Nat /\ HundredPct \in Nat \ {0}
    BY <2>1, <2>2, BracketTypes, Figures DEF Rate
  <2> QED BY <2>3, CeilWithin
<1> HIDE DEF slice, k
<1>3. ASSUME NEW m \in Nat PROVE (IF m \in 1 .. k - 1 THEN slice(k + 1 - m) ELSE 0) \in Nat
  <2>1. CASE m \in 1 .. k - 1
    <3>1. k + 1 - m \in 2 .. k
      BY <1>1, <2>1
    <3> QED BY <1>2, <2>1, <3>1
  <2> QED BY <2>1
<1>4. d \in [Nat -> Nat]
  BY <1>3
<1>5. \A m \in 1 .. k - 1 : d[m] = slice(k + 1 - m)
  BY <1>1
<1> HIDE DEF d
<1>6. PICK G \in [Nat -> Nat] : G[0] = 0 /\ \A m \in 1 .. k : G[m] = G[m - 1] + d[m]
  BY <1>1, <1>4, RunningSum
<1> DEFINE F == [n \in 1 .. k |-> G[k - n]]
<1>7. F \in [1 .. k -> Nat] /\ F[k] = 0
  BY <1>1, <1>6
<1>8. ASSUME NEW n \in 2 .. k PROVE F[n - 1] = F[n] + slice(n)
  <2> DEFINE m == k + 1 - n
  <2>1. m \in 1 .. k - 1 /\ m \in 1 .. k /\ k + 1 - m = n /\ m - 1 = k - n /\ m = k - (n - 1)
    BY <1>1
  <2>2. F[n - 1] = G[m] /\ F[n] = G[m - 1]
    BY <1>1, <2>1
  <2>3. G[m] = G[m - 1] + d[m] /\ d[m] = slice(k + 1 - m)
    BY <1>5, <1>6, <2>1
  <2>4. slice(k + 1 - m) = slice(n)
    BY <2>1
  <2> QED BY <2>2, <2>3, <2>4
<1> HIDE DEF F
<1>9. FeeTable(F)
  BY <1>7, <1>8 DEF FeeTable, k, slice
<1> QED BY <1>9
LEMMA Distribute ==
  ASSUME NEW a \in Int, NEW x \in Int, NEW y \in Int
  PROVE  a * (x + y) = a * x + a * y /\ a * x \in Int /\ a * y \in Int
OBVIOUS

\* Between two brackets the fee grows by no more than the atoms withdrawn, and at
\* the rates of the brackets between them, give or take a rounding per bracket.
LEMMA TableSpan ==
  ASSUME Decoded(pool), i_start # 0, NEW F, FeeTable(F),
         NEW j \in 1 .. i_start, NEW k \in 1 .. j, NEW f \in Nat, NEW g \in Nat,
         \A n \in 1 .. i_start : k < n /\ n <= j =>
           g <= Rate(n) /\ Rate(n) <= f /\ Rate(n) <= HundredPct
  PROVE  /\ Enter(k) \in Nat /\ Enter(j) \in Nat /\ Enter(j) <= Enter(k)
         /\ F[k] \in Nat /\ F[j] \in Nat /\ F[k] - F[j] <= Enter(k) - Enter(j)
         /\ HundredPct * (F[k] - F[j]) <= f * (Enter(k) - Enter(j)) + (j - k) * HundredPct
         /\ g * (Enter(k) - Enter(j)) <= HundredPct * (F[k] - F[j])
<1> DEFINE H == HundredPct
           P(m) == /\ Enter(m) \in Nat /\ Enter(j) <= Enter(m) /\ F[m] \in Nat
                   /\ F[m] - F[j] <= Enter(m) - Enter(j)
                   /\ H * (F[m] - F[j]) <= f * (Enter(m) - Enter(j)) + (j - m) * H
                   /\ g * (Enter(m) - Enter(j)) <= H * (F[m] - F[j])
           S == {d \in Nat : d <= j - k => P(j - d)}
<1>1. i_start \in Nat /\ i_start <= Len(pool.brackets) /\ H \in Nat \ {0}
  BY StartFacts, BracketTypes, Figures
<1>2. j \in Nat /\ k \in Nat /\ 1 <= k /\ k <= j /\ j <= i_start
  BY <1>1
<1>3. Enter(j) \in Nat /\ F[j] \in Nat
  BY <1>1, EnterFacts DEF FeeTable
<1> HIDE DEF H
<1>4. P(j)
  <2>1. /\ Enter(j) - Enter(j) = 0 /\ F[j] - F[j] = 0 /\ j - j = 0
    BY <1>2, <1>3
  <2>2. H * 0 = 0 /\ f * 0 = 0 /\ g * 0 = 0 /\ 0 * H = 0
    BY <1>1
  <2> QED BY <1>3, <2>1, <2>2
<1>5. 0 \in S
  BY <1>2, <1>4
<1>6. ASSUME NEW d \in Nat, d \in S PROVE d + 1 \in S
  <2> SUFFICES ASSUME d + 1 <= j - k PROVE P(j - (d + 1))
    OBVIOUS
  <2> DEFINE n == j - d
             m == n - 1
             x == Enter(m) - Enter(n)
             c == DivCeil(x * Rate(n), H)
  <2>1. /\ n \in 2 .. i_start /\ n \in 1 .. i_start /\ n > 1 /\ k < n /\ n <= j /\ n \in Nat
        /\ n \in 1 .. Len(pool.brackets) /\ m \in Nat /\ j - (d + 1) = m
    BY <1>1, <1>2, BracketTypes
  <2>2. P(n)
    BY <1>2, <1>6
  <2>3. Enter(n) \in Nat /\ Enter(m) \in Nat /\ Enter(n) <= Enter(m)
    BY <2>1, EnterFacts
  <2>4. F[m] = F[n] + c
    BY <2>1 DEF FeeTable, H
  <2>5. Rate(n) \in Nat /\ g <= Rate(n) /\ Rate(n) <= f /\ Rate(n) <= H
    BY <2>1, BracketTypes DEF Rate, H
  <2>6. x \in Nat
    BY <2>3
  <2> HIDE DEF n, x
  <2>7. /\ c \in Nat /\ c <= x /\ Rate(n) * x <= H * c /\ H * c <= Rate(n) * x + H
    BY <1>1, <2>5, <2>6, CeilWithin
  <2> HIDE DEF m, c
  <2>8. g * x <= Rate(n) * x /\ Rate(n) * x <= f * x
    BY <2>5, <2>6, MulGrows
  <2>9. /\ Enter(m) - Enter(j) = (Enter(n) - Enter(j)) + x
        /\ F[m] - F[j] = (F[n] - F[j]) + c /\ F[m] \in Nat
        /\ j - m = (j - n) + 1
    <3>1. F[n] \in Nat
      BY <2>2
    <3>2. F[m] \in Nat /\ F[m] - F[j] = (F[n] - F[j]) + c
      BY <1>3, <2>4, <2>7, <3>1
    <3>3. Enter(m) - Enter(j) = (Enter(n) - Enter(j)) + x
      BY <1>3, <2>3 DEF x
    <3>4. j - m = (j - n) + 1
      BY <1>2, <2>1 DEF m
    <3> QED BY <3>2, <3>3, <3>4
  <2> DEFINE e0 == Enter(n) - Enter(j)
             f0 == F[n] - F[j]
  <2>10. e0 \in Int /\ f0 \in Int /\ j - n \in Int
    BY <1>2, <1>3, <2>1, <2>2
  <2>11. /\ f0 <= e0 /\ H * f0 <= f * e0 + (j - n) * H /\ g * e0 <= H * f0
         /\ Enter(j) <= Enter(n)
    BY <2>2
  <2>12. /\ Enter(m) - Enter(j) = e0 + x /\ F[m] - F[j] = f0 + c
    BY <2>9
  <2> HIDE DEF e0, f0
  <2>13. /\ H * (f0 + c) = H * f0 + H * c /\ f * (e0 + x) = f * e0 + f * x
         /\ g * (e0 + x) = g * e0 + g * x /\ ((j - n) + 1) * H = (j - n) * H + H
    BY <1>1, <2>6, <2>7, <2>10
  <2>14. /\ H * f0 \in Int /\ H * c \in Int /\ f * e0 \in Int /\ f * x \in Int /\ g * e0 \in Int
         /\ g * x \in Int /\ (j - n) * H \in Int /\ Rate(n) * x \in Int
    BY <1>1, <2>5, <2>6, <2>7, <2>10
  <2>15. H * (f0 + c) <= f * (e0 + x) + ((j - n) + 1) * H
    BY <1>1, <2>7, <2>8, <2>11, <2>13, <2>14
  <2>16. g * (e0 + x) <= H * (f0 + c)
    BY <1>1, <2>7, <2>8, <2>11, <2>13, <2>14
  <2>17. f0 + c <= e0 + x
    BY <2>6, <2>7, <2>10, <2>11
  <2>18. Enter(j) <= Enter(m)
    BY <1>3, <2>3, <2>11
  <2> QED BY <2>1, <2>3, <2>9, <2>12, <2>15, <2>16, <2>17, <2>18
<1>7. j - k \in Nat /\ j - (j - k) = k
  BY <1>2
<1>8. P(k)
  <2>1. j - k \in S
    <3> HIDE DEF S
    <3> QED BY <1>5, <1>6, <1>7, NatSetInduction
  <2> HIDE DEF P
  <2> QED BY <1>7, <2>1
<1> QED BY <1>3, <1>8 DEF H
\* From v to w atoms the fee grows by no more than w - v, and at the rates of the
\* brackets between them, give or take a rounding per bracket.
LEMMA FeeSpan ==
  ASSUME Decoded(pool), NEW F, FeeTable(F), NEW v, NEW w, Charged(v), Charged(w), v <= w,
         FeesFair(pool.brackets), NEW f \in Nat, NEW g \in Nat,
         \A n \in i_end(w) .. i_end(v) : g <= Rate(n) /\ Rate(n) <= f
  PROVE  /\ FeeOf(F, v) \in Nat /\ FeeOf(F, w) \in Nat
         /\ FeeOf(F, w) - FeeOf(F, v) <= w - v
         /\ HundredPct * (FeeOf(F, w) - FeeOf(F, v))
              <= f * (w - v) + Len(pool.brackets) * HundredPct
         /\ g * (w - v) - HundredPct <= HundredPct * (FeeOf(F, w) - FeeOf(F, v))
<1> DEFINE H == HundredPct
           j == i_end(v)
           k == i_end(w)
           N == Len(pool.brackets)
           cv == DivCeil((v - Enter(j)) * Rate(j), H)
           cw == DivCeil((w - Enter(k)) * Rate(k), H)
           D == FeeOf(F, w) - FeeOf(F, v)
<1>1. /\ i_start # 0 /\ i_start \in Nat /\ i_start <= N /\ v \in Nat /\ w \in Nat
      /\ j \in Nat /\ j \in 1 .. i_start /\ k \in Nat /\ k \in 1 .. i_start
      /\ Enter(j) <= v /\ Enter(k) <= w /\ (j > 1 => v <= Enter(j - 1))
  BY EndFacts
<1>2. k <= j
  BY EndFalls
<1>3. N \in Nat /\ H \in Nat \ {0} /\ \A n \in 1 .. N : Rate(n) \in Nat
  BY BracketTypes, Figures DEF Rate
<1>4. Enter(j) \in Nat /\ Enter(k) \in Nat /\ F[j] \in Nat /\ F[k] \in Nat
  BY <1>1, EnterFacts DEF FeeTable
<1>5. FeeOf(F, v) = F[j] + cv /\ FeeOf(F, w) = F[k] + cw
  BY DEF FeeOf
<1>6. \A n \in k .. i_start : Rate(n) <= H
  BY FairRate
<1>7. \A n \in k .. j : g <= Rate(n) /\ Rate(n) <= f
  OBVIOUS
<1>8. \A n \in 1 .. i_start : n > 1 =>
        F[n - 1] = F[n] + DivCeil((Enter(n - 1) - Enter(n)) * Rate(n), H)
  <2> SUFFICES ASSUME NEW n \in 1 .. i_start, n > 1
               PROVE  F[n - 1] = F[n] + DivCeil((Enter(n - 1) - Enter(n)) * Rate(n), H)
    OBVIOUS
  <2>1. n \in 2 .. i_start
    BY <1>1
  <2> QED BY <2>1 DEF FeeTable
<1> HIDE DEF H, j, k, N
<1>9. /\ v - Enter(j) \in Nat /\ w - Enter(k) \in Nat /\ Rate(j) \in Nat /\ Rate(k) \in Nat
      /\ Rate(j) <= H /\ Rate(k) <= H
      /\ g <= Rate(j) /\ Rate(j) <= f /\ g <= Rate(k) /\ Rate(k) <= f
  <2>1. j \in 1 .. N /\ k \in 1 .. N /\ j \in k .. j /\ k \in k .. j /\ j \in k .. i_start
        /\ k \in k .. i_start
    BY <1>1, <1>2, <1>3
  <2> QED BY <1>1, <1>3, <1>4, <1>6, <1>7, <2>1
<1>10. cv \in Nat /\ cw \in Nat
  BY <1>3, <1>9, CeilWithin
<1>11. FeeOf(F, v) \in Nat /\ FeeOf(F, w) \in Nat /\ D \in Int
  <2> HIDE DEF cv, cw
  <2> QED BY <1>4, <1>5, <1>10
<1>12. CASE j = k
  <2> DEFINE x == w - Enter(k)
             y == v - Enter(k)
  <2>1. x \in Nat /\ y \in Nat /\ y <= x /\ x - y = w - v
    BY <1>1, <1>4, <1>9, <1>12
  <2>2. D = DivCeil(x * Rate(k), H) - DivCeil(y * Rate(k), H)
    <3> HIDE DEF x, y
    <3>1. cv = DivCeil(y * Rate(k), H) /\ cw = DivCeil(x * Rate(k), H)
      BY <1>12 DEF x, y
    <3> HIDE DEF cv, cw
    <3>2. D = cw - cv
      BY <1>4, <1>5, <1>10, <1>12
    <3> QED BY <3>1, <3>2
  <2> HIDE DEF x, y, D
  <2>3. /\ D <= x - y /\ H * D <= Rate(k) * (x - y) + H /\ Rate(k) * (x - y) - H <= H * D
    <3>1. /\ DivCeil(x * Rate(k), H) \in Nat /\ DivCeil(y * Rate(k), H) \in Nat
          /\ Rate(k) <= H => DivCeil(x * Rate(k), H) <= DivCeil(y * Rate(k), H) + (x - y)
          /\ H * (DivCeil(x * Rate(k), H) - DivCeil(y * Rate(k), H)) <= Rate(k) * (x - y) + H
          /\ Rate(k) * (x - y) - H <= H * (DivCeil(x * Rate(k), H) - DivCeil(y * Rate(k), H))
      BY <1>3, <1>9, <2>1, CeilStep
    <3> QED BY <1>9, <2>1, <2>2, <3>1
  <2>4. w - v \in Nat
    BY <1>1
  <2>5. Rate(k) * (w - v) <= f * (w - v) /\ g * (w - v) <= Rate(k) * (w - v)
    BY <1>9, <2>4, MulGrows
  <2>6. H <= N * H /\ N * H \in Nat
    BY <1>1, <1>3
  <2>7. f * (w - v) \in Int /\ g * (w - v) \in Int /\ Rate(k) * (w - v) \in Int /\ H * D \in Int
    BY <1>3, <1>9, <1>11, <2>4
  <2>8. H * D <= f * (w - v) + N * H /\ g * (w - v) - H <= H * D /\ D <= w - v
    BY <1>3, <2>1, <2>3, <2>5, <2>6, <2>7
  <2> QED BY <1>11, <2>8 DEF D, H, N
<1>13. CASE j # k
  <2> DEFINE m == j - 1
             a == Enter(m) - v
             b == Enter(k) - Enter(m)
             c == w - Enter(k)
             Da == F[m] - (F[j] + cv)
             Db == F[k] - F[m]
  <2>1. m \in Nat /\ j > 1 /\ k <= m /\ m < j /\ m \in 1 .. i_start /\ k \in 1 .. m /\ j - m = 1
    BY <1>1, <1>2, <1>13
  <2>2. \A n \in 1 .. i_start : k < n /\ n <= m => g <= Rate(n) /\ Rate(n) <= f /\ Rate(n) <= HundredPct
    BY <1>1, <1>6, <1>7, <2>1 DEF H
  <2>3. /\ Enter(m) \in Nat /\ F[m] \in Nat
        /\ Db <= b /\ H * Db <= f * b + (m - k) * H /\ g * b <= H * Db
    <3> HIDE DEF m
    <3> QED BY <1>1, <2>1, <2>2, TableSpan DEF H
  <2>4. v <= Enter(m)
    BY <1>1, <2>1
  <2>5. F[m] = F[j] + DivCeil((Enter(m) - Enter(j)) * Rate(j), H)
    BY <1>1, <1>8, <2>1
  <2>6. /\ Da <= a /\ H * Da <= Rate(j) * a + H /\ Rate(j) * a - H <= H * Da
    <3> DEFINE x == Enter(m) - Enter(j)
               y == v - Enter(j)
               cx == DivCeil(x * Rate(j), H)
    <3>1. x \in Nat /\ y \in Nat /\ y <= x /\ x - y = a
      <4> HIDE DEF m
      <4> QED BY <1>1, <1>4, <1>9, <2>3, <2>4
    <3>2. Da = cx - cv
      <4> HIDE DEF m, cv
      <4>1. cx \in Nat
        BY <1>3, <1>9, <3>1, CeilWithin
      <4>2. F[m] = F[j] + cx
        BY <2>5
      <4> HIDE DEF cx
      <4> QED BY <1>4, <1>10, <4>1, <4>2
    <3>3. cv = DivCeil(y * Rate(j), H)
      OBVIOUS
    <3> HIDE DEF x, y, m, Da, cv, a
    <3>4. /\ cx \in Nat /\ cv \in Nat
          /\ Rate(j) <= H => cx <= cv + (x - y)
          /\ H * (cx - cv) <= Rate(j) * (x - y) + H
          /\ Rate(j) * (x - y) - H <= H * (cx - cv)
      BY <1>3, <1>9, <3>1, <3>3, CeilStep
    <3> HIDE DEF cx
    <3> QED BY <1>9, <3>1, <3>2, <3>4
  <2>7. /\ cw <= c /\ H * cw <= Rate(k) * c + H /\ Rate(k) * c <= H * cw
    BY <1>3, <1>9, CeilWithin
  <2>8. /\ a \in Nat /\ b \in Int /\ c \in Nat /\ Da \in Int /\ Db \in Int
        /\ D = (Da + Db) + cw /\ w - v = (a + b) + c
    <3> HIDE DEF m, cv, cw
    <3> QED BY <1>1, <1>4, <1>5, <1>9, <1>10, <2>3, <2>4
  <2>9. m - k \in Int /\ (m - k) + 2 <= N
    BY <1>1, <1>3, <2>1
  <2> HIDE DEF a, b, c, Da, Db, cw, m, D
  <2>10. D <= w - v
    BY <1>10, <2>3, <2>6, <2>7, <2>8
  <2>11. /\ H * D = (H * Da + H * Db) + H * cw
         /\ f * (w - v) = (f * a + f * b) + f * c
         /\ g * (w - v) = (g * a + g * b) + g * c
    BY <1>3, <1>10, <2>8
  <2>12. /\ H * Da \in Int /\ H * Db \in Int /\ H * cw \in Int /\ f * a \in Int /\ f * b \in Int
         /\ f * c \in Int /\ g * a \in Int /\ g * b \in Int /\ g * c \in Int
         /\ Rate(j) * a \in Int /\ Rate(k) * c \in Int /\ (m - k) * H \in Int /\ N * H \in Int
    BY <1>3, <1>9, <1>10, <2>8, <2>9
  <2>13. /\ Rate(j) * a <= f * a /\ g * a <= Rate(j) * a
         /\ Rate(k) * c <= f * c /\ g * c <= Rate(k) * c
    BY <1>9, <2>8, MulGrows
  <2>14. (m - k) * H + 2 * H <= N * H
    <3>1. ((m - k) + 2) * H <= N * H
      BY <1>3, <2>9, MulGrows
    <3>2. ((m - k) + 2) * H = (m - k) * H + 2 * H
      BY <1>3, <2>9
    <3> QED BY <3>1, <3>2
  <2>15. H * D <= f * (w - v) + N * H
    BY <1>3, <2>3, <2>6, <2>7, <2>11, <2>12, <2>13, <2>14
  <2>16. g * (w - v) - H <= H * D
    BY <1>3, <2>3, <2>6, <2>7, <2>11, <2>12, <2>13
  <2> QED BY <1>11, <2>10, <2>15, <2>16 DEF D, H, N
<1> QED BY <1>12, <1>13
-----------------------------------------------------------------------------
(* The trait's pricing requirements. *)

\* The shares of every deposit asked for fit a u64, as those of a real pool do.
DepositFits ==
  \A n \in Amounts : pool.mode_supply # 0 /\ refreshed_assets # 0 =>
    (n * pool.mode_supply) \div refreshed_assets <= MaxU64

\* Two deposits, the smaller first.
LEMMA DepositPairFacts ==
  ASSUME QInv, Pair, quote.dir = "deposit", DepositFits
  PROVE  /\ prev.amount \in Nat /\ quote.amount \in Nat /\ prev.amount <= quote.amount
         /\ prev.expected_output \in Nat /\ quote.expected_output \in Nat
         /\ pool.mode_supply \in Nat /\ refreshed_assets \in Nat
         /\ prev.price = deposit_price /\ quote.price = deposit_price
         /\ IF pool.mode_supply = 0
            THEN prev.expected_output = prev.amount /\ quote.expected_output = quote.amount
            ELSE IF refreshed_assets = 0
            THEN /\ prev.expected_output = 0 /\ quote.expected_output = 0
                 /\ prev.amount = 0 /\ quote.amount = 0
            ELSE /\ prev.expected_output
                      = (prev.amount * pool.mode_supply) \div refreshed_assets
                 /\ quote.expected_output
                      = (quote.amount * pool.mode_supply) \div refreshed_assets
<1> DEFINE x == prev.amount
           y == quote.amount
           S == pool.mode_supply
           A == refreshed_assets
           cap == AsU64(SatSub(pool.liquidity_cap, refreshed_total_assets))
<1>1. /\ Decoded(pool) /\ DepositOk(prev) /\ DepositOk(quote) /\ prev.request <= quote.request
      /\ x \in U64 /\ y \in U64 /\ prev.expected_output \in U64 /\ quote.expected_output \in U64
  BY DEF QInv, AnswerOk, Pair
<1>2. /\ prev.request \in Amounts /\ quote.request \in Amounts
      /\ x = Lesser(prev.request, cap) /\ y = Lesser(quote.request, cap)
      /\ prev.expected_output = shares_for_deposit(x)
      /\ quote.expected_output = shares_for_deposit(y)
      /\ prev.request # 0 => prev.expected_output # 0
      /\ quote.request # 0 => quote.expected_output # 0
      /\ prev.price = deposit_price /\ quote.price = deposit_price
  BY <1>1 DEF DepositOk
<1>3. prev.request \in Nat /\ quote.request \in Nat /\ x \in Nat /\ y \in Nat /\ MaxU64 \in Nat
      /\ prev.expected_output \in Nat /\ quote.expected_output \in Nat
  <2>1. prev.request \in U64 /\ quote.request \in U64 /\ MaxU64 \in Nat
    BY <1>2, QuoteAssumption
  <2> QED BY <1>1, <2>1 DEF U64
<1>4. S \in Nat /\ A \in Nat
  BY <1>1, Figures DEF U64
<1>5. cap \in Nat
  <2>1. SatSub(pool.liquidity_cap, refreshed_total_assets) \in Nat
    BY <1>1, PoolFields, Figures DEF SatSub
  <2> QED BY <1>3, <2>1, AsU64Type DEF U64
<1> HIDE DEF cap
<1>6. /\ x <= y /\ x <= prev.request /\ y <= quote.request
  BY <1>1, <1>2, <1>3, <1>5 DEF Lesser
<1>7. ASSUME S # 0, A # 0, NEW n \in Amounts, NEW a \in Nat, a <= n
      PROVE  shares_for_deposit(a) = (a * S) \div A
  <2>1. n \in Nat
    BY QuoteAssumption DEF U64
  <2>2. (n * S) \div A <= MaxU64
    BY <1>7 DEF DepositFits
  <2>3. a * S \in Nat /\ n * S \in Nat /\ a * S <= n * S
    BY <1>4, <1>7, <2>1
  <2>4. (a * S) \div A <= (n * S) \div A /\ (a * S) \div A \in Nat /\ (n * S) \div A \in Nat
    BY <1>4, <1>7, <2>3, DivGrows, DivFacts
  <2>5. AsU64((a * S) \div A) = (a * S) \div A
    BY <1>3, <2>2, <2>4, Fits
  <2> QED BY <1>7, <2>5 DEF shares_for_deposit
<1>8. CASE S = 0
  BY <1>2, <1>3, <1>4, <1>6, <1>8 DEF shares_for_deposit
<1>9. CASE S # 0 /\ A = 0
  <2>1. prev.expected_output = 0 /\ quote.expected_output = 0
    BY <1>2, <1>9 DEF shares_for_deposit
  <2>2. prev.request = 0 /\ quote.request = 0
    BY <1>2, <2>1
  <2>3. x = 0 /\ y = 0
    BY <1>3, <1>6, <2>2
  <2> QED BY <1>2, <1>3, <1>4, <1>9, <2>1, <2>3
<1>10. CASE S # 0 /\ A # 0
  <2>1. shares_for_deposit(x) = (x * S) \div A /\ shares_for_deposit(y) = (y * S) \div A
    BY <1>2, <1>3, <1>6, <1>7, <1>10
  <2> QED BY <1>2, <1>3, <1>4, <1>6, <1>10, <2>1
<1> QED BY <1>8, <1>9, <1>10

LEMMA RisingIsFair ==
  ASSUME Decoded(pool), FeesRise
  PROVE  FeesFair(pool.brackets)
<1> SUFFICES ASSUME NEW m \in 1 .. Len(pool.brackets), NEW n \in 1 .. Len(pool.brackets), m <= n,
                    pool.brackets[m].fee_bps < HundredPct
             PROVE  pool.brackets[n].fee_bps <= HundredPct
  BY DEF FeesFair
<1>1. pool.brackets[m].fee_bps >= pool.brackets[n].fee_bps
  BY DEF FeesRise
<1>2. pool.brackets[m].fee_bps \in Nat /\ pool.brackets[n].fee_bps \in Nat /\ HundredPct \in Nat
  BY BracketTypes, Figures
<1> QED BY <1>1, <1>2

\* What two withdrawals pay out, the smaller first.
LEMMA WithdrawPairFacts ==
  ASSUME QInv, Pair, quote.dir = "withdraw", FeesFair(pool.brackets), NEW f \in Nat, NEW g \in Nat,
         \A n \in i_end(withdrawal_amount(quote.amount)) .. i_end(withdrawal_amount(prev.amount)) :
           g <= Rate(n) /\ Rate(n) <= f
  PROVE  LET v == withdrawal_amount(prev.amount)
             w == withdrawal_amount(quote.amount)
         IN  \E D \in Int :
               /\ quote.expected_output - prev.expected_output = (w - v) - D
               /\ prev.expected_output \in Nat /\ quote.expected_output \in Nat
               /\ D <= w - v
               /\ HundredPct * D <= f * (w - v) + Len(pool.brackets) * HundredPct
               /\ g * (w - v) - HundredPct <= HundredPct * D
<1> DEFINE v == withdrawal_amount(prev.amount)
           w == withdrawal_amount(quote.amount)
<1>1. /\ Decoded(pool) /\ WithdrawOk(prev) /\ WithdrawOk(quote) /\ Charged(v) /\ Charged(w)
      /\ v <= w /\ v \in Nat /\ w \in Nat
  BY PairFacts
<1>2. i_start # 0
  BY <1>1 DEF Charged
<1>3. PICK F : FeeTable(F)
  BY <1>1, <1>2, FeeTableExists
<1>4. prev.expected_output = v - FeeOf(F, v) /\ quote.expected_output = w - FeeOf(F, w)
  BY <1>1, <1>3 DEF WithdrawOk
<1> HIDE DEF v, w
<1>5. /\ FeeOf(F, v) \in Nat /\ FeeOf(F, w) \in Nat
      /\ FeeOf(F, w) - FeeOf(F, v) <= w - v
      /\ HundredPct * (FeeOf(F, w) - FeeOf(F, v)) <= f * (w - v) + Len(pool.brackets) * HundredPct
      /\ g * (w - v) - HundredPct <= HundredPct * (FeeOf(F, w) - FeeOf(F, v))
  BY <1>1, <1>3, FeeSpan DEF v, w
<1>6. prev.expected_output \in U64 /\ quote.expected_output \in U64
  BY DEF QInv, AnswerOk
<1> DEFINE D == FeeOf(F, w) - FeeOf(F, v)
<1>7. D \in Int /\ quote.expected_output - prev.expected_output = (w - v) - D
  BY <1>1, <1>4, <1>5
<1>8. prev.expected_output \in Nat /\ quote.expected_output \in Nat
  BY <1>6 DEF U64
<1> QED BY <1>5, <1>7, <1>8 DEF v, w

\* A larger request never gets less: within a bracket, across brackets whose fees
\* are rounded up one by one, and when the request is filled in part.
THEOREM OutputsNeverFall ==
  Spec => [](FeesFair(pool.brackets) /\ DepositFits => MonotonicOutput)
<1>1. QInv => (FeesFair(pool.brackets) /\ DepositFits => MonotonicOutput)
  <2> SUFFICES ASSUME QInv, FeesFair(pool.brackets), DepositFits, Pair
               PROVE  prev.expected_output <= quote.expected_output
    BY DEF MonotonicOutput
  <2>1. quote.dir \in {"deposit", "withdraw"} /\ Decoded(pool)
    BY DEF QInv, AnswerOk, Pair
  <2>2. CASE quote.dir = "deposit"
    <3> DEFINE x == prev.amount
               y == quote.amount
               S == pool.mode_supply
               A == refreshed_assets
    <3>1. /\ x \in Nat /\ y \in Nat /\ x <= y /\ S \in Nat /\ A \in Nat
          /\ IF S = 0 THEN prev.expected_output = x /\ quote.expected_output = y
             ELSE IF A = 0 THEN prev.expected_output = 0 /\ quote.expected_output = 0
             ELSE /\ prev.expected_output = (x * S) \div A
                  /\ quote.expected_output = (y * S) \div A
      BY <2>2, DepositPairFacts
    <3> HIDE DEF x, y, S, A
    <3>2. x * S <= y * S /\ x * S \in Nat /\ y * S \in Nat
      BY <3>1, MulGrows
    <3>3. A # 0 => (x * S) \div A <= (y * S) \div A
      BY <3>1, <3>2, DivGrows
    <3> QED BY <3>1, <3>3
  <2>3. CASE quote.dir = "withdraw"
    <3> DEFINE v == withdrawal_amount(prev.amount)
               w == withdrawal_amount(quote.amount)
               j == i_end(v)
               k == i_end(w)
    <3>1. v \in Nat /\ w \in Nat /\ v <= w /\ Charged(v) /\ Charged(w)
      BY <2>3, PairFacts
    <3>2. /\ j \in Nat /\ j \in 1 .. i_start /\ k \in Nat /\ k >= 1 /\ i_start \in Nat
          /\ i_start <= Len(pool.brackets)
      BY <2>1, <3>1, EndFacts
    <3>3. HundredPct \in Nat /\ 0 \in Nat /\ Len(pool.brackets) \in Nat
      BY <2>1, Figures, BracketTypes
    <3>4. \A n \in k .. j : 0 <= Rate(n) /\ Rate(n) <= HundredPct
      <4> TAKE n \in k .. j
      <4>1. n \in k .. i_start /\ n \in 1 .. Len(pool.brackets)
        BY <3>2, <3>3
      <4>2. Rate(n) \in Nat
        BY <2>1, <4>1, BracketTypes DEF Rate
      <4> QED BY <2>1, <3>1, <4>1, <4>2, FairRate
    <3>5. PICK D \in Int :
            /\ quote.expected_output - prev.expected_output = (w - v) - D /\ D <= w - v
            /\ prev.expected_output \in Nat /\ quote.expected_output \in Nat
      BY <2>3, <3>3, <3>4, WithdrawPairFacts
    <3> HIDE DEF v, w
    <3> QED BY <3>1, <3>5
  <2> QED BY <2>1, <2>2, <2>3
<1> QED BY <1>1, QInvAlways, PTL
\* The chord in numbers: w - v = p atoms of assets for s shares, of which the fee
\* took D at rates between g and f, with N roundings.
LEMMA WithdrawChord ==
  ASSUME NEW A \in Nat, NEW S \in Nat \ {0}, NEW H \in Nat \ {0}, NEW N \in Nat \ {0},
         NEW s \in Nat, NEW p \in Nat, NEW D \in Int, NEW f \in Nat, NEW g \in Nat,
         f < H, g < H,
         A * s <= (p + 1) * S, (p - 1) * S <= A * s,
         H * D <= f * p + N * H, g * p - H <= H * D
  PROVE  /\ (A * (H - f)) * s <= ((p - D) + (N + 1)) * (S * H)
         /\ ((p - D) - (N + 1)) * (S * H) <= (A * (H - g)) * s
<1> DEFINE hf == H - f
           hg == H - g
           up == (p - D) + (N + 1)
           lo == (p - D) - (N + 1)
<1>1. /\ hf \in Nat /\ hg \in Nat /\ hf <= H /\ hg <= H /\ up \in Int /\ lo \in Int
  OBVIOUS
<1>2. hf * (p + 1) <= H * up
  <2>1. hf * (p + 1) = (H * p - f * p) + hf
    OBVIOUS
  <2>2. H * up = ((H * p - H * D) + N * H) + H
    OBVIOUS
  <2>3. H * p \in Int /\ f * p \in Int /\ H * D \in Int /\ N * H \in Int
    OBVIOUS
  <2> HIDE DEF hf, up
  <2> QED BY <1>1, <2>1, <2>2, <2>3
<1>3. H * lo <= hg * (p - 1)
  <2>1. hg * (p - 1) = (H * p - g * p) - hg
    OBVIOUS
  <2>2. H * lo = ((H * p - H * D) - N * H) - H
    OBVIOUS
  <2>3. H <= N * H
    OBVIOUS
  <2>4. H * p \in Int /\ g * p \in Int /\ H * D \in Int /\ N * H \in Int
    OBVIOUS
  <2> HIDE DEF hg, lo
  <2> QED BY <1>1, <2>1, <2>2, <2>3, <2>4
<1> HIDE DEF hf, hg, up, lo
<1>4. (A * hf) * s <= up * (S * H)
  <2>1. (A * hf) * s = (A * s) * hf
    BY <1>1
  <2>2. (A * s) * hf <= ((p + 1) * S) * hf
    BY <1>1, MulGrows
  <2>3. ((p + 1) * S) * hf = (hf * (p + 1)) * S
    BY <1>1
  <2>4. (hf * (p + 1)) * S <= (H * up) * S
    BY <1>1, <1>2, MulGrows
  <2>5. (H * up) * S = up * (S * H)
    BY <1>1
  <2>6. (A * s) * hf \in Int /\ (hf * (p + 1)) * S \in Int /\ (H * up) * S \in Int
    BY <1>1
  <2> QED BY <2>1, <2>2, <2>3, <2>4, <2>5, <2>6
<1>5. lo * (S * H) <= (A * hg) * s
  <2>1. (A * hg) * s = (A * s) * hg
    BY <1>1
  <2>2. ((p - 1) * S) * hg <= (A * s) * hg
    BY <1>1, MulGrows
  <2>3. ((p - 1) * S) * hg = (hg * (p - 1)) * S
    BY <1>1
  <2>4. (H * lo) * S <= (hg * (p - 1)) * S
    BY <1>1, <1>3, MulGrows
  <2>5. (H * lo) * S = lo * (S * H)
    BY <1>1
  <2>6. (A * s) * hg \in Int /\ (hg * (p - 1)) * S \in Int /\ (H * lo) * S \in Int
    BY <1>1
  <2> QED BY <2>1, <2>2, <2>3, <2>4, <2>5, <2>6
<1> QED BY <1>4, <1>5 DEF hf, hg, up, lo

\* On a schedule whose fees rise as liquidity falls, the realised rate between two
\* fills lies between their marginal prices, give or take an atom per rounding.
THEOREM PricesBracketTheChord == Spec => [](DepositFits => PriceBracketsChord)
<1>1. QInv => (DepositFits => PriceBracketsChord)
  <2> DEFINE gained == quote.expected_output - prev.expected_output
             sold == quote.amount - prev.amount
             S == pool.mode_supply
             A == refreshed_assets
             N == Len(pool.brackets)
  <2> SUFFICES ASSUME QInv, DepositFits, Pair, FeesRise
               PROVE  /\ quote.price[1] * sold <= (gained + (N + 1)) * quote.price[2]
                      /\ (gained - (N + 1)) * prev.price[2] <= prev.price[1] * sold
    BY DEF PriceBracketsChord, Slack
  <2>1. quote.dir \in {"deposit", "withdraw"} /\ Decoded(pool)
    BY DEF QInv, AnswerOk, Pair
  <2>2. N \in Nat
    BY <2>1, BracketTypes
  <2>3. CASE quote.dir = "deposit"
    <3> DEFINE x == prev.amount
               y == quote.amount
               a == prev.expected_output
               b == quote.expected_output
    <3>1. /\ x \in Nat /\ y \in Nat /\ x <= y /\ S \in Nat /\ A \in Nat /\ a \in Nat /\ b \in Nat
          /\ prev.price = deposit_price /\ quote.price = deposit_price
          /\ IF S = 0 THEN a = x /\ b = y
             ELSE IF A = 0 THEN a = 0 /\ b = 0 /\ x = 0 /\ y = 0
             ELSE a = (x * S) \div A /\ b = (y * S) \div A
      BY <2>3, DepositPairFacts
    <3>2. deposit_price = IF S = 0 THEN <<1, 1>> ELSE <<S, A>>
      BY DEF deposit_price
    <3> HIDE DEF x, y, a, b, S, A, N
    <3>3. CASE S = 0
      <4>1. (y - x) <= (y - x) + (N + 1) /\ (y - x) - (N + 1) <= y - x
        BY <2>2, <3>1
      <4>2. prev.price[1] = 1 /\ prev.price[2] = 1 /\ quote.price[1] = 1 /\ quote.price[2] = 1
        BY <3>1, <3>2, <3>3
      <4>3. gained = y - x /\ sold = y - x
        BY <3>1, <3>3 DEF a, b, x, y
      <4> QED BY <2>2, <3>1, <4>1, <4>2, <4>3
    <3>4. CASE S # 0
      <4>1. prev.price[1] = S /\ prev.price[2] = A /\ quote.price[1] = S /\ quote.price[2] = A
        BY <3>1, <3>2, <3>4
      <4>2. gained = b - a /\ sold = y - x
        BY DEF a, b, x, y
      <4>3. S * (y - x) <= ((b - a) + (N + 1)) * A /\ ((b - a) - (N + 1)) * A <= S * (y - x)
        <5>1. CASE A = 0
          <6>1. y - x = 0 /\ S * 0 = 0 /\ b - a = 0
            BY <3>1, <3>4, <5>1
          <6>2. ((b - a) + (N + 1)) * 0 = 0 /\ ((b - a) - (N + 1)) * 0 = 0
            BY <2>2, <3>1
          <6> QED BY <5>1, <6>1, <6>2
        <5>2. CASE A # 0
          <6>1. x * S \in Nat /\ y * S \in Nat
            BY <3>1
          <6>2. /\ a * A <= x * S /\ x * S < (a + 1) * A
                /\ b * A <= y * S /\ y * S < (b + 1) * A
            BY <3>1, <3>4, <5>2, <6>1, DivFacts
          <6>3. /\ (a + 1) * A = a * A + A /\ (b + 1) * A = b * A + A
                /\ S * (y - x) = y * S - x * S
                /\ ((b - a) + (N + 1)) * A = ((b * A - a * A) + N * A) + A
                /\ ((b - a) - (N + 1)) * A = ((b * A - a * A) - N * A) - A
            BY <2>2, <3>1
          <6>4. a * A \in Nat /\ b * A \in Nat /\ N * A \in Nat
            BY <2>2, <3>1
          <6> QED BY <3>1, <6>1, <6>2, <6>3, <6>4
        <5> QED BY <5>1, <5>2
      <4> QED BY <4>1, <4>2, <4>3
    <3> QED BY <3>3, <3>4
  <2>4. CASE quote.dir = "withdraw"
    <3> DEFINE x == prev.amount
               y == quote.amount
               v == withdrawal_amount(x)
               w == withdrawal_amount(y)
               j == i_end(v)
               k == i_end(w)
               f == Rate(k)
               g == Rate(j)
               H == HundredPct
    <3>1. /\ S \in Nat \ {0} /\ A \in Nat /\ x \in Nat /\ y \in Nat /\ x <= y
          /\ v \in Nat /\ w \in Nat /\ v <= w /\ Charged(v) /\ Charged(w)
          /\ v * S <= x * A /\ x * A < (v + 1) * S /\ w * S <= y * A /\ y * A < (w + 1) * S
          /\ prev.price = <<A * (H - g), S * H>> /\ quote.price = <<A * (H - f), S * H>>
      BY <2>4, PairFacts
    <3>2. f \in Nat /\ g \in Nat /\ f < H /\ g < H /\ H \in Nat \ {0}
      BY <2>1, <3>1, EndRate
    <3>3. /\ j \in Nat /\ j \in 1 .. i_start /\ k \in Nat /\ k >= 1 /\ i_start \in Nat /\ i_start <= N
          /\ k \in 1 .. i_start
      BY <2>1, <3>1, EndFacts
    <3>4. \A n \in k .. j : g <= Rate(n) /\ Rate(n) <= f
      <4> TAKE n \in k .. j
      <4>1. n \in 1 .. N /\ k \in 1 .. N /\ j \in 1 .. N /\ k <= n /\ n <= j
        BY <2>2, <3>3
      <4>2. Rate(n) >= g /\ f >= Rate(n)
        BY <4>1 DEF FeesRise, Rate
      <4>3. Rate(n) \in Nat
        BY <2>1, <4>1, BracketTypes DEF Rate
      <4> QED BY <3>2, <4>2, <4>3
    <3>5. FeesFair(pool.brackets)
      BY <2>1, RisingIsFair
    <3>6. PICK D \in Int :
            /\ gained = (w - v) - D
            /\ H * D <= f * (w - v) + N * H
            /\ g * (w - v) - H <= H * D
      BY <2>4, <3>2, <3>4, <3>5, WithdrawPairFacts
    <3> DEFINE p == w - v
               s == y - x
    <3>7. N \in Nat \ {0}
      BY <2>2, <3>3
    <3> HIDE DEF x, y, v, w, f, g, H, S, A, N, j, k
    <3>8. p \in Nat /\ s \in Nat
      BY <3>1
    <3>9. /\ A * s = y * A - x * A /\ (p + 1) * S = ((w + 1) * S) - v * S
          /\ (p - 1) * S = w * S - (v + 1) * S
      BY <3>1
    <3>10. A * s <= (p + 1) * S /\ (p - 1) * S <= A * s
      <4>1. /\ y * A \in Int /\ x * A \in Int /\ (w + 1) * S \in Int /\ v * S \in Int
            /\ w * S \in Int /\ (v + 1) * S \in Int
        BY <3>1
      <4> QED BY <3>1, <3>9, <4>1
    <3>11. /\ (A * (H - f)) * s <= ((p - D) + (N + 1)) * (S * H)
           /\ ((p - D) - (N + 1)) * (S * H) <= (A * (H - g)) * s
      <4>1. H * D <= f * p + N * H /\ g * p - H <= H * D
        BY <3>6
      <4> HIDE DEF p, s
      <4> QED BY <3>1, <3>2, <3>7, <3>8, <3>10, <4>1, WithdrawChord
    <3>12. gained = p - D /\ sold = s
      BY <3>6 DEF x, y
    <3> HIDE DEF p, s, gained, sold
    <3> QED BY <3>1, <3>11, <3>12
  <2> QED BY <2>1, <2>3, <2>4
<1> QED BY <1>1, QInvAlways, PTL
-----------------------------------------------------------------------------
(* The loop charges what charging atom by atom would. *)

LEMMA EnterFalls ==
  ASSUME Decoded(pool), i_start # 0, NEW n \in 1 .. i_start, NEW m \in 1 .. n
  PROVE  Enter(m) \in Nat /\ Enter(n) \in Nat /\ Enter(n) <= Enter(m)
<1> DEFINE S == {d \in Nat : d < n => Enter(n - d) \in Nat /\ Enter(n) <= Enter(n - d)}
<1>1. i_start \in Nat /\ n \in Nat /\ m \in Nat /\ 1 <= m /\ m <= n /\ n <= i_start /\ 1 <= n
  BY StartFacts
<1>2. Enter(n) \in Nat
  BY EnterFacts
<1>3. 0 \in S
  BY <1>1, <1>2
<1>4. ASSUME NEW d \in Nat, d \in S PROVE d + 1 \in S
  <2> SUFFICES ASSUME d + 1 < n
               PROVE  Enter(n - (d + 1)) \in Nat /\ Enter(n) <= Enter(n - (d + 1))
    OBVIOUS
  <2> DEFINE x == n - d
  <2>1. x \in 1 .. i_start /\ x > 1 /\ n - (d + 1) = x - 1 /\ d < n
    BY <1>1
  <2>2. Enter(x) \in Nat /\ Enter(n) <= Enter(x)
    BY <1>4, <2>1
  <2> HIDE DEF x
  <2>3. Enter(x - 1) \in Nat /\ Enter(x) <= Enter(x - 1)
    BY <2>1, EnterFacts
  <2> QED BY <1>2, <2>1, <2>2, <2>3
<1>5. n - m \in S
  <2>1. n - m \in Nat
    BY <1>1
  <2> HIDE DEF S
  <2> QED BY <1>3, <1>4, <2>1, NatSetInduction
<1>6. n - m < n /\ n - (n - m) = m
  BY <1>1
<1> QED BY <1>2, <1>5, <1>6

\* The k-th atom is charged in bracket n exactly between that bracket's boundaries.
LEMMA AtomIs ==
  ASSUME Decoded(pool), i_start # 0, NEW k \in Nat \ {0}, NEW n \in 1 .. i_start,
         Enter(n) < k, n > 1 => k <= Enter(n - 1)
  PROVE  AtomBracket(k) = n
<1> DEFINE L == liquid_assets_before
           T == refreshed_total_assets
           H == HundredPct
           fallen(m) == (L - k) * H < Ratio(m) * (T - k)
           below == {m \in 1 .. i_start : fallen(m)}
           least == CHOOSE x \in below : \A m \in below : x <= m
<1>1. AtomBracket(k) = IF below = {} THEN i_start ELSE least
  BY DEF AtomBracket, Ratio
<1>2. L \in Nat /\ T \in Nat /\ L <= T /\ H \in Nat /\ i_start \in Nat /\ i_start <= Len(pool.brackets)
      /\ n \in Nat /\ 1 <= n /\ n <= i_start
  BY Figures, StartFacts, BracketTypes
<1>3. ASSUME NEW m \in 1 .. i_start, m # i_start
      PROVE  fallen(m) <=> Enter(m) < k
  <2> DEFINE r == Ratio(m)
             h == H - r
             e == Enter(m)
  <2>1. m < i_start /\ m \in 1 .. Len(pool.brackets)
    BY <1>2, <1>3, BracketTypes
  <2>2. r \in Nat /\ r < H /\ r * T <= L * H
    BY <2>1, StartFacts, BracketTypes DEF Ratio
  <2>3. e = Boundary(L, T, H, r)
    BY <1>3 DEF Enter
  <2> HIDE DEF L, T, H, r, e
  <2>4. e \in Nat /\ e * h <= L * H - r * T /\ L * H - r * T < (e + 1) * h
    BY <1>2, <2>2, <2>3, BoundaryFacts
  <2>5. h \in Nat \ {0}
    BY <1>2, <2>2
  <2>6. (L - k) * H - r * (T - k) = (L * H - r * T) - k * h
    BY <1>2, <2>2
  <2>7. /\ (L - k) * H \in Int /\ r * (T - k) \in Int /\ L * H - r * T \in Int
        /\ k * h \in Int /\ e * h \in Int /\ (e + 1) * h \in Int
    BY <1>2, <2>2, <2>4
  <2> HIDE DEF h
  <2>8. ASSUME e < k PROVE L * H - r * T < k * h
    <3>1. (e + 1) * h <= k * h
      BY <2>4, <2>5, <2>8, MulGrows
    <3> QED BY <2>4, <2>7, <3>1
  <2>9. ASSUME ~(e < k) PROVE k * h <= L * H - r * T
    <3>1. k * h <= e * h
      BY <2>4, <2>5, <2>9, MulGrows
    <3> QED BY <2>4, <2>7, <3>1
  <2>10. (L - k) * H < r * (T - k) <=> e < k
    BY <2>6, <2>7, <2>8, <2>9
  <2> QED BY <2>10 DEF r, e
<1> HIDE DEF L, T, H, fallen
<1>4. ASSUME NEW m \in 1 .. i_start, m < n PROVE ~fallen(m)
  <2>1. n > 1 /\ n - 1 \in 1 .. i_start /\ m \in 1 .. n - 1 /\ m # i_start
    BY <1>2, <1>4
  <2>2. Enter(m) \in Nat /\ Enter(n - 1) \in Nat /\ Enter(n - 1) <= Enter(m)
    BY <2>1, EnterFalls
  <2>3. k <= Enter(m)
    BY <2>1, <2>2
  <2> QED BY <1>3, <2>1, <2>2, <2>3
<1>5. CASE n \in below
  <2>1. \A m \in below : n <= m
    BY <1>2, <1>4
  <2>2. \A x \in below : (\A m \in below : x <= m) => x = n
    BY <1>2, <1>5, <2>1
  <2>3. least = n
    BY <1>5, <2>1, <2>2
  <2> QED BY <1>1, <1>5, <2>3
<1>6. CASE n \notin below
  <2>1. n = i_start
    BY <1>3, <1>6
  <2>2. below = {}
    BY <1>2, <1>4, <1>6, <2>1
  <2> QED BY <1>1, <2>1, <2>2
<1> QED BY <1>5, <1>6

LEMMA AtomRange ==
  ASSUME Decoded(pool), i_start # 0, NEW k \in Nat \ {0}
  PROVE  /\ AtomBracket(k) \in 1 .. i_start /\ Enter(AtomBracket(k)) < k
         /\ AtomBracket(k) > 1 => k <= Enter(AtomBracket(k) - 1)
<1> DEFINE M == {m \in 1 .. i_start : Enter(m) < k}
<1>1. i_start \in Nat /\ i_start \in 1 .. i_start /\ Enter(i_start) = 0
  BY StartFacts DEF Enter
<1>2. i_start \in M /\ M \subseteq Nat
  BY <1>1
<1>3. PICK n \in M : \A m \in M : n <= m
  BY <1>2, LeastNat
<1>4. ASSUME n > 1 PROVE k <= Enter(n - 1)
  <2>1. n - 1 \in 1 .. i_start /\ ~(n <= n - 1)
    BY <1>1, <1>4
  <2>2. ~(Enter(n - 1) < k)
    BY <1>3, <2>1
  <2>3. Enter(n - 1) \in Nat
    BY <2>1, EnterFacts
  <2> QED BY <2>2, <2>3
<1>5. AtomBracket(k) = n
  BY <1>4, AtomIs
<1> QED BY <1>4, <1>5
\* The atoms of a withdrawal of w that are charged in bracket n.
Atoms(w, n) == Cardinality({k \in 1 .. w : AtomBracket(k) = n})

LEMMA AtomsOf ==
  ASSUME Decoded(pool), NEW w, Charged(w), NEW n \in 1 .. Len(pool.brackets)
  PROVE  Atoms(w, n) = IF n < i_end(w) \/ n > i_start THEN 0
                       ELSE IF n = i_end(w) THEN w - Enter(n)
                       ELSE Enter(n - 1) - Enter(n)
<1> DEFINE j == i_end(w)
           K == {k \in 1 .. w : AtomBracket(k) = n}
<1>1. /\ i_start # 0 /\ i_start \in Nat /\ i_start <= Len(pool.brackets) /\ w \in Nat
      /\ j \in Nat /\ j \in 1 .. i_start /\ 1 <= j /\ j <= i_start
      /\ Enter(j) <= w /\ (j > 1 => w <= Enter(j - 1))
  BY EndFacts
<1>2. n \in Nat /\ 1 <= n
  BY BracketTypes
<1> HIDE DEF j
<1>3. ASSUME NEW k \in 1 .. w
      PROVE  /\ k \in Nat \ {0} /\ AtomBracket(k) \in 1 .. i_start
             /\ Enter(AtomBracket(k)) < k
             /\ AtomBracket(k) > 1 => k <= Enter(AtomBracket(k) - 1)
  <2>1. k \in Nat \ {0}
    BY <1>1
  <2> QED BY <1>1, <2>1, AtomRange
<1>4. CASE n > i_start
  <2>1. K = {}
    BY <1>1, <1>2, <1>3, <1>4
  <2>2. Cardinality(K) = 0
    BY <2>1, FS_EmptySet
  <2> QED BY <1>4, <2>2 DEF Atoms
<1>5. CASE n < j
  <2>1. n \in 1 .. i_start /\ j - 1 \in 1 .. i_start /\ n \in 1 .. j - 1 /\ j > 1
    BY <1>1, <1>2, <1>5
  <2>2. Enter(n) \in Nat /\ Enter(j - 1) \in Nat /\ Enter(j - 1) <= Enter(n)
    BY <1>1, <2>1, EnterFalls
  <2>3. w <= Enter(n)
    BY <1>1, <2>1, <2>2
  <2>4. ASSUME NEW k \in K PROVE FALSE
    <3>1. k \in 1 .. w /\ AtomBracket(k) = n
      OBVIOUS
    <3>2. Enter(n) < k /\ k \in Nat
      BY <1>3, <3>1
    <3> QED BY <1>1, <2>2, <2>3, <3>1, <3>2
  <2>5. K = {}
    BY <2>4
  <2>6. Cardinality(K) = 0
    BY <2>5, FS_EmptySet
  <2> QED BY <1>5, <2>6 DEF Atoms, j
<1>6. CASE ~(n < j) /\ ~(n > i_start)
  <2> DEFINE exit == IF n = j THEN w ELSE Enter(n - 1)
  <2>1. n \in 1 .. i_start /\ j \in 1 .. n /\ (n # j => n > 1)
    BY <1>1, <1>2, <1>6
  <2>2. Enter(n) \in Nat /\ Enter(j) \in Nat /\ Enter(n) <= Enter(j)
    BY <1>1, <2>1, EnterFalls
  <2>3. n # j => /\ Enter(n - 1) \in Nat /\ Enter(n) <= Enter(n - 1) /\ Enter(n - 1) <= w
    <3> HAVE n # j
    <3>1. n - 1 \in 1 .. i_start /\ j \in 1 .. n - 1
      BY <1>1, <1>2, <2>1
    <3>2. Enter(n - 1) \in Nat /\ Enter(j) \in Nat /\ Enter(n - 1) <= Enter(j)
      BY <1>1, <3>1, EnterFalls
    <3>3. Enter(n) <= Enter(n - 1)
      BY <1>1, <2>1, EnterFacts
    <3> QED BY <1>1, <3>2, <3>3
  <2>4. exit \in Nat /\ Enter(n) <= exit /\ exit <= w /\ (n > 1 => exit <= Enter(n - 1))
    BY <1>1, <1>2, <2>2, <2>3
  <2>5. ASSUME NEW k \in Nat \ {0}, Enter(n) < k, k <= exit PROVE AtomBracket(k) = n
    <3>1. n > 1 => k <= Enter(n - 1)
      <4> HAVE n > 1
      <4>1. n - 1 \in 1 .. i_start
        BY <1>1, <2>1
      <4>2. Enter(n - 1) \in Nat
        BY <1>1, <4>1, EnterFacts
      <4> HIDE DEF exit
      <4> QED BY <2>4, <2>5, <4>2
    <3> QED BY <1>1, <2>1, <2>5, <3>1, AtomIs
  <2>6. ASSUME NEW k \in 1 .. w, AtomBracket(k) = n PROVE Enter(n) < k /\ k <= exit /\ k \in Nat
    BY <1>1, <1>3, <2>1, <2>6
  <2> HIDE DEF exit
  <2>7. K = Enter(n) + 1 .. exit
    <3>1. ASSUME NEW k \in K PROVE k \in Enter(n) + 1 .. exit
      BY <2>2, <2>4, <2>6
    <3>2. ASSUME NEW k \in Enter(n) + 1 .. exit PROVE k \in K
      <4>1. k \in Nat \ {0} /\ Enter(n) < k /\ k <= exit /\ k \in 1 .. w
        BY <1>1, <2>2, <2>4
      <4> QED BY <2>5, <4>1
    <3> QED BY <3>1, <3>2
  <2>8. Cardinality(K) = exit - Enter(n)
    <3>1. Enter(n) + 1 \in Int /\ exit \in Int
      BY <2>2, <2>4
    <3>2. Cardinality(Enter(n) + 1 .. exit)
            = IF Enter(n) + 1 > exit THEN 0 ELSE exit - (Enter(n) + 1) + 1
      BY <3>1, FS_Interval
    <3>3. (IF Enter(n) + 1 > exit THEN 0 ELSE exit - (Enter(n) + 1) + 1) = exit - Enter(n)
      BY <2>2, <2>4
    <3> HIDE DEF K
    <3> QED BY <2>7, <3>2, <3>3
  <2> QED BY <1>6, <2>8 DEF Atoms, exit, j
<1> QED BY <1>4, <1>5, <1>6 

LEMMA CeilZero ==
  ASSUME NEW f \in Nat, NEW H \in Nat \ {0}
  PROVE  DivCeil(0 * f, H) = 0
<1>1. 0 * f = 0
  OBVIOUS
<1>2. (0 + H - 1) \div H = 0
  OBVIOUS
<1> QED BY <1>1, <1>2 DEF DivCeil

\* The sum over the brackets that ReferenceFee takes.
LEMMA ReferenceSum ==
  ASSUME Decoded(pool), NEW w, NEW d \in [Nat -> Nat],
         \A n \in 1 .. Len(pool.brackets) :
           d[n] = DivCeil(Atoms(w, n) * Rate(n), HundredPct)
  PROVE  \E G \in [Nat -> Nat] :
           /\ G[0] = 0 /\ \A n \in 1 .. Len(pool.brackets) : G[n] = G[n - 1] + d[n]
           /\ ReferenceFee(w) = G[Len(pool.brackets)]
<1> DEFINE N == Len(pool.brackets)
           atoms(n) == Cardinality({k \in 1 .. w : AtomBracket(k) = n})
           sum[n \in 0 .. N] ==
             IF n = 0 THEN 0
             ELSE sum[n - 1] + DivCeil(atoms(n) * pool.brackets[n].fee_bps, HundredPct)
<1>1. N \in Nat
  BY BracketTypes
<1>2. ReferenceFee(w) = sum[N]
  BY DEF ReferenceFee
<1>3. PICK G \in [Nat -> Nat] : G[0] = 0 /\ \A n \in 1 .. N : G[n] = G[n - 1] + d[n]
  BY <1>1, RunningSum
<1> DEFINE step(n) == DivCeil(atoms(n) * pool.brackets[n].fee_bps, HundredPct)
           g == [n \in 0 .. N |-> G[n]]
<1>4. \A n \in 1 .. N : d[n] = step(n)
  BY DEF Atoms, Rate
<1>5. sum = CHOOSE s : s = [n \in 0 .. N |-> IF n = 0 THEN 0 ELSE s[n - 1] + step(n)]
  BY DEF sum
<1> HIDE DEF N, atoms, step, sum
<1>6. g = [n \in 0 .. N |-> IF n = 0 THEN 0 ELSE g[n - 1] + step(n)]
  <2>1. ASSUME NEW n \in 0 .. N PROVE G[n] = IF n = 0 THEN 0 ELSE g[n - 1] + step(n)
    <3>1. CASE n = 0
      BY <1>3, <3>1
    <3>2. CASE n # 0
      <4>1. n \in 1 .. N /\ n - 1 \in 0 .. N
        BY <1>1, <3>2
      <4>2. g[n - 1] = G[n - 1]
        BY <4>1
      <4> QED BY <1>3, <1>4, <3>2, <4>1, <4>2
    <3> QED BY <3>1, <3>2
  <2> QED BY <2>1
<1>7. sum = [n \in 0 .. N |-> IF n = 0 THEN 0 ELSE sum[n - 1] + step(n)]
  <2> HIDE DEF g
  <2> QED BY <1>5, <1>6, Zenon
<1>8. ASSUME NEW n \in Nat PROVE n <= N => sum[n] = G[n]
  <2> DEFINE S == {m \in Nat : m <= N => sum[m] = G[m]}
  <2>1. 0 \in S
    BY <1>1, <1>3, <1>7
  <2>2. ASSUME NEW m \in Nat, m \in S PROVE m + 1 \in S
    <3> SUFFICES ASSUME m + 1 <= N PROVE sum[m + 1] = G[m + 1]
      OBVIOUS
    <3>1. m + 1 \in 1 .. N /\ m + 1 \in 0 .. N /\ (m + 1) - 1 = m /\ m <= N /\ m + 1 # 0
      BY <1>1
    <3>2. sum[m] = G[m]
      BY <2>2, <3>1
    <3>3. sum[m + 1] = sum[m] + step(m + 1)
      BY <1>7, <3>1
    <3>4. G[m + 1] = G[m] + step(m + 1)
      BY <1>3, <1>4, <3>1
    <3> QED BY <3>2, <3>3, <3>4
  <2>3. n \in S
    <3> HIDE DEF S
    <3> QED BY <2>1, <2>2, NatSetInduction
  <2> QED BY <2>3
<1>9. sum[N] = G[N]
  BY <1>1, <1>8
<1> QED BY <1>2, <1>3, <1>9 DEF N
LEMMA ReferenceOfNothing ==
  ASSUME Decoded(pool)
  PROVE  ReferenceFee(0) = 0
<1> DEFINE N == Len(pool.brackets)
           d == [n \in Nat |-> 0]
<1>1. N \in Nat /\ HundredPct \in Nat \ {0}
  BY BracketTypes, Figures
<1>2. ASSUME NEW n \in 1 .. N PROVE d[n] = DivCeil(Atoms(0, n) * Rate(n), HundredPct)
  <2>1. {k \in 1 .. 0 : AtomBracket(k) = n} = {}
    OBVIOUS
  <2>2. Atoms(0, n) = 0
    BY <2>1, FS_EmptySet DEF Atoms
  <2>3. Rate(n) \in Nat /\ n \in Nat
    BY <1>1, BracketTypes DEF Rate
  <2> QED BY <1>1, <2>2, <2>3, CeilZero
<1>3. d \in [Nat -> Nat] /\ \A n \in Nat : d[n] = 0
  OBVIOUS
<1> HIDE DEF d
<1>4. PICK G \in [Nat -> Nat] :
        /\ G[0] = 0 /\ \A n \in 1 .. N : G[n] = G[n - 1] + d[n]
        /\ ReferenceFee(0) = G[N]
  BY <1>2, <1>3, ReferenceSum
<1> DEFINE S == {n \in Nat : n <= N => G[n] = 0}
<1> HIDE DEF N
<1>5. 0 \in S
  BY <1>4
<1>6. ASSUME NEW n \in Nat, n \in S PROVE n + 1 \in S
  <2> SUFFICES ASSUME n + 1 <= N PROVE G[n + 1] = 0
    OBVIOUS
  <2>1. n + 1 \in 1 .. N /\ (n + 1) - 1 = n /\ n <= N /\ n + 1 \in Nat
    BY <1>1
  <2>2. G[n + 1] = G[n] + d[n + 1] /\ d[n + 1] = 0 /\ G[n] = 0
    BY <1>3, <1>4, <1>6, <2>1
  <2> QED BY <2>2
<1>7. N \in S
  <2> HIDE DEF S
  <2> QED BY <1>1, <1>5, <1>6, NatSetInduction
<1> QED BY <1>1, <1>4, <1>7

LEMMA ReferenceOfCharged ==
  ASSUME Decoded(pool), NEW w, Charged(w), NEW F, FeeTable(F)
  PROVE  ReferenceFee(w) = FeeOf(F, w)
<1> DEFINE N == Len(pool.brackets)
           H == HundredPct
           j == i_end(w)
           slice(n) == IF n < j \/ n > i_start THEN 0
                       ELSE IF n = j THEN DivCeil((w - Enter(n)) * Rate(n), H)
                       ELSE DivCeil((Enter(n - 1) - Enter(n)) * Rate(n), H)
           d == [n \in Nat |-> IF n \in 1 .. N THEN slice(n) ELSE 0]
           T == FeeOf(F, w)
<1>1. /\ i_start # 0 /\ i_start \in Nat /\ i_start <= N /\ w \in Nat
      /\ j \in Nat /\ j \in 1 .. i_start /\ 1 <= j /\ j <= i_start /\ Enter(j) <= w
  BY EndFacts
<1>2. N \in Nat /\ H \in Nat \ {0} /\ \A n \in 1 .. N : Rate(n) \in Nat
  BY BracketTypes, Figures DEF Rate
<1>3. ASSUME NEW n \in 1 .. N
      PROVE  slice(n) \in Nat /\ slice(n) = DivCeil(Atoms(w, n) * Rate(n), H)
  <2>1. Atoms(w, n) = IF n < j \/ n > i_start THEN 0
                      ELSE IF n = j THEN w - Enter(n) ELSE Enter(n - 1) - Enter(n)
    BY AtomsOf
  <2>2. Rate(n) \in Nat /\ n \in Nat
    BY <1>2
  <2>3. CASE n < j \/ n > i_start
    <3>1. Atoms(w, n) = 0 /\ slice(n) = 0
      BY <2>1, <2>3
    <3>2. DivCeil(0 * Rate(n), H) = 0
      BY <1>2, <2>2, CeilZero
    <3> QED BY <3>1, <3>2
  <2>4. CASE ~(n < j \/ n > i_start)
    <3>1. n \in 1 .. i_start /\ (n # j => n > 1)
      BY <1>1, <2>2, <2>4
    <3>2. Enter(n) \in Nat /\ (n > 1 => Enter(n - 1) \in Nat /\ Enter(n) <= Enter(n - 1))
      BY <1>1, <3>1, EnterFacts
    <3>3. Atoms(w, n) \in Nat /\ slice(n) = DivCeil(Atoms(w, n) * Rate(n), H)
      <4>1. CASE n = j
        BY <1>1, <2>1, <2>4, <3>2, <4>1
      <4>2. CASE n # j
        BY <2>1, <2>4, <3>1, <3>2, <4>2
      <4> QED BY <4>1, <4>2
    <3>4. DivCeil(Atoms(w, n) * Rate(n), H) \in Nat
      BY <1>2, <2>2, <3>3, CeilWithin
    <3> QED BY <3>3, <3>4
  <2> QED BY <2>3, <2>4
<1>4. /\ F[i_start] = 0 /\ \A n \in 1 .. i_start : F[n] \in Nat
      /\ \A n \in 2 .. i_start : F[n - 1] = F[n] + DivCeil((Enter(n - 1) - Enter(n)) * Rate(n), H)
  BY DEF FeeTable
<1>5. T = F[j] + slice(j)
  <2>1. slice(j) = DivCeil((w - Enter(j)) * Rate(j), H)
    BY <1>1
  <2> QED BY <2>1 DEF FeeOf
<1>6. \A n \in 2 .. i_start : n > j => F[n - 1] = F[n] + slice(n)
  BY <1>1, <1>4
<1>7. \A n \in 1 .. N : n < j \/ n > i_start => slice(n) = 0
  OBVIOUS
<1> HIDE DEF slice, N, H, j
<1>8. d \in [Nat -> Nat] /\ \A n \in 1 .. N : d[n] = slice(n)
  BY <1>2, <1>3
<1> HIDE DEF d
<1>9. PICK G \in [Nat -> Nat] :
        /\ G[0] = 0 /\ \A n \in 1 .. N : G[n] = G[n - 1] + d[n]
        /\ ReferenceFee(w) = G[N]
  BY <1>3, <1>8, ReferenceSum DEF N, H
<1>10. T \in Nat /\ F[j] \in Nat /\ slice(j) \in Nat
  <2>1. slice(j) \in Nat /\ F[j] \in Nat
    <3>1. j \in 1 .. N /\ j \in 1 .. i_start
      BY <1>1, <1>2
    <3> QED BY <1>3, <1>4, <3>1
  <2> QED BY <1>5, <2>1
<1> HIDE DEF T
<1> DEFINE P(n) == G[n] = IF n < j THEN 0 ELSE IF n <= i_start THEN T - F[n] ELSE T
           S == {n \in Nat : n <= N => P(n)}
<1>11. 0 \in S
  BY <1>1, <1>9
<1>12. ASSUME NEW n \in Nat, n \in S PROVE n + 1 \in S
  <2> SUFFICES ASSUME n + 1 <= N PROVE P(n + 1)
    OBVIOUS
  <2> DEFINE m == n + 1
  <2>1. m \in 1 .. N /\ m - 1 = n /\ n <= N /\ m \in Nat
    BY <1>2
  <2>2. P(n) /\ G[m] = G[n] + slice(m) /\ slice(m) \in Nat
    BY <1>3, <1>8, <1>9, <1>12, <2>1
  <2>3. CASE m < j
    <3>1. n < j /\ slice(m) = 0
      BY <1>1, <1>7, <2>1, <2>3
    <3> QED BY <2>2, <2>3, <3>1
  <2>4. CASE m = j
    <3>1. G[n] = 0 /\ m <= i_start /\ ~(m < j)
      BY <1>1, <2>1, <2>2, <2>4
    <3>2. G[m] = T - F[m]
      BY <1>5, <1>10, <2>2, <2>4, <3>1
    <3> QED BY <3>1, <3>2
  <2>5. CASE m > j /\ m <= i_start
    <3>1. m \in 2 .. i_start /\ ~(n < j) /\ n <= i_start /\ n \in 1 .. i_start /\ m \in 1 .. i_start
          /\ ~(m < j)
      BY <1>1, <2>1, <2>5
    <3>2. F[n] = F[m] + slice(m)
      BY <1>6, <2>1, <2>5, <3>1
    <3>3. G[n] = T - F[n] /\ F[n] \in Nat /\ F[m] \in Nat
      BY <1>4, <2>2, <3>1
    <3>4. G[m] = T - F[m]
      BY <1>10, <2>2, <3>2, <3>3
    <3> QED BY <3>1, <3>4
  <2>6. CASE m > i_start
    <3>1. slice(m) = 0 /\ ~(m < j) /\ ~(m <= i_start) /\ ~(n < j) /\ (n <= i_start => n = i_start)
      BY <1>1, <1>7, <2>1, <2>6
    <3>2. G[n] = T
      BY <1>4, <1>10, <2>2, <3>1
    <3> QED BY <1>10, <2>2, <3>1, <3>2
  <2> QED BY <1>1, <2>1, <2>3, <2>4, <2>5, <2>6
<1>13. N \in S
  <2> HIDE DEF S
  <2> QED BY <1>2, <1>11, <1>12, NatSetInduction
<1>14. G[N] = T
  <2>1. P(N)
    BY <1>2, <1>13
  <2>2. ~(N < j) /\ (N <= i_start => N = i_start)
    BY <1>1, <1>2
  <2> QED BY <1>4, <1>10, <2>1, <2>2
<1> QED BY <1>9, <1>14 DEF T

\* compute_instant_withdrawal_fee, which jumps from one bracket boundary to the
\* next, charges every atom at the rate of the bracket it falls in, rounding up
\* once per bracket: for schedules and withdrawals of any size.
THEOREM FeesAreProgressive == Spec => [](FeesFair(pool.brackets) => FeeIsProgressive)
<1>1. QInv => (FeesFair(pool.brackets) => FeeIsProgressive)
  <2> SUFFICES ASSUME QInv, FeesFair(pool.brackets), pc = "fee", LoopOver
               PROVE  total_fee = ReferenceFee(withdrawal_amount(amount))
    BY DEF FeeIsProgressive
  <2> DEFINE w == withdrawal_amount(amount)
  <2>1. Decoded(pool) /\ (w = 0 => total_fee = 0)
    BY DEF QInv, Locals
  <2>2. w # 0 => Charged(w) /\ LoopAt(w)
    BY LoopFacts
  <2>3. CASE w = 0
    BY <2>1, <2>3, ReferenceOfNothing
  <2>4. CASE w # 0
    <3>1. i_end(w) \in Nat /\ i_end(w) >= 1 /\ i_start # 0 /\ i_start \in Nat
      BY <2>1, <2>2, <2>4, EndFacts
    <3>2. i < i_end(w)
      BY <3>1 DEF LoopOver
    <3>3. PICK F : FeeTable(F)
      BY <2>1, <3>1, FeeTableExists
    <3>4. total_fee = FeeOf(F, w)
      BY <2>2, <2>4, <3>2, <3>3 DEF LoopAt
    <3> QED BY <2>1, <2>2, <2>4, <3>3, <3>4, ReferenceOfCharged
  <2> QED BY <2>3, <2>4
<1> QED BY <1>1, QInvAlways, PTL
=============================================================================
