--------------------------- MODULE MCBoundsSearch ---------------------------
(* Instances of BoundsSearch: venues whose usable amounts are an interval   *)
(* lo .. hi, possibly with a hole g1 .. g2 in it.                           *)
EXTENDS BoundsSearch

Outcome(ok, nel, out) ==
  [ok |-> ok, not_enough_liquidity |-> nel, expected_output |-> out]

\* Too small buys nothing, too large exceeds the liquidity, the hole errs.
MCQuoteAt(p, x) ==
  Outcome(x \notin p.g1 .. p.g2, x > p.hi, IF x < p.lo THEN 0 ELSE 1)

\* g1 = 1, g2 = 0 is no hole; lo = hi + 1 is a venue that never quotes.
IntervalPools ==
  {p \in [lo : 1 .. MaxU64 + 1, hi : 0 .. MaxU64, g1 : {1}, g2 : {0}] :
     p.lo <= p.hi + 1}

HoledPools ==
  {p \in [lo : 1 .. MaxU64, hi : 0 .. MaxU64, g1 : Amount, g2 : Amount] :
     p.lo < p.g1 /\ p.g1 <= p.g2 /\ p.g2 < p.hi}

AllPools == IntervalPools \cup HoledPools
=============================================================================
