---------------------------- MODULE BoundsSearch ----------------------------
(***************************************************************************)
(* The boundary search of src/src/trading_venue/bounds.rs, as called by    *)
(* TradingVenue::bounds: an exponential search for the first usable quote, *)
(* an exponential search for the first unusable one above it, and two      *)
(* binary refinements.  One step is one probe of the venue's quote().      *)
(*                                                                         *)
(* QuoteAt(pool, x) is f(x), the ExactIn quote of the venue for x: f is    *)
(* pure (`impl Fn`) and the venue cannot change while `&self` is borrowed, *)
(* so one pool is drawn from Pools and kept for the whole search.          *)
(***************************************************************************)
EXTENDS Integers

CONSTANTS
  MaxU64,     \* u64::MAX
  Tolerance,  \* 100: a refinement stops at an interval this wide
  Pools,      \* the venues to search
  QuoteAt(_, _)  \* QuoteAt(pool, x): what the venue quotes for an input of x

Amount == 0 .. MaxU64

\* Result<QuoteResult, TradingVenueError>: ok is FALSE for Err(_).
QuoteOutcome ==
  [ok : BOOLEAN, not_enough_liquidity : BOOLEAN, expected_output : Nat]

valid_quote(q) == ~(q.not_enough_liquidity \/ q.expected_output = 0)

\* Every probe of the search treats Err(_) as an unusable quote.
Usable(q) == q.ok /\ valid_quote(q)

\* Zero input buys nothing, so it never quotes as usable.
ASSUME BoundsAssumption ==
  /\ MaxU64 \in Nat /\ MaxU64 >= 2
  /\ Tolerance \in Nat /\ Tolerance >= 2
  /\ \A p \in Pools, x \in Amount : QuoteAt(p, x) \in QuoteOutcome
  /\ \A p \in Pools : ~Usable(QuoteAt(p, 0))

VARIABLES
  pool,         \* the venue being searched
  pc,           \* which loop the search is in
  lower_low, lower_high, upper_low, upper_high,  \* the coarse brackets
  low, high,    \* the interval of the running refinement
  lower_bound, upper_bound,                      \* what the refinements return
  result        \* "none" while searching, then "Ok" or the error

coarse == <<lower_low, lower_high, upper_low, upper_high>>
bounds == <<lower_bound, upper_bound>>
vars == <<pool, pc, coarse, low, high, bounds, result>>

Quoting(x) == Usable(QuoteAt(pool, x))

-----------------------------------------------------------------------------
\* Faults in Doubled: a doubling that does not saturate, and a factor of four.
Doubled_Unsaturated(x) == 2 * x
Doubled_Quadrupled(x) == IF 4 * x > MaxU64 THEN MaxU64 ELSE 4 * x

\* x.saturating_mul(SCALING_FACTOR)
Doubled(x) == IF 2 * x > MaxU64 THEN MaxU64 ELSE 2 * x

\* The overflow protection of both expansion loops.
HitLimit(next, cur) == next <= cur \/ next = MaxU64

Init ==
  /\ pool \in Pools
  /\ pc = "lower"
  /\ lower_low = 0 /\ lower_high = 1
  /\ upper_low = 0 /\ upper_high = 0
  /\ low = 0 /\ high = 0
  /\ lower_bound = 0 /\ upper_bound = 0
  /\ result = "none"

\* Phase 1, the probe of lower_high found nothing: double it, or give up.
ExpandLower ==
  /\ pc = "lower"
  /\ ~Quoting(lower_high)
  /\ lower_low' = lower_high
  /\ LET next == Doubled(lower_high) IN
       IF HitLimit(next, lower_high)
       THEN lower_high' = MaxU64 /\ pc' = "start_upper"
       ELSE lower_high' = next   /\ pc' = "lower"
  /\ UNCHANGED <<pool, upper_low, upper_high, low, high, bounds, result>>

FoundLower ==
  /\ pc = "lower"
  /\ Quoting(lower_high)
  /\ pc' = "start_upper"
  /\ UNCHANGED <<pool, coarse, low, high, bounds, result>>

\* Fault: the upper bracket starts below the first usable amount.
StartUpper_FromLow ==
  /\ pc = "start_upper"
  /\ upper_low' = lower_low
  /\ IF Doubled(lower_high) <= lower_high
     THEN upper_high' = lower_high /\ pc' = "classify"
     ELSE upper_high' = Doubled(lower_high) /\ pc' = "upper"
  /\ UNCHANGED <<pool, lower_low, lower_high, low, high, bounds, result>>

\* Phase 2 starts one doubling above the lower bracket; a doubling that does
\* not move (lower_high = u64::MAX) leaves no upper interval to search.
StartUpper ==
  /\ pc = "start_upper"
  /\ upper_low' = lower_high
  /\ IF Doubled(lower_high) <= lower_high
     THEN upper_high' = lower_high /\ pc' = "classify"
     ELSE upper_high' = Doubled(lower_high) /\ pc' = "upper"
  /\ UNCHANGED <<pool, lower_low, lower_high, low, high, bounds, result>>

ExpandUpper ==
  /\ pc = "upper"
  /\ Quoting(upper_high)
  /\ upper_low' = upper_high
  /\ LET next == Doubled(upper_high) IN
       IF HitLimit(next, upper_high)
       THEN upper_high' = MaxU64 /\ pc' = "classify"
       ELSE upper_high' = next   /\ pc' = "upper"
  /\ UNCHANGED <<pool, lower_low, lower_high, low, high, bounds, result>>

FoundUpper ==
  /\ pc = "upper"
  /\ ~Quoting(upper_high)
  /\ pc' = "classify"
  /\ UNCHANGED <<pool, coarse, low, high, bounds, result>>

\* What find_boundaries makes of the coarse brackets.
Verdict ==
  IF lower_low = upper_high THEN "BoundarySearchFailed"
  ELSE IF lower_high = MaxU64 THEN "NoQuotableValue"
  ELSE "refine"

Classify ==
  /\ pc = "classify"
  /\ IF Verdict = "refine"
     THEN /\ pc' = "refine_lower" /\ result' = result
          /\ low' = lower_low /\ high' = lower_high
     ELSE /\ pc' = "done" /\ result' = Verdict
          /\ UNCHANGED <<low, high>>
  /\ UNCHANGED <<pool, coarse, bounds>>

-----------------------------------------------------------------------------
\* Fault in Mid: (high + low) / 2 wraps around.
Mid_Wrapping(l, h) == ((h + l) % (MaxU64 + 1)) \div 2

\* high / 2 + low / 2, with the remainders of both halves dropped.
Mid(l, h) == h \div 2 + l \div 2

\* Faults in Wide: stopping too early, and refining down to a single point.
Wide_Coarse(l, h) == h - l > 2 * Tolerance
Wide_ToThePoint(l, h) == h - l > 0

Wide(l, h) == h - l > Tolerance

\* A probe of refine_lower: a usable midpoint pulls high down.
RefineLower ==
  /\ pc = "refine_lower"
  /\ Wide(low, high)
  /\ IF Quoting(Mid(low, high))
     THEN high' = Mid(low, high) /\ low' = low
     ELSE low' = Mid(low, high) /\ high' = high
  /\ UNCHANGED <<pool, pc, coarse, bounds, result>>

\* Fault: refine_lower returns the unusable end of its interval.
RefineLowerDone_Low ==
  /\ pc = "refine_lower"
  /\ ~Wide(low, high)
  /\ lower_bound' = low
  /\ low' = upper_low /\ high' = upper_high
  /\ pc' = "refine_upper"
  /\ UNCHANGED <<pool, coarse, upper_bound, result>>

\* refine_lower returns high, and refine_upper starts on the upper bracket.
RefineLowerDone ==
  /\ pc = "refine_lower"
  /\ ~Wide(low, high)
  /\ lower_bound' = high
  /\ low' = upper_low /\ high' = upper_high
  /\ pc' = "refine_upper"
  /\ UNCHANGED <<pool, coarse, upper_bound, result>>

\* A probe of refine_upper: a usable midpoint pushes low up.
RefineUpper ==
  /\ pc = "refine_upper"
  /\ Wide(low, high)
  /\ IF Quoting(Mid(low, high))
     THEN low' = Mid(low, high) /\ high' = high
     ELSE high' = Mid(low, high) /\ low' = low
  /\ UNCHANGED <<pool, pc, coarse, bounds, result>>

RefineUpperDone ==
  /\ pc = "refine_upper"
  /\ ~Wide(low, high)
  /\ upper_bound' = low
  /\ pc' = "done" /\ result' = "Ok"
  /\ UNCHANGED <<pool, coarse, low, high, lower_bound>>

Next ==
  \/ ExpandLower \/ FoundLower \/ StartUpper \/ ExpandUpper \/ FoundUpper
  \/ Classify
  \/ RefineLower \/ RefineLowerDone \/ RefineUpper \/ RefineUpperDone

Spec == Init /\ [][Next]_vars

\* The search is one synchronous call: it runs until it returns.
FairSpec == Spec /\ WF_vars(Next)

-----------------------------------------------------------------------------
\* The quotes that are usable form one interval of inputs.
Contiguous ==
  \A x \in Amount : \A z \in Amount :
    Quoting(x) /\ Quoting(z) => \A y \in x .. z : Quoting(y)

\* Type invariant: every amount of the search stays a u64 and the search is in
\* one of its loops.
TypeOK ==
  /\ pc \in {"lower", "start_upper", "upper", "classify", "refine_lower",
            "refine_upper", "done"}
  /\ lower_low \in Amount /\ lower_high \in Amount
  /\ upper_low \in Amount /\ upper_high \in Amount
  /\ low \in Amount /\ high \in Amount
  /\ lower_bound \in Amount /\ upper_bound \in Amount
  /\ result \in {"none", "Ok", "BoundarySearchFailed", "NoQuotableValue"}

\* None of the four log::error! lines of refine_lower and refine_upper ("this
\* contradicts the search invariant") can be reached, for any quoting function:
\* each refinement starts and stays between an unusable and a usable amount,
\* the top of the u64 range excepted, and high - low never underflows.
SearchInvariant ==
  /\ pc = "refine_lower" =>
       low < high /\ ~Quoting(low) /\ Quoting(high)
  /\ pc = "refine_upper" =>
       low <= high /\ Quoting(low) /\ (Quoting(high) => high = MaxU64)

\* The two amounts find_boundaries returns were probed and quote as usable, and
\* they are in order, even when the usable amounts have holes.
EndpointsQuote ==
  result = "Ok" =>
    /\ lower_bound <= upper_bound
    /\ Quoting(lower_bound) /\ Quoting(upper_bound)

\* What the search achieves on a venue whose usable amounts are one interval:
\* everything between the bounds quotes, and no usable amount lies farther
\* outside them than the width at which the refinements stop.
NearMaximal ==
  result = "Ok" /\ Contiguous =>
    /\ \A x \in lower_bound .. upper_bound : Quoting(x)
    /\ \A x \in Amount : Quoting(x) =>
         lower_bound - Tolerance < x /\ x <= upper_bound + Tolerance

\* NoQuotableValue is only ever returned for a venue that has no octave of
\* usable amounts x .. 2x-1: the doubling cannot step over such an interval.
MissesOnlyNarrow ==
  result = "NoQuotableValue" =>
    ~ \E x \in 1 .. MaxU64 :
        2 * x - 1 <= MaxU64 /\ \A y \in x .. (2 * x - 1) : Quoting(y)

\* Every probe of a refinement narrows its interval: the two remainders that
\* high / 2 + low / 2 drops never make the midpoint fall back on low.
Narrows ==
  [][(pc \in {"refine_lower", "refine_upper"} /\ pc' = pc)
        => (high' - low' < high - low)]_vars

\* The search returns, on every quoting function.
Terminates == <>(pc = "done")
=============================================================================
