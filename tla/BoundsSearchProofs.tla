------------------------- MODULE BoundsSearchProofs -------------------------
(***************************************************************************)
(* Proofs about BoundsSearch for every u64 width, every tolerance of two   *)
(* or more and every set of quoting functions.                             *)
(***************************************************************************)
EXTENDS BoundsSearch, TLAPS

\* No octave x .. 2x-1 with x <= n consists of usable amounts only.
NoOctaveUpTo(n) ==
  \A x \in 1 .. n :
    2 * x - 1 <= MaxU64 => \E y \in x .. (2 * x - 1) : ~Quoting(y)

\* The lower bracket: the last unusable doubling and the next one.
LowerBracket ==
  lower_low < lower_high /\ ~Quoting(lower_low) /\ NoOctaveUpTo(lower_low)

\* When the doubling gave up, it had covered every octave of the range.
LowerFound ==
  /\ lower_high # MaxU64 => Quoting(lower_high)
  /\ lower_high = MaxU64 => 2 * lower_low >= MaxU64

\* The upper bracket: the last usable doubling and the next one.
UpperBracket ==
  /\ lower_high <= upper_low /\ upper_low <= upper_high
  /\ lower_high # MaxU64 =>
       Quoting(upper_low) /\ (Quoting(upper_high) => upper_high = MaxU64)

\* lower_bound quotes, and an unusable amount lies at most Tolerance below it.
LowerRefined ==
  /\ Quoting(lower_bound)
  /\ \E a \in Amount :
       a < lower_bound /\ lower_bound - a <= Tolerance /\ ~Quoting(a)

\* The same of upper_bound, up to the top of the u64 range.
UpperRefined ==
  /\ lower_bound <= upper_bound /\ Quoting(upper_bound)
  /\ \E b \in Amount :
       /\ upper_bound <= b /\ b - upper_bound <= Tolerance
       /\ Quoting(b) => b = MaxU64

\* The BoundarySearchFailed exit of find_boundaries is dead: the brackets never
\* collapse to one point, whatever the venue quotes.
NeverCollapses == result # "BoundarySearchFailed"

IInv ==
  /\ TypeOK
  /\ pool \in Pools
  /\ (pc = "done") = (result # "none")
  /\ pc = "lower" =>
       /\ LowerBracket /\ lower_high < MaxU64
       /\ lower_high = IF lower_low = 0 THEN 1 ELSE 2 * lower_low
  /\ pc = "start_upper" => LowerBracket /\ LowerFound
  /\ pc = "upper" =>
       /\ LowerBracket /\ LowerFound
       /\ lower_high # MaxU64 /\ lower_high <= upper_low
       /\ upper_low < upper_high /\ Quoting(upper_low)
  /\ pc = "classify" => LowerBracket /\ LowerFound /\ UpperBracket
  /\ pc \in {"refine_lower", "refine_upper"} =>
       LowerBracket /\ UpperBracket /\ lower_high # MaxU64
  /\ pc = "refine_lower" => high <= lower_high
  /\ pc = "refine_upper" => LowerRefined /\ lower_bound <= low
  /\ SearchInvariant
  /\ result = "Ok" => LowerRefined /\ UpperRefined
  /\ result = "NoQuotableValue" => NoOctaveUpTo(MaxU64)
  /\ NeverCollapses

-----------------------------------------------------------------------------
\* x.saturating_mul(2) on a nonzero u64: it grows unless x is u64::MAX, and the
\* overflow protection fires exactly when doubling would reach the top.
LEMMA DoubledFacts ==
  ASSUME NEW x \in Amount, x >= 1
  PROVE  /\ Doubled(x) \in Amount
         /\ x < MaxU64 => x < Doubled(x)
         /\ Doubled(x) <= x => x = MaxU64
         /\ HitLimit(Doubled(x), x) => 2 * x >= MaxU64
         /\ ~HitLimit(Doubled(x), x) => Doubled(x) = 2 * x /\ Doubled(x) < MaxU64
BY BoundsAssumption DEF Doubled, HitLimit, Amount

\* high / 2 + low / 2 lies strictly between low and high as soon as the interval
\* is wider than two, although both remainders are dropped.
LEMMA MidFacts ==
  ASSUME NEW l \in Amount, NEW h \in Amount, Wide(l, h)
  PROVE  /\ Mid(l, h) \in Amount
         /\ l < Mid(l, h) /\ Mid(l, h) < h
BY BoundsAssumption DEF Wide, Mid, Amount

\* An unusable doubling n means there is no all-usable octave starting in
\* (n / 2, n], since each of them contains n.
LEMMA OctaveStep ==
  ASSUME NEW n \in Amount, NEW m \in Amount, n >= 1, ~Quoting(n), NoOctaveUpTo(m),
         n = (IF m = 0 THEN 1 ELSE 2 * m)
  PROVE  NoOctaveUpTo(n)
<1> SUFFICES ASSUME NEW x \in 1 .. n, 2 * x - 1 <= MaxU64
             PROVE  \E y \in x .. (2 * x - 1) : ~Quoting(y)
  BY DEF NoOctaveUpTo
<1>1. CASE x <= m
  BY <1>1 DEF NoOctaveUpTo, Amount
<1>2. CASE x > m
  <2>1. n \in x .. (2 * x - 1)
    BY <1>2, BoundsAssumption DEF Amount
  <2> QED BY <2>1
<1> QED BY <1>1, <1>2, BoundsAssumption DEF Amount

LEMMA InitIInv == Init => IInv
<1> SUFFICES ASSUME Init PROVE IInv
  OBVIOUS
<1> USE BoundsAssumption
<1>1. TypeOK /\ pool \in Pools
  BY DEF Init, TypeOK, Amount
<1>2. ~Quoting(0)
  BY <1>1 DEF Quoting
<1>3. NoOctaveUpTo(0)
  BY DEF NoOctaveUpTo
<1>4. LowerBracket
  BY <1>2, <1>3 DEF Init, LowerBracket
<1> QED BY <1>1, <1>4 DEF Init, IInv, SearchInvariant, NeverCollapses

\* Steps that leave the lower bracket alone leave its facts alone.
LEMMA LowerBracketKept ==
  ASSUME LowerBracket, UNCHANGED <<pool, lower_low, lower_high>>
  PROVE  LowerBracket'
BY DEF LowerBracket, NoOctaveUpTo, Quoting

LEMMA UpperBracketKept ==
  ASSUME UpperBracket, UNCHANGED <<pool, coarse>>
  PROVE  UpperBracket'
BY DEF UpperBracket, Quoting, coarse

\* The inductive step, one case per probe of the search.
LEMMA NextIInv == IInv /\ [Next]_vars => IInv'
<1> SUFFICES ASSUME IInv, [Next]_vars PROVE IInv'
  OBVIOUS
<1> USE BoundsAssumption
<1>1. CASE ExpandLower
  <2> USE <1>1 DEF ExpandLower
  <2>1. lower_high \in Amount /\ lower_high >= 1 /\ lower_low \in Amount /\ TypeOK
    BY DEF IInv, TypeOK, LowerBracket, Amount
  <2>2. TypeOK'
    BY <2>1, DoubledFacts DEF TypeOK, bounds, Amount
  <2>3. NoOctaveUpTo(lower_high)
    <3>1. /\ NoOctaveUpTo(lower_low)
          /\ lower_high = IF lower_low = 0 THEN 1 ELSE 2 * lower_low
          /\ ~Quoting(lower_high)
      BY DEF IInv, LowerBracket
    <3> HIDE DEF ExpandLower
    <3> QED BY <2>1, <3>1, OctaveStep
  <2>4. ~Quoting(lower_low)' /\ NoOctaveUpTo(lower_low)'
    BY <2>3 DEF Quoting, NoOctaveUpTo
  <2>5. CASE HitLimit(Doubled(lower_high), lower_high)
    <3>1. pc' = "start_upper" /\ lower_high' = MaxU64 /\ result' = result
          /\ lower_low' = lower_high /\ pool' = pool
      BY <2>5
    <3>2. 2 * lower_high >= MaxU64
      BY <2>1, <2>5, DoubledFacts
    <3>3. lower_high < MaxU64
      BY DEF IInv
    <3> QED BY <2>2, <2>4, <3>1, <3>2, <3>3
            DEF IInv, LowerBracket, LowerFound, SearchInvariant, NeverCollapses
  <2>6. CASE ~HitLimit(Doubled(lower_high), lower_high)
    <3>1. pc' = "lower" /\ lower_high' = 2 * lower_high /\ result' = result
          /\ lower_low' = lower_high /\ pool' = pool /\ lower_high' < MaxU64
      BY <2>1, <2>6, DoubledFacts
    <3> QED BY <2>1, <2>2, <2>4, <3>1
            DEF IInv, LowerBracket, SearchInvariant, NeverCollapses, Amount
  <2> QED BY <2>5, <2>6
<1>2. CASE FoundLower
  <2>1. LowerBracket' /\ LowerFound'
    BY <1>2, LowerBracketKept DEF FoundLower, IInv, LowerFound, coarse, Quoting
  <2> QED BY <1>2, <2>1
          DEF FoundLower, IInv, TypeOK, coarse, bounds, SearchInvariant, NeverCollapses
<1>3. CASE StartUpper
  <2> USE <1>3 DEF StartUpper
  <2>1. lower_high \in Amount /\ lower_high >= 1
    BY DEF IInv, TypeOK, LowerBracket, Amount
  <2>2. TypeOK' /\ pool' \in Pools /\ result' = "none"
    BY <2>1, DoubledFacts DEF IInv, TypeOK, bounds, Amount
  <2>3. LowerBracket' /\ LowerFound'
    BY LowerBracketKept DEF IInv, LowerFound, Quoting
  <2>4. CASE Doubled(lower_high) <= lower_high
    <3>1. lower_high = MaxU64 /\ upper_high' = lower_high /\ pc' = "classify"
      BY <2>1, <2>4, DoubledFacts
    <3>2. UpperBracket'
      BY <2>1, <3>1 DEF UpperBracket, Amount
    <3> QED BY <2>2, <2>3, <3>1, <3>2 DEF IInv, SearchInvariant, NeverCollapses
  <2>5. CASE ~(Doubled(lower_high) <= lower_high)
    <3>1. /\ pc' = "upper" /\ upper_high' = Doubled(lower_high)
          /\ lower_high < Doubled(lower_high) /\ lower_high # MaxU64
      BY <2>1, <2>5, DoubledFacts DEF Amount
    <3>2. Quoting(upper_low)'
      BY <3>1 DEF IInv, LowerFound, Quoting
    <3> QED BY <2>1, <2>2, <2>3, <3>1, <3>2
            DEF IInv, SearchInvariant, NeverCollapses, Amount
  <2> QED BY <2>4, <2>5
<1>4. CASE ExpandUpper
  <2> USE <1>4 DEF ExpandUpper
  <2>1. /\ upper_high \in Amount /\ upper_high >= 1
        /\ upper_low \in Amount /\ lower_high \in Amount
        /\ lower_high <= upper_low /\ upper_low < upper_high
    BY DEF IInv, TypeOK, LowerBracket, Amount
  <2>2. TypeOK' /\ pool' \in Pools /\ result' = "none"
    BY <2>1, DoubledFacts DEF IInv, TypeOK, bounds, Amount
  <2>3. LowerBracket' /\ LowerFound' /\ Quoting(upper_low)'
    BY LowerBracketKept DEF IInv, LowerFound, Quoting
  <2>4. CASE HitLimit(Doubled(upper_high), upper_high)
    <3>1. UpperBracket'
      BY <2>1, <2>3, <2>4 DEF UpperBracket, Amount
    <3> QED BY <2>2, <2>3, <2>4, <3>1 DEF IInv, SearchInvariant, NeverCollapses
  <2>5. CASE ~HitLimit(Doubled(upper_high), upper_high)
    <3>1. upper_high < Doubled(upper_high)
      BY <2>1, <2>5 DEF HitLimit, Amount, Doubled
    <3> QED BY <2>1, <2>2, <2>3, <2>5, <3>1
            DEF IInv, SearchInvariant, NeverCollapses, Amount
  <2> QED BY <2>4, <2>5
<1>5. CASE FoundUpper
  <2>1. LowerBracket' /\ LowerFound' /\ UpperBracket'
    BY <1>5, LowerBracketKept
    DEF FoundUpper, IInv, TypeOK, LowerFound, UpperBracket, coarse, Quoting, Amount
  <2> QED BY <1>5, <2>1
          DEF FoundUpper, IInv, TypeOK, coarse, bounds, SearchInvariant, NeverCollapses
<1>6. CASE Classify
  <2> USE <1>6 DEF Classify
  <2>1. /\ LowerBracket /\ LowerFound /\ UpperBracket /\ pc = "classify"
        /\ TypeOK /\ pool \in Pools /\ result = "none"
    BY DEF IInv
  <2>2. lower_low # upper_high
    BY <2>1 DEF TypeOK, LowerBracket, UpperBracket, Amount
  <2>3. LowerBracket' /\ UpperBracket'
    BY <2>1, LowerBracketKept, UpperBracketKept DEF coarse
  <2>4. CASE lower_high = MaxU64
    <3>1. Verdict = "NoQuotableValue"
      BY <2>2, <2>4 DEF Verdict
    <3>2. pc' = "done" /\ result' = "NoQuotableValue" /\ TypeOK' /\ pool' \in Pools
      BY <2>1, <3>1 DEF TypeOK, coarse, bounds
    <3>3. NoOctaveUpTo(MaxU64)
      <4>1. SUFFICES ASSUME NEW x \in 1 .. MaxU64, 2 * x - 1 <= MaxU64
                     PROVE  x \in 1 .. lower_low
        BY <2>1 DEF LowerBracket, NoOctaveUpTo
      <4> QED BY <2>1, <2>4, <4>1 DEF LowerFound, TypeOK, Amount
    <3>4. NoOctaveUpTo(MaxU64)'
      BY <3>3 DEF NoOctaveUpTo, Quoting
    <3> QED BY <3>2, <3>4 DEF IInv, SearchInvariant, NeverCollapses
  <2>5. CASE lower_high # MaxU64
    <3>1. Verdict = "refine"
      BY <2>2, <2>5 DEF Verdict
    <3>2. /\ pc' = "refine_lower" /\ result' = "none" /\ TypeOK' /\ pool' \in Pools
          /\ low' = lower_low /\ high' = lower_high
      BY <2>1, <3>1 DEF TypeOK, coarse, bounds
    <3>3. SearchInvariant' /\ high' <= lower_high' /\ lower_high' # MaxU64
      BY <2>1, <2>5, <3>2 DEF SearchInvariant, LowerBracket, LowerFound, TypeOK,
         Amount, Quoting, coarse
    <3> QED BY <2>3, <3>2, <3>3 DEF IInv, NeverCollapses
  <2> QED BY <2>4, <2>5
<1>7. CASE RefineLower
  <2> USE <1>7 DEF RefineLower
  <2> DEFINE mid == Mid(low, high)
  <2>1. /\ low \in Amount /\ high \in Amount /\ TypeOK /\ pool \in Pools
        /\ result = "none" /\ pc = "refine_lower" /\ high <= lower_high
        /\ lower_high \in Amount
    BY DEF IInv, TypeOK
  <2>2. mid \in Amount /\ low < mid /\ mid < high
    BY <2>1, MidFacts
  <2>3. LowerBracket' /\ UpperBracket' /\ lower_high' # MaxU64
    BY LowerBracketKept, UpperBracketKept DEF IInv, coarse
  <2> HIDE DEF mid
  <2>4. \/ Quoting(mid) /\ high' = mid /\ low' = low
        \/ ~Quoting(mid) /\ low' = mid /\ high' = high
    BY DEF mid
  <2>5. TypeOK' /\ pool' \in Pools /\ result' = "none" /\ pc' = "refine_lower"
    BY <2>1, <2>2, <2>4 DEF TypeOK, coarse, bounds
  <2>6. SearchInvariant' /\ high' <= lower_high'
    BY <2>1, <2>2, <2>4 DEF IInv, SearchInvariant, Quoting, coarse, Amount
  <2> QED BY <2>3, <2>5, <2>6 DEF IInv, NeverCollapses
<1>8. CASE RefineLowerDone
  <2> USE <1>8 DEF RefineLowerDone
  <2>1. /\ low \in Amount /\ high \in Amount /\ TypeOK /\ pool \in Pools
        /\ result = "none" /\ pc = "refine_lower" /\ high <= lower_high
        /\ low < high /\ ~Quoting(low) /\ Quoting(high)
        /\ LowerBracket /\ UpperBracket /\ lower_high # MaxU64
    BY DEF IInv, TypeOK, SearchInvariant
  <2>2. LowerBracket' /\ UpperBracket' /\ lower_high' # MaxU64
    BY <2>1, LowerBracketKept, UpperBracketKept DEF coarse
  <2>3. TypeOK' /\ pool' \in Pools /\ result' = "none" /\ pc' = "refine_upper"
    BY <2>1 DEF TypeOK, coarse
  <2>4. LowerRefined'
    <3>1. low < high /\ high - low <= Tolerance
      BY <2>1 DEF Wide, Amount
    <3> QED BY <2>1, <3>1 DEF LowerRefined, Quoting
  <2>5. SearchInvariant' /\ lower_bound' <= low'
    BY <2>1 DEF SearchInvariant, UpperBracket, TypeOK, Amount, Quoting
  <2> QED BY <2>2, <2>3, <2>4, <2>5 DEF IInv, NeverCollapses
<1>9. CASE RefineUpper
  <2> USE <1>9 DEF RefineUpper
  <2> DEFINE mid == Mid(low, high)
  <2>1. /\ low \in Amount /\ high \in Amount /\ TypeOK /\ pool \in Pools
        /\ result = "none" /\ pc = "refine_upper" /\ lower_bound <= low
        /\ lower_bound \in Amount /\ LowerRefined
    BY DEF IInv, TypeOK
  <2>2. mid \in Amount /\ low < mid /\ mid < high
    BY <2>1, MidFacts
  <2>3. LowerBracket' /\ UpperBracket' /\ lower_high' # MaxU64
    BY LowerBracketKept, UpperBracketKept DEF IInv, coarse
  <2> HIDE DEF mid
  <2>4. \/ Quoting(mid) /\ low' = mid /\ high' = high
        \/ ~Quoting(mid) /\ high' = mid /\ low' = low
    BY DEF mid
  <2>5. TypeOK' /\ pool' \in Pools /\ result' = "none" /\ pc' = "refine_upper"
    BY <2>1, <2>2, <2>4 DEF TypeOK, coarse, bounds
  <2>6. SearchInvariant' /\ lower_bound' <= low'
    BY <2>1, <2>2, <2>4 DEF IInv, SearchInvariant, Quoting, bounds, Amount
  <2>7. LowerRefined'
    BY <2>1 DEF LowerRefined, Quoting, bounds
  <2> QED BY <2>3, <2>5, <2>6, <2>7 DEF IInv, NeverCollapses
<1>10. CASE RefineUpperDone
  <2> USE <1>10 DEF RefineUpperDone
  <2>1. /\ low \in Amount /\ high \in Amount /\ TypeOK /\ pool \in Pools
        /\ lower_bound <= low /\ lower_bound \in Amount /\ LowerRefined
        /\ low <= high /\ Quoting(low) /\ (Quoting(high) => high = MaxU64)
    BY DEF IInv, TypeOK, SearchInvariant
  <2>2. TypeOK' /\ pool' \in Pools /\ result' = "Ok" /\ pc' = "done"
    BY <2>1 DEF TypeOK, coarse
  <2>3. LowerRefined'
    BY <2>1 DEF LowerRefined, Quoting
  <2>4. UpperRefined'
    <3>1. high - low <= Tolerance
      BY <2>1 DEF Wide, Amount
    <3> QED BY <2>1, <3>1 DEF UpperRefined, Quoting
  <2> QED BY <2>2, <2>3, <2>4 DEF IInv, NeverCollapses, SearchInvariant
<1>11. CASE UNCHANGED vars
  BY <1>11 DEF vars, coarse, bounds, IInv, TypeOK, LowerBracket, LowerFound,
     UpperBracket, LowerRefined, UpperRefined, NoOctaveUpTo, SearchInvariant,
     NeverCollapses, Quoting
<1> QED
  BY <1>1, <1>2, <1>3, <1>4, <1>5, <1>6, <1>7, <1>8, <1>9, <1>10, <1>11 DEF Next

LEMMA SpecIInv == Spec => []IInv
BY InitIInv, NextIInv, PTL DEF Spec

-----------------------------------------------------------------------------
\* Every amount of the search stays within u64, for every venue.
THEOREM TypeCorrect == Spec => []TypeOK
<1>1. IInv => TypeOK
  BY DEF IInv
<1> QED BY <1>1, SpecIInv, PTL

\* The refinements never see the inputs their log::error! lines complain about,
\* and the BoundarySearchFailed exit of find_boundaries is unreachable.
THEOREM SearchNeverContradicted == Spec => [](SearchInvariant /\ NeverCollapses)
<1>1. IInv => SearchInvariant /\ NeverCollapses
  BY DEF IInv
<1> QED BY <1>1, SpecIInv, PTL

\* Both returned bounds quote as usable, and they are in order.
THEOREM BoundsQuote == Spec => []EndpointsQuote
<1>1. IInv => EndpointsQuote
  BY DEF IInv, EndpointsQuote, LowerRefined, UpperRefined
<1> QED BY <1>1, SpecIInv, PTL

\* On a venue with one interval of usable amounts the returned range is usable
\* throughout, and falls short of the maximal one by at most the tolerance.
THEOREM BoundsNearMaximal == Spec => []NearMaximal
<1>1. IInv => NearMaximal
  <2> SUFFICES ASSUME IInv, result = "Ok", Contiguous PROVE
        /\ \A x \in lower_bound .. upper_bound : Quoting(x)
        /\ \A x \in Amount : Quoting(x) =>
             lower_bound - Tolerance < x /\ x <= upper_bound + Tolerance
    BY DEF NearMaximal
  <2> USE BoundsAssumption
  <2>1. /\ lower_bound \in Amount /\ upper_bound \in Amount
        /\ lower_bound <= upper_bound
        /\ Quoting(lower_bound) /\ Quoting(upper_bound)
    BY DEF IInv, TypeOK, LowerRefined, UpperRefined
  <2>2. \A x \in lower_bound .. upper_bound : Quoting(x)
    BY <2>1 DEF Contiguous
  <2>3. PICK a \in Amount :
          a < lower_bound /\ lower_bound - a <= Tolerance /\ ~Quoting(a)
    BY DEF IInv, LowerRefined
  <2>4. PICK b \in Amount : /\ upper_bound <= b /\ b - upper_bound <= Tolerance
                            /\ Quoting(b) => b = MaxU64
    BY DEF IInv, UpperRefined
  <2>5. ASSUME NEW x \in Amount, Quoting(x)
        PROVE  lower_bound - Tolerance < x /\ x <= upper_bound + Tolerance
    <3>1. x > a
      <4>1. SUFFICES ASSUME x <= a PROVE FALSE
        BY DEF Amount
      <4>2. a \in x .. lower_bound
        BY <2>1, <2>3, <4>1 DEF Amount
      <4> QED BY <2>1, <2>3, <2>5, <4>2 DEF Contiguous
    <3>2. x <= b
      <4>1. SUFFICES ASSUME x > b PROVE FALSE
        BY DEF Amount
      <4>2. b \in upper_bound .. x /\ b < MaxU64
        BY <2>1, <2>4, <4>1 DEF Amount
      <4>3. Quoting(b)
        BY <2>1, <2>5, <4>2 DEF Contiguous
      <4> QED BY <2>4, <4>2, <4>3 DEF Amount
    <3> QED BY <2>1, <2>3, <2>4, <3>1, <3>2 DEF Amount
  <2> QED BY <2>2, <2>5
<1> QED BY <1>1, SpecIInv, PTL

\* NoQuotableValue is a verdict on whole octaves: a venue that quotes on some
\* x .. 2x-1 is never reported as unusable.
THEOREM OctavesFound == Spec => []MissesOnlyNarrow
<1>1. IInv => MissesOnlyNarrow
  BY DEF IInv, NoOctaveUpTo, MissesOnlyNarrow
<1> QED BY <1>1, SpecIInv, PTL

\* Every probe of a refinement strictly narrows its interval.
THEOREM ProbesNarrow == Spec => Narrows
<1>1. IInv /\ [Next]_vars =>
        [(pc \in {"refine_lower", "refine_upper"} /\ pc' = pc)
           => (high' - low' < high - low)]_vars
  <2> SUFFICES ASSUME IInv, Next, pc \in {"refine_lower", "refine_upper"}, pc' = pc
               PROVE  high' - low' < high - low
    OBVIOUS
  <2>1. RefineLower \/ RefineUpper
    BY DEF IInv, TypeOK, Next, ExpandLower, FoundLower, StartUpper, ExpandUpper,
       FoundUpper, Classify, RefineLowerDone, RefineUpperDone
  <2>2. Wide(low, high)
    BY <2>1 DEF RefineLower, RefineUpper
  <2>3. Mid(low, high) \in Amount /\ low < Mid(low, high) /\ Mid(low, high) < high
    BY <2>1, <2>2, MidFacts DEF IInv, TypeOK
  <2> QED BY <2>1, <2>3, BoundsAssumption DEF IInv, TypeOK, RefineLower, RefineUpper, Amount
<1> QED BY <1>1, SpecIInv, PTL DEF Spec, Narrows
=============================================================================
