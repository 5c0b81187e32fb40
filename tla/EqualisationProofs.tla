------------------------- MODULE EqualisationProofs -------------------------
(***************************************************************************)
(* Proofs about EqualisationMapping, for every number of segments and any  *)
(* two histograms.                                                         *)
(***************************************************************************)
EXTENDS EqualisationMapping, TLAPS

-----------------------------------------------------------------------------
(* Histograms and bins *)

LEMMA BinsBounded ==
  /\ Last \in Bins /\ 0 \in Bins /\ Last \in Nat
  /\ \A bin \in Bins : bin \in Nat /\ bin <= Last /\ (bin # Last => bin + 1 \in Bins)
  BY EqualisationAssumption DEF Bins, Last

\* The sums of a histogram never go down, and each proportion is what lies between two.
LEMMA SumsRise ==
  ASSUME NEW sums \in CumulativeHistograms, NEW bin \in Bins
  PROVE  /\ sums[0] = 0
         /\ sums[bin] \in Nat /\ sums[bin + 1] \in Nat
         /\ sums[bin] <= sums[bin + 1]
         /\ Proportion(sums, bin) \in Nat
         /\ sums[bin] + Proportion(sums, bin) = sums[bin + 1]
<1>1. sums \in [0..HISTOGRAM_SEGMENTS -> 0..Weight]
  BY DEF CumulativeHistograms
<1>2. bin \in 0..HISTOGRAM_SEGMENTS /\ bin + 1 \in 0..HISTOGRAM_SEGMENTS
  BY EqualisationAssumption DEF Bins
<1>3. sums[bin] \in 0..Weight /\ sums[bin + 1] \in 0..Weight
  BY <1>1, <1>2
<1>4. sums[bin] <= sums[bin + 1] /\ sums[0] = 0
  BY DEF CumulativeHistograms
<1> QED
  BY <1>3, <1>4, EqualisationAssumption DEF Proportion

-----------------------------------------------------------------------------
(* Type correctness *)

\* An advance of the current histogram keeps to its bins and its sums.
LEMMA AdvanceCurrentType ==
  ASSUME TypeOK, AdvanceCurrent, currentHistogramBin # Last
  PROVE  /\ currentHistogramBin' \in Bins
         /\ cumulativeCurrentHistogram' \in Nat
  BY SumsRise, BinsBounded DEF TypeOK, AdvanceCurrent

LEMMA AdvancePreviousType ==
  ASSUME TypeOK, AdvancePrevious, previousHistogramBin # Last
  PROVE  /\ previousHistogramBin' \in Bins
         /\ cumulativePreviousHistogram' \in Nat
  BY SumsRise, BinsBounded DEF TypeOK, AdvancePrevious

\* A round of the loop advances a side only where it has bins left.
LEMMA RoundAdvances ==
  ASSUME TypeOK, Walk
  PROVE  /\ \/ currentHistogramBin # Last /\ AdvanceCurrent
            \/ KeepCurrent
         /\ \/ previousHistogramBin # Last /\ AdvancePrevious
            \/ KeepPrevious
<1>1. /\ currentHistogramBin < Last <=> currentHistogramBin # Last
      /\ previousHistogramBin < Last <=> previousHistogramBin # Last
  BY BinsBounded DEF TypeOK
<1>2. currentHistogramBin # Last \/ previousHistogramBin # Last
  BY DEF Walk, MoreBins
<1>3. CASE Behind
  BY <1>1, <1>2, <1>3 DEF Behind
<1>4. CASE Ahead
  BY <1>1, <1>2, <1>4 DEF Ahead
<1>5. CASE Level
  BY <1>1, <1>5 DEF Level
<1> QED
  BY <1>3, <1>4, <1>5 DEF Walk

LEMMA TypeInit == Init => TypeOK
  BY BinsBounded DEF Init, TypeOK

LEMMA TypeStep == TypeOK /\ [Next]_vars => TypeOK'
<1> SUFFICES ASSUME TypeOK, [Next]_vars PROVE TypeOK'
  OBVIOUS
<1>1. CASE Walk
  <2>1. mapping' \in [Bins -> Nat]
    BY <1>1, BinsBounded DEF Walk, Assign, TypeOK
  <2>2. currentHistogramBin' \in Bins /\ cumulativeCurrentHistogram' \in Nat
    BY <1>1, RoundAdvances, AdvanceCurrentType DEF KeepCurrent, TypeOK
  <2>3. previousHistogramBin' \in Bins /\ cumulativePreviousHistogram' \in Nat
    BY <1>1, RoundAdvances, AdvancePreviousType DEF KeepPrevious, TypeOK
  <2> QED
    BY <1>1, <2>1, <2>2, <2>3 DEF Walk, TypeOK, sumVars
<1>2. CASE Return
  <2>1. previousHistogramBin * HISTOGRAM_SEGMENTS \in Nat
    BY BinsBounded, EqualisationAssumption DEF TypeOK
  <2> QED
    BY <1>2, <2>1 DEF Return, TypeOK, sumVars
<1>3. CASE UNCHANGED vars
  BY <1>3 DEF vars, sumVars, TypeOK
<1> QED
  BY <1>1, <1>2, <1>3 DEF Next

\* The walk looks at no bin beyond the last of either histogram.
THEOREM TypeCorrect == Spec => []TypeOK
<1> QED
  BY TypeInit, TypeStep, PTL DEF Spec

-----------------------------------------------------------------------------
(* The invariant of the walk *)

LEMMA WalkInit == Init => WalkInv
  BY SumsRise, BinsBounded, EqualisationAssumption DEF Init, WalkInv, Bins

\* The cumulative proportions stay the sums of the bins the walk stands at.
LEMMA SumsKept ==
  ASSUME TypeOK, TypeOK', WalkInv, Walk
  PROVE  /\ cumulativeCurrentHistogram' = currentSums'[currentHistogramBin']
         /\ cumulativePreviousHistogram' = previousSums'[previousHistogramBin']
<1>1. previousSums' = previousSums /\ currentSums' = currentSums
  BY DEF Walk, sumVars
<1>2. cumulativeCurrentHistogram' = currentSums[currentHistogramBin']
  BY RoundAdvances, SumsRise DEF AdvanceCurrent, KeepCurrent, WalkInv, TypeOK
<1>3. cumulativePreviousHistogram' = previousSums[previousHistogramBin']
  BY RoundAdvances, SumsRise DEF AdvancePrevious, KeepPrevious, WalkInv, TypeOK
<1> QED
  BY <1>1, <1>2, <1>3

\* While there are current bins left, the previous image advances only when its sum
\* is not above the current one.
LEMMA OneBinAhead ==
  ASSUME TypeOK, TypeOK', WalkInv, Walk,
         previousHistogramBin' # 0, currentHistogramBin' # Last
  PROVE  previousSums'[previousHistogramBin' - 1] <= currentSums'[currentHistogramBin']
<1> DEFINE p == previousHistogramBin
           c == currentHistogramBin
<1>1. previousSums' = previousSums /\ currentSums' = currentSums
  BY DEF Walk, sumVars
<1>2. /\ c \in Bins /\ p \in Bins /\ c' \in Bins /\ p' \in Bins
      /\ currentSums \in CumulativeHistograms /\ previousSums \in CumulativeHistograms
  BY DEF TypeOK
<1>3. c # Last
  BY <1>2, RoundAdvances, BinsBounded DEF AdvanceCurrent, KeepCurrent
<1>4. currentSums[c] <= currentSums[c'] /\ currentSums[c] \in Nat /\ currentSums[c'] \in Nat
  BY <1>2, RoundAdvances, SumsRise DEF AdvanceCurrent, KeepCurrent
<1>5. CASE KeepPrevious
  <2>1. p' = p /\ p # 0
    BY <1>5 DEF KeepPrevious
  <2>2. previousSums[p - 1] <= currentSums[c]
    BY <2>1, <1>3 DEF WalkInv
  <2>3. p - 1 \in Bins
    BY <1>2, <2>1, EqualisationAssumption DEF Bins
  <2>4. previousSums[p - 1] \in Nat
    BY <1>2, <2>3, SumsRise
  <2> QED
    BY <1>1, <1>4, <2>1, <2>2, <2>4
<1>6. CASE AdvancePrevious
  <2>1. p' - 1 = p
    BY <1>2, <1>6, BinsBounded DEF AdvancePrevious
  <2>2. ~ Behind
    <3>1. SUFFICES ASSUME Behind PROVE FALSE
      OBVIOUS
    <3>2. c < Last
      BY <1>2, <1>3, BinsBounded
    <3>3. KeepPrevious
      BY <3>1, <3>2 DEF Behind
    <3> QED
      BY <1>2, <1>6, <3>3, BinsBounded DEF KeepPrevious, AdvancePrevious
  <2>3. Ahead \/ Level
    BY <2>2 DEF Walk
  <2>4. previousSums[p] \in Nat
    BY <1>2, SumsRise
  <2>5. previousSums[p] <= currentSums[c]
    BY <2>3, <2>4, <1>4 DEF Ahead, Level, WalkInv
  <2> QED
    BY <1>1, <1>4, <2>1, <2>4, <2>5
<1> QED
  BY <1>5, <1>6, RoundAdvances

\* A bin of the current image is left behind only when it is mapped by rank.
LEMMA LeftByRank ==
  ASSUME TypeOK, WalkInv, Walk, currentHistogramBin # Last, AdvanceCurrent
  PROVE  previousHistogramBin # Last =>
           currentSums[currentHistogramBin] <= previousSums[previousHistogramBin]
<1> SUFFICES ASSUME previousHistogramBin # Last
             PROVE  currentSums[currentHistogramBin] <= previousSums[previousHistogramBin]
  OBVIOUS
<1>1. previousHistogramBin < Last
  BY BinsBounded DEF TypeOK
<1>2. ~ Ahead
  <2>1. SUFFICES ASSUME Ahead PROVE FALSE
    OBVIOUS
  <2>2. KeepCurrent
    BY <1>1, <2>1 DEF Ahead
  <2> QED
    BY <2>2, BinsBounded DEF KeepCurrent, AdvanceCurrent, TypeOK
<1>3. Behind \/ Level
  BY <1>2 DEF Walk
<1>4. /\ currentSums[currentHistogramBin] \in Nat
      /\ previousSums[previousHistogramBin] \in Nat
  BY SumsRise DEF TypeOK
<1> QED
  BY <1>3, <1>4 DEF Behind, Level, WalkInv

LEMMA WalkStep ==
  ASSUME TypeOK, TypeOK', WalkInv, Walk
  PROVE  WalkInv'
<1> DEFINE p == previousHistogramBin
           c == currentHistogramBin
<1>1. /\ c \in Bins /\ p \in Bins /\ c' \in Bins /\ p' \in Bins
      /\ mapping \in [Bins -> Nat]
  BY DEF TypeOK
<1>2. previousSums' = previousSums /\ currentSums' = currentSums /\ ~ returned'
  BY DEF Walk, sumVars
<1>3. mapping' = [mapping EXCEPT ![c] = p]
  BY DEF Walk, Assign
<1>4. p <= p'
  BY <1>1, RoundAdvances, BinsBounded DEF AdvancePrevious, KeepPrevious
<1>5. \/ c' = c + 1 /\ c # Last /\ AdvanceCurrent
      \/ c' = c
  BY RoundAdvances DEF AdvanceCurrent, KeepCurrent
<1>6. ASSUME NEW bin \in Bins, bin < c'
      PROVE  (RankKept(bin))' /\ mapping'[bin] <= p'
  <2>1. CASE bin < c
    <3>1. mapping'[bin] = mapping[bin] /\ mapping[bin] \in Nat
      BY <1>1, <1>3, <2>1, BinsBounded
    <3>2. RankKept(bin) /\ mapping[bin] <= p
      BY <2>1 DEF WalkInv
    <3> QED
      BY <1>1, <1>2, <1>4, <3>1, <3>2, BinsBounded DEF RankKept
  <2>2. CASE bin = c
    <3>1. c # Last /\ AdvanceCurrent
      BY <1>1, <1>5, <1>6, <2>2, BinsBounded
    <3>2. mapping'[bin] = p
      BY <1>1, <1>3, <2>2
    <3>3. p # Last => currentSums[bin] <= previousSums[p]
      BY <2>2, <3>1, LeftByRank
    <3>4. p # 0 => previousSums[p - 1] <= currentSums[bin]
      BY <2>2, <3>1 DEF WalkInv
    <3> QED
      BY <1>1, <1>2, <1>4, <3>2, <3>3, <3>4 DEF RankKept
  <2> QED
    BY <1>1, <1>5, <1>6, <2>1, <2>2, BinsBounded
<1>7. ASSUME NEW bin \in Bins, NEW later \in Bins, bin <= later, later < c'
      PROVE  mapping'[bin] <= mapping'[later]
  <2>1. mapping' \in [Bins -> Nat]
    BY DEF TypeOK
  <2>2. CASE bin = later
    BY <2>1, <2>2
  <2>3. CASE bin < later
    <3>1. bin < c /\ bin # c /\ (later < c \/ later = c)
      BY <1>1, <1>5, <1>7, <2>3, BinsBounded
    <3>2. mapping'[bin] = mapping[bin]
      BY <1>1, <1>3, <3>1
    <3>3. CASE later < c
      <4>1. mapping'[later] = mapping[later]
        BY <1>1, <1>3, <3>3, BinsBounded
      <4> QED
        BY <1>7, <3>2, <3>3, <4>1 DEF WalkInv
    <3>4. CASE later = c
      <4>1. mapping'[later] = p
        BY <1>1, <1>3, <3>4
      <4> QED
        BY <3>1, <3>2, <4>1 DEF WalkInv
    <3> QED
      BY <3>1, <3>3, <3>4
  <2> QED
    BY <1>7, <2>2, <2>3, BinsBounded
<1> QED
  BY <1>2, <1>6, <1>7, SumsKept, OneBinAhead DEF WalkInv

LEMMA ReturnStep ==
  ASSUME TypeOK, WalkInv, Return
  PROVE  WalkInv'
<1>1. /\ currentHistogramBin = Last /\ previousHistogramBin = Last
      /\ currentHistogramBin' = Last /\ previousHistogramBin' = Last
      /\ mapping' = [mapping EXCEPT ![Last] = previousHistogramBin * HISTOGRAM_SEGMENTS]
      /\ UNCHANGED <<previousSums, currentSums, cumulativePreviousHistogram,
                     cumulativeCurrentHistogram>>
  BY DEF Return, MoreBins, sumVars
<1>2. \A bin \in Bins : bin < Last => mapping'[bin] = mapping[bin] /\ bin # Last
  BY <1>1, BinsBounded DEF TypeOK
<1>3. \A bin, later \in Bins : bin <= later /\ later < Last => bin < Last
  BY BinsBounded
<1>4. mapping'[Last] = previousHistogramBin * HISTOGRAM_SEGMENTS
  BY <1>1, BinsBounded DEF TypeOK
<1>5. \A bin \in Bins : bin < Last => (RankKept(bin))' /\ mapping'[bin] <= Last
  BY <1>1, <1>2 DEF WalkInv, RankKept
<1>6. \A bin, later \in Bins :
         bin <= later /\ later < Last => mapping'[bin] <= mapping'[later]
  BY <1>1, <1>2, <1>3 DEF WalkInv
<1> QED
  BY <1>1, <1>4, <1>5, <1>6 DEF WalkInv

\* Initially true and kept by every step.
THEOREM WalkInvariant == Spec => []WalkInv
<1>1. TypeOK /\ TypeOK' /\ WalkInv /\ [Next]_vars => WalkInv'
  <2> SUFFICES ASSUME TypeOK, TypeOK', WalkInv, [Next]_vars PROVE WalkInv'
    OBVIOUS
  <2>1. CASE UNCHANGED vars
    BY <2>1 DEF vars, sumVars, WalkInv, RankKept
  <2> QED
    BY <2>1, WalkStep, ReturnStep DEF Next
<1> QED
  BY <1>1, WalkInit, TypeCorrect, PTL DEF Spec

\* What the walk leaves behind is in order, the last bin included.
LEMMA Ordered ==
  ASSUME TypeOK, WalkInv, returned, NEW bin \in Bins, NEW later \in Bins, bin <= later
  PROVE  mapping[bin] \in Nat /\ mapping[later] \in Nat /\ mapping[bin] <= mapping[later]
<1>1. currentHistogramBin = Last /\ mapping[Last] = previousHistogramBin * HISTOGRAM_SEGMENTS
  BY DEF WalkInv
<1>2. mapping[bin] \in Nat /\ mapping[later] \in Nat
  BY DEF TypeOK
<1>3. CASE later < Last
  BY <1>1, <1>2, <1>3 DEF WalkInv
<1>4. CASE later = Last /\ bin < Last
  <2>1. mapping[bin] <= previousHistogramBin
    BY <1>1, <1>4 DEF WalkInv
  <2>2. previousHistogramBin \in Nat /\ HISTOGRAM_SEGMENTS \in Nat /\ HISTOGRAM_SEGMENTS >= 1
    BY BinsBounded, EqualisationAssumption DEF TypeOK
  <2>3. previousHistogramBin <= previousHistogramBin * HISTOGRAM_SEGMENTS
    BY <2>2
  <2> QED
    BY <1>1, <1>2, <1>4, <2>1, <2>2, <2>3
<1>5. CASE later = Last /\ bin = Last
  BY <1>2, <1>5
<1> QED
  BY <1>2, <1>3, <1>4, <1>5, BinsBounded

\* The assertion of linear_map cannot fail, for any two histograms.
THEOREM MappingIsMonotone == Spec => []MappingMonotone
<1>1. TypeOK /\ WalkInv => MappingMonotone
  BY Ordered, BinsBounded DEF MappingMonotone
<1> QED
  BY <1>1, TypeCorrect, WalkInvariant, PTL

\* Every bin but the last is mapped to one of like rank.
THEOREM QuantilesAreMatched == Spec => []QuantilesMatch
<1>1. TypeOK /\ WalkInv => QuantilesMatch
  <2> SUFFICES ASSUME TypeOK, WalkInv, returned, NEW bin \in Bins \ {Last}
               PROVE  RankKept(bin)
    BY DEF QuantilesMatch
  <2>1. bin < currentHistogramBin
    BY BinsBounded DEF WalkInv
  <2> QED
    BY <2>1 DEF WalkInv
<1> QED
  BY <1>1, TypeCorrect, WalkInvariant, PTL

-----------------------------------------------------------------------------
(* The walk ends *)

\* Two bins of which one at least goes on by one are together nearer to the last.
LEMMA BinsLeft ==
  ASSUME NEW last \in Nat, NEW c \in 0..last, NEW p \in 0..last,
         NEW c1 \in 0..last, NEW p1 \in 0..last,
         c <= c1, p <= p1, c < c1 \/ p < p1
  PROVE  /\ (last - c) + (last - p) \in Nat /\ (last - c1) + (last - p1) \in Nat
         /\ (last - c1) + (last - p1) < (last - c) + (last - p)
         /\ (last - c) + (last - p) <= 2 * last
<1>1. last - c \in Nat /\ last - p \in Nat /\ last - c1 \in Nat /\ last - p1 \in Nat
  OBVIOUS
<1>2. /\ last - c1 <= last - c /\ last - p1 <= last - p
      /\ last - c1 < last - c \/ last - p1 < last - p
      /\ last - c <= last /\ last - p <= last
  OBVIOUS
<1> QED
  BY <1>1, <1>2

\* The steps get_equalisation_parameters has left at most.
StepsLeft ==
  (Last - currentHistogramBin) + (Last - previousHistogramBin) + (IF returned THEN 0 ELSE 1)

\* Each step brings its end nearer.
EachRoundEnds ==
  [][StepsLeft' \in Nat /\ StepsLeft' < StepsLeft /\ StepsLeft <= 2 * Last + 1]_vars

\* The loop ends for any two histograms and any number of bins, after 2 * Last rounds
\* at most: no round stands still when one of the two bins is the last, and none goes
\* past it, where the loop's condition (which is an inequality) would not end it.
THEOREM WalkIsBounded == Spec => EachRoundEnds
<1>1. TypeOK /\ TypeOK' /\ [Next]_vars =>
        [StepsLeft' \in Nat /\ StepsLeft' < StepsLeft /\ StepsLeft <= 2 * Last + 1]_vars
  <2> SUFFICES ASSUME TypeOK, TypeOK', Next
               PROVE  StepsLeft' \in Nat /\ StepsLeft' < StepsLeft /\ StepsLeft <= 2 * Last + 1
    OBVIOUS
  <2>1. /\ Last \in Nat
        /\ currentHistogramBin \in 0..Last /\ previousHistogramBin \in 0..Last
        /\ currentHistogramBin' \in 0..Last /\ previousHistogramBin' \in 0..Last
    BY BinsBounded, EqualisationAssumption DEF TypeOK, Bins, Last
  <2>2. CASE Walk
    <3>1. ~ returned /\ ~ returned'
      BY <2>2 DEF Walk
    <3>2. currentHistogramBin # Last \/ previousHistogramBin # Last
      BY <2>2 DEF Walk, MoreBins
    <3>3. \/ currentHistogramBin' = currentHistogramBin + 1 /\ KeepPrevious
          \/ previousHistogramBin' = previousHistogramBin + 1 /\ KeepCurrent
          \/ /\ currentHistogramBin' = currentHistogramBin + 1
             /\ previousHistogramBin' = previousHistogramBin + 1
      <4>1. CASE Behind
        BY <4>1 DEF Behind, AdvanceCurrent, AdvancePrevious
      <4>2. CASE Ahead
        BY <4>2 DEF Ahead, AdvanceCurrent, AdvancePrevious
      <4>3. CASE Level
        BY <2>1, <3>2, <4>3 DEF Level, AdvanceCurrent, AdvancePrevious
      <4> QED
        BY <2>2, <4>1, <4>2, <4>3 DEF Walk
    <3>4. /\ currentHistogramBin <= currentHistogramBin'
          /\ previousHistogramBin <= previousHistogramBin'
          /\ \/ currentHistogramBin < currentHistogramBin'
             \/ previousHistogramBin < previousHistogramBin'
      BY <2>1, <3>3 DEF KeepCurrent, KeepPrevious
    <3> DEFINE Bins0 == (Last - currentHistogramBin) + (Last - previousHistogramBin)
               Bins1 == (Last - currentHistogramBin') + (Last - previousHistogramBin')
    <3>5. Bins0 \in Nat /\ Bins1 \in Nat /\ Bins1 < Bins0 /\ Bins0 <= 2 * Last
      BY <2>1, <3>4, BinsLeft
    <3>6. StepsLeft = Bins0 + 1 /\ StepsLeft' = Bins1 + 1
      BY <3>1 DEF StepsLeft
    <3> HIDE DEF Bins0, Bins1
    <3> QED
      BY <2>1, <3>5, <3>6
  <2>3. CASE Return
    BY <2>1, <2>3 DEF Return, StepsLeft
  <2> QED
    BY <2>2, <2>3 DEF Next
<1> QED
  BY <1>1, TypeCorrect, PTL DEF Spec, EachRoundEnds

-----------------------------------------------------------------------------
(* The pixels *)

\* A product with a larger factor is larger by at least the other one.
LEMMA Products ==
  ASSUME NEW a \in Int, NEW b \in Int, NEW m \in Nat
  PROVE  /\ a * m \in Int /\ (a + 1) * m = a * m + m
         /\ a <= b => a * m <= b * m
         /\ a < b => a * m + m <= b * m
<1>1. \A c \in Int : c * m \in Int /\ (c + 1) * m = c * m + m
  OBVIOUS
<1>2. \A d \in Nat : 0 <= d * m
  OBVIOUS
<1>3. ASSUME a <= b PROVE a * m <= b * m
  <2>1. b - a \in Nat /\ (b - a) * m = b * m - a * m
    BY <1>3
  <2> QED
    BY <1>1, <1>2, <2>1
<1>4. ASSUME a < b PROVE a * m + m <= b * m
  <2>1. b - (a + 1) \in Nat /\ (b - (a + 1)) * m = b * m - (a + 1) * m
    BY <1>4
  <2> QED
    BY <1>1, <1>2, <2>1
<1> QED
  BY <1>1, <1>3, <1>4

LEMMA Division ==
  ASSUME NEW n \in Nat, NEW m \in Nat \ {0}
  PROVE  /\ n \div m \in Nat /\ n % m \in 0..(m - 1)
         /\ n = ((n \div m) * m) + (n % m)
  OBVIOUS

\* No other quotient leaves a remainder.
LEMMA DivisionUnique ==
  ASSUME NEW n \in Nat, NEW m \in Nat \ {0}, NEW q \in Int, NEW r \in 0..(m - 1),
         n = q * m + r
  PROVE  n \div m = q /\ n % m = r
<1> DEFINE d == n \div m
           e == n % m
<1>1. d \in Nat /\ e \in 0..(m - 1) /\ n = d * m + e
  OBVIOUS
<1> HIDE DEF d, e
<1>2. /\ q * m \in Int /\ d * m \in Int
      /\ q < d => q * m + m <= d * m
      /\ d < q => d * m + m <= q * m
  BY <1>1, Products
<1>3. d = q /\ e = r
  <2>1. ~ (q < d)
    BY <1>1, <1>2
  <2>2. ~ (d < q)
    BY <1>1, <1>2
  <2>3. d = q
    BY <1>1, <2>1, <2>2
  <2> QED
    BY <1>1, <1>2, <2>3
<1> QED
  BY <1>3 DEF d, e

\* A point between two others lies between them, and further on the further along.
LEMMA Between ==
  ASSUME NEW lo \in Nat, NEW hi \in Nat, NEW m \in Nat, NEW r \in 0..m, lo <= hi
  PROVE  /\ lo * (m - r) + hi * r \in Int
         /\ lo * m <= lo * (m - r) + hi * r
         /\ lo * (m - r) + hi * r <= hi * m
         /\ \A further \in r..m :
              lo * (m - r) + hi * r <= lo * (m - further) + hi * further
<1>1. \A t \in 0..m : lo * (m - t) + hi * t = lo * m + (hi - lo) * t
  OBVIOUS
<1>2. ASSUME NEW s \in 0..m, NEW t \in 0..m, s <= t
      PROVE  (hi - lo) * s <= (hi - lo) * t
  <2>1. hi - lo \in Nat /\ t - s \in Nat
    BY <1>2
  <2>2. (hi - lo) * (t - s) \in Nat
    BY <2>1
  <2>3. (hi - lo) * (t - s) = (hi - lo) * t - (hi - lo) * s
    BY <2>1
  <2> QED
    BY <2>1, <2>2, <2>3
<1>3. (hi - lo) * 0 = 0 /\ lo * m + (hi - lo) * m = hi * m
  OBVIOUS
<1>4. 0 \in 0..m /\ m \in 0..m /\ 0 <= r /\ r <= m /\ \A t \in r..m : t \in 0..m /\ r <= t
  OBVIOUS
<1>5. \A t \in 0..m : (hi - lo) * t \in Int /\ lo * m \in Int
  OBVIOUS
<1>6. (hi - lo) * 0 <= (hi - lo) * r /\ (hi - lo) * r <= (hi - lo) * m
  BY <1>2, <1>4
<1>7. \A t \in r..m : (hi - lo) * r <= (hi - lo) * t
  BY <1>2, <1>4
<1> QED
  BY <1>1, <1>3, <1>4, <1>5, <1>6, <1>7

\* The same line, drawn from its upper end.
LEMMA FromAbove ==
  ASSUME NEW lo \in Nat, NEW hi \in Nat, NEW m \in Nat, NEW d \in Int
  PROVE  hi * m + (lo - hi) * (- d) = lo * (m - (m + d)) + hi * (m + d)
<1>1. m - (m + d) = - d /\ - d \in Int
  OBVIOUS
<1>2. (lo - hi) * (- d) = lo * (- d) - hi * (- d)
  BY <1>1
<1>3. hi * (- d) = - (hi * d) /\ hi * (m + d) = hi * m + hi * d
  BY <1>1
<1>4. hi * m \in Int /\ hi * d \in Int /\ lo * (- d) \in Int
  BY <1>1
<1> QED
  BY <1>1, <1>2, <1>3, <1>4

\* The bins below and above a pixel are bins.
LEMMA PixelBetweenBins ==
  ASSUME NEW value \in Pixels
  PROVE  LET below == (value * Last) \div QuantumRange
             rest  == (value * Last) % QuantumRange
         IN  /\ value * Last \in Nat
             /\ value * Last = below * QuantumRange + rest
             /\ rest \in 0..(QuantumRange - 1)
             /\ below \in Bins
             /\ rest # 0 => below # Last /\ below + 1 \in Bins
<1> DEFINE below == (value * Last) \div QuantumRange
           rest  == (value * Last) % QuantumRange
<1>1. value \in Nat /\ value <= QuantumRange /\ QuantumRange \in Nat \ {0} /\ Last \in Nat
  BY BinsBounded, EqualisationAssumption DEF Pixels
<1>2. value * Last \in Nat /\ value * Last <= QuantumRange * Last
  <2>1. value * Last <= QuantumRange * Last
    BY <1>1, Products
  <2> QED
    BY <1>1, <2>1
<1>3. /\ below \in Nat /\ rest \in 0..(QuantumRange - 1)
      /\ value * Last = below * QuantumRange + rest
  BY <1>1, <1>2, Division
<1> HIDE DEF below, rest
<1>4. QuantumRange * Last = Last * QuantumRange /\ Last * QuantumRange \in Nat
  BY <1>1
<1>5. below * QuantumRange + rest <= Last * QuantumRange
  BY <1>2, <1>3, <1>4
<1>6. below * QuantumRange \in Int /\
      (Last < below => Last * QuantumRange + QuantumRange <= below * QuantumRange)
  BY <1>1, <1>3, Products
<1>7. below <= Last
  BY <1>1, <1>3, <1>4, <1>5, <1>6
<1>8. rest # 0 => below # Last
  BY <1>1, <1>3, <1>4, <1>5
<1>9. below \in Bins
  BY <1>3, <1>7, EqualisationAssumption DEF Bins, Last
<1> QED
  BY <1>2, <1>3, <1>8, <1>9, BinsBounded DEF below, rest

\* The line that linear_map is to compute rises with the pixel.
LEMMA InterpolatedRises ==
  ASSUME TypeOK, WalkInv, returned, NEW value \in Pixels, NEW lighter \in Pixels,
         value <= lighter
  PROVE  Interpolated(value, mapping) <= Interpolated(lighter, mapping)
<1> DEFINE Below(v) == (v * Last) \div QuantumRange
           Rest(v)  == (v * Last) % QuantumRange
           Above(v) == IF Rest(v) = 0 THEN Below(v) ELSE Below(v) + 1
<1>1. \A v \in Pixels :
         Interpolated(v, mapping) =
           mapping[Below(v)] * (QuantumRange - Rest(v)) + mapping[Above(v)] * Rest(v)
  BY DEF Interpolated
<1>2. \A v \in Pixels :
         /\ v * Last = Below(v) * QuantumRange + Rest(v)
         /\ Rest(v) \in 0..(QuantumRange - 1)
         /\ Below(v) \in Bins /\ (Rest(v) # 0 => Below(v) + 1 \in Bins)
  BY PixelBetweenBins
<1>3. value * Last <= lighter * Last
  BY BinsBounded, Products, EqualisationAssumption DEF Pixels
<1>4. QuantumRange \in Nat \ {0}
  BY EqualisationAssumption
<1> DEFINE b == Below(value)
           r == Rest(value)
           a == Above(value)
           bb == Below(lighter)
           rr == Rest(lighter)
           aa == Above(lighter)
<1>5. /\ r \in 0..(QuantumRange - 1) /\ rr \in 0..(QuantumRange - 1)
      /\ b \in Bins /\ bb \in Bins /\ a \in Bins /\ aa \in Bins
      /\ a = (IF r = 0 THEN b ELSE b + 1) /\ aa = (IF rr = 0 THEN bb ELSE bb + 1)
      /\ b * QuantumRange + r <= bb * QuantumRange + rr
  BY <1>2, <1>3
<1>6. /\ Interpolated(value, mapping) = mapping[b] * (QuantumRange - r) + mapping[a] * r
      /\ Interpolated(lighter, mapping) = mapping[bb] * (QuantumRange - rr) + mapping[aa] * rr
  BY <1>1
<1> HIDE DEF Below, Rest, Above, b, r, a, bb, rr, aa
<1>7. b \in Nat /\ bb \in Nat /\ a \in Nat /\ aa \in Nat /\ b <= a /\ bb <= aa
  BY <1>5, BinsBounded
<1>8. /\ mapping[b] \in Nat /\ mapping[a] \in Nat /\ mapping[bb] \in Nat
      /\ mapping[aa] \in Nat /\ mapping[b] <= mapping[a] /\ mapping[bb] <= mapping[aa]
  BY <1>5, <1>7, Ordered
<1>9. b <= bb
  <2>1. bb < b => bb * QuantumRange + QuantumRange <= b * QuantumRange
    BY <1>4, <1>7, Products
  <2>2. b * QuantumRange \in Int /\ bb * QuantumRange \in Int
    BY <1>4, <1>7
  <2> QED
    BY <1>4, <1>5, <1>7, <2>1, <2>2
<1>10. CASE b = bb
  <2>1. r <= rr
    <3>1. b * QuantumRange \in Int
      BY <1>4, <1>7
    <3> QED
      BY <1>5, <1>10, <3>1
  <2>2. CASE r = 0
    <3>1. mapping[b] * (QuantumRange - r) + mapping[a] * r = mapping[b] * QuantumRange
      BY <1>4, <1>8, <2>2
    <3>2. mapping[bb] * QuantumRange <= mapping[bb] * (QuantumRange - rr) + mapping[aa] * rr
      BY <1>4, <1>5, <1>8, Between
    <3> QED
      BY <1>6, <1>10, <3>1, <3>2
  <2>3. CASE r # 0
    <3>1. aa = a
      BY <1>5, <1>10, <2>1, <2>3
    <3>2. rr \in r..QuantumRange /\ r \in 0..QuantumRange
      BY <1>4, <1>5, <2>1
    <3>3. mapping[b] * (QuantumRange - r) + mapping[a] * r
            <= mapping[b] * (QuantumRange - rr) + mapping[a] * rr
      BY <1>4, <1>8, <3>2, Between
    <3> QED
      BY <1>6, <1>10, <3>1, <3>3
  <2> QED
    BY <2>2, <2>3
<1>11. CASE b < bb
  <2>1. a <= bb
    BY <1>5, <1>7, <1>11
  <2>2. mapping[a] <= mapping[bb]
    BY <1>5, <2>1, Ordered
  <2>3. mapping[a] * QuantumRange <= mapping[bb] * QuantumRange
    BY <1>4, <1>8, <2>2, Products
  <2>4. /\ mapping[b] * (QuantumRange - r) + mapping[a] * r <= mapping[a] * QuantumRange
        /\ mapping[b] * (QuantumRange - r) + mapping[a] * r \in Int
    BY <1>4, <1>5, <1>8, Between
  <2>5. /\ mapping[bb] * QuantumRange <= mapping[bb] * (QuantumRange - rr) + mapping[aa] * rr
        /\ mapping[bb] * (QuantumRange - rr) + mapping[aa] * rr \in Int
    BY <1>4, <1>5, <1>8, Between
  <2>6. mapping[a] * QuantumRange \in Int /\ mapping[bb] * QuantumRange \in Int
    BY <1>4, <1>8
  <2> QED
    BY <1>6, <2>3, <2>4, <2>5, <2>6
<1> QED
  BY <1>7, <1>9, <1>10, <1>11

\* linear_map computes that line, from whichever side round() makes it start.
LEMMA LinearMapInterpolates ==
  ASSUME TypeOK, NEW value \in Pixels
  PROVE  LinearMap(value, mapping) = Interpolated(value, mapping)
<1> DEFINE n == value * Last
           bin == Bin(value)
           delta == n - bin * QuantumRange
           below == n \div QuantumRange
           rest == n % QuantumRange
<1>1. QuantumRange \in Nat \ {0} /\ 2 * QuantumRange \in Nat \ {0}
  BY EqualisationAssumption
<1>2. /\ n \in Nat /\ n = below * QuantumRange + rest /\ rest \in 0..(QuantumRange - 1)
      /\ below \in Bins /\ (rest # 0 => below # Last /\ below + 1 \in Bins)
  BY PixelBetweenBins
<1>3. 2 * value * Last = 2 * n
  BY BinsBounded DEF Pixels
<1>4. /\ bin \in Nat
      /\ bin * (2 * QuantumRange) <= 2 * n + QuantumRange
      /\ 2 * n + QuantumRange < bin * (2 * QuantumRange) + 2 * QuantumRange
  <2>1. bin = (2 * n + QuantumRange) \div (2 * QuantumRange)
    BY <1>3 DEF Bin
  <2>2. 2 * n + QuantumRange \in Nat
    BY <1>1, <1>2
  <2> HIDE DEF bin, n
  <2> DEFINE error == (2 * n + QuantumRange) % (2 * QuantumRange)
  <2>3. /\ bin \in Nat /\ error \in 0..(2 * QuantumRange - 1)
        /\ 2 * n + QuantumRange = bin * (2 * QuantumRange) + error
    BY <1>1, <2>1, <2>2, Division
  <2> HIDE DEF error
  <2>4. bin * (2 * QuantumRange) \in Int
    BY <1>1, <2>1, <2>3
  <2> QED
    BY <1>1, <2>1, <2>2, <2>3, <2>4
<1>5. LinearMap(value, mapping) =
        mapping[bin] * QuantumRange
          + (mapping[Neighbour(value)] - mapping[bin]) * Absolute(delta)
  BY DEF LinearMap, ErrorDelta
<1>6. Neighbour(value) = IF delta >= 0 THEN IF bin >= Last THEN bin ELSE bin + 1
                                      ELSE IF bin = 0 THEN 0 ELSE bin - 1
  BY DEF Neighbour, ErrorDelta
<1>7. Interpolated(value, mapping) =
        mapping[below] * (QuantumRange - rest)
          + mapping[IF rest = 0 THEN below ELSE below + 1] * rest
  BY DEF Interpolated
<1> HIDE DEF n, bin
<1>8. /\ bin * QuantumRange \in Int /\ (bin - 1) * QuantumRange = bin * QuantumRange - QuantumRange
      /\ bin * (2 * QuantumRange) = 2 * (bin * QuantumRange)
  BY <1>1, <1>4
<1>9. /\ delta \in Int /\ 2 * delta < QuantumRange /\ - QuantumRange <= 2 * delta
      /\ n = bin * QuantumRange + delta
  BY <1>1, <1>2, <1>4, <1>8
<1> HIDE DEF delta
<1>10. CASE delta >= 0
  <2>1. delta \in 0..(QuantumRange - 1)
    BY <1>1, <1>9, <1>10
  <2>2. below = bin /\ rest = delta
    <3>1. n \in Nat /\ bin \in Int /\ n = bin * QuantumRange + delta
      BY <1>2, <1>4, <1>9
    <3> QED
      BY <1>1, <2>1, <3>1, DivisionUnique
  <2>3. mapping[bin] \in Nat
    BY <1>2, <2>2 DEF TypeOK
  <2>4. Absolute(delta) = delta
    BY <2>1 DEF Absolute
  <2> HIDE DEF below, rest
  <2>5. CASE delta = 0
    <3>1. mapping[Neighbour(value)] \in Nat
      BY <1>2, <1>6, <1>10, <2>2, BinsBounded DEF TypeOK
    <3> QED
      BY <1>1, <1>5, <1>7, <2>2, <2>3, <2>4, <2>5, <3>1
  <2>6. CASE delta # 0
    <3>1. Neighbour(value) = bin + 1 /\ bin + 1 \in Bins
      BY <1>2, <1>6, <1>10, <2>2, <2>6, BinsBounded
    <3>2. mapping[bin + 1] \in Nat
      BY <3>1 DEF TypeOK
    <3>3. mapping[bin] * QuantumRange + (mapping[bin + 1] - mapping[bin]) * delta =
            mapping[bin] * (QuantumRange - delta) + mapping[bin + 1] * delta
      BY <1>1, <1>9, <2>3, <3>2
    <3> QED
      BY <1>5, <1>7, <2>2, <2>4, <2>6, <3>1, <3>3
  <2> QED
    BY <2>5, <2>6
<1>11. CASE delta < 0
  <2>1. QuantumRange + delta \in 0..(QuantumRange - 1) /\ QuantumRange + delta # 0
    BY <1>1, <1>9, <1>11
  <2>2. n = (bin - 1) * QuantumRange + (QuantumRange + delta)
    BY <1>1, <1>8, <1>9
  <2>3. below = bin - 1 /\ rest = QuantumRange + delta
    <3>1. n \in Nat /\ bin - 1 \in Int
      BY <1>2, <1>4
    <3> QED
      BY <1>1, <2>1, <2>2, <3>1, DivisionUnique
  <2> HIDE DEF below, rest
  <2>4. bin # 0 /\ bin \in Bins /\ bin - 1 \in Bins /\ below + 1 = bin
    BY <1>2, <1>4, <2>1, <2>3, BinsBounded
  <2>5. Neighbour(value) = bin - 1
    BY <1>6, <1>9, <1>11, <2>4
  <2>6. mapping[bin] \in Nat /\ mapping[bin - 1] \in Nat
    BY <2>4 DEF TypeOK
  <2>7. Absolute(delta) = - delta
    BY <1>9, <1>11 DEF Absolute
  <2>8. mapping[bin] * QuantumRange + (mapping[bin - 1] - mapping[bin]) * (- delta) =
          mapping[bin - 1] * (QuantumRange - (QuantumRange + delta))
            + mapping[bin] * (QuantumRange + delta)
    BY <1>1, <1>9, <2>6, FromAbove
  <2>9. Interpolated(value, mapping) =
          mapping[bin - 1] * (QuantumRange - (QuantumRange + delta))
            + mapping[bin] * (QuantumRange + delta)
    BY <1>7, <2>1, <2>3, <2>4
  <2> QED
    BY <1>5, <2>5, <2>7, <2>8, <2>9
<1> QED
  BY <1>9, <1>10, <1>11

\* linear_map interpolates between the two bins around a pixel without a jump, and keeps
\* lighter pixels lighter, for every range of pixels and number of segments.
THEOREM LinearMapIsLinear == Spec => []InterpolationIsLinear
<1>1. TypeOK /\ WalkInv => InterpolationIsLinear
  <2> SUFFICES ASSUME TypeOK, WalkInv, returned, NEW value \in Pixels
               PROVE  /\ LinearMap(value, mapping) = Interpolated(value, mapping)
                      /\ value # 0 =>
                           LinearMap(value - 1, mapping) <= LinearMap(value, mapping)
    BY DEF InterpolationIsLinear
  <2>1. value # 0 => value - 1 \in Pixels /\ value - 1 <= value
    BY EqualisationAssumption DEF Pixels
  <2> QED
    BY <2>1, LinearMapInterpolates, InterpolatedRises
<1> QED
  BY <1>1, TypeCorrect, WalkInvariant, PTL
=============================================================================
