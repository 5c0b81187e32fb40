------------------------ MODULE EqualisationMapping ------------------------
(***************************************************************************)
(* The arithmetic of equalisation (algorithm.cpp): get_equalisation_       *)
(* parameters, which walks the histograms of an image and of the image     *)
(* before it side by side and maps each bin of lightness of the one to a   *)
(* bin of the other, and linear_map, which applies that mapping to a pixel.*)
(*                                                                         *)
(* Proportions are natural numbers, out of Weight; the lightness values of *)
(* a mapping are in units of QuantumRange / HISTOGRAM_SEGMENTS, and those  *)
(* linear_map returns in 1 / QuantumRange of that, so that every division  *)
(* of the code is exact.  (The code holds a mapping in floats; rounding to *)
(* them keeps the order of its bins.)                                      *)
(*                                                                         *)
(* A definition named Wrong... is what the one after it would be with a    *)
(* plausible mistake, see Server.                                          *)
(***************************************************************************)
EXTENDS Integers

CONSTANTS
  HISTOGRAM_SEGMENTS,
  QuantumRange,       \* the largest lightness of a pixel
  Weight,             \* what the proportions of a histogram add up to, and
  Rounding            \* how far rounding may keep their sum below that

ASSUME EqualisationAssumption ==
  /\ HISTOGRAM_SEGMENTS \in Nat \ {0}
  /\ QuantumRange \in Nat \ {0}
  /\ Weight \in Nat
  /\ Rounding \in 0..Weight

VARIABLES
  previousSums,       \* of the previous image: sums of its histogram's first bins
  currentSums,        \* the same of the current image
  previousHistogramBin,
  currentHistogramBin,
  cumulativePreviousHistogram,
  cumulativeCurrentHistogram,
  mapping,
  returned            \* whether get_equalisation_parameters has returned

sumVars == <<previousSums, currentSums>>

vars == <<sumVars, previousHistogramBin, currentHistogramBin,
          cumulativePreviousHistogram, cumulativeCurrentHistogram, mapping, returned>>

Bins == 0..(HISTOGRAM_SEGMENTS - 1)

Last == HISTOGRAM_SEGMENTS - 1

\* The sums of the first 0, 1, ... bins of a histogram: proportions of pixels, which
\* are not negative and add up to Weight, but for rounding.
CumulativeHistograms ==
  {sums \in [0..HISTOGRAM_SEGMENTS -> 0..Weight] :
     /\ sums[0] = 0
     /\ \A i \in Bins : sums[i] <= sums[i + 1]
     /\ sums[HISTOGRAM_SEGMENTS] >= Weight - Rounding}

\* The proportion of pixels a histogram has in a bin.
Proportion(sums, bin) == sums[bin + 1] - sums[bin]

\* Every variable keeps its type; no bin beyond the last is ever looked at.
TypeOK ==
  /\ previousSums \in CumulativeHistograms
  /\ currentSums \in CumulativeHistograms
  /\ previousHistogramBin \in Bins
  /\ currentHistogramBin \in Bins
  /\ cumulativePreviousHistogram \in Nat
  /\ cumulativeCurrentHistogram \in Nat
  /\ mapping \in [Bins -> Nat]
  /\ returned \in BOOLEAN

Init ==
  /\ previousSums \in CumulativeHistograms
  /\ currentSums \in CumulativeHistograms
  /\ previousHistogramBin = 0
  /\ currentHistogramBin = 0
  /\ cumulativePreviousHistogram = 0
  /\ cumulativeCurrentHistogram = 0
  /\ mapping = [bin \in Bins |-> 0]
  /\ returned = FALSE

-----------------------------------------------------------------------------
(* get_equalisation_parameters *)

WrongMoreBins ==            \* the walk ends with the shorter side
  currentHistogramBin # Last /\ previousHistogramBin # Last

\* The condition of the loop.
MoreBins == currentHistogramBin # Last \/ previousHistogramBin # Last

AdvanceCurrent ==
  /\ cumulativeCurrentHistogram' =
       cumulativeCurrentHistogram + Proportion(currentSums, currentHistogramBin)
  /\ currentHistogramBin' = currentHistogramBin + 1

AdvancePrevious ==
  /\ cumulativePreviousHistogram' =
       cumulativePreviousHistogram + Proportion(previousSums, previousHistogramBin)
  /\ previousHistogramBin' = previousHistogramBin + 1

KeepCurrent == UNCHANGED <<cumulativeCurrentHistogram, currentHistogramBin>>

KeepPrevious == UNCHANGED <<cumulativePreviousHistogram, previousHistogramBin>>

\* The branch taken when the current image is behind.
Behind ==
  /\ cumulativeCurrentHistogram < cumulativePreviousHistogram
  /\ IF currentHistogramBin < Last THEN AdvanceCurrent /\ KeepPrevious
                                   ELSE AdvancePrevious /\ KeepCurrent

WrongAhead ==               \* nothing is advanced at the end of the previous histogram
  /\ cumulativeCurrentHistogram > cumulativePreviousHistogram
  /\ IF previousHistogramBin < Last THEN AdvancePrevious ELSE KeepPrevious
  /\ KeepCurrent

\* The branch taken when the current image is ahead.
Ahead ==
  /\ cumulativeCurrentHistogram > cumulativePreviousHistogram
  /\ IF previousHistogramBin < Last THEN AdvancePrevious /\ KeepCurrent
                                    ELSE AdvanceCurrent /\ KeepPrevious

\* The branch taken when neither is.
Level ==
  /\ cumulativeCurrentHistogram = cumulativePreviousHistogram
  /\ IF currentHistogramBin < Last THEN AdvanceCurrent ELSE KeepCurrent
  /\ IF previousHistogramBin < Last THEN AdvancePrevious ELSE KeepPrevious

WrongAssign ==              \* the bins of the two histograms swapped
  mapping' = [mapping EXCEPT ![previousHistogramBin] = currentHistogramBin]

\* The assignment at the start of each round.
Assign == mapping' = [mapping EXCEPT ![currentHistogramBin] = previousHistogramBin]

\* One round of the loop.
Walk ==
  /\ ~ returned
  /\ MoreBins
  /\ Assign
  /\ Behind \/ Ahead \/ Level
  /\ UNCHANGED <<sumVars, returned>>

\* The last element is assigned (in full units of QuantumRange).
Return ==
  /\ ~ returned
  /\ ~ MoreBins
  /\ mapping' = [mapping EXCEPT ![Last] = previousHistogramBin * HISTOGRAM_SEGMENTS]
  /\ returned' = TRUE
  /\ UNCHANGED <<sumVars, previousHistogramBin, currentHistogramBin,
                 cumulativePreviousHistogram, cumulativeCurrentHistogram>>

Next == Walk \/ Return

Spec == Init /\ [][Next]_vars

\* The function runs to its end unless it loops.
FairSpec == Spec /\ WF_vars(Next)

-----------------------------------------------------------------------------
(* The pixels *)

Pixels == 0..QuantumRange

\* round() of value / QuantumRange * (HISTOGRAM_SEGMENTS - 1): the bucket of
\* compute_lightness_histogram, and histogramBinRounded of linear_map.
Bin(value) == (2 * value * Last + QuantumRange) \div (2 * QuantumRange)

\* errorDelta, times QuantumRange
ErrorDelta(value) == value * Last - Bin(value) * QuantumRange

Absolute(n) == IF n < 0 THEN - n ELSE n

WrongNeighbour(value) ==    \* below and above swapped
  LET bin == Bin(value)
  IN  IF ErrorDelta(value) >= 0 THEN IF bin = 0 THEN 0 ELSE bin - 1
                                ELSE IF bin >= Last THEN bin ELSE bin + 1

\* The bin linear_map interpolates with.
Neighbour(value) ==
  LET bin == Bin(value)
  IN  IF ErrorDelta(value) >= 0 THEN IF bin >= Last THEN bin ELSE bin + 1
                                ELSE IF bin = 0 THEN 0 ELSE bin - 1

\* linear_map
LinearMap(value, map) ==
  LET base == map[Bin(value)]
  IN  base * QuantumRange + (map[Neighbour(value)] - base) * Absolute(ErrorDelta(value))

\* What linear_map is to compute: the line between the bins below and above value.
Interpolated(value, map) ==
  LET below == (value * Last) \div QuantumRange
      rest  == (value * Last) % QuantumRange
      above == IF rest = 0 THEN below ELSE below + 1
  IN  map[below] * (QuantumRange - rest) + map[above] * rest

-----------------------------------------------------------------------------
(* Safety *)

\* The assertion of linear_map (algorithm.cpp:167) cannot fail: whatever the two
\* histograms are, the mapping never goes down from one bin to the next.
MappingMonotone ==
  returned => \A bin \in Bins : bin # Last => mapping[bin] <= mapping[bin + 1]

RankKept(bin) ==
  LET to == mapping[bin]
  IN  /\ to \in Bins
      /\ to # Last => currentSums[bin] <= previousSums[to]
      /\ to # 0 => previousSums[to - 1] <= currentSums[bin]

\* The mapping takes each bin to one of like rank in the previous image: no less of
\* that image is darker than of this one (unless its bins end), and one bin below
\* no more of it is.
QuantilesMatch == returned => \A bin \in Bins \ {Last} : RankKept(bin)

\* The inductive invariant of the walk: the cumulative proportions are those of the
\* two bins it stands at, the previous image is at most one bin ahead while there
\* are current bins left, and what is left behind is mapped in order and by rank.
WalkInv ==
  /\ cumulativeCurrentHistogram = currentSums[currentHistogramBin]
  /\ cumulativePreviousHistogram = previousSums[previousHistogramBin]
  /\ previousHistogramBin # 0 /\ currentHistogramBin # Last =>
       previousSums[previousHistogramBin - 1] <= currentSums[currentHistogramBin]
  /\ \A bin \in Bins :
       bin < currentHistogramBin => RankKept(bin) /\ mapping[bin] <= previousHistogramBin
  /\ \A bin, later \in Bins :
       bin <= later /\ later < currentHistogramBin => mapping[bin] <= mapping[later]
  /\ returned => /\ currentHistogramBin = Last
                 /\ mapping[Last] = previousHistogramBin * HISTOGRAM_SEGMENTS

\* Pixels between two bins are mapped to the line between what these are mapped to,
\* without a jump where round() turns from one bin to the next; so lighter pixels
\* stay lighter.
InterpolationIsLinear ==
  returned =>
    \A value \in Pixels :
      /\ LinearMap(value, mapping) = Interpolated(value, mapping)
      /\ value # 0 => LinearMap(value - 1, mapping) <= LinearMap(value, mapping)

-----------------------------------------------------------------------------
(* Liveness *)

\* The loop ends for any two histograms, though its condition is an inequality of
\* both bins with the last one.
WalkEnds == <>returned
=============================================================================
