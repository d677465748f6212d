--------------------------------- MODULE Median ---------------------------------
(***************************************************************************)
(* The median of the harnesses: every printed number is one, and what it   *)
(* is worth rests on what it makes of disturbed samples.  Values are kept  *)
(* twice as large, so that the mean of two is a whole number.              *)
(***************************************************************************)
EXTENDS Integers, Sequences, FiniteSets

\* The k-th smallest of a sequence.
Ranked(s, k) ==
  CHOOSE v \in {s[n] : n \in DOMAIN s} :
    /\ Cardinality({n \in DOMAIN s : s[n] < v}) < k
    /\ Cardinality({n \in DOMAIN s : s[n] <= v}) >= k

\* Mutation: the middle sample is taken without sorting.
TwiceMiddle(s) == 2 * s[Len(s) \div 2 + 1]

\* Twice the median: the mean of the two middle values of an even number.
TwiceMedian(s) == Ranked(s, (Len(s) + 1) \div 2) + Ranked(s, Len(s) \div 2 + 1)

===============================================================================
