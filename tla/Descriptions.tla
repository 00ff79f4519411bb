----------------------------- MODULE Descriptions -----------------------------
(***************************************************************************)
(* How the analyses describe a sample: quantiles() of summarize.py and     *)
(* describe() of analyze_pairs.py.  A sample is a sequence of integers; a  *)
(* quantile is returned times 100, the median and the mean as fractions    *)
(* [num, den].  The rounding of floating-point numbers is left out.        *)
(***************************************************************************)
EXTENDS Integers, Sequences, FiniteSets, SequencesExt

\* Variant: without interpolation.
Lower(sorted, a) == sorted[a]

\* values[min(a+1,len(values)-1)]
Neighbour(sorted, a) == IF a + 1 \in DOMAIN sorted THEN sorted[a + 1] ELSE sorted[a]

\* The i-th in ascending order: fewer than i are less, at least i are not greater.
Sorted(values) ==
    [i \in DOMAIN values |-> CHOOSE v \in Range(values) :
        /\ Cardinality({j \in DOMAIN values : values[j] < v}) < i
        /\ Cardinality({j \in DOMAIN values : values[j] <= v}) >= i]

\* q(percent / 100), times 100: linear between two neighbours of the sorted sample.
Quantile100(values, percent) ==
    LET sorted == Sorted(values)
        i == (Len(values) - 1) * percent
        a == i \div 100 + 1
    IN  100 * sorted[a] + (Neighbour(sorted, a) - sorted[a]) * (i % 100)

Quantiles100(values) ==
    [p50 |-> Quantile100(values, 50), p95 |-> Quantile100(values, 95),
     p99 |-> Quantile100(values, 99), largest |-> 100 * Last(Sorted(values))]

\* statistics.median()
Median(values) ==
    LET sorted == Sorted(values)
        n == Len(values)
    IN  IF n % 2 = 1 THEN [num |-> sorted[n \div 2 + 1], den |-> 1]
        ELSE [num |-> sorted[n \div 2] + sorted[n \div 2 + 1], den |-> 2]

\* describe(): an empty sample has no numbers, not zeros.
Describe(values) ==
    IF values = <<>> THEN [n |-> 0, values |-> <<>>]
    ELSE [n |-> Len(values), values |-> values, median |-> Median(values),
          mean |-> [num |-> FoldSeq(+, 0, values), den |-> Len(values)],
          smallest |-> Sorted(values)[1], largest |-> Last(Sorted(values))]
=============================================================================
