----------------------------- MODULE Statistics -----------------------------
(* The summary of one cycle's round trips, internal/stats: order statistics   *)
(* by linear interpolation between closest ranks.  Durations are naturals;    *)
(* the code's floats are exact at this size but for the final truncation.     *)
EXTENDS Listing, Functions

(* percentiles.go; the 50th is the median. *)
PercentileSet == {5 * k : k \in 1..19} \ {50}

Sorted(samples) == Ordered(samples, DOMAIN samples, <)

(* percentile; p is in hundredths. *)
Percentile(sorted, p) ==
  LET position == p * (Len(sorted) - 1)
      low == 1 + position \div 100
      frac == position % 100
  IN  IF frac = 0 THEN sorted[low]
      ELSE sorted[low] + (frac * (sorted[low + 1] - sorted[low])) \div 100

TotalOf(samples) == SumFunction(samples)

Mean(samples) == TotalOf(samples) \div Len(samples)

(* The root, rounded down, of the mean squared distance from the exact mean. *)
StdDev(samples) ==
  LET count == Len(samples)
      squared == count * TotalOf([i \in DOMAIN samples |-> samples[i] * samples[i]])
                   - TotalOf(samples) * TotalOf(samples)
  IN  CHOOSE d \in 0..TotalOf(samples) :
        /\ d * d * count * count <= squared
        /\ squared < (d + 1) * (d + 1) * count * count

Compute(samples) ==
  IF samples = <<>>
  THEN [min |-> 0, max |-> 0, mean |-> 0, median |-> 0, stddev |-> 0,
        percentiles |-> [p \in PercentileSet |-> 0]]
  ELSE LET sorted == Sorted(samples)
       IN  [min |-> sorted[1], max |-> sorted[Len(sorted)],
            mean |-> Mean(samples), median |-> Percentile(sorted, 50),
            stddev |-> StdDev(samples),
            percentiles |-> [p \in PercentileSet |-> Percentile(sorted, p)]]

-----------------------------------------------------------------------------
(* A summary lies within its samples, its band is ordered, and a percentile  *)
(* lies between the samples of the two ranks around it: those not above it    *)
(* reach past its rank, those below it do not pass the next (stats.go lines   *)
(* 40 to 117).                                                                *)
SummaryIsOrdered(samples) ==
  LET s == Compute(samples)
      band == [p \in PercentileSet \cup {50} |-> IF p = 50 THEN s.median ELSE s.percentiles[p]]
      Upto(v) == Cardinality({i \in DOMAIN samples : samples[i] <= v})
      Below(v) == Cardinality({i \in DOMAIN samples : samples[i] < v})
      rank(p) == p * (Len(samples) - 1)
  IN  samples # <<>> =>
        /\ \A p, q \in DOMAIN band : p < q => band[p] <= band[q]
        /\ \A p \in DOMAIN band :
             /\ s.min <= band[p] /\ band[p] <= s.max
             /\ 100 * (Below(band[p]) - 1) < rank(p) /\ rank(p) < 100 * Upto(band[p])
        /\ s.min <= s.mean /\ s.mean <= s.max
        /\ s.stddev <= s.max - s.min
=============================================================================
