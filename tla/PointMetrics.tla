---------------------------- MODULE PointMetrics -----------------------------
(***************************************************************************)
(* Statistics and the matching of points (src/utils/metrics/metrics.cpp) over  *)
(* integers: a quantile is kept as the multiple of its denominator, points      *)
(* have one coordinate. Rounding and the range of double are left out.         *)
(***************************************************************************)
EXTENDS Integers, Sequences, FiniteSets, SequencesExt

SmallerOf(a, b) == IF a < b THEN a ELSE b

\* d times the q/d quantile of ordered samples: between the sample at the
\* fractional index q/d * (n - 1), rounded down, and the next one.
InterpolateQuantile(sorted_samples, q, d) ==
  LET last     == Len(sorted_samples) - 1
      position == q * last
      lower    == position \div d
      upper    == SmallerOf(lower + 1, last)
      weight   == position % d
  IN  (d - weight) * sorted_samples[lower + 1] + weight * sorted_samples[upper + 1]

\* std::sort: at each place the sample that as many others are below.
Sorted(samples) ==
  LET Below(value)  == Cardinality({j \in DOMAIN samples : samples[j] < value})
      UpTo(value)   == Cardinality({j \in DOMAIN samples : samples[j] <= value})
  IN  [k \in DOMAIN samples |->
         CHOOSE value \in {samples[j] : j \in DOMAIN samples} : Below(value) < k /\ k <= UpTo(value)]

\* The sum of the first samples, of all of them at last.
Total(samples) ==
  LET Sum[k \in 0 .. Len(samples)] == IF k = 0 THEN 0 ELSE Sum[k - 1] + samples[k]
  IN  Sum[Len(samples)]

Statistics ==
  [count : Nat, total : Int, median_2 : Int, p95_20 : Int, minimum : Int, maximum : Int]

\* For at least one sample.
ComputeSampleStatistics(samples) ==
  LET sorted_samples == Sorted(samples)
  IN  [count     |-> Len(samples),
       total     |-> Total(samples),
       median_2  |-> InterpolateQuantile(sorted_samples, 1, 2),
       p95_20    |-> InterpolateQuantile(sorted_samples, 19, 20),
       minimum   |-> sorted_samples[1],
       maximum   |-> sorted_samples[Len(sorted_samples)]]

\* Points have a source, each one its own.
PointsAreUsable(points) ==
  /\ \A k \in DOMAIN points : points[k].source # ""
  /\ \A j, k \in DOMAIN points : points[j].source = points[k].source => j = k

Sources(points) == {points[k].source : k \in DOMAIN points}

\* For usable points.
ComputeMatchedPointErrors(predictions, references) ==
  LET Matches(p) == p.source \in Sources(references)
      Reference(source) == references[CHOOSE k \in DOMAIN references : references[k].source = source]
      Residual(sum, p) == IF Matches(p) THEN sum + p.x - Reference(p.source).x ELSE sum
  IN  [matched               |-> Cardinality({k \in DOMAIN predictions : Matches(predictions[k])}),
       unmatched_predictions |-> Sources(predictions) \ Sources(references),
       unmatched_references  |-> Sources(references) \ Sources(predictions),
       residual_sum          |-> FoldLeft(Residual, 0, predictions)]
=============================================================================
