------------------------ MODULE ActivityCalculation ------------------------
(***************************************************************************)
(* The calculation of the activity diagnostic: a histogram, percentiles    *)
(* and a checksum of a sequence of samples.  Samples are integers, in      *)
(* thousandths; floating-point rounding is left out.                       *)
(***************************************************************************)
EXTENDS Integers, SequencesExt

CONSTANTS
    MaxSampleCount, MaxBucketCount, MaxIterations,
    ChecksumModulo,
    Samples         \* the sample values of the checked inputs

ASSUME CalculationAssumption ==
    /\ {MaxSampleCount, MaxBucketCount, MaxIterations, ChecksumModulo} \subseteq Nat \ {0}
    /\ Samples \subseteq Int

Input(samples, buckets, iterations) ==
    [samples |-> samples, bucketCount |-> buckets, iterations |-> iterations]

ValidInput(in) ==
    /\ Len(in.samples) <= MaxSampleCount
    /\ in.bucketCount \in 1 .. MaxBucketCount
    /\ in.iterations \in 1 .. MaxIterations

-----------------------------------------------------------------------------
(* A mistake: the greatest sample gets a bucket of its own. *)
BucketUnclamped(s, least, greatest, buckets) ==
    IF least = greatest THEN 0 ELSE ((s - least) * buckets) \div (greatest - least)

Bucket(s, least, greatest, buckets) ==
    IF least = greatest THEN 0
    ELSE LET b == ((s - least) * buckets) \div (greatest - least)
         IN IF b < buckets THEN b ELSE buckets - 1

Histogram(samples, least, greatest, buckets) ==
    [b \in 1 .. buckets |->
        Cardinality({i \in DOMAIN samples : Bucket(samples[i], least, greatest, buckets) = b - 1})]

Below(samples, v) == Cardinality({i \in DOMAIN samples : samples[i] < v})
AtOrBelow(samples, v) == Cardinality({i \in DOMAIN samples : samples[i] <= v})

(* The samples in ascending order: fewer than n samples are below the n-th, *)
(* and n at least are not above it.                                        *)
Sorted(samples) ==
    [n \in DOMAIN samples |->
        CHOOSE v \in Range(samples) : Below(samples, v) < n /\ n <= AtOrBelow(samples, v)]

(* The element at Math.ceil(length * rank) - 1, counted from 0. *)
Percentile(sorted, percent) ==
    LET rank == (Len(sorted) * percent + 99) \div 100
    IN IF sorted = <<>> THEN 0
       ELSE sorted[IF rank <= Len(sorted) THEN rank ELSE Len(sorted)]

Magnitude(s) == IF s < 0 THEN -s ELSE s

(* The inner loop: one addition for each sample, at index n - 1. *)
Pass(samples, checksum, iteration) ==
    LET sum[n \in 0 .. Len(samples)] ==
          IF n = 0 THEN checksum
          ELSE (sum[n - 1] + Magnitude(samples[n]) + iteration + (n - 1)) % ChecksumModulo
    IN sum[Len(samples)]

(* The outer loop *)
Checksum(samples, iterations) ==
    LET checksum[k \in 0 .. iterations] ==
          IF k = 0 THEN 0 ELSE Pass(samples, checksum[k - 1], k - 1)
    IN checksum[iterations]

CalculateActivity(in) ==
    LET sorted == Sorted(in.samples)
        least == IF sorted = <<>> THEN 0 ELSE Head(sorted)
        greatest == IF sorted = <<>> THEN 0 ELSE Last(sorted)
    IN [sampleCount |-> Len(in.samples),
        histogram |-> Histogram(in.samples, least, greatest, in.bucketCount),
        percentiles |-> [p \in {50, 95, 99} |-> Percentile(sorted, p)],
        checksum |-> Checksum(in.samples, in.iterations)]

-----------------------------------------------------------------------------
(* What a result must be                                                   *)

(* Bucket b of n is the b-th of n equal parts of the range, closed below   *)
(* and open above, except that the last one has the greatest sample; when  *)
(* all samples are equal they are in the first.                            *)
InBucket(v, samples, b, n) ==
    LET values == {samples[i] : i \in DOMAIN samples}
        least == CHOOSE m \in values : \A w \in values : m <= w
        greatest == CHOOSE m \in values : \A w \in values : w <= m
    IN \/ least = greatest /\ b = 1
       \/ /\ least < greatest
          /\ (b - 1) * (greatest - least) <= (v - least) * n
          /\ (v - least) * n < b * (greatest - least) \/ (b = n /\ v = greatest)

(* The nearest-rank percentile: the least sample with at least p percent   *)
(* of the samples at or below it.                                          *)
IsPercentile(v, samples, p) ==
    LET Enough(w) == AtOrBelow(samples, w) * 100 >= p * Len(samples)
    IN /\ \E i \in DOMAIN samples : samples[i] = v
       /\ Enough(v)
       /\ \A i \in DOMAIN samples : Enough(samples[i]) => v <= samples[i]

SumOf(s) ==
    LET sum[n \in 0 .. Len(s)] == IF n = 0 THEN 0 ELSE sum[n - 1] + s[n]
    IN sum[Len(s)]

IsResult(in, result) ==
    LET s == in.samples  n == Len(s)  k == in.iterations  buckets == in.bucketCount
    IN
    /\ \A b \in 1 .. buckets :
         result.histogram[b] = Cardinality({i \in 1 .. n : InBucket(s[i], s, b, buckets)})
    /\ SumOf(result.histogram) = n /\ result.sampleCount = n
    /\ \A p \in {50, 95, 99} :
         IF n = 0 THEN result.percentiles[p] = 0 ELSE IsPercentile(result.percentiles[p], s, p)
    /\ result.checksum =
         (k * SumOf([i \in 1 .. n |-> Magnitude(s[i])])
            + n * ((k * (k - 1)) \div 2) + k * ((n * (n - 1)) \div 2)) % ChecksumModulo

Inputs ==
    LET all == {Input(s, b, i) : s \in BoundedSeq(Samples, MaxSampleCount),
                                 b \in 1 .. MaxBucketCount, i \in 1 .. MaxIterations}
    IN {in \in all : ValidInput(in)}

(* The result is the histogram, the nearest-rank percentiles and the       *)
(* checksum of the samples for every input that is accepted: equal         *)
(* samples, negative ones and none at all included.                        *)
EveryResultIsRight == \A in \in Inputs : IsResult(in, CalculateActivity(in))

=============================================================================
