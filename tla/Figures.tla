------------------------------ MODULE Figures ------------------------------
(***************************************************************************)
(* The figures the runtime computes, as functions of their input: the ring *)
(* of samples and the percentiles of src/metrics.rs, and the pages of the  *)
(* component list of src/api/apps.rs.                                      *)
(*                                                                         *)
(* A duration is a number.  n as f64 * q is exact here: for each of the    *)
(* four q the code uses and every n a ring can reach, the ceiling of the   *)
(* rounded product is that of the exact one.                               *)
(***************************************************************************)
EXTENDS Integers, Sequences

CONSTANTS
    SampleCap,   \* SAMPLE_CAP: samples kept for an endpoint
    Word         \* usize counts from 0 to Word - 1

ASSUME FiguresAssumption == SampleCap \in Nat \ {0} /\ Word \in Nat \ {0}

-----------------------------------------------------------------------------
(* EndpointStat.                                                           *)

RecordSample(samples, d) ==
    Append(IF Len(samples) >= SampleCap THEN Tail(samples) ELSE samples, d)

(* p50, p95, p99 and p999.                                                 *)
Quantiles == {<<50, 100>>, <<95, 100>>, <<99, 100>>, <<999, 1000>>}

CeilDiv(a, b) == (a + b - 1) \div b

(* The index, from 0, into n sorted samples.                               *)
PercentileIndex(n, q) ==
    LET rank == CeilDiv(n * q[1], q[2])
    IN  IF rank < n - 1 THEN rank ELSE n - 1

(* sorted is the sorted copy of the ring.                                  *)
Percentile(sorted, q) ==
    IF sorted = <<>> THEN 0 ELSE sorted[PercentileIndex(Len(sorted), q) + 1]

-----------------------------------------------------------------------------
(* list_components.                                                        *)

Clamp(x, low, high) == IF x < low THEN low ELSE IF x > high THEN high ELSE x

PageSize(asked) == Clamp(asked, 1, 200)

(* The product wraps in a release build, and panics in a debug build.      *)
PageStart(page, size) == (((IF page > 1 THEN page ELSE 1) - 1) * size) % Word

(* The positions, from 1, in a list of total components.                   *)
PageItems(total, page, size) ==
    LET start == PageStart(page, size) IN {i \in 1..total : start < i /\ i <= start + size}

-----------------------------------------------------------------------------
(* What they are meant to be.                                              *)

Sorted(s) == \A i, j \in 1..Len(s) : i <= j => s[i] <= s[j]

Latest(history, k) ==
    LET skip == IF Len(history) > k THEN Len(history) - k ELSE 0
    IN  [i \in 1..(Len(history) - skip) |-> history[skip + i]]

(* At least the fraction q of the samples is not above the percentile.     *)
Covers(n, q) == (PercentileIndex(n, q) + 1) * q[2] >= n * q[1]

(* A page whose start does not wrap.                                       *)
Regular(page, size) == page \in Nat \ {0} /\ (page - 1) * size < Word
=============================================================================
