----------------------------- MODULE MCApiGate -----------------------------
(***************************************************************************)
(* Instances of ApiGate for TLC: more requests than permits, a request     *)
(* that costs more than what accrues in a tick.  TLC also evaluates here   *)
(* what FiguresProofs proves: every ring length of the code, and every     *)
(* page of short lists under a word that wraps soon.                       *)
(***************************************************************************)
EXTENDS ApiGate, Figures, TLC

ASSUME Overcommitted == Cardinality(Requests) > Limit
ASSUME Fractional == Rate < One /\ One < Burst

Histories == UNION {[1..n -> 1..2] : n \in 0..5}
ASSUME RingKept ==
    \A h \in Histories, d \in 1..2 :
        RecordSample(Latest(h, SampleCap), d) = Latest(Append(h, d), SampleCap)
ASSUME QuantilesCovered == \A n \in 1..4096, q \in Quantiles : Covers(n, q)
ASSUME SortedPercentiles ==
    \A s \in {h \in Histories : Sorted(h)} :
        Percentile(s, <<50, 100>>) <= Percentile(s, <<999, 1000>>)
ASSUME PagesCover ==
    \A total \in 0..Word, size \in 1..5, i \in 1..Word :
        i <= total =>
            Cardinality({page \in 1..(Word + 1) :
                Regular(page, size) /\ i \in PageItems(total, page, size)}) = 1
=============================================================================
