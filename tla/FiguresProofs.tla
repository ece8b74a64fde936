--------------------------- MODULE FiguresProofs ---------------------------
(***************************************************************************)
(* What the figures of the metrics and the pages of the component list are *)
(* for every input.                                                        *)
(***************************************************************************)
EXTENDS Figures, SequenceTheorems, TLAPS

LEMMA ShortLatest ==
    ASSUME NEW S, NEW h \in Seq(S), NEW k \in Nat, Len(h) <= k
    PROVE  /\ Latest(h, k) \in Seq(S) /\ Len(Latest(h, k)) = Len(h)
           /\ \A i \in 1..Len(h) : Latest(h, k)[i] = h[i]
<1>1. Latest(h, k) = [i \in 1..Len(h) |-> h[i]]
  BY DEF Latest
<1> QED
  BY <1>1

LEMMA LongLatest ==
    ASSUME NEW S, NEW h \in Seq(S), NEW k \in Nat, Len(h) >= k
    PROVE  /\ Latest(h, k) \in Seq(S) /\ Len(Latest(h, k)) = k
           /\ \A i \in 1..k : Latest(h, k)[i] = h[(Len(h) - k) + i]
<1>1. Latest(h, k) = [i \in 1..k |-> h[(Len(h) - k) + i]]
  BY DEF Latest
<1>2. \A i \in 1..k : h[(Len(h) - k) + i] \in S
  OBVIOUS
<1> QED
  BY <1>1, <1>2

(* EndpointStat::record: a ring that holds the latest samples holds the    *)
(* latest ones after the next, at most SampleCap of them.                  *)
THEOREM RingHoldsLatest ==
    ASSUME NEW S, NEW history \in Seq(S), NEW d \in S
    PROVE  RecordSample(Latest(history, SampleCap), d) = Latest(Append(history, d), SampleCap)
<1> DEFINE c == SampleCap
           n == Len(history)
           ring == Latest(history, c)
           longer == Append(history, d)
           kept == Latest(longer, c)
<1>1. c \in Nat \ {0} /\ n \in Nat
  BY FiguresAssumption
<1>2. longer \in Seq(S) /\ Len(longer) = n + 1 /\ longer[n + 1] = d
      /\ \A i \in 1..n : longer[i] = history[i]
  OBVIOUS
<1> HIDE DEF longer
<1>3. CASE n < c
  <2>1. ring \in Seq(S) /\ Len(ring) = n /\ \A i \in 1..n : ring[i] = history[i]
    BY <1>1, <1>3, ShortLatest
  <2>2. kept \in Seq(S) /\ Len(kept) = n + 1 /\ \A i \in 1..(n + 1) : kept[i] = longer[i]
    BY <1>1, <1>2, <1>3, ShortLatest
  <2> HIDE DEF ring, kept
  <2>3. Append(ring, d) = kept
    <3>1. Append(ring, d) \in Seq(S) /\ Len(Append(ring, d)) = Len(kept)
          /\ \A i \in 1..Len(Append(ring, d)) : Append(ring, d)[i] = kept[i]
      BY <1>1, <1>2, <2>1, <2>2
    <3> QED
      BY <2>2, <3>1, SeqEqual
  <2> QED
    BY <1>1, <1>3, <2>1, <2>3 DEF RecordSample, ring, kept, longer
<1>4. CASE n >= c
  <2>1. ring \in Seq(S) /\ Len(ring) = c /\ \A i \in 1..c : ring[i] = history[(n - c) + i]
    BY <1>1, <1>4, LongLatest
  <2>2. kept \in Seq(S) /\ Len(kept) = c
        /\ \A i \in 1..c : kept[i] = longer[((n + 1) - c) + i]
    <3>1. longer \in Seq(S) /\ Len(longer) >= c /\ c \in Nat
      BY <1>1, <1>2, <1>4
    <3>2. kept \in Seq(S) /\ Len(kept) = c
          /\ \A i \in 1..c : kept[i] = longer[(Len(longer) - c) + i]
      BY <3>1, LongLatest
    <3> QED
      BY <1>2, <3>2
  <2> HIDE DEF ring, kept
  <2>3. Tail(ring) \in Seq(S) /\ Len(Tail(ring)) = c - 1
        /\ \A i \in 1..(c - 1) : Tail(ring)[i] = history[(n - c) + (i + 1)]
    <3>1. ring # <<>>
      BY <1>1, <2>1
    <3>2. /\ Tail(ring) \in Seq(S) /\ Len(Tail(ring)) = c - 1
          /\ \A i \in 1..(c - 1) : Tail(ring)[i] = ring[i + 1]
      BY <1>1, <2>1, <3>1, HeadTailProperties
    <3>3. \A i \in 1..(c - 1) : i + 1 \in 1..c
      BY <1>1
    <3> QED
      BY <2>1, <3>2, <3>3
  <2>4. Append(Tail(ring), d) = kept
    <3> DEFINE t == Tail(ring)
    <3>1. Append(t, d) \in Seq(S) /\ Len(Append(t, d)) = c /\ Append(t, d)[c] = d
          /\ \A i \in 1..(c - 1) : Append(t, d)[i] = t[i]
      BY <1>1, <2>3
    <3>2. kept[c] = d
      BY <1>1, <1>2, <1>4, <2>2
    <3>3. ASSUME NEW i \in 1..(c - 1) PROVE kept[i] = t[i]
      <4>1. ((n + 1) - c) + i \in 1..n /\ ((n + 1) - c) + i = (n - c) + (i + 1)
        BY <1>1, <1>4
      <4>2. kept[i] = longer[((n + 1) - c) + i]
        BY <1>1, <2>2
      <4> QED
        BY <1>2, <2>3, <4>1, <4>2
    <3> HIDE DEF t
    <3>4. \A i \in 1..c : Append(t, d)[i] = kept[i]
      BY <1>1, <3>1, <3>2, <3>3
    <3> QED
      BY <2>2, <3>1, <3>4, SeqEqual DEF t
  <2> QED
    BY <1>1, <2>1, <2>4 DEF RecordSample, ring, kept, longer
<1> QED
  BY <1>1, <1>3, <1>4

LEMMA IndexInRange ==
    ASSUME NEW n \in Nat \ {0}, NEW q \in Quantiles
    PROVE  PercentileIndex(n, q) \in 0..(n - 1)
BY DEF PercentileIndex, CeilDiv, Quantiles

(* EndpointStat::percentile never indexes outside the ring, and returns a  *)
(* value that at least the fraction q of the samples does not exceed.      *)
THEOREM PercentileCovers ==
    ASSUME NEW n \in Nat \ {0}, NEW q \in Quantiles
    PROVE  PercentileIndex(n, q) \in 0..(n - 1) /\ Covers(n, q)
<1>1. Covers(n, q)
  BY DEF Covers, PercentileIndex, CeilDiv, Quantiles
<1> QED
  BY <1>1, IndexInRange

(* The four percentiles of an endpoint that get_metrics shows are ordered  *)
(* as their names are, for every ring.                                     *)
THEOREM PercentilesOrdered ==
    ASSUME NEW s \in Seq(Nat), Sorted(s)
    PROVE  /\ Percentile(s, <<50, 100>>) <= Percentile(s, <<95, 100>>)
           /\ Percentile(s, <<95, 100>>) <= Percentile(s, <<99, 100>>)
           /\ Percentile(s, <<99, 100>>) <= Percentile(s, <<999, 1000>>)
<1>1. CASE s = <<>>
  BY <1>1 DEF Percentile
<1>2. CASE s # <<>>
  <2> DEFINE n == Len(s)
             p50 == PercentileIndex(n, <<50, 100>>)
             p95 == PercentileIndex(n, <<95, 100>>)
             p99 == PercentileIndex(n, <<99, 100>>)
             p999 == PercentileIndex(n, <<999, 1000>>)
  <2>1. n \in Nat \ {0}
    BY <1>2
  <2>2. p50 \in 0..(n - 1) /\ p95 \in 0..(n - 1) /\ p99 \in 0..(n - 1) /\ p999 \in 0..(n - 1)
    BY <2>1, IndexInRange DEF Quantiles
  <2>3. p50 <= p95 /\ p95 <= p99 /\ p99 <= p999
    BY <2>1 DEF PercentileIndex, CeilDiv
  <2> HIDE DEF p50, p95, p99, p999
  <2>4. s[p50 + 1] <= s[p95 + 1] /\ s[p95 + 1] <= s[p99 + 1] /\ s[p99 + 1] <= s[p999 + 1]
    BY <2>1, <2>2, <2>3 DEF Sorted
  <2> QED
    BY <1>2, <2>4 DEF Percentile, p50, p95, p99, p999
<1> QED
  BY <1>1, <1>2

-----------------------------------------------------------------------------
LEMMA ProductMonotone ==
    ASSUME NEW a \in Nat, NEW b \in Nat, NEW c \in Nat, a <= b
    PROVE  a * c <= b * c
<1> DEFINE e == b - a
<1>1. e \in Nat /\ b = a + e
  OBVIOUS
<1> HIDE DEF e
<1>2. e * c \in Nat
  BY <1>1
<1>3. (a + e) * c = a * c + e * c
  BY <1>1
<1> QED
  BY <1>1, <1>2, <1>3

LEMMA RegularStart ==
    ASSUME NEW size \in Nat \ {0}, NEW page \in Nat \ {0}, Regular(page, size)
    PROVE  PageStart(page, size) = (page - 1) * size
<1> DEFINE product == (page - 1) * size
<1>1. product \in Nat /\ product < Word
  BY DEF Regular
<1>2. PageStart(page, size) = product % Word
  BY DEF PageStart
<1> HIDE DEF product
<1>3. product % Word = product
  BY <1>1, FiguresAssumption
<1> QED
  BY <1>2, <1>3 DEF product

(* list_components: of the pages whose start does not wrap, every          *)
(* component of the list is on exactly one, whatever page_size a client    *)
(* asks for.                                                               *)
THEOREM PagesPartition ==
    ASSUME NEW total \in Nat, total <= Word, NEW asked \in Nat, NEW i \in 1..total
    PROVE  LET size == PageSize(asked)
               Holds(page) == Regular(page, size) /\ i \in PageItems(total, page, size)
           IN  /\ \E page \in Nat \ {0} : Holds(page)
               /\ \A p, r \in Nat \ {0} : Holds(p) /\ Holds(r) => p = r
<1> DEFINE size == PageSize(asked)
           Holds(page) == Regular(page, size) /\ i \in PageItems(total, page, size)
<1>1. size \in Nat \ {0}
  BY DEF PageSize, Clamp
<1> HIDE DEF size
<1>2. ASSUME NEW page \in Nat \ {0}, Regular(page, size)
      PROVE  /\ (page - 1) * size \in Nat /\ page * size \in Nat
             /\ i \in PageItems(total, page, size) <=> (page - 1) * size < i /\ i <= page * size
  <2>1. (page - 1) * size \in Nat /\ page * size = (page - 1) * size + size
    BY <1>1
  <2>2. PageStart(page, size) = (page - 1) * size
    BY <1>1, <1>2, RegularStart
  <2> QED
    BY <1>1, <2>1, <2>2 DEF PageItems
<1>3. \E page \in Nat \ {0} : Holds(page)
  <2> DEFINE k == (i - 1) \div size
  <2>1. k \in Nat
    BY <1>1
  <2>2. k * size <= i - 1 /\ i - 1 < k * size + size
    BY <1>1
  <2> HIDE DEF k
  <2>3. (k + 1) * size = k * size + size /\ k * size \in Nat
    BY <1>1, <2>1
  <2>4. Regular(k + 1, size)
    BY <1>1, <2>1, <2>2, <2>3, FiguresAssumption DEF Regular
  <2>5. i \in PageItems(total, k + 1, size)
    BY <1>2, <2>1, <2>2, <2>3, <2>4
  <2> QED
    BY <2>1, <2>4, <2>5
<1>4. ASSUME NEW p \in Nat \ {0}, NEW r \in Nat \ {0}, Holds(p), Holds(r), p < r
      PROVE  FALSE
  <2>1. i <= p * size /\ (r - 1) * size < i
    BY <1>2, <1>4
  <2>2. p * size <= (r - 1) * size
    BY <1>1, <1>4, ProductMonotone
  <2> QED
    BY <1>1, <1>2, <1>4, <2>1, <2>2
<1>5. \A p, r \in Nat \ {0} : Holds(p) /\ Holds(r) => p = r
  BY <1>4
<1> QED
  BY <1>3, <1>5 DEF size
=============================================================================
