------------------------- MODULE ChartSeries_proofs -------------------------
(***************************************************************************)
(* Proofs about ChartSeries, for any bounds and any browsers.              *)
(***************************************************************************)
EXTENDS ChartSeries, FiniteSetTheorems, SequenceTheorems, WellFoundedInduction, TLAPS

(* A set of naturals has a least element.                                  *)
LEMMA LeastNatural ==
    ASSUME NEW S, S \subseteq Nat, S # {}
    PROVE  \E m \in S : \A n \in S : m <= n
<1> DEFINE R == OpToRel(<, Nat)
<1>1. \A x, y \in Nat : <<y, x>> \in R <=> y < x
  BY DEF OpToRel
<1>2. IsWellFoundedOn(R, Nat)
  BY NatLessThanWellFounded
<1> HIDE DEF R
<1>3. PICK m \in S : \A n \in S : <<n, m>> \notin R
  BY <1>2, WFMin
<1>4. ASSUME NEW n \in S PROVE m <= n
  <2>1. m \in Nat /\ n \in Nat
    OBVIOUS
  <2>2. ~ (n < m)
    BY <1>1, <1>3, <2>1, Zenon
  <2> QED BY <2>1, <2>2
<1> QED BY <1>4

(* A set that has 0 and the successors of its elements has every natural.  *)
LEMMA EveryNatural ==
    ASSUME NEW S, 0 \in S, \A n \in Nat : n \in S => n + 1 \in S
    PROVE  \A n \in Nat : n \in S
<1> SUFFICES ASSUME Nat \ S # {} PROVE FALSE
  OBVIOUS
<1>1. PICK m \in Nat \ S : \A n \in Nat \ S : m <= n
  BY LeastNatural
<1>2. m # 0 /\ m - 1 \in Nat
  BY <1>1
<1>3. m - 1 \in S
  BY <1>1, <1>2
<1> QED BY <1>1, <1>2, <1>3

-----------------------------------------------------------------------------
(* Candles, tables and lists.                                              *)

(* A candle's parts, and a bucket, are numbers.                            *)
LEMMA CandleParts ==
    /\ \A c \in Candle : c.bucket \in Nat /\ c.bucket \in Buckets /\ c.idx \in Nat \ {0}
    /\ \A b \in Buckets : b \in Nat \ {0} /\ b <= MaxBucket
BY CandlesAssumption DEF Candle, Buckets

(* The bucket and the submission determine the candle.                     *)
LEMMA SameCandle ==
    \A c, d \in Candle : c.bucket = d.bucket /\ c.idx = d.idx => c = d
BY DEF Candle

(* A table's rows are the candles it holds.                                *)
LEMMA RowsOfTable ==
    ASSUME NEW t \in Table
    PROVE  /\ Rows(t) \subseteq Candle
           /\ \A c \in Rows(t) : c.idx = t[c.bucket]
           /\ \A c \in Candle : c.idx = t[c.bucket] => c \in Rows(t)
<1>1. \A b \in Buckets : t[b] # Absent => t[b] \in 1..MaxIdx
  BY CandlesAssumption DEF Table, Absent
<1>2. Rows(t) \subseteq Candle
  BY <1>1 DEF Rows, Candle
<1>3. \A c \in Rows(t) : c.idx = t[c.bucket]
  BY DEF Rows
<1>4. ASSUME NEW c \in Candle, c.idx = t[c.bucket]
      PROVE  c \in Rows(t)
  <2>1. c = [bucket |-> c.bucket, idx |-> t[c.bucket]] /\ c.bucket \in Buckets /\ t[c.bucket] # Absent
    BY <1>4, CandlesAssumption DEF Candle, Absent
  <2> QED BY <2>1 DEF Rows
<1> QED BY <1>2, <1>3, <1>4

(* Last keeps an end of the list.                                          *)
LEMMA LastIsAnEnd ==
    ASSUME NEW S, NEW s \in Seq(S), NEW n \in Nat
    PROVE  /\ Last(n, s) \in Seq(S)
           /\ Len(Last(n, s)) <= n
           /\ \E k \in 0..Len(s) :
                 /\ Len(Last(n, s)) = Len(s) - k
                 /\ k > 0 => Len(Last(n, s)) = n
                 /\ \A i \in 1..(Len(s) - k) : Last(n, s)[i] = s[i + k]
<1>1. Len(s) \in Nat /\ \A i \in 1..Len(s) : s[i] \in S
  OBVIOUS
<1>2. CASE Len(s) > n
  <2> DEFINE q == SubSeq(s, Len(s) - n + 1, Len(s))
             k == Len(s) - n
  <2>1. \A i \in (Len(s) - n + 1)..Len(s) : s[i] \in S
    BY <1>1, <1>2
  <2>2. /\ q \in Seq(S)
        /\ Len(q) = IF Len(s) - n + 1 <= Len(s) THEN Len(s) - (Len(s) - n + 1) + 1 ELSE 0
        /\ \A i \in 1..(Len(s) - (Len(s) - n + 1) + 1) : q[i] = s[(Len(s) - n + 1) + i - 1]
    BY <1>1, <2>1, SubSeqProperties
  <2>3. Last(n, s) = q
    BY <1>2 DEF Last
  <2> HIDE DEF q
  <2>4. Len(q) = n /\ k \in 0..Len(s) /\ n = Len(s) - k
    BY <1>1, <1>2, <2>2
  <2>5. ASSUME NEW i \in 1..(Len(s) - k) PROVE q[i] = s[i + k]
    <3>1. i \in 1..(Len(s) - (Len(s) - n + 1) + 1) /\ (Len(s) - n + 1) + i - 1 = i + k
      BY <1>1
    <3> QED BY <2>2, <3>1, Zenon
  <2>6. \E j \in 0..Len(s) :
            /\ Len(q) = Len(s) - j
            /\ j > 0 => Len(q) = n
            /\ \A i \in 1..(Len(s) - j) : q[i] = s[i + j]
    <3> HIDE DEF k
    <3> QED BY <2>4, <2>5
  <2>7. q \in Seq(S) /\ Len(q) <= n
    BY <2>2, <2>4
  <2> QED BY ONLY <2>3, <2>6, <2>7, Zenon
<1>3. CASE ~ (Len(s) > n)
  <2>1. Last(n, s) = s
    BY <1>3 DEF Last
  <2>2. 0 \in 0..Len(s) /\ \A i \in 1..(Len(s) - 0) : s[i] = s[i + 0]
    BY <1>1
  <2> QED BY <1>1, <1>3, <2>1, <2>2
<1> QED BY <1>2, <1>3

(* The least bucket of a list in order is its first, so that an end of a   *)
(* list is a tail of what the list is a tail of.                           *)
LEMMA EndOfTail ==
    ASSUME NEW t \in Table, NEW s \in Seq(Candle), TailOf(s, t),
           NEW q \in Seq(Candle), NEW k \in 0..Len(s),
           Len(q) = Len(s) - k, k > 0 => Len(q) > 0,
           \A i \in 1..(Len(s) - k) : q[i] = s[i + k]
    PROVE  TailOf(q, t)
<1>1. Len(s) \in Nat /\ Len(q) \in Nat /\ DOMAIN s = 1..Len(s) /\ DOMAIN q = 1..Len(q)
  OBVIOUS
<1>2. \A i \in 1..Len(s) : s[i] \in Candle /\ s[i].bucket \in Nat
  BY CandleParts
<1>3. \A i, j \in 1..Len(s) : i < j => s[i].bucket < s[j].bucket
  BY <1>1 DEF TailOf, Ascending
<1>4. Ascending(q)
  BY <1>1, <1>3 DEF Ascending
<1>5. CASE q = <<>>
  <2>1. k = 0 /\ s = <<>>
    BY <1>1, <1>5
  <2> QED BY <1>4, <1>5, <2>1 DEF TailOf
<1>6. CASE q # <<>>
  <2>1. Len(q) > 0 /\ Len(s) > 0 /\ s # <<>>
    BY <1>1, <1>6
  <2>2. Listed(s) = {c \in Rows(t) : c.bucket >= s[1].bucket}
    BY <2>1 DEF TailOf
  <2>3. q[1] = s[1 + k] /\ 1 + k \in 1..Len(s) /\ 1 \in 1..Len(s)
    BY <1>1, <2>1
  <2>4. \A c \in Rows(t) : c \in Candle /\ c.bucket \in Nat
    BY RowsOfTable, CandleParts
  <2>5. ASSUME NEW c \in Listed(q) PROVE c \in Rows(t) /\ c.bucket >= q[1].bucket
    <3>1. PICK i \in 1..Len(q) : c = q[i]
      BY <1>1 DEF Listed
    <3>2. c = s[i + k] /\ i + k \in 1..Len(s)
      BY <1>1, <3>1
    <3>3. c \in Rows(t)
      BY <1>1, <2>2, <3>2 DEF Listed
    <3>4. c.bucket >= s[1 + k].bucket
      <4>1. CASE i = 1
        BY <1>2, <2>3, <3>2, <4>1
      <4>2. CASE i # 1
        <5>1. 1 + k < i + k
          BY <4>2
        <5> QED BY <1>2, <1>3, <2>3, <3>2, <5>1
      <4> QED BY <4>1, <4>2
    <3> QED BY <2>3, <3>3, <3>4
  <2>6. ASSUME NEW c \in Rows(t), c.bucket >= q[1].bucket PROVE c \in Listed(q)
    <3>1. c.bucket >= s[1].bucket
      <4>1. s[1].bucket <= s[1 + k].bucket
        <5>1. CASE k = 0
          BY <1>2, <2>3, <5>1
        <5>2. CASE k # 0
          BY <1>2, <1>3, <2>3, <5>2
        <5> QED BY <5>1, <5>2
      <4> QED BY <1>2, <2>3, <2>4, <2>6, <4>1
    <3>2. c \in Listed(s)
      BY <2>2, <3>1
    <3>3. PICK j \in 1..Len(s) : c = s[j]
      BY <1>1, <3>2 DEF Listed
    <3>4. ~ (j < 1 + k)
      BY <1>2, <1>3, <2>3, <2>6, <3>3
    <3>5. j - k \in 1..(Len(s) - k) /\ j - k \in DOMAIN q /\ (j - k) + k = j
      BY <1>1, <3>3, <3>4
    <3>6. q[j - k] = s[(j - k) + k]
      BY <3>5, Zenon
    <3> QED BY <3>3, <3>5, <3>6 DEF Listed
  <2>7. Listed(q) = {c \in Rows(t) : c.bucket >= q[1].bucket}
    BY <2>5, <2>6
  <2> QED BY <1>4, <1>6, <2>7 DEF TailOf
<1> QED BY <1>5, <1>6

(* A tail of a table stays one when only its last candles are kept.        *)
LEMMA LastOfTail ==
    ASSUME NEW t \in Table, NEW s \in Seq(Candle), TailOf(s, t), NEW n \in Nat \ {0}
    PROVE  TailOf(Last(n, s), t)
<1> DEFINE q == Last(n, s)
<1>1. q \in Seq(Candle)
  BY LastIsAnEnd
<1>2. PICK k \in 0..Len(s) :
          /\ Len(q) = Len(s) - k
          /\ k > 0 => Len(q) = n
          /\ \A i \in 1..(Len(s) - k) : q[i] = s[i + k]
  BY LastIsAnEnd
<1> HIDE DEF q
<1>3. k > 0 => Len(q) > 0
  BY <1>2
<1>4. TailOf(q, t)
  BY ONLY <1>1, <1>2, <1>3, EndOfTail, t \in Table, s \in Seq(Candle), TailOf(s, t), k \in 0..Len(s)
<1> QED BY <1>4 DEF q

(* A list that is not empty is a tail of t, bucket by bucket.              *)
LEMMA TailByBuckets ==
    ASSUME NEW t \in Table, NEW s \in Seq(Candle), s # <<>>
    PROVE  TailOf(s, t) <=>
              /\ Ascending(s)
              /\ \A i \in 1..Len(s) : s[i].idx = t[s[i].bucket]
              /\ \A b \in Buckets : b >= s[1].bucket /\ t[b] # Absent
                    => \E i \in 1..Len(s) : s[i].bucket = b
<1>1. DOMAIN s = 1..Len(s) /\ Len(s) \in Nat /\ 1 \in 1..Len(s)
  OBVIOUS
<1>2. \A i \in 1..Len(s) : s[i] \in Candle /\ s[i].bucket \in Nat
  BY CandleParts
<1>3. ASSUME TailOf(s, t)
      PROVE  /\ \A i \in 1..Len(s) : s[i].idx = t[s[i].bucket]
             /\ \A b \in Buckets : b >= s[1].bucket /\ t[b] # Absent
                   => \E i \in 1..Len(s) : s[i].bucket = b
  <2>1. Listed(s) = {c \in Rows(t) : c.bucket >= s[1].bucket}
    BY <1>3 DEF TailOf
  <2>2. \A i \in 1..Len(s) : s[i] \in Rows(t)
    BY <1>1, <2>1 DEF Listed
  <2>3. ASSUME NEW b \in Buckets, b >= s[1].bucket, t[b] # Absent
        PROVE  \E i \in 1..Len(s) : s[i].bucket = b
    <3> DEFINE c == [bucket |-> b, idx |-> t[b]]
    <3>1. c \in Rows(t) /\ c.bucket = b
      BY <2>3 DEF Rows
    <3>2. c \in Listed(s)
      BY <2>1, <2>3, <3>1
    <3> QED BY <1>1, <3>1, <3>2 DEF Listed
  <2> QED BY <2>2, <2>3, RowsOfTable
<1>4. ASSUME Ascending(s),
             \A i \in 1..Len(s) : s[i].idx = t[s[i].bucket],
             \A b \in Buckets : b >= s[1].bucket /\ t[b] # Absent
                => \E i \in 1..Len(s) : s[i].bucket = b
      PROVE  TailOf(s, t)
  <2>1. ASSUME NEW c \in Listed(s) PROVE c \in Rows(t) /\ c.bucket >= s[1].bucket
    <3>1. PICK i \in 1..Len(s) : c = s[i]
      BY <1>1 DEF Listed
    <3>2. c \in Rows(t)
      BY <1>2, <1>4, <3>1, RowsOfTable
    <3>3. i = 1 \/ 1 < i
      BY <3>1
    <3>4. c.bucket >= s[1].bucket
      BY <1>1, <1>2, <1>4, <3>1, <3>3 DEF Ascending
    <3> QED BY <3>2, <3>4
  <2>2. ASSUME NEW c \in Rows(t), c.bucket >= s[1].bucket PROVE c \in Listed(s)
    <3>1. c \in Candle /\ c.idx = t[c.bucket] /\ c.bucket \in Buckets /\ c.idx # Absent
      BY RowsOfTable, CandleParts DEF Absent
    <3>2. PICK i \in 1..Len(s) : s[i].bucket = c.bucket
      BY <1>4, <2>2, <3>1
    <3>3. s[i] = c
      BY <1>2, <1>4, <3>1, <3>2, SameCandle
    <3> QED BY <1>1, <3>3 DEF Listed
  <2>3. Listed(s) = {c \in Rows(t) : c.bucket >= s[1].bucket}
    BY <2>1, <2>2
  <2> QED BY <1>4, <2>3 DEF TailOf
<1> QED BY <1>3, <1>4 DEF TailOf

(* The table has a list in bucket order: bucket after bucket.              *)
LEMMA OrderedLists ==
    ASSUME NEW t \in Table
    PROVE  /\ Ordered(t) \in Seq(Candle)
           /\ Ascending(Ordered(t))
           /\ Listed(Ordered(t)) = Rows(t)
<1> DEFINE UpTo(n) == {c \in Rows(t) : c.bucket <= n}
           Lists(n) == {s \in Seq(Candle) : Len(s) <= n /\ Ascending(s) /\ Listed(s) = UpTo(n)}
           S == {n \in Nat : n <= MaxBucket => Lists(n) # {}}
<1>1. \A c \in Rows(t) : c \in Candle /\ c.bucket \in Nat \ {0} /\ c.bucket \in Buckets
                        /\ c.bucket <= MaxBucket /\ c.idx = t[c.bucket] /\ c.idx # Absent
  BY RowsOfTable, CandleParts DEF Absent
<1>2. 0 \in S
  <2>1. <<>> \in Seq(Candle) /\ Len(<<>>) = 0 /\ Listed(<<>>) = {} /\ Ascending(<<>>)
    BY DEF Listed, Ascending
  <2>2. UpTo(0) = {}
    BY <1>1
  <2>3. <<>> \in Lists(0)
    BY <2>1, <2>2
  <2> QED BY <2>3
<1>3. ASSUME NEW n \in Nat, n \in S PROVE n + 1 \in S
  <2> SUFFICES ASSUME n + 1 <= MaxBucket PROVE Lists(n + 1) # {}
    OBVIOUS
  <2>1. n + 1 \in Buckets /\ n <= MaxBucket
    BY CandlesAssumption DEF Buckets
  <2>2. PICK s \in Lists(n) : TRUE
    BY <1>3, <2>1
  <2>3. s \in Seq(Candle) /\ Len(s) \in Nat /\ Len(s) <= n /\ Listed(s) = UpTo(n) /\ DOMAIN s = 1..Len(s)
    BY <2>2
  <2>4. \A i, j \in 1..Len(s) : i < j => s[i].bucket < s[j].bucket
    BY <2>2, <2>3 DEF Ascending
  <2>5. CASE t[n + 1] = Absent
    <3>1. \A c \in Rows(t) : c.bucket <= n + 1 => c.bucket <= n
      BY <1>1, <2>5
    <3>2. UpTo(n + 1) = UpTo(n)
      BY <1>1, <3>1
    <3>3. s \in Lists(n + 1)
      BY <2>2, <2>3, <3>2
    <3> QED BY <3>3
  <2>6. CASE t[n + 1] # Absent
    <3> DEFINE c == [bucket |-> n + 1, idx |-> t[n + 1]]
               q == Append(s, c)
    <3>1. c \in Rows(t) /\ c.bucket = n + 1
      BY <2>1, <2>6 DEF Rows
    <3>2. /\ q \in Seq(Candle) /\ Len(q) = Len(s) + 1 /\ q[Len(s) + 1] = c
          /\ \A i \in 1..Len(s) : q[i] = s[i]
      BY <1>1, <2>3, <3>1, AppendProperties
    <3> HIDE DEF q
    <3>3. DOMAIN q = 1..(Len(s) + 1)
      BY <3>2
    <3>4. \A i \in 1..Len(s) : s[i] \in UpTo(n) /\ s[i].bucket < n + 1
      BY <1>1, <2>3 DEF Listed
    <3>5. \A d \in Rows(t) : d.bucket = n + 1 => d = c
      BY <1>1, <3>1 DEF Candle
    <3> HIDE DEF c
    <3>6. Ascending(q)
      BY <2>3, <2>4, <3>1, <3>2, <3>3, <3>4 DEF Ascending
    <3>7. ASSUME NEW d \in Listed(q) PROVE d \in UpTo(n + 1)
      BY <1>1, <2>3, <3>1, <3>2, <3>3, <3>4, <3>7 DEF Listed
    <3>8. ASSUME NEW d \in UpTo(n + 1) PROVE d \in Listed(q)
      <4>1. CASE d.bucket <= n
        <5>1. d \in Listed(s)
          BY <2>3, <4>1
        <5>2. PICK i \in 1..Len(s) : d = s[i]
          BY <2>3, <5>1 DEF Listed
        <5>3. i \in DOMAIN q /\ d = q[i]
          BY <2>3, <3>2, <3>3, <5>2
        <5> QED BY <5>3 DEF Listed
      <4>2. CASE ~ (d.bucket <= n)
        <5>1. d = c
          BY <1>1, <3>5, <4>2
        <5>2. Len(s) + 1 \in DOMAIN q
          BY <2>3, <3>3
        <5> QED BY <3>2, <5>1, <5>2 DEF Listed
      <4> QED BY <4>1, <4>2
    <3>9. Listed(q) = UpTo(n + 1)
      BY <3>7, <3>8
    <3>10. q \in Lists(n + 1)
      BY <2>3, <3>2, <3>6, <3>9
    <3> QED BY <3>10
  <2> QED BY <2>5, <2>6
<1> HIDE DEF S
<1>4. \A n \in Nat : n \in S
  BY <1>2, <1>3, EveryNatural
<1>5. Lists(MaxBucket) # {}
  <2>1. MaxBucket \in S
    BY <1>4, CandlesAssumption
  <2>2. S = {n \in Nat : n <= MaxBucket => Lists(n) # {}}
    BY DEF S
  <2> HIDE DEF Lists
  <2> QED BY <2>1, <2>2, CandlesAssumption
<1>6. PICK s \in Lists(MaxBucket) : TRUE
  BY <1>5
<1>7. s \in Seq(Candle) /\ Len(s) \in 0..MaxBucket /\ Ascending(s) /\ Listed(s) = Rows(t)
  <2>1. UpTo(MaxBucket) = Rows(t)
    BY <1>1
  <2> HIDE DEF UpTo
  <2>2. s \in Seq(Candle) /\ Len(s) <= MaxBucket /\ Ascending(s) /\ Listed(s) = UpTo(MaxBucket)
    BY <1>6
  <2>3. Len(s) \in Nat
    BY <2>2
  <2> QED BY <2>1, <2>2, <2>3, CandlesAssumption
<1>8. s \in [1..Len(s) -> Rows(t)]
  <2>1. \A i \in 1..Len(s) : s[i] \in Rows(t)
    BY <1>7 DEF Listed
  <2> QED BY <1>7, <2>1
<1>9. Cardinality(Rows(t)) = Len(s)
  <2>1. \A i, j \in 1..Len(s) : s[i].bucket \in Nat /\ (i < j => s[i].bucket < s[j].bucket)
    BY <1>1, <1>7, <1>8 DEF Ascending
  <2>2. \A i, j \in 1..Len(s) : s[i] = s[j] => i = j
    BY <2>1
  <2>3. s \in Injection(1..Len(s), Rows(t))
    BY <1>8, <2>2 DEF Injection, IsInjective
  <2>4. s \in Surjection(1..Len(s), Rows(t))
    BY <1>7, <1>8 DEF Surjection, Listed
  <2>5. ExistsBijection(1..Len(s), Rows(t))
    BY <2>3, <2>4 DEF ExistsBijection, Bijection
  <2> QED BY <1>7, <2>5, FS_CountingElements
<1> DEFINE n == Cardinality(Rows(t))
<1>10. Ordered(t) \in [1..n -> Rows(t)] /\ Ascending(Ordered(t)) /\ Listed(Ordered(t)) = Rows(t)
  BY <1>7, <1>8, <1>9 DEF Ordered
<1>11. Ordered(t) \in Seq(Candle)
  <2>1. n \in Nat
    BY <1>7, <1>9
  <2>2. Ordered(t) \in [1..n -> Candle]
    BY <1>1, <1>10
  <2> HIDE DEF n
  <2>3. Ordered(t) \in UNION {[1..m -> Candle] : m \in Nat}
    BY <2>1, <2>2, Zenon
  <2> QED BY <2>3, SeqDef, Zenon
<1> QED BY <1>10, <1>11

(* What bootstrap and the backfill put into the cache.                     *)
LEMMA LoadedTail ==
    ASSUME NEW t \in Table
    PROVE  /\ LoadRecent(t) \in Seq(Candle)
           /\ ReplaceAll(LoadRecent(t)) \in Seq(Candle)
           /\ Len(ReplaceAll(LoadRecent(t))) <= CacheCapacity
           /\ TailOf(ReplaceAll(LoadRecent(t)), t)
<1> DEFINE o == Ordered(t)
           l == LoadRecent(t)
<1>1. o \in Seq(Candle) /\ Ascending(o) /\ Listed(o) = Rows(t)
  BY OrderedLists
<1>2. TailOf(o, t)
  <2> HIDE DEF o
  <2>1. DOMAIN o = 1..Len(o) /\ Len(o) \in Nat
    BY <1>1
  <2>2. CASE o = <<>>
    <3>1. Rows(t) = {}
      BY <1>1, <2>1, <2>2 DEF Listed
    <3>2. \A b \in Buckets : t[b] = Absent
      BY <3>1 DEF Rows
    <3>3. t = NoRows
      BY <3>2 DEF Table, NoRows
    <3> QED BY <1>1, <2>2, <3>3 DEF TailOf
  <2>3. CASE o # <<>>
    <3>1. \A i \in 1..Len(o) : o[i] \in Rows(t)
      BY <1>1, <2>1 DEF Listed
    <3>2. \A i \in 1..Len(o) : o[i].idx = t[o[i].bucket]
      BY <3>1, RowsOfTable
    <3>3. ASSUME NEW b \in Buckets, t[b] # Absent
          PROVE  \E i \in 1..Len(o) : o[i].bucket = b
      <4> DEFINE c == [bucket |-> b, idx |-> t[b]]
      <4>1. c \in Listed(o) /\ c.bucket = b
        BY <1>1, <3>3 DEF Rows
      <4> QED BY <2>1, <4>1 DEF Listed
    <3> QED BY <1>1, <2>3, <3>2, <3>3, TailByBuckets
  <2> QED BY <2>2, <2>3
<1>3. HistoryLimit \in Nat \ {0} /\ CacheCapacity \in Nat \ {0}
  BY CandlesAssumption
<1>4. l \in Seq(Candle) /\ TailOf(l, t)
  <2>1. l = Last(HistoryLimit, o)
    BY DEF LoadRecent
  <2> HIDE DEF o, l
  <2> QED BY <1>1, <1>2, <1>3, <2>1, LastIsAnEnd, LastOfTail
<1> HIDE DEF l
<1>5. /\ Last(CacheCapacity, l) \in Seq(Candle)
      /\ Len(Last(CacheCapacity, l)) <= CacheCapacity
      /\ TailOf(Last(CacheCapacity, l), t)
  BY <1>3, <1>4, LastIsAnEnd, LastOfTail
<1> QED BY <1>4, <1>5 DEF ReplaceAll, l

(* upsert_many never lowers a row and has what it was given, or newer.     *)
LEMMA UpsertKeepsNewest ==
    ASSUME NEW t \in Table, NEW r \in Table
    PROVE  /\ Upsert(t, r) \in Table
           /\ \A b \in Buckets : Upsert(t, r)[b] >= t[b] /\ Upsert(t, r)[b] >= r[b]
<1>1. \A b \in Buckets : t[b] \in 0..MaxIdx /\ r[b] \in 0..MaxIdx
  BY DEF Table
<1>2. \A b \in Buckets : Upsert(t, r)[b] = IF r[b] >= t[b] THEN r[b] ELSE t[b]
  BY DEF Upsert
<1>3. Upsert(t, r) \in Table
  BY <1>1 DEF Upsert, Table
<1> QED BY <1>1, <1>2, <1>3, CandlesAssumption

(* What storing one candle changes: its own bucket, unless that has newer. *)
LEMMA UpsertOfOne ==
    ASSUME NEW t \in Table, NEW c \in Candle
    PROVE  /\ Single(c) \in Table
           /\ Upsert(t, Single(c)) \in Table
           /\ \A b \in Buckets : Upsert(t, Single(c))[b] =
                  IF b = c.bucket /\ c.idx >= t[b] THEN c.idx ELSE t[b]
<1>1. c.bucket \in Buckets /\ c.idx \in 1..MaxIdx
  BY DEF Candle
<1>2. Single(c) \in Table /\ \A b \in Buckets : Single(c)[b] = IF b = c.bucket THEN c.idx ELSE 0
  BY <1>1, CandlesAssumption DEF Single, NoRows, Table, Absent
<1>3. Upsert(t, Single(c)) \in Table
  BY <1>2, UpsertKeepsNewest
<1>4. ASSUME NEW b \in Buckets
      PROVE  Upsert(t, Single(c))[b] = IF b = c.bucket /\ c.idx >= t[b] THEN c.idx ELSE t[b]
  <2>1. Upsert(t, Single(c))[b] = IF Single(c)[b] >= t[b] THEN Single(c)[b] ELSE t[b]
    BY DEF Upsert
  <2>2. t[b] \in Nat /\ c.idx \in Nat
    BY <1>1, CandlesAssumption DEF Table
  <2> QED BY <1>2, <2>1, <2>2
<1> QED BY <1>2, <1>3, <1>4

(* apply_row's insertion: every other candle keeps its place before or     *)
(* after the new one.                                                      *)
LEMMA InsertedPlaces ==
    ASSUME NEW s \in Seq(Candle), NEW c \in Candle
    PROVE  /\ Inserted(s, c) \in Seq(Candle)
           /\ Len(Inserted(s, c)) = Len(s) + 1
           /\ \E i \in 1..(Len(s) + 1) :
                 /\ \A j \in 1..(i - 1) : s[j].bucket <= c.bucket
                 /\ i <= Len(s) => s[i].bucket > c.bucket
                 /\ \A j \in 1..(Len(s) + 1) :
                       Inserted(s, c)[j] = IF j < i THEN s[j] ELSE IF j = i THEN c ELSE s[j - 1]
<1>1. Len(s) \in Nat /\ c.bucket \in Nat /\ \A j \in 1..Len(s) : s[j] \in Candle /\ s[j].bucket \in Nat
  BY CandleParts
<1> DEFINE Places == {i \in 1..(Len(s) + 1) : i <= Len(s) => s[i].bucket > c.bucket}
           i == InsertIndex(s, c.bucket)
           Fit(k) == /\ \A j \in 1..(k - 1) : s[j].bucket <= c.bucket
                     /\ k <= Len(s) => s[k].bucket > c.bucket
<1>2. \E k \in 1..(Len(s) + 1) : Fit(k)
  <2>1. Places \subseteq Nat /\ Len(s) + 1 \in Places
    BY <1>1
  <2>2. PICK k \in Places : \A n \in Places : k <= n
    BY <2>1, LeastNatural
  <2>3. ASSUME NEW j \in 1..(k - 1) PROVE s[j].bucket <= c.bucket
    <3>1. j \in 1..(Len(s) + 1) /\ j <= Len(s) /\ ~ (k <= j)
      BY <1>1, <2>2
    <3>2. j \notin Places
      BY <2>2, <3>1
    <3> QED BY <1>1, <3>1, <3>2
  <2> QED BY <2>2, <2>3
<1>3. i \in 1..(Len(s) + 1) /\ Fit(i)
  BY <1>2 DEF InsertIndex
<1> DEFINE p == SubSeq(s, 1, i - 1)
           q == SubSeq(s, i, Len(s))
<1>4. Inserted(s, c) = p \o <<c>> \o q
  BY DEF Inserted
<1> HIDE DEF i
<1>5. /\ p \in Seq(Candle) /\ Len(p) = i - 1
      /\ \A j \in 1..(i - 1) : p[j] = s[j]
  BY <1>1, <1>3, SubSeqProperties
<1>6. /\ q \in Seq(Candle) /\ Len(q) = Len(s) - i + 1
      /\ \A j \in 1..(Len(s) - i + 1) : q[j] = s[i + j - 1]
  BY <1>1, <1>3, SubSeqProperties
<1> HIDE DEF p, q
<1> DEFINE u == p \o <<c>>
<1>7. /\ u \in Seq(Candle) /\ Len(u) = i
      /\ \A j \in 1..i : u[j] = IF j < i THEN s[j] ELSE c
  <2>1. <<c>> \in Seq(Candle) /\ Len(<<c>>) = 1 /\ <<c>>[1] = c
    OBVIOUS
  <2>2. /\ u \in Seq(Candle) /\ Len(u) = Len(p) + 1
        /\ \A j \in 1..(Len(p) + 1) : u[j] = IF j <= Len(p) THEN p[j] ELSE <<c>>[j - Len(p)]
    BY <1>5, <2>1, ConcatProperties
  <2> HIDE DEF u
  <2> QED BY <1>3, <1>5, <2>1, <2>2
<1> HIDE DEF u
<1>8. /\ u \o q \in Seq(Candle) /\ Len(u \o q) = i + (Len(s) - i + 1)
      /\ \A j \in 1..(i + (Len(s) - i + 1)) : (u \o q)[j] = IF j <= i THEN u[j] ELSE q[j - i]
  <2>1. /\ u \o q \in Seq(Candle) /\ Len(u \o q) = Len(u) + Len(q)
        /\ \A j \in 1..(Len(u) + Len(q)) : (u \o q)[j] = IF j <= Len(u) THEN u[j] ELSE q[j - Len(u)]
    BY ONLY <1>6, <1>7, ConcatProperties
  <2>2. Len(u) = i /\ Len(q) = Len(s) - i + 1
    BY <1>6, <1>7
  <2> QED BY ONLY <2>1, <2>2, Zenon
<1>9. Inserted(s, c) = u \o q
  BY <1>4 DEF u
<1> DEFINE w == u \o q
<1> HIDE DEF w
<1>10. w \in Seq(Candle) /\ Len(w) = Len(s) + 1
  BY <1>1, <1>3, <1>8 DEF w
<1>11. ASSUME NEW j \in 1..(Len(s) + 1)
       PROVE  w[j] = IF j < i THEN s[j] ELSE IF j = i THEN c ELSE s[j - 1]
  <2>1. w[j] = IF j <= i THEN u[j] ELSE q[j - i]
    BY <1>1, <1>3, <1>8 DEF w
  <2>2. CASE j <= i
    BY <1>3, <1>7, <2>1, <2>2
  <2>3. CASE ~ (j <= i)
    <3>1. j - i \in 1..(Len(s) - i + 1) /\ i + (j - i) - 1 = j - 1
      BY <1>1, <1>3, <2>3
    <3>2. q[j - i] = s[i + (j - i) - 1]
      BY <1>6, <3>1, Zenon
    <3> QED BY <1>3, <2>1, <2>3, <3>1, <3>2
  <2> QED BY <2>2, <2>3
<1>12. Inserted(s, c) = w
  BY <1>9 DEF w
<1> QED BY <1>3, <1>10, <1>11, <1>12

(* A cache that is a tail of the table before a candle was stored is, once *)
(* the candle is applied, a tail of the table after it: apply_row and the  *)
(* upsert's WHERE clause make the same decision.                           *)
LEMMA ApplyFollowsUpsert ==
    ASSUME NEW t \in Table, NEW s \in Seq(Candle), TailOf(s, t), NEW c \in Candle
    PROVE  /\ ApplyRow(s, c) \in Seq(Candle)
           /\ TailOf(ApplyRow(s, c), Upsert(t, Single(c)))
<1> DEFINE u == Upsert(t, Single(c))
<1>1. /\ u \in Table
      /\ \A b \in Buckets : u[b] = IF b = c.bucket /\ c.idx >= t[b] THEN c.idx ELSE t[b]
  BY UpsertOfOne
<1> HIDE DEF u
<1>2. /\ Len(s) \in Nat /\ DOMAIN s = 1..Len(s)
      /\ c.bucket \in Buckets /\ c.bucket \in Nat /\ c.idx \in Nat \ {0}
      /\ \A j \in 1..Len(s) : s[j] \in Candle /\ s[j].bucket \in Nat /\ s[j].bucket \in Buckets
                               /\ s[j].idx \in Nat \ {0}
  BY CandleParts
<1>3. \A b \in Buckets : t[b] \in Nat
  BY CandlesAssumption DEF Table
<1>4. Ascending(s) /\ \A i, j \in 1..Len(s) : i < j => s[i].bucket < s[j].bucket
  BY <1>2 DEF TailOf, Ascending
<1>5. CASE s = <<>>
  <2>1. t = NoRows /\ Holding(s, c.bucket) = {} /\ Accepts(s, c)
    BY <1>5 DEF TailOf, Holding, Accepts
  <2> DEFINE q == Inserted(s, c)
  <2>2. PICK at \in 1..(Len(s) + 1) : \A j \in 1..(Len(s) + 1) :
            q[j] = IF j < at THEN s[j] ELSE IF j = at THEN c ELSE s[j - 1]
    BY InsertedPlaces
  <2>3. q \in Seq(Candle) /\ Len(q) = 1 /\ q[1] = c
    <3>1. q \in Seq(Candle) /\ Len(q) = Len(s) + 1
      BY InsertedPlaces
    <3> HIDE DEF q
    <3>2. Len(s) = 0
      BY <1>5
    <3> QED BY <2>2, <3>1, <3>2
  <2> HIDE DEF q
  <2>4. q # <<>> /\ Ascending(q)
    <3>1. \A i, j \in DOMAIN q : i = 1 /\ j = 1
      BY <2>3
    <3>2. Ascending(q)
      BY <3>1 DEF Ascending
    <3>3. q # <<>>
      <4>1. Len(<<>>) = 0
        OBVIOUS
      <4> QED BY <2>3, <4>1
    <3> QED BY <3>2, <3>3
  <2>5. \A b \in Buckets : u[b] = IF b = c.bucket THEN c.idx ELSE Absent
    BY <1>1, <1>2, <2>1 DEF NoRows, Absent
  <2>6. TailOf(q, u)
    <3>1. \A i \in 1..Len(q) : q[i].idx = u[q[i].bucket]
      BY <1>2, <2>3, <2>5
    <3>2. \A b \in Buckets : b >= q[1].bucket /\ u[b] # Absent
             => \E i \in 1..Len(q) : q[i].bucket = b
      BY <2>3, <2>5
    <3> QED BY <1>1, <2>3, <2>4, <3>1, <3>2, TailByBuckets
  <2>7. CacheCapacity \in Nat \ {0}
    BY CandlesAssumption
  <2>8. ApplyRow(s, c) = Last(CacheCapacity, q)
    BY <2>1 DEF ApplyRow, q
  <2>9. Last(CacheCapacity, q) \in Seq(Candle) /\ TailOf(Last(CacheCapacity, q), u)
    BY <1>1, <2>3, <2>6, <2>7, LastIsAnEnd, LastOfTail
  <2> QED BY <2>8, <2>9 DEF u
<1>6. CASE s # <<>>
  <2>1. /\ 1 \in 1..Len(s)
        /\ \A i \in 1..Len(s) : s[i].idx = t[s[i].bucket]
        /\ \A b \in Buckets : b >= s[1].bucket /\ t[b] # Absent
               => \E i \in 1..Len(s) : s[i].bucket = b
    BY <1>2, <1>6, TailByBuckets
  <2>2. CASE ~ Accepts(s, c)
    <3>1. ApplyRow(s, c) = s
      BY <2>2 DEF ApplyRow
    <3>2. CASE Holding(s, c.bucket) # {}
      <4>1. PICK i \in 1..Len(s) : s[i].bucket = c.bucket /\ ~ (c.idx >= s[i].idx)
        BY <1>2, <2>2, <3>2 DEF Accepts, Holding
      <4>2. ~ (c.idx >= t[c.bucket])
        BY <2>1, <4>1
      <4>3. \A b \in Buckets : u[b] = t[b]
        BY <1>1, <4>2
      <4>4. u = t
        BY <1>1, <4>3 DEF Table
      <4> QED BY <3>1, <4>4 DEF u
    <3>3. CASE Holding(s, c.bucket) = {}
      <4>1. ~ (c.bucket > s[1].bucket) /\ c.bucket # s[1].bucket
        BY <1>2, <1>6, <2>1, <2>2, <3>3 DEF Accepts, Holding
      <4>2. \A b \in Buckets : b >= s[1].bucket => u[b] = t[b]
        BY <1>1, <1>2, <2>1, <4>1
      <4>3. \A i \in 1..Len(s) : s[i].bucket >= s[1].bucket
        <5> TAKE i \in 1..Len(s)
        <5>1. i = 1 \/ 1 < i
          OBVIOUS
        <5> QED BY <1>2, <1>4, <2>1, <5>1
      <4>4. \A i \in 1..Len(s) : s[i].idx = u[s[i].bucket]
        BY <1>2, <2>1, <4>2, <4>3
      <4>5. TailOf(s, u)
        BY <1>1, <1>4, <1>6, <2>1, <4>2, <4>4, TailByBuckets
      <4> QED BY <3>1, <4>5 DEF u
    <3> QED BY <3>2, <3>3
  <2>3. CASE Accepts(s, c) /\ Holding(s, c.bucket) # {}
    <3> DEFINE q == Replaced(s, c)
    <3>1. PICK k \in 1..Len(s) : s[k].bucket = c.bucket
      BY <1>2, <2>3 DEF Holding
    <3>2. \A i \in 1..Len(s) : (i \in Holding(s, c.bucket)) <=> s[i].bucket = c.bucket
      BY <1>2 DEF Holding
    <3>3. \A i \in 1..Len(s) : q[i] = IF s[i].bucket = c.bucket THEN c ELSE s[i]
      BY <1>2, <3>2 DEF Replaced
    <3>4. q \in [1..Len(s) -> Candle]
      BY <1>2 DEF Replaced
    <3>5. q \in Seq(Candle) /\ Len(q) = Len(s)
      <4>1. q \in UNION {[1..m -> Candle] : m \in Nat}
        BY <1>2, <3>4, Zenon
      <4>2. q \in Seq(Candle)
        BY <4>1, SeqDef, Zenon
      <4>3. DOMAIN q = 1..Len(s)
        BY <3>4
      <4> HIDE DEF q
      <4> QED BY <1>2, <4>2, <4>3, LenProperties
    <3> HIDE DEF q
    <3>6. \A i \in 1..Len(s) : q[i].bucket = s[i].bucket
      BY <3>3
    <3>7. Ascending(q) /\ q # <<>>
      BY <1>4, <2>1, <3>5, <3>6 DEF Ascending
    <3>8. c.idx >= t[c.bucket]
      BY <1>2, <2>1, <2>3, <3>1, <3>2 DEF Accepts
    <3>9. \A b \in Buckets : u[b] = IF b = c.bucket THEN c.idx ELSE t[b]
      BY <1>1, <3>8
    <3>10. \A i \in 1..Len(s) : q[i].idx = u[q[i].bucket]
      BY <1>2, <2>1, <3>3, <3>9
    <3>11. ASSUME NEW b \in Buckets, b >= q[1].bucket, u[b] # Absent
           PROVE  \E i \in 1..Len(q) : q[i].bucket = b
      <4>1. CASE b = c.bucket
        BY <3>1, <3>5, <3>6, <4>1
      <4>2. CASE b # c.bucket
        <5>1. b >= s[1].bucket /\ t[b] # Absent
          BY <2>1, <3>6, <3>9, <3>11, <4>2
        <5> QED BY <2>1, <3>5, <3>6, <5>1
      <4> QED BY <4>1, <4>2
    <3>12. TailOf(q, u)
      BY <1>1, <3>5, <3>7, <3>10, <3>11, TailByBuckets
    <3>13. ApplyRow(s, c) = q
      BY <2>3 DEF ApplyRow, q
    <3> QED BY <3>5, <3>12, <3>13 DEF u
  <2>4. CASE Accepts(s, c) /\ Holding(s, c.bucket) = {}
    <3> DEFINE q == Inserted(s, c)
    <3>1. \A i \in 1..Len(s) : s[i].bucket # c.bucket
      BY <1>2, <2>4 DEF Holding
    <3>2. c.bucket > s[1].bucket
      BY <1>6, <2>4 DEF Accepts
    <3>3. t[c.bucket] = Absent
      BY <1>2, <2>1, <3>1, <3>2
    <3>4. \A b \in Buckets : u[b] = IF b = c.bucket THEN c.idx ELSE t[b]
      BY <1>1, <1>2, <3>3 DEF Absent
    <3>5. q \in Seq(Candle) /\ Len(q) = Len(s) + 1
      BY InsertedPlaces
    <3>6. PICK i \in 1..(Len(s) + 1) :
              /\ \A j \in 1..(i - 1) : s[j].bucket <= c.bucket
              /\ i <= Len(s) => s[i].bucket > c.bucket
              /\ \A j \in 1..(Len(s) + 1) :
                    q[j] = IF j < i THEN s[j] ELSE IF j = i THEN c ELSE s[j - 1]
      BY InsertedPlaces
    <3> HIDE DEF q
    <3>7. \A j \in 1..Len(s) : /\ j < i => s[j].bucket < c.bucket
                               /\ j >= i => s[j].bucket > c.bucket
      <4> TAKE j \in 1..Len(s)
      <4>1. CASE j < i
        <5>1. j \in 1..(i - 1)
          BY <4>1
        <5> QED BY <1>2, <3>1, <3>6, <4>1, <5>1
      <4>2. CASE ~ (j < i)
        <5>1. i \in 1..Len(s) /\ s[i].bucket > c.bucket /\ (i = j \/ i < j)
          BY <1>2, <3>6, <4>2
        <5> QED BY <1>2, <1>4, <4>2, <5>1
      <4> QED BY <4>1, <4>2
    <3>8. i # 1 /\ q[1] = s[1]
      BY <1>2, <2>1, <3>2, <3>6, <3>7
    <3>9. ASSUME NEW j \in 1..Len(q), NEW k \in 1..Len(q), j < k
          PROVE  q[j].bucket < q[k].bucket
      <4>1. q[j] = (IF j < i THEN s[j] ELSE IF j = i THEN c ELSE s[j - 1])
        BY <3>5, <3>6
      <4>2. q[k] = (IF k < i THEN s[k] ELSE IF k = i THEN c ELSE s[k - 1])
        BY <3>5, <3>6
      <4>3. CASE k < i
        BY <1>2, <1>4, <3>5, <3>9, <4>1, <4>2, <4>3
      <4>4. CASE k = i
        BY <1>2, <3>5, <3>7, <3>9, <4>1, <4>2, <4>4
      <4>5. CASE k > i
        <5>1. k - 1 \in 1..Len(s) /\ k - 1 >= i
          BY <1>2, <3>5, <4>5
        <5>2. CASE j < i
          <6>1. j \in 1..Len(s)
            BY <1>2, <3>5, <3>6, <5>2
          <6>2. s[j].bucket < c.bucket /\ s[k - 1].bucket > c.bucket
            BY <3>7, <5>1, <5>2, <6>1
          <6>3. q[j] = s[j]
            BY <4>1, <5>2
          <6>4. q[k] = s[k - 1]
            BY <1>2, <3>5, <4>2, <4>5
          <6>5. s[j].bucket \in Nat /\ s[k - 1].bucket \in Nat /\ c.bucket \in Nat
            BY <1>2, <5>1, <6>1
          <6> QED BY <6>2, <6>3, <6>4, <6>5
        <5>3. CASE j = i
          <6>1. q[j] = c /\ q[k] = s[k - 1]
            BY <3>5, <4>1, <4>2, <4>5, <5>3
          <6>2. s[k - 1].bucket > c.bucket
            BY <3>7, <5>1
          <6> QED BY <1>2, <5>1, <6>1, <6>2
        <5>4. CASE j > i
          <6>1. j - 1 \in 1..Len(s) /\ j - 1 < k - 1
            BY <1>2, <3>5, <3>9, <5>4
          <6> QED BY <1>4, <4>1, <4>2, <4>5, <5>1, <5>4, <6>1
        <5> QED BY <5>2, <5>3, <5>4
      <4> QED BY <3>5, <4>3, <4>4, <4>5
    <3>10. Ascending(q) /\ q # <<>>
      <4>1. DOMAIN q = 1..Len(q)
        BY <3>5
      <4> QED BY <1>2, <3>5, <3>9, <4>1 DEF Ascending
    <3>11. ASSUME NEW j \in 1..Len(q) PROVE q[j].idx = u[q[j].bucket]
      <4>1. q[j] = (IF j < i THEN s[j] ELSE IF j = i THEN c ELSE s[j - 1])
        BY <3>5, <3>6
      <4>2. CASE j = i
        BY <1>2, <3>4, <4>1, <4>2
      <4>3. CASE j # i
        <5>1. \E k \in 1..Len(s) : q[j] = s[k]
          <6>1. CASE j < i
            BY <1>2, <3>5, <3>6, <4>1, <6>1
          <6>2. CASE j > i
            <7>1. j - 1 \in 1..Len(s) /\ q[j] = s[j - 1]
              BY <1>2, <3>5, <3>6, <4>1, <6>2
            <7> QED BY <7>1
          <6> QED BY <3>5, <4>3, <6>1, <6>2
        <5>2. PICK k \in 1..Len(s) : q[j] = s[k]
          BY <5>1
        <5>3. /\ s[k].bucket \in Buckets /\ s[k].bucket # c.bucket
              /\ s[k].idx = t[s[k].bucket]
          BY <1>2, <2>1, <3>1
        <5>4. u[s[k].bucket] = t[s[k].bucket]
          BY <3>4, <5>3
        <5> QED BY <5>2, <5>3, <5>4
      <4> QED BY <4>2, <4>3
    <3>12. ASSUME NEW b \in Buckets, b >= q[1].bucket, u[b] # Absent
           PROVE  \E j \in 1..Len(q) : q[j].bucket = b
      <4>1. CASE b = c.bucket
        BY <3>5, <3>6, <4>1
      <4>2. CASE b # c.bucket
        <5>1. b >= s[1].bucket /\ t[b] # Absent
          BY <3>4, <3>8, <3>12, <4>2
        <5>2. PICK k \in 1..Len(s) : s[k].bucket = b
          BY <2>1, <5>1
        <5>3. CASE k < i
          <6>1. k \in 1..Len(q) /\ q[k] = s[k]
            BY <1>2, <3>5, <3>6, <5>3
          <6> QED BY <5>2, <6>1
        <5>4. CASE ~ (k < i)
          <6>1. k + 1 \in 1..Len(q) /\ q[k + 1] = s[(k + 1) - 1] /\ (k + 1) - 1 = k
            BY <1>2, <3>5, <3>6, <5>4
          <6> QED BY <5>2, <6>1
        <5> QED BY <5>3, <5>4
      <4> QED BY <4>1, <4>2
    <3>13. TailOf(q, u)
      BY <1>1, <3>5, <3>10, <3>11, <3>12, TailByBuckets
    <3>14. ApplyRow(s, c) = Last(CacheCapacity, q)
      BY <2>4 DEF ApplyRow, q
    <3>15. CacheCapacity \in Nat \ {0}
      BY CandlesAssumption
    <3>16. Last(CacheCapacity, q) \in Seq(Candle) /\ TailOf(Last(CacheCapacity, q), u)
      BY <1>1, <3>5, <3>13, <3>15, LastIsAnEnd, LastOfTail
    <3> QED BY <3>14, <3>16 DEF u
  <2> QED BY <2>2, <2>3, <2>4
<1> QED BY <1>5, <1>6

(* apply_row never lets the cache outgrow its capacity.                    *)
LEMMA ApplyKeepsCapacity ==
    ASSUME NEW s \in Seq(Candle), Len(s) <= CacheCapacity, NEW c \in Candle,
           ApplyRow(s, c) \in Seq(Candle)
    PROVE  Len(ApplyRow(s, c)) <= CacheCapacity
<1>1. CASE ~ Accepts(s, c)
  BY <1>1 DEF ApplyRow
<1>2. CASE Accepts(s, c) /\ Holding(s, c.bucket) # {}
  <2>1. ApplyRow(s, c) = Replaced(s, c)
    BY <1>2 DEF ApplyRow
  <2>2. DOMAIN Replaced(s, c) = 1..Len(s)
    BY DEF Replaced
  <2> DEFINE q == Replaced(s, c)
  <2>3. q \in Seq(Candle) /\ DOMAIN q = 1..Len(s) /\ Len(s) \in Nat
    BY <2>1, <2>2
  <2> HIDE DEF q
  <2>4. Len(q) = Len(s)
    BY <2>3, LenProperties
  <2> QED BY <2>1, <2>4 DEF q
<1>3. CASE Accepts(s, c) /\ Holding(s, c.bucket) = {}
  <2>1. ApplyRow(s, c) = Last(CacheCapacity, Inserted(s, c))
    BY <1>3 DEF ApplyRow
  <2>2. Inserted(s, c) \in Seq(Candle) /\ CacheCapacity \in Nat
    BY InsertedPlaces, CandlesAssumption
  <2> QED BY <2>1, <2>2, LastIsAnEnd
<1> QED BY <1>1, <1>2, <1>3

(* A tail of a table holds the table's rows.                               *)
LEMMA TailHoldsRows ==
    ASSUME NEW t \in Table, NEW s \in Seq(Candle), TailOf(s, t)
    PROVE  \A i \in DOMAIN s : s[i].idx = t[s[i].bucket]
<1>1. CASE s = <<>>
  BY <1>1
<1>2. CASE s # <<>>
  BY <1>2, TailByBuckets
<1> QED BY <1>1, <1>2

(* A list of candles as a map has only what the list has.                  *)
LEMMA MapOfList ==
    ASSUME NEW s \in Seq(Candle)
    PROVE  /\ AsMap(s) \in Table
           /\ \A b \in Buckets : AsMap(s)[b] # Absent
                 => \E i \in DOMAIN s : s[i].bucket = b /\ s[i].idx = AsMap(s)[b]
<1>1. \A i \in DOMAIN s : s[i] \in Candle /\ s[i].idx \in 1..MaxIdx
  <2>1. \A i \in DOMAIN s : s[i] \in Candle
    OBVIOUS
  <2> QED BY <2>1 DEF Candle
<1>2. ASSUME NEW b \in Buckets
      PROVE  \/ AsMap(s)[b] = Absent
             \/ \E i \in DOMAIN s : s[i].bucket = b /\ s[i].idx = AsMap(s)[b]
  <2>1. CASE \E i \in DOMAIN s : s[i].bucket = b
    <3> DEFINE i == CHOOSE i \in DOMAIN s : s[i].bucket = b
    <3>1. i \in DOMAIN s /\ s[i].bucket = b
      BY <2>1
    <3>2. AsMap(s)[b] = s[i].idx
      BY <2>1 DEF AsMap
    <3> HIDE DEF i
    <3> QED BY <3>1, <3>2
  <2>2. CASE ~ \E i \in DOMAIN s : s[i].bucket = b
    BY <2>2 DEF AsMap
  <2> QED BY <2>1, <2>2
<1>3. \A b \in Buckets : AsMap(s)[b] \in 0..MaxIdx
  BY <1>1, <1>2, CandlesAssumption DEF Absent
<1>4. AsMap(s) = [b \in Buckets |-> AsMap(s)[b]]
  BY DEF AsMap
<1>5. AsMap(s) \in Table
  BY <1>3, <1>4, Zenon DEF Table
<1> QED BY <1>2, <1>5

(* What the archive answers is a table.                                    *)
LEMMA RecentIsTable == ASSUME NEW t \in Table PROVE Recent(t) \in Table
BY LoadedTail, MapOfList DEF Recent

(* The exchange's counter: the last submission of any bucket.              *)
LEMMA SubmissionsBound ==
    ASSUME NEW t \in Table
    PROVE  Submissions(t) \in 0..MaxIdx
<1> DEFINE Ups == {n \in 0..MaxIdx : \A b \in Buckets : t[b] <= n}
           Is(n) == /\ \A b \in Buckets : t[b] <= n
                    /\ n = 0 \/ \E b \in Buckets : t[b] = n
<1>1. \A b \in Buckets : t[b] \in 0..MaxIdx /\ t[b] \in Nat
  BY CandlesAssumption DEF Table
<1>2. MaxIdx \in Ups /\ Ups \subseteq Nat
  BY <1>1, CandlesAssumption
<1>3. PICK m \in Ups : \A n \in Ups : m <= n
  BY <1>2, LeastNatural
<1>4. Is(m)
  <2>1. CASE m = 0
    BY <1>3, <2>1
  <2>2. CASE m # 0
    <3>1. m \in 0..MaxIdx /\ m - 1 \in 0..MaxIdx /\ ~ (m <= m - 1)
      BY <1>3, <2>2, CandlesAssumption
    <3>2. m - 1 \notin Ups
      BY <1>3, <3>1
    <3>3. PICK b \in Buckets : ~ (t[b] <= m - 1)
      BY <3>1, <3>2
    <3>4. t[b] = m
      BY <1>1, <1>3, <3>1, <3>3
    <3> QED BY <1>3, <3>4
  <2> QED BY <2>1, <2>2
<1>5. \E n \in 0..MaxIdx : Is(n)
  BY <1>3, <1>4
<1> QED BY <1>5 DEF Submissions

-----------------------------------------------------------------------------
(* The inductive invariant.                                                *)

(* A list of candles that the table has, or has newer.                     *)
HeldBy(s, t) == \A i \in DOMAIN s : s[i].idx <= t[s[i].bucket]

RowInHand == pc \in {"apply", "emit"} => row \in Candle /\ row.idx <= store[row.bucket]

(* The changes on their way to the cache, and load_recent's answer, which  *)
(* the table has not left behind: nobody else writes it.                   *)
OnTheWay == {"bootstrap_load", "bootstrap_fill", "backfill_load", "backfill_fill", "apply"}

WrittenInHand ==
    /\ pc \notin OnTheWay => written = {}
    /\ pc = "apply" => \A b \in written : b = row.bucket /\ store[b] = row.idx
    /\ pc \in {"bootstrap_fetch", "bootstrap_fill", "backfill_fill"} => loaded = LoadRecent(store)

BrowsersHaveStored ==
    \A c \in Clients : /\ HeldBy(chan[c], store) /\ HeldBy(answer[c], store)
                       /\ \A b \in Buckets : page[c][b] <= store[b]

IInv ==
    /\ TypeOK
    /\ RowInHand
    /\ WrittenInHand
    /\ pc \in Bootstrapping => cache = <<>>
    /\ CacheIsStoreTail
    /\ BrowsersHaveStored

(* A new database and a process that has just started.                     *)
LEMMA InitInvariant == Init => IInv
<1> SUFFICES ASSUME Init PROVE IInv
  OBVIOUS
<1>1. NoRows \in Table /\ 0 \in 0..MaxFaults
  BY CandlesAssumption, SeriesAssumption DEF NoRows, Table, Absent
<1>2. <<>> \in Seq(Candle) /\ Len(<<>>) = 0 /\ 0 <= CacheCapacity
  BY CandlesAssumption
<1>3. TypeOK
  BY <1>1, <1>2 DEF Init, TypeOK, Bootstrapping
<1>4. BrowsersHaveStored
  <2>1. \A b \in Buckets : NoRows[b] <= NoRows[b]
    BY DEF NoRows, Absent
  <2> QED BY <2>1 DEF Init, BrowsersHaveStored, HeldBy
<1> QED BY <1>3, <1>4 DEF Init, IInv, RowInHand, WrittenInHand, OnTheWay, CacheIsStoreTail, Bootstrapping

(* What one step does to the table: it is unchanged, or it takes a         *)
(* candle or an answer of the archive, perhaps in a call that fails.       *)
LEMMA TableOfStep ==
    ASSUME IInv, [Next]_vars
    PROVE  \/ UNCHANGED store
           \/ BootstrapStore \/ BackfillStore \/ StoreCandle
           \/ BackfillStoreFails \/ StoreFails
BY DEF Next, vars, exchange, upstream, worker, browsers, Trade, Redeliver, ArchiveIndexes,
       SocketFails, Crash, WorkerStep, WorkerFault, Load, Fill, BootstrapLoad, BootstrapFetch,
       BootstrapReload, BootstrapFill, BackfillFetch, BackfillLoad, BackfillFill,
       Connect, ApplyCandle, EmitCandle, SessionEnds, FetchFails, BackfillLoadFails, ConnectFails,
       Browser, FetchReads, FetchArrives, Register, Greet, Receive, Disconnect

(* The candle that a session handles, and its upsert.                      *)
LEMMA RowStored ==
    ASSUME TypeOK, StoreCandle
    PROVE  /\ row' \in Candle
           /\ store' = Upsert(store, Single(row'))
           /\ store' \in Table
           /\ inbox' \in Seq(Candle)
           /\ row'.idx <= store'[row'.bucket]
<1>1. inbox \in Seq(Candle) /\ inbox # <<>> /\ store \in Table
  BY DEF TypeOK, StoreCandle
<1>2. row' \in Candle /\ inbox' \in Seq(Candle)
  BY <1>1, HeadTailProperties DEF StoreCandle
<1>3. store' = Upsert(store, Single(row'))
  BY DEF StoreCandle
<1> DEFINE c == row'
<1>4. c \in Candle
  BY <1>2
<1> HIDE DEF c
<1>5. /\ Upsert(store, Single(c)) \in Table
      /\ Upsert(store, Single(c))[c.bucket] = IF c.idx >= store[c.bucket] THEN c.idx ELSE store[c.bucket]
  BY <1>1, <1>4, UpsertOfOne, CandleParts
<1>6. c.idx <= Upsert(store, Single(c))[c.bucket]
  <2>1. c.idx \in Nat /\ store[c.bucket] \in Nat
    BY <1>1, <1>4, CandleParts, CandlesAssumption DEF Table
  <2> QED BY <1>5, <2>1
<1> QED BY <1>2, <1>3, <1>5, <1>6 DEF c

(* No row of the table ever goes back to an earlier submission.            *)
LEMMA TableGrows ==
    ASSUME IInv, [Next]_vars
    PROVE  /\ store' \in Table
           /\ \A b \in Buckets : store[b] <= store'[b]
<1>1. store \in Table /\ batch \in Table /\ TypeOK
  BY DEF IInv, TypeOK
<1>2. \A b \in Buckets : store[b] \in Nat
  BY <1>1, CandlesAssumption DEF Table
<1>3. ASSUME NEW r \in Table, store' = Upsert(store, r)
      PROVE  store' \in Table /\ \A b \in Buckets : store[b] <= store'[b]
  <2>1. \A b \in Buckets : Upsert(store, r)[b] >= store[b]
    BY <1>1, UpsertKeepsNewest
  <2>2. Upsert(store, r) \in Table
    BY <1>1, UpsertKeepsNewest
  <2> QED BY <1>2, <1>3, <2>1, <2>2
<1>4. CASE UNCHANGED store
  BY <1>1, <1>2, <1>4
<1>5. CASE BootstrapStore \/ BackfillStore
  <2>1. store' = Upsert(store, batch)
    BY <1>5 DEF BootstrapStore, BackfillStore, StoreBatch
  <2> QED BY <1>1, <1>3, <2>1
<1>6. CASE StoreCandle
  <2> DEFINE c == row'
  <2>1. c \in Candle /\ store' = Upsert(store, Single(c))
    BY <1>1, <1>6, RowStored
  <2> HIDE DEF c
  <2>2. Single(c) \in Table
    BY <1>1, <2>1, UpsertOfOne
  <2> QED BY <1>3, <2>1, <2>2
<1>7. CASE BackfillStoreFails
  BY <1>1, <1>2, <1>3, <1>7 DEF BackfillStoreFails, UpsertFails
<1>8. CASE StoreFails
  <2> DEFINE c == Head(inbox)
  <2>1. c \in Candle /\ (UNCHANGED store \/ store' = Upsert(store, Single(c)))
    BY <1>1, <1>8, HeadTailProperties DEF StoreFails, UpsertFails, TypeOK
  <2> HIDE DEF c
  <2>2. Single(c) \in Table
    BY <1>1, <2>1, UpsertOfOne
  <2> QED BY <1>1, <1>2, <1>3, <2>1, <2>2
<1> QED BY <1>4, <1>5, <1>6, <1>7, <1>8, TableOfStep

Phases == Bootstrapping \cup {"backfill", "backfill_store", "backfill_load", "backfill_fill",
                             "connect", "stream", "apply", "emit"}

ExchangeTyped == live \in Table /\ archive \in Table /\ faults \in 0..MaxFaults
WorkerTyped ==
    /\ socket \in BOOLEAN /\ inbox \in Seq(Candle)
    /\ pc \in Phases /\ batch \in Table /\ loaded \in Seq(Candle) /\ row \in Candle \cup {NoRow}
    /\ written \subseteq Buckets /\ missed \subseteq Buckets
CacheTyped == cache \in Seq(Candle) /\ Len(cache) <= CacheCapacity
BrowsersTyped ==
    /\ subscribers \subseteq Clients
    /\ chan \in [Clients -> Seq(Candle)]
    /\ stream \in [Clients -> {"off", "registered", "open"}]
    /\ fetch \in [Clients -> {"off", "answered", "done"}]
    /\ answer \in [Clients -> Seq(Candle)]
    /\ streamed \in [Clients -> Table] /\ page \in [Clients -> Table]

(* The type invariant in parts: one for each group of variables.           *)
LEMMA TypeParts ==
    /\ TypeOK <=> /\ ExchangeTyped /\ WorkerTyped /\ CacheTyped /\ BrowsersTyped
                  /\ store \in Table
    /\ TypeOK' <=> /\ ExchangeTyped' /\ WorkerTyped' /\ CacheTyped' /\ BrowsersTyped'
                   /\ store' \in Table
BY DEF TypeOK, ExchangeTyped, WorkerTyped, CacheTyped, BrowsersTyped, Phases

(* A trade or a redelivered candle is a candle.                            *)
LEMMA TradeTyped ==
    ASSUME TypeOK, NEW b \in Buckets, Trade(b) \/ Redeliver(b)
    PROVE  ExchangeTyped' /\ WorkerTyped'
<1>1. ExchangeTyped /\ WorkerTyped
  BY TypeParts
<1>2. live \in Table /\ inbox \in Seq(Candle)
  BY <1>1 DEF ExchangeTyped, WorkerTyped
<1>3. CASE Trade(b)
  <2> DEFINE n == Submissions(live) + 1
             c == [bucket |-> b, idx |-> n]
  <2>1. n \in 1..MaxIdx
    BY <1>2, <1>3, SubmissionsBound, CandlesAssumption DEF Trade
  <2>2. live' = [live EXCEPT ![b] = n] /\ inbox' = IF socket THEN Append(inbox, c) ELSE inbox
    BY <1>3 DEF Trade
  <2> HIDE DEF n
  <2>3. c \in Candle
    BY <2>1 DEF Candle
  <2> HIDE DEF c
  <2>4. live' \in Table
    BY <1>2, <2>1, <2>2, CandlesAssumption DEF Table
  <2>5. inbox' \in Seq(Candle)
    BY <1>2, <2>2, <2>3, AppendProperties
  <2> QED BY <1>1, <1>3, <2>4, <2>5 DEF Trade, ExchangeTyped, WorkerTyped, worker
<1>4. CASE Redeliver(b)
  <2> DEFINE before == [x \in Buckets |-> IF x < b THEN live[x] ELSE Absent]
             opened == Submissions(before)
  <2>1. before \in Table
    BY <1>2, CandlesAssumption DEF Table, Absent
  <2>2. opened \in Nat
    BY <2>1, SubmissionsBound, CandlesAssumption
  <2>3. PICK n \in opened + 1..live[b] : inbox' = Append(inbox, [bucket |-> b, idx |-> n])
    BY <1>4 DEF Redeliver
  <2> HIDE DEF opened
  <2>4. live[b] \in 0..MaxIdx
    BY <1>2 DEF Table
  <2>5. n \in 1..MaxIdx
    BY <2>2, <2>3, <2>4, CandlesAssumption
  <2> DEFINE c == [bucket |-> b, idx |-> n]
  <2>6. c \in Candle
    BY <2>5 DEF Candle
  <2> HIDE DEF c
  <2>7. inbox' \in Seq(Candle)
    BY <1>2, <2>3, <2>6, AppendProperties DEF c
  <2>8. faults' \in 0..MaxFaults
    BY <1>1, <1>4, SeriesAssumption DEF Redeliver, Fault, ExchangeTyped
  <2> QED BY <1>1, <1>4, <2>7, <2>8 DEF Redeliver, ExchangeTyped, WorkerTyped, worker, exchange
<1> QED BY <1>3, <1>4

(* The bound on failures is kept.                                          *)
LEMMA FaultCounted ==
    ASSUME TypeOK, Fault PROVE faults' \in 0..MaxFaults
BY SeriesAssumption DEF TypeOK, Fault

(* No step leaves the types of the exchange, the socket and the worker.    *)
LEMMA WorkerStepTyped ==
    ASSUME IInv, [Next]_vars
    PROVE  ExchangeTyped' /\ WorkerTyped'
<1>1. TypeOK /\ ExchangeTyped /\ WorkerTyped /\ CacheTyped /\ store \in Table
  BY TypeParts DEF IInv
<1>2. Recent(archive) \in Table /\ LoadRecent(store) \in Seq(Candle)
  BY <1>1, RecentIsTable, LoadedTail DEF ExchangeTyped
<1>3. NoRows \in Table /\ <<>> \in Seq(Candle) /\ Changed \subseteq Buckets
  BY CandlesAssumption DEF NoRows, Table, Absent, Changed
<1> USE DEF ExchangeTyped, WorkerTyped, exchange, upstream, Phases, Bootstrapping
<1>4. CASE \E b \in Buckets : Trade(b) \/ Redeliver(b)
  BY <1>1, <1>4, TradeTyped
<1>5. CASE ArchiveIndexes
  BY <1>1, <1>5 DEF ArchiveIndexes, worker
<1>6. CASE SocketFails
  BY <1>1, <1>6, FaultCounted DEF SocketFails, worker
<1>7. CASE Crash
  BY <1>1, <1>3, <1>7, FaultCounted DEF Crash
<1>8. CASE BootstrapLoad \/ BootstrapReload \/ BackfillLoad
  BY <1>1, <1>2, <1>8 DEF Load, BootstrapLoad, BootstrapReload, BackfillLoad
<1>9. CASE BootstrapFetch \/ BackfillFetch
  BY <1>1, <1>2, <1>9 DEF BootstrapFetch, BackfillFetch
<1>10. CASE BootstrapStore \/ BackfillStore
  BY <1>1, <1>3, <1>10 DEF StoreBatch, BootstrapStore, BackfillStore
<1>11. CASE BootstrapFill \/ BackfillFill
  BY <1>1, <1>3, <1>11 DEF Fill, BootstrapFill, BackfillFill
<1>12. CASE FetchFails \/ ConnectFails \/ BackfillLoadFails
  BY <1>1, <1>12, FaultCounted DEF FetchFails, ConnectFails, BackfillLoadFails
<1>13. CASE Connect
  BY <1>1, <1>3, <1>13 DEF Connect
<1>14. CASE StoreCandle
  <2>1. row' \in Candle /\ inbox' \in Seq(Candle)
    BY <1>1, <1>14, RowStored
  <2> QED BY <1>1, <1>3, <1>14, <2>1 DEF StoreCandle
<1>15. CASE ApplyCandle
  BY <1>1, <1>15 DEF ApplyCandle
<1>16. CASE EmitCandle
  BY <1>1, <1>16 DEF EmitCandle
<1>17. CASE SessionEnds
  BY <1>1, <1>17 DEF SessionEnds
<1>18. CASE BackfillStoreFails
  <2>1. faults' \in 0..MaxFaults /\ missed' \subseteq Buckets
    BY <1>1, <1>3, <1>18, FaultCounted DEF BackfillStoreFails, UpsertFails
  <2> QED BY <1>1, <1>3, <1>18, <2>1 DEF BackfillStoreFails
<1>19. CASE StoreFails
  <2>1. faults' \in 0..MaxFaults /\ missed' \subseteq Buckets
    BY <1>1, <1>3, <1>19, FaultCounted DEF StoreFails, UpsertFails
  <2> QED BY <1>1, <1>3, <1>19, <2>1 DEF StoreFails
<1>20. CASE \E c \in Clients : Browser(c)
  BY <1>1, <1>20, FaultCounted
     DEF Browser, FetchReads, FetchArrives, Register, Greet, Receive, Disconnect, worker
<1>21. CASE UNCHANGED vars
  BY <1>1, <1>21 DEF vars
<1> QED BY <1>4, <1>5, <1>6, <1>7, <1>8, <1>9, <1>10, <1>11, <1>12, <1>13, <1>14, <1>15, <1>16,
           <1>17, <1>18, <1>19, <1>20, <1>21 DEF Next, WorkerStep, WorkerFault

-----------------------------------------------------------------------------
(* The cache and the table.                                                *)

CacheFollows ==
    /\ CacheTyped /\ RowInHand /\ WrittenInHand
    /\ pc \in Bootstrapping => cache = <<>>
    /\ CacheIsStoreTail

(* A step that leaves the cache and names what it changes of the table:    *)
(* the cache still follows the table as it did.                            *)
LEMMA TailKept ==
    ASSUME IInv, [Next]_vars, UNCHANGED cache, pc \notin Bootstrapping,
           written \cup missed \subseteq written' \cup missed',
           Changed \subseteq written' \cup missed'
    PROVE  CacheIsStoreTail'
<1>1. PICK t \in Table : Followed(t) /\ TailOf(cache, t)
  BY DEF IInv, CacheIsStoreTail
<1>2. store \in Table /\ store' \in Table /\ \A b \in Buckets : store[b] <= store'[b]
  BY TableGrows DEF IInv, TypeOK
<1> DEFINE u == store'
<1> HIDE DEF u
<1>3. ASSUME NEW b \in Buckets
      PROVE  t[b] <= u[b] /\ (b \in written' \cup missed' \/ t[b] = u[b])
  <2>1. t[b] \in Nat /\ store[b] \in Nat /\ u[b] \in Nat /\ t[b] <= store[b] /\ store[b] <= u[b]
    BY <1>1, <1>2, CandlesAssumption DEF Table, Followed, u
  <2>2. b \in written \cup missed \/ t[b] = store[b]
    BY <1>1 DEF Followed
  <2>3. b \in written' \cup missed' \/ store[b] = u[b]
    BY DEF Changed, u
  <2> QED BY <2>1, <2>2, <2>3
<1>4. Followed(t)'
  BY <1>3 DEF Followed, u
<1>5. TailOf(cache, t)'
  BY <1>1 DEF TailOf
<1> QED BY <1>1, <1>4, <1>5 DEF CacheIsStoreTail

(* A loaded cache is a tail of the table it was loaded from, and nothing   *)
(* is missed any longer.                                                   *)
LEMMA FillStep ==
    ASSUME IInv, BootstrapFill \/ BackfillFill
    PROVE  CacheFollows'
<1>1. /\ loaded = LoadRecent(store) /\ store \in Table
      /\ cache' = ReplaceAll(loaded) /\ UNCHANGED store
      /\ written' = {} /\ pc' \in {"backfill", "connect"}
  BY DEF BootstrapFill, BackfillFill, Fill, IInv, TypeOK, WrittenInHand
<1> DEFINE s == ReplaceAll(LoadRecent(store))
<1>2. s \in Seq(Candle) /\ Len(s) <= CacheCapacity /\ TailOf(s, store)
  BY <1>1, LoadedTail
<1> HIDE DEF s
<1>3. cache' = s
  BY <1>1 DEF s
<1>4. CacheTyped' /\ TailOf(cache', store)
  BY <1>2, <1>3 DEF CacheTyped
<1>5. Followed(store)'
  <2>1. \A b \in Buckets : store[b] \in Nat
    BY <1>1, CandlesAssumption DEF Table
  <2> QED BY <1>1, <2>1 DEF Followed
<1>6. CacheIsStoreTail'
  <2>1. TailOf(cache, store)'
    BY <1>1, <1>4 DEF TailOf
  <2>2. store' \in Table /\ Followed(store)' /\ TailOf(cache, store)'
    BY <1>1, <1>5, <2>1
  <2> QED BY <1>1, <1>4, <1>5 DEF CacheIsStoreTail
<1> QED BY <1>1, <1>4, <1>6
        DEF CacheFollows, RowInHand, WrittenInHand, OnTheWay, Bootstrapping

(* A candle is cached as it was stored, and makes good what was missed of  *)
(* its bucket.                                                             *)
LEMMA ApplyStep ==
    ASSUME IInv, ApplyCandle
    PROVE  CacheFollows'
<1>1. /\ pc = "apply" /\ cache' = ApplyRow(cache, row) /\ pc' \in {"emit", "stream"}
      /\ written' = {} /\ missed' = missed \ {b \in {row.bucket} : store[b] = row.idx}
      /\ UNCHANGED <<store, row>>
  BY DEF ApplyCandle
<1>2. /\ row \in Candle /\ row.idx <= store[row.bucket]
      /\ \A b \in written : b = row.bucket /\ store[b] = row.idx
  BY <1>1 DEF IInv, RowInHand, WrittenInHand
<1>3. cache \in Seq(Candle) /\ Len(cache) <= CacheCapacity /\ store \in Table
  BY DEF IInv, TypeOK
<1>4. PICK t \in Table : Followed(t) /\ TailOf(cache, t)
  BY <1>1 DEF IInv, CacheIsStoreTail, Bootstrapping
<1> DEFINE u == Upsert(t, Single(row))
<1>5. ApplyRow(cache, row) \in Seq(Candle) /\ TailOf(ApplyRow(cache, row), u)
  BY <1>2, <1>3, <1>4, ApplyFollowsUpsert
<1>6. Len(ApplyRow(cache, row)) <= CacheCapacity
  BY <1>2, <1>3, <1>5, ApplyKeepsCapacity
<1>7. /\ u \in Table
      /\ \A b \in Buckets : u[b] = IF b = row.bucket /\ row.idx >= t[b] THEN row.idx ELSE t[b]
  BY <1>2, <1>4, UpsertOfOne
<1> HIDE DEF u
<1>8. ASSUME NEW b \in Buckets
      PROVE  u[b] <= store[b] /\ (b \in missed' \/ u[b] = store[b])
  <2>1. /\ t[b] \in Nat /\ store[b] \in Nat /\ u[b] \in Nat /\ row.idx \in Nat
        /\ t[b] <= store[b] /\ (b \in written \cup missed \/ t[b] = store[b])
    BY <1>2, <1>3, <1>4, <1>7, CandleParts, CandlesAssumption DEF Table, Followed
  <2>2. CASE b = row.bucket
    <3>1. CASE row.idx = store[b]
      BY <1>7, <2>1, <2>2, <3>1
    <3>2. CASE row.idx # store[b]
      <4>1. row.idx < store[b] /\ b \notin written
        BY <1>2, <2>1, <2>2, <3>2
      <4>2. b \in missed => b \in missed'
        BY <1>1, <2>2, <3>2
      <4> QED BY <1>7, <2>1, <2>2, <4>1, <4>2
    <3> QED BY <3>1, <3>2
  <2>3. CASE b # row.bucket
    BY <1>1, <1>2, <1>7, <2>1, <2>3
  <2> QED BY <2>2, <2>3
<1> DEFINE s == ApplyRow(cache, row)
<1> HIDE DEF s
<1>9. cache' = s /\ s \in Seq(Candle) /\ Len(s) <= CacheCapacity /\ TailOf(s, u)
  BY <1>1, <1>5, <1>6 DEF s
<1>10. CacheTyped' /\ TailOf(cache', u)
  BY <1>9 DEF CacheTyped
<1>11. CacheIsStoreTail'
  BY <1>1, <1>7, <1>8, <1>10 DEF CacheIsStoreTail, Followed
<1>12. RowInHand'
  BY <1>1, <1>2 DEF RowInHand
<1> QED BY <1>1, <1>10, <1>11, <1>12 DEF CacheFollows, WrittenInHand, OnTheWay, Bootstrapping

(* Every step keeps the cache the tail of the table it follows.            *)
LEMMA CacheStep ==
    ASSUME IInv, [Next]_vars
    PROVE  CacheFollows'
<1>1. CacheFollows /\ TypeOK /\ store' \in Table /\ store \in Table
  BY TypeParts, TableGrows DEF IInv, CacheFollows
<1>2. ASSUME UNCHANGED <<cache, store, worker>> PROVE CacheFollows'
  BY <1>1, <1>2 DEF CacheFollows, CacheTyped, RowInHand, WrittenInHand, CacheIsStoreTail, Followed,
                    TailOf, worker
(* A step outside of bootstrap that leaves the cache.                      *)
<1>3. ASSUME UNCHANGED cache, pc \notin Bootstrapping, pc' \notin Bootstrapping,
             written \cup missed \subseteq written' \cup missed',
             Changed \subseteq written' \cup missed', RowInHand', WrittenInHand'
      PROVE  CacheFollows'
  <2>1. CacheIsStoreTail'
    BY <1>3, TailKept
  <2> QED BY <1>1, <1>3, <2>1 DEF CacheFollows, CacheTyped
(* A step of bootstrap: there is no cache yet.                             *)
<1>4. ASSUME UNCHANGED cache, pc \in Bootstrapping, pc' \in Bootstrapping, WrittenInHand'
      PROVE  CacheFollows'
  BY <1>1, <1>4 DEF CacheFollows, CacheTyped, RowInHand, CacheIsStoreTail, Bootstrapping
<1>5. ASSUME UNCHANGED store PROVE Changed = {}
  BY <1>5 DEF Changed
<1>6. WrittenInHand /\ RowInHand
  BY <1>1 DEF CacheFollows
<1>7. CASE \E b \in Buckets : Trade(b) \/ Redeliver(b)
  BY <1>2, <1>7 DEF Trade, Redeliver
<1>8. CASE ArchiveIndexes \/ SocketFails
  BY <1>2, <1>8 DEF ArchiveIndexes, SocketFails
<1>9. CASE Crash
  <2>1. cache' = <<>> /\ pc' = "bootstrap" /\ written' = {}
    BY <1>9 DEF Crash
  <2> QED BY <2>1, CandlesAssumption
          DEF CacheFollows, CacheTyped, RowInHand, WrittenInHand, CacheIsStoreTail, Bootstrapping
<1>10. CASE BootstrapLoad \/ BootstrapReload
  BY <1>4, <1>6, <1>10 DEF BootstrapLoad, BootstrapReload, Load, WrittenInHand, OnTheWay, Bootstrapping
<1>11. CASE BootstrapFetch
  <2>1. /\ UNCHANGED <<cache, store, loaded, written>> /\ pc = "bootstrap_fetch"
        /\ pc' \in {"bootstrap_fill", "bootstrap_store"}
    BY <1>11 DEF BootstrapFetch
  <2> QED BY <1>4, <1>6, <2>1 DEF WrittenInHand, OnTheWay, Bootstrapping
<1>12. CASE BootstrapStore
  BY <1>4, <1>12 DEF BootstrapStore, StoreBatch, WrittenInHand, OnTheWay, Bootstrapping
<1>13. CASE BootstrapFill \/ BackfillFill
  BY <1>13, FillStep
<1>14. CASE BackfillFetch \/ Connect \/ SessionEnds \/ FetchFails \/ ConnectFails
  <2>1. /\ UNCHANGED <<cache, store, written, missed>>
        /\ pc \in {"backfill", "connect", "stream"}
        /\ pc' \in {"backfill", "backfill_store", "connect", "stream"}
    BY <1>14 DEF BackfillFetch, Connect, SessionEnds, FetchFails, ConnectFails
  <2>2. RowInHand' /\ WrittenInHand'
    BY <1>6, <2>1 DEF RowInHand, WrittenInHand, OnTheWay
  <2> QED BY <1>3, <1>5, <2>1, <2>2 DEF Bootstrapping
<1>15. CASE BackfillStore
  <2>1. /\ UNCHANGED <<cache, missed>> /\ written = {} /\ written' = Changed
        /\ pc = "backfill_store" /\ pc' = "backfill_load"
    BY <1>6, <1>15 DEF BackfillStore, StoreBatch, WrittenInHand, OnTheWay
  <2>2. RowInHand' /\ WrittenInHand'
    BY <2>1 DEF RowInHand, WrittenInHand, OnTheWay
  <2> QED BY <1>3, <2>1, <2>2 DEF Bootstrapping
<1>16. CASE BackfillLoad
  <2>1. /\ UNCHANGED <<cache, store, written, missed>> /\ loaded' = LoadRecent(store)
        /\ pc = "backfill_load" /\ pc' = "backfill_fill"
    BY <1>16 DEF BackfillLoad, Load
  <2>2. RowInHand' /\ WrittenInHand'
    BY <2>1 DEF RowInHand, WrittenInHand, OnTheWay
  <2> QED BY <1>3, <1>5, <2>1, <2>2 DEF Bootstrapping
<1>17. CASE BackfillStoreFails \/ StoreFails
  <2>1. /\ UNCHANGED <<cache, written>> /\ missed' = missed \cup Changed
        /\ pc \in {"backfill_store", "stream"} /\ pc' \in {"connect", "backfill"}
    BY <1>17 DEF BackfillStoreFails, StoreFails, UpsertFails
  <2>2. RowInHand' /\ WrittenInHand'
    BY <1>6, <2>1 DEF RowInHand, WrittenInHand, OnTheWay
  <2> QED BY <1>3, <2>1, <2>2 DEF Bootstrapping
<1>18. CASE BackfillLoadFails
  <2>1. /\ UNCHANGED <<cache, store>> /\ written' = {} /\ missed' = missed \cup written
        /\ pc = "backfill_load" /\ pc' = "connect"
    BY <1>18 DEF BackfillLoadFails
  <2>2. RowInHand' /\ WrittenInHand'
    BY <2>1 DEF RowInHand, WrittenInHand, OnTheWay
  <2> QED BY <1>3, <1>5, <2>1, <2>2 DEF Bootstrapping
<1>19. CASE EmitCandle
  <2>1. /\ UNCHANGED <<cache, store, written, missed>> /\ pc = "emit" /\ pc' = "stream"
    BY <1>19 DEF EmitCandle
  <2>2. RowInHand' /\ WrittenInHand'
    BY <1>6, <2>1 DEF RowInHand, WrittenInHand, OnTheWay
  <2> QED BY <1>3, <1>5, <2>1, <2>2 DEF Bootstrapping
<1>20. CASE StoreCandle
  <2>1. /\ row' \in Candle /\ store' = Upsert(store, Single(row'))
        /\ row'.idx <= store'[row'.bucket]
    BY <1>1, <1>20, RowStored
  <2>2. /\ pc = "stream" /\ pc' = "apply" /\ UNCHANGED <<cache, missed>>
        /\ written = {} /\ written' = Changed
    BY <1>6, <1>20 DEF StoreCandle, WrittenInHand, OnTheWay
  <2> DEFINE c == row'
             u == store'
  <2>3. ASSUME NEW b \in Changed PROVE b = c.bucket /\ u[b] = c.idx
    <3>1. b \in Buckets /\ u[b] # store[b] /\ c \in Candle /\ u = Upsert(store, Single(c))
      BY <2>1 DEF Changed
    <3> HIDE DEF c, u
    <3> QED BY <1>1, <3>1, UpsertOfOne
  <2>4. RowInHand' /\ WrittenInHand'
    BY <2>1, <2>2, <2>3 DEF RowInHand, WrittenInHand, OnTheWay
  <2> QED BY <1>3, <2>2, <2>4 DEF Bootstrapping
<1>21. CASE ApplyCandle
  BY <1>21, ApplyStep
<1>22. CASE \E c \in Clients : Browser(c)
  BY <1>2, <1>22 DEF Browser, FetchReads, FetchArrives, Register, Greet, Receive, Disconnect
<1>23. CASE UNCHANGED vars
  BY <1>2, <1>23 DEF vars, worker
<1> QED BY <1>7, <1>8, <1>9, <1>10, <1>11, <1>12, <1>13, <1>14, <1>15, <1>16, <1>17, <1>18, <1>19,
           <1>20, <1>21, <1>22, <1>23
        DEF Next, WorkerStep, WorkerFault

-----------------------------------------------------------------------------
(* What the browsers have been given.                                      *)

(* A table that grows still has what it had.                               *)
LEMMA HeldGrows ==
    ASSUME NEW t \in Table, NEW u \in Table, \A b \in Buckets : t[b] <= u[b]
    PROVE  \A s \in Seq(Candle) : HeldBy(s, t) => HeldBy(s, u)
<1> TAKE s \in Seq(Candle)
<1>1. \A b \in Buckets : t[b] \in Nat /\ u[b] \in Nat
  BY CandlesAssumption DEF Table
<1>2. \A i \in DOMAIN s : s[i] \in Candle
  OBVIOUS
<1>3. \A i \in DOMAIN s : s[i].bucket \in Buckets /\ s[i].idx \in Nat
  BY <1>2, CandleParts
<1> QED BY <1>1, <1>3 DEF HeldBy

(* Nor does a table lose an end of a list, or the list as a map.           *)
LEMMA HeldParts ==
    ASSUME NEW t \in Table, NEW s \in Seq(Candle), HeldBy(s, t), NEW n \in Nat
    PROVE  /\ HeldBy(Last(n, s), t)
           /\ \A b \in Buckets : AsMap(s)[b] <= t[b]
           /\ s # <<>> => HeldBy(Tail(s), t) /\ Head(s).idx <= t[Head(s).bucket]
           /\ \A c \in Candle : c.idx <= t[c.bucket] => HeldBy(Append(s, c), t)
<1>1. DOMAIN s = 1..Len(s) /\ Len(s) \in Nat
  OBVIOUS
<1>2. HeldBy(Last(n, s), t)
  <2> DEFINE q == Last(n, s)
  <2>1. q \in Seq(Candle)
    BY LastIsAnEnd
  <2>2. PICK k \in 0..Len(s) :
            /\ Len(q) = Len(s) - k
            /\ \A i \in 1..(Len(s) - k) : q[i] = s[i + k]
    BY LastIsAnEnd
  <2> HIDE DEF q
  <2>3. DOMAIN q = 1..(Len(s) - k)
    BY <2>1, <2>2
  <2>4. \A i \in DOMAIN q : i + k \in DOMAIN s /\ q[i] = s[i + k]
    BY <1>1, <2>2, <2>3
  <2>5. HeldBy(q, t)
    BY <2>4 DEF HeldBy
  <2> QED BY <2>5 DEF q
<1>3. ASSUME NEW b \in Buckets PROVE AsMap(s)[b] <= t[b]
  <2>1. t[b] \in Nat
    BY CandlesAssumption DEF Table
  <2>2. CASE AsMap(s)[b] = Absent
    BY <2>1, <2>2 DEF Absent
  <2>3. CASE AsMap(s)[b] # Absent
    <3>1. PICK i \in DOMAIN s : s[i].bucket = b /\ s[i].idx = AsMap(s)[b]
      BY <2>3, MapOfList
    <3> QED BY <3>1 DEF HeldBy
  <2> QED BY <2>2, <2>3
<1>4. ASSUME s # <<>> PROVE HeldBy(Tail(s), t) /\ Head(s).idx <= t[Head(s).bucket]
  <2> DEFINE q == Tail(s)
  <2>1. /\ Head(s) = s[1] /\ q \in Seq(Candle) /\ Len(q) = Len(s) - 1
        /\ \A i \in 1..Len(q) : q[i] = s[i + 1]
    BY <1>4, HeadTailProperties
  <2> HIDE DEF q
  <2>2. 1 \in DOMAIN s /\ DOMAIN q = 1..(Len(s) - 1)
    BY <1>1, <1>4, <2>1
  <2>3. \A i \in DOMAIN q : i + 1 \in DOMAIN s /\ q[i] = s[i + 1]
    BY <1>1, <2>1, <2>2
  <2>4. HeldBy(q, t)
    BY <2>3 DEF HeldBy
  <2> QED BY <2>1, <2>2, <2>4 DEF HeldBy, q
<1>5. ASSUME NEW c \in Candle, c.idx <= t[c.bucket] PROVE HeldBy(Append(s, c), t)
  <2> DEFINE q == Append(s, c)
  <2>1. /\ q \in Seq(Candle) /\ Len(q) = Len(s) + 1
        /\ \A i \in 1..Len(s) : q[i] = s[i]
        /\ q[Len(s) + 1] = c
    BY AppendProperties
  <2> HIDE DEF q
  <2>2. \A i \in DOMAIN q : i \in 1..Len(s) \/ i = Len(s) + 1
    BY <1>1, <2>1
  <2>3. HeldBy(q, t)
    BY <1>1, <1>5, <2>1, <2>2 DEF HeldBy
  <2> QED BY <2>3 DEF q
<1> QED BY <1>2, <1>3, <1>4, <1>5

(* Whatever the worker is doing, the table has what the cache has.         *)
LEMMA CacheHeld ==
    ASSUME IInv PROVE HeldBy(cache, store)
<1>1. store \in Table /\ cache \in Seq(Candle) /\ row \in Candle \cup {NoRow}
  BY DEF IInv, TypeOK
<1>2. CASE pc \in Bootstrapping
  BY <1>2 DEF IInv, HeldBy
<1>3. CASE pc \notin Bootstrapping
  <2>1. PICK t \in Table : Followed(t) /\ TailOf(cache, t)
    BY <1>3 DEF IInv, CacheIsStoreTail
  <2>2. \A i \in DOMAIN cache : cache[i].idx = t[cache[i].bucket]
    BY <1>1, <2>1, TailHoldsRows
  <2>3. \A i \in DOMAIN cache : cache[i] \in Candle /\ cache[i].bucket \in Buckets
    BY <1>1, CandleParts
  <2> QED BY <2>1, <2>2, <2>3 DEF HeldBy, Followed
<1> QED BY <1>2, <1>3

(* A table that grows has what the browsers were given before.             *)
LEMMA BrowsersOlder ==
    ASSUME IInv, [Next]_vars
    PROVE  \A c \in Clients :
              /\ HeldBy(chan[c], store') /\ HeldBy(answer[c], store')
              /\ \A b \in Buckets : page[c][b] <= store'[b]
<1>1. store \in Table /\ store' \in Table /\ \A b \in Buckets : store[b] <= store'[b]
  BY TableGrows DEF IInv, TypeOK
<1> DEFINE u == store'
<1> HIDE DEF u
<1>2. store \in Table /\ u \in Table /\ \A b \in Buckets : store[b] <= u[b]
  BY <1>1 DEF u
<1>3. \A b \in Buckets : store[b] \in Nat /\ u[b] \in Nat
  BY <1>2, CandlesAssumption DEF Table
<1> SUFFICES ASSUME NEW c \in Clients
             PROVE  /\ HeldBy(chan[c], u) /\ HeldBy(answer[c], u)
                    /\ \A b \in Buckets : page[c][b] <= u[b]
  BY DEF u
<1>4. /\ chan[c] \in Seq(Candle) /\ answer[c] \in Seq(Candle) /\ page[c] \in Table
      /\ HeldBy(chan[c], store) /\ HeldBy(answer[c], store)
      /\ \A b \in Buckets : page[c][b] <= store[b]
  BY DEF IInv, TypeOK, BrowsersHaveStored
<1>5. HeldBy(chan[c], u) /\ HeldBy(answer[c], u)
  BY <1>2, <1>4, HeldGrows
<1>6. ASSUME NEW b \in Buckets PROVE page[c][b] <= u[b]
  <2>1. page[c][b] \in Nat
    BY <1>4, CandlesAssumption DEF Table
  <2> QED BY <1>2, <1>3, <1>4, <2>1
<1> QED BY <1>5, <1>6

BrowsersKept == BrowsersTyped /\ BrowsersHaveStored

(* What one browser does.                                                  *)
LEMMA BrowserStep ==
    ASSUME IInv, NEW c \in Clients, Browser(c)
    PROVE  BrowsersKept'
<1>1. /\ BrowsersTyped /\ BrowsersHaveStored /\ store \in Table
      /\ cache \in Seq(Candle) /\ HeldBy(cache, store)
  BY TypeParts, CacheHeld DEF IInv, CacheTyped
<1>2. HistoryLimit \in Nat /\ <<>> \in Seq(Candle) /\ HeldBy(<<>>, store)
  BY CandlesAssumption DEF HeldBy
<1> DEFINE r == Last(HistoryLimit, cache)
<1>3. r \in Seq(Candle) /\ HeldBy(r, store)
  BY <1>1, <1>2, LastIsAnEnd, HeldParts
<1>4. AsMap(r) \in Table /\ \A b \in Buckets : AsMap(r)[b] <= store[b]
  <2> HIDE DEF r
  <2> QED BY <1>1, <1>2, <1>3, MapOfList, HeldParts
<1> DEFINE m == AsMap(r)
<1> HIDE DEF m
<1>5. CASE FetchReads(c)
  <2>1. /\ answer' = [answer EXCEPT ![c] = r] /\ fetch' = [fetch EXCEPT ![c] = "answered"]
        /\ UNCHANGED <<store, subscribers, chan, stream, streamed, page>>
    BY <1>5 DEF FetchReads
  <2> HIDE DEF r
  <2> QED BY <1>1, <1>3, <2>1 DEF BrowsersKept, BrowsersTyped, BrowsersHaveStored
<1>6. CASE FetchArrives(c)
  <2> DEFINE l == answer[c]
             p == AsMap(l)
  <2>1. l \in Seq(Candle) /\ HeldBy(l, store)
    BY <1>1 DEF BrowsersTyped, BrowsersHaveStored
  <2> HIDE DEF l
  <2>2. p \in Table /\ \A b \in Buckets : p[b] <= store[b]
    BY <1>1, <1>2, <2>1, MapOfList, HeldParts
  <2>3. /\ page' = [page EXCEPT ![c] = p] /\ answer' = [answer EXCEPT ![c] = <<>>]
        /\ fetch' = [fetch EXCEPT ![c] = "done"]
        /\ UNCHANGED <<store, subscribers, chan, stream, streamed>>
    BY <1>6 DEF FetchArrives, l
  <2> HIDE DEF p
  <2> QED BY <1>1, <1>2, <2>2, <2>3 DEF BrowsersKept, BrowsersTyped, BrowsersHaveStored
<1>7. CASE Register(c)
  BY <1>1, <1>7 DEF Register, BrowsersKept, BrowsersTyped, BrowsersHaveStored
<1>8. CASE Greet(c)
  <2>1. /\ stream' = [stream EXCEPT ![c] = "open"]
        /\ page' = [page EXCEPT ![c] = IF r = <<>> THEN page[c] ELSE m]
        /\ streamed' = [streamed EXCEPT ![c] = IF r = <<>> THEN streamed[c] ELSE m]
        /\ UNCHANGED <<store, subscribers, chan, fetch, answer>>
    BY <1>1, <1>8 DEF Greet, m, BrowsersTyped
  <2>2. m \in Table /\ \A b \in Buckets : m[b] <= store[b]
    BY <1>4 DEF m
  <2> HIDE DEF r
  <2> QED BY <1>1, <2>1, <2>2 DEF BrowsersKept, BrowsersTyped, BrowsersHaveStored
<1>9. CASE Receive(c)
  <2> DEFINE l == chan[c]
             h == Head(l)
             q == Tail(l)
  <2>1. l \in Seq(Candle) /\ HeldBy(l, store) /\ l # <<>>
    BY <1>1, <1>9 DEF Receive, BrowsersTyped, BrowsersHaveStored
  <2>2. /\ page' = [page EXCEPT ![c][h.bucket] = h.idx]
        /\ streamed' = [streamed EXCEPT ![c][h.bucket] = h.idx]
        /\ chan' = [chan EXCEPT ![c] = q]
        /\ UNCHANGED <<store, subscribers, stream, fetch, answer>>
    BY <1>1, <1>9 DEF Receive, BrowsersTyped
  <2> HIDE DEF l
  <2>3. h \in Candle /\ q \in Seq(Candle) /\ HeldBy(q, store) /\ h.idx <= store[h.bucket]
    BY <1>1, <1>2, <2>1, HeldParts, HeadTailProperties
  <2> HIDE DEF h, q
  <2>4. h.bucket \in Buckets /\ h.idx \in 0..MaxIdx
    BY <2>3, CandlesAssumption DEF Candle
  <2>5. page' \in [Clients -> Table] /\ streamed' \in [Clients -> Table]
    BY <1>1, <2>2, <2>4 DEF BrowsersTyped, Table
  <2>6. ASSUME NEW d \in Clients, NEW b \in Buckets PROVE page'[d][b] <= store[b]
    BY <1>1, <2>2, <2>3, <2>4 DEF BrowsersTyped, BrowsersHaveStored, Table
  <2>7. BrowsersTyped'
    BY <1>1, <2>2, <2>3, <2>5 DEF BrowsersTyped
  <2>8. BrowsersHaveStored'
    BY <1>1, <2>2, <2>3, <2>6 DEF BrowsersTyped, BrowsersHaveStored
  <2> QED BY <2>7, <2>8 DEF BrowsersKept
<1>10. CASE Disconnect(c)
  <2>1. /\ subscribers' = subscribers \ {c} /\ chan' = [chan EXCEPT ![c] = <<>>]
        /\ stream' = [stream EXCEPT ![c] = "off"]
        /\ UNCHANGED <<store, fetch, answer, streamed, page>>
    BY <1>10 DEF Disconnect
  <2> QED BY <1>1, <1>2, <2>1 DEF BrowsersKept, BrowsersTyped, BrowsersHaveStored
<1> QED BY <1>5, <1>6, <1>7, <1>8, <1>9, <1>10 DEF Browser

(* A candle is sent once it is stored, and a crash gives nothing.          *)
LEMMA BrowsersStep ==
    ASSUME IInv, [Next]_vars
    PROVE  BrowsersKept'
<1>1. /\ BrowsersTyped /\ BrowsersHaveStored /\ store \in Table /\ store' \in Table
      /\ row \in Candle \cup {NoRow}
  BY TypeParts, TableGrows DEF IInv, WorkerTyped
<1>2. \A c \in Clients :
         /\ HeldBy(chan[c], store') /\ HeldBy(answer[c], store')
         /\ \A b \in Buckets : page[c][b] <= store'[b]
  BY BrowsersOlder
<1>3. ASSUME UNCHANGED browsers PROVE BrowsersKept'
  BY <1>1, <1>2, <1>3 DEF browsers, BrowsersKept, BrowsersTyped, BrowsersHaveStored
<1>4. CASE EmitCandle
  <2>1. /\ row \in Candle /\ row.idx <= store[row.bucket]
    BY <1>4 DEF EmitCandle, IInv, RowInHand
  <2>2. /\ chan' = [c \in Clients |-> IF c \in subscribers THEN Append(chan[c], row) ELSE chan[c]]
        /\ UNCHANGED <<store, subscribers, stream, fetch, answer, streamed, page>>
    BY <1>4 DEF EmitCandle
  <2>3. ASSUME NEW c \in Clients
        PROVE  chan'[c] \in Seq(Candle) /\ HeldBy(chan'[c], store)
    <3> DEFINE l == chan[c]
    <3>1. l \in Seq(Candle) /\ HeldBy(l, store)
      BY <1>1 DEF BrowsersTyped, BrowsersHaveStored
    <3> HIDE DEF l
    <3>2. Append(l, row) \in Seq(Candle) /\ HeldBy(Append(l, row), store)
      BY <1>1, <2>1, <3>1, 0 \in Nat, HeldParts, AppendProperties
    <3>3. chan'[c] = IF c \in subscribers THEN Append(l, row) ELSE l
      BY <2>2 DEF l
    <3> QED BY <3>1, <3>2, <3>3
  <2>4. chan' \in [Clients -> Seq(Candle)]
    <3>1. chan' = [c \in Clients |-> chan'[c]]
      BY <2>2
    <3> QED BY <2>3, <3>1, Zenon
  <2>5. BrowsersTyped'
    BY <1>1, <2>2, <2>4 DEF BrowsersTyped
  <2>6. BrowsersHaveStored'
    BY <1>1, <2>2, <2>3 DEF BrowsersHaveStored
  <2> QED BY <2>5, <2>6 DEF BrowsersKept
<1>5. CASE Crash
  <2>1. /\ subscribers' = {} /\ chan' = [c \in Clients |-> <<>>]
        /\ stream' = [c \in Clients |-> "off"]
        /\ fetch' = [c \in Clients |-> IF fetch[c] = "off" THEN "off" ELSE "done"]
        /\ answer' = [c \in Clients |-> <<>>]
        /\ UNCHANGED <<store, streamed, page>>
    BY <1>5 DEF Crash
  <2>2. <<>> \in Seq(Candle) /\ HeldBy(<<>>, store)
    BY DEF HeldBy
  <2> QED BY <1>1, <2>1, <2>2 DEF BrowsersKept, BrowsersTyped, BrowsersHaveStored
<1>6. CASE \E c \in Clients : Browser(c)
  BY <1>6, BrowserStep
<1>7. CASE \E b \in Buckets : Trade(b) \/ Redeliver(b)
  BY <1>3, <1>7 DEF Trade, Redeliver
<1>8. CASE \/ ArchiveIndexes \/ SocketFails \/ WorkerFault
           \/ BootstrapLoad \/ BootstrapFetch \/ BootstrapStore \/ BootstrapReload \/ BootstrapFill
           \/ BackfillFetch \/ BackfillStore \/ BackfillLoad \/ BackfillFill \/ Connect
           \/ StoreCandle \/ ApplyCandle \/ SessionEnds
  BY <1>3, <1>8
     DEF ArchiveIndexes, SocketFails, WorkerFault, FetchFails, BackfillStoreFails,
         BackfillLoadFails, ConnectFails, StoreFails, Load, Fill, StoreBatch,
         BootstrapLoad, BootstrapFetch, BootstrapStore, BootstrapReload, BootstrapFill,
         BackfillFetch, BackfillStore, BackfillLoad, BackfillFill, Connect,
         StoreCandle, ApplyCandle, SessionEnds
<1>9. CASE UNCHANGED vars
  BY <1>3, <1>9 DEF vars, browsers
<1> QED BY <1>4, <1>5, <1>6, <1>7, <1>8, <1>9 DEF Next, WorkerStep

(* Every step keeps the inductive invariant.                               *)
LEMMA InvariantStep == IInv /\ [Next]_vars => IInv'
<1> SUFFICES ASSUME IInv, [Next]_vars PROVE IInv'
  OBVIOUS
<1>1. ExchangeTyped' /\ WorkerTyped'
  BY WorkerStepTyped
<1>2. CacheFollows'
  BY CacheStep
<1>3. BrowsersKept'
  BY BrowsersStep
<1>4. store' \in Table
  BY TableGrows
<1>5. TypeOK'
  BY <1>1, <1>2, <1>3, <1>4, TypeParts DEF CacheFollows, BrowsersKept
<1> QED BY <1>2, <1>3, <1>5 DEF IInv, CacheFollows, BrowsersKept

(* What the series keeps at every moment: the types, the cache against the *)
(* table, and the table against what the browsers were given.              *)
THEOREM SeriesInvariant == Spec => []IInv
BY InitInvariant, InvariantStep, PTL DEF Spec

(* market.rs and store.rs: no list outgrows its type, and the cache never  *)
(* outgrows CHART_CACHE_CAPACITY.                                          *)
THEOREM SeriesTypes == Spec => []TypeOK
<1>1. IInv => TypeOK
  BY DEF IInv
<1> QED BY <1>1, SeriesInvariant, PTL

(* apply_row (market.rs) and upsert_many's WHERE clause (store.rs) decide  *)
(* alike: at every await after bootstrap the cache is the tail of a table  *)
(* that lacks of the store only what an upsert changed that is on its way  *)
(* to the cache or was given up, whatever was late, repeated or reloaded.  *)
THEOREM CacheFollowsStore == Spec => []CacheIsStoreTail
<1>1. IInv => CacheIsStoreTail
  BY DEF IInv
<1> QED BY <1>1, SeriesInvariant, PTL

(* The upsert is awaited before the cache is changed and the candle sent:  *)
(* the table has, or has newer, whatever a browser shows or is being sent. *)
THEOREM BrowsersAreStored == Spec => []ServedIsStored
<1>1. ASSUME IInv PROVE ServedIsStored
  <2>1. \A c \in Clients : chan[c] \in Seq(Candle) /\ HeldBy(chan[c], store)
    BY <1>1 DEF IInv, TypeOK, BrowsersHaveStored
  <2>2. \A c \in Clients, b \in Buckets : page[c][b] <= store[b]
    BY <1>1 DEF IInv, BrowsersHaveStored
  <2> QED BY <2>1, <2>2 DEF ServedIsStored, HeldBy
<1> QED BY <1>1, SeriesInvariant, PTL

(* What one step does to the cache.                                        *)
LEMMA CacheOfStep ==
    ASSUME IInv, [Next]_vars
    PROVE  \/ UNCHANGED cache
           \/ cache' = <<>>
           \/ BootstrapFill \/ BackfillFill \/ ApplyCandle
BY DEF Next, vars, Trade, Redeliver, ArchiveIndexes, SocketFails, Crash, worker,
       WorkerStep, WorkerFault, Load, StoreBatch, BootstrapLoad, BootstrapFetch, BootstrapStore,
       BootstrapReload, BackfillFetch, BackfillStore, BackfillLoad, Connect, StoreCandle,
       EmitCandle, SessionEnds, FetchFails, BackfillStoreFails, BackfillLoadFails, ConnectFails,
       StoreFails, Browser, FetchReads, FetchArrives, Register, Greet, Receive, Disconnect

(* A cached bucket is cached as a row of a table that the cache is a tail  *)
(* of.                                                                     *)
LEMMA TailAsMap ==
    ASSUME NEW s \in Seq(Candle), NEW t \in Table, TailOf(s, t),
           NEW b \in Buckets, AsMap(s)[b] # Absent
    PROVE  AsMap(s)[b] = t[b]
<1>1. PICK i \in DOMAIN s : s[i].bucket = b /\ s[i].idx = AsMap(s)[b]
  BY MapOfList
<1> QED BY <1>1, TailHoldsRows

(* A bucket cached before a step and after it is cached as submitted then  *)
(* or later.                                                               *)
LEMMA CacheForward ==
    ASSUME IInv, [Next]_vars, NEW b \in Buckets,
           AsMap(cache)[b] # Absent, AsMap(cache')[b] # Absent
    PROVE  AsMap(cache')[b] >= AsMap(cache)[b]
<1>1. /\ store \in Table /\ cache \in Seq(Candle) /\ HeldBy(cache, store)
      /\ AsMap(cache) \in Table /\ AsMap(cache)[b] \in Nat /\ store[b] \in Nat
  <2>1. store \in Table /\ cache \in Seq(Candle) /\ HeldBy(cache, store)
    BY CacheHeld DEF IInv, TypeOK
  <2>2. AsMap(cache) \in Table
    BY <2>1, MapOfList
  <2> QED BY <2>1, <2>2, CandlesAssumption DEF Table
<1>2. CASE UNCHANGED cache
  BY <1>1, <1>2
<1>3. CASE cache' = <<>>
  <2>1. AsMap(<<>>)[b] = Absent
    BY DEF AsMap
  <2> QED BY <1>3, <2>1
<1>4. CASE BootstrapFill \/ BackfillFill
  <2> DEFINE s == ReplaceAll(LoadRecent(store))
  <2>1. cache' = s
    BY <1>4 DEF BootstrapFill, BackfillFill, Fill, IInv, WrittenInHand
  <2>2. s \in Seq(Candle) /\ TailOf(s, store)
    BY <1>1, LoadedTail
  <2> HIDE DEF s
  <2>3. AsMap(s)[b] = store[b]
    BY <1>1, <2>1, <2>2, TailAsMap
  <2>4. AsMap(cache)[b] <= store[b]
    BY <1>1, 0 \in Nat, HeldParts
  <2> QED BY <1>1, <2>1, <2>3, <2>4
<1>5. CASE ApplyCandle
  <2>1. pc = "apply" /\ cache' = ApplyRow(cache, row) /\ row \in Candle
    BY <1>5 DEF ApplyCandle, IInv, RowInHand
  <2>2. PICK t \in Table : TailOf(cache, t)
    BY <2>1 DEF IInv, CacheIsStoreTail, Bootstrapping
  <2> DEFINE u == Upsert(t, Single(row))
             s == ApplyRow(cache, row)
  <2>3. s \in Seq(Candle) /\ TailOf(s, u)
    BY <1>1, <2>1, <2>2, ApplyFollowsUpsert
  <2>4. u \in Table /\ u[b] >= t[b]
    <3>1. Single(row) \in Table
      BY <2>1, <2>2, UpsertOfOne
    <3> QED BY <2>2, <3>1, UpsertKeepsNewest
  <2> HIDE DEF s, u
  <2>5. cache' = s
    BY <2>1 DEF s
  <2>6. AsMap(s)[b] = u[b] /\ AsMap(cache)[b] = t[b]
    BY <1>1, <2>2, <2>3, <2>4, <2>5, TailAsMap
  <2> QED BY <2>4, <2>5, <2>6
<1> QED BY <1>2, <1>3, <1>4, <1>5, CacheOfStep

(* No late update and no backfill from a lagging archive puts a cached     *)
(* candle back to an earlier submission.                                   *)
THEOREM CacheForwardOnly == Spec => CacheNeverGoesBack
<1>1. IInv /\ [Next]_vars
         => [\A b \in Buckets :
                AsMap(cache)[b] # Absent /\ AsMap(cache')[b] # Absent
                   => AsMap(cache')[b] >= AsMap(cache)[b]]_vars
  BY CacheForward
<1> QED BY <1>1, SeriesInvariant, PTL DEF Spec, CacheNeverGoesBack

(* upsert_many's WHERE clause: no row goes back to an earlier submission,  *)
(* and none is lost, not even by a crash.                                  *)
THEOREM TableForwardOnly == Spec => [][\A b \in Buckets : store[b] <= store'[b]]_vars
<1>1. IInv /\ [Next]_vars => [\A b \in Buckets : store[b] <= store'[b]]_vars
  BY TableGrows
<1> QED BY <1>1, SeriesInvariant, PTL DEF Spec
=============================================================================
