---------------------------- MODULE ChartCandles ----------------------------
(***************************************************************************)
(* Candles as the chart gateway keeps them: a cache in bucket order        *)
(* (SeriesState of gateway/chart/src/market.rs) and a table with one row   *)
(* per bucket (gateway/chart/src/store.rs), here a map from the bucket to  *)
(* the row's submission_idx.                                               *)
(*                                                                         *)
(* A candle is its bucket and its submission_idx: the exchange numbers the *)
(* submissions that change a candle, so that the two determine the rest.   *)
(***************************************************************************)
EXTENDS Naturals, Sequences, FiniteSets

CONSTANTS MaxBucket,     \* bound: buckets of a granularity
          MaxIdx,        \* bound: submissions
          HistoryLimit,  \* CHART_HISTORY_LIMIT
          CacheCapacity  \* CHART_CACHE_CAPACITY

(* config.rs clamps the capacity to at least the limit.                    *)
ASSUME CandlesAssumption ==
    /\ MaxBucket \in Nat /\ MaxIdx \in Nat
    /\ HistoryLimit \in Nat \ {0} /\ CacheCapacity \in Nat
    /\ CacheCapacity >= HistoryLimit

Buckets == 1..MaxBucket
Absent  == 0
Candle  == [bucket : Buckets, idx : 1..MaxIdx]
Table   == [Buckets -> 0..MaxIdx]
NoRows  == [b \in Buckets |-> Absent]

Last(n, s) == IF Len(s) > n THEN SubSeq(s, Len(s) - n + 1, Len(s)) ELSE s

(* The rows of a table, a list's candles, and the lists in bucket order.   *)
Rows(t)      == {[bucket |-> b, idx |-> t[b]] : b \in {x \in Buckets : t[x] # Absent}}
Listed(s)    == {s[i] : i \in DOMAIN s}
Ascending(s) == \A i, j \in DOMAIN s : i < j => s[i].bucket < s[j].bucket

(* ORDER BY bucket_start, oldest first once load_recent has reversed it.   *)
Ordered(t) == CHOOSE s \in [1..Cardinality(Rows(t)) -> Rows(t)] :
                  Ascending(s) /\ Listed(s) = Rows(t)

(* The same as a map: what a browser makes of a list of candles.           *)
AsMap(s) ==
    [b \in Buckets |->
        IF \E i \in DOMAIN s : s[i].bucket = b
        THEN s[CHOOSE i \in DOMAIN s : s[i].bucket = b].idx
        ELSE Absent]

-----------------------------------------------------------------------------
(* The table.                                                              *)

(* Slip: the row is overwritten whatever its submission_idx.               *)
SlipUpsertBlind(t, rows) ==
    [b \in Buckets |-> IF rows[b] # Absent THEN rows[b] ELSE t[b]]

(* upsert_many: an older submission does not replace a newer one.          *)
Upsert(t, rows) ==
    [b \in Buckets |-> IF rows[b] >= t[b] THEN rows[b] ELSE t[b]]

(* load_recent.                                                            *)
LoadRecent(t) == Last(HistoryLimit, Ordered(t))

(* get_candlesticks_builder().limit(history_limit), as a map.              *)
Recent(t) == AsMap(LoadRecent(t))

-----------------------------------------------------------------------------
(* The cache.                                                              *)

(* replace_all.                                                            *)
ReplaceAll(rows) == Last(CacheCapacity, rows)

Holding(s, b) == {i \in DOMAIN s : s[i].bucket = b}

(* apply_row refuses an older submission of a cached bucket, and a bucket  *)
(* before the first one cached.                                            *)
Accepts(s, c) ==
    IF Holding(s, c.bucket) # {}
    THEN \A i \in Holding(s, c.bucket) : c.idx >= s[i].idx
    ELSE s = <<>> \/ c.bucket > s[1].bucket

(* insert_index: the place of the first later bucket, or the end.          *)
InsertIndex(s, b) ==
    CHOOSE i \in 1..(Len(s) + 1) :
        /\ \A j \in 1..(i - 1) : s[j].bucket <= b
        /\ i <= Len(s) => s[i].bucket > b

Inserted(s, c) ==
    LET i == InsertIndex(s, c.bucket)
    IN  SubSeq(s, 1, i - 1) \o <<c>> \o SubSeq(s, i, Len(s))

Replaced(s, c) == [i \in DOMAIN s |-> IF i \in Holding(s, c.bucket) THEN c ELSE s[i]]

(* Slip: a late row of a past bucket is put at the end.                    *)
SlipApplyAtEnd(s, c) ==
    IF ~Accepts(s, c) THEN s
    ELSE IF Holding(s, c.bucket) # {} THEN Replaced(s, c)
    ELSE Last(CacheCapacity, Append(s, c))

(* Slip: an insertion does not make room.                                  *)
SlipApplyUntrimmed(s, c) ==
    IF ~Accepts(s, c) THEN s
    ELSE IF Holding(s, c.bucket) # {} THEN Replaced(s, c)
    ELSE Inserted(s, c)

(* apply_row's cache afterwards.                                           *)
ApplyRow(s, c) ==
    IF ~Accepts(s, c) THEN s
    ELSE IF Holding(s, c.bucket) # {} THEN Replaced(s, c)
    ELSE Last(CacheCapacity, Inserted(s, c))
=============================================================================
