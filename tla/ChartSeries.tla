---------------------------- MODULE ChartSeries ----------------------------
(***************************************************************************)
(* One series of the chart gateway: its table in the database, its cache,  *)
(* its worker and its websocket subscribers (gateway/chart/src/market.rs,  *)
(* store.rs, main.rs), the terminal's useChartCandles hook                 *)
(* (client/src/pages/Terminal.jsx), and the exchange they follow.          *)
(*                                                                         *)
(* The table outlives the process; the cache and the subscribers do not.   *)
(* A browser asks for its candles twice at once: GET /v1/candles, and a    *)
(* websocket that sends a snapshot and then updates.                       *)
(*                                                                         *)
(* Who calls bootstrap and when is ChartSupervisor's subject: here it is   *)
(* the worker's first phase, and a request may find the series unfilled.   *)
(* One that fails has the series removed from the map, and leaves of it    *)
(* what Crash leaves: the table.                                           *)
(* Status messages and sequence numbers are left out: the hook shows the   *)
(* first and ignores the second.                                           *)
(***************************************************************************)
EXTENDS ChartCandles

CONSTANTS Clients,   \* browsers
          MaxFaults  \* bound: crashes and failures of calls

ASSUME SeriesAssumption == MaxFaults \in Nat

VARIABLES
    live,        \* the exchange's candles
    archive,     \* the candles its archive has indexed
    socket,      \* the upstream websocket is open
    inbox,       \* received upstream, not yet handled
    store,       \* the table chart_candles
    cache,       \* SeriesState
    pc,          \* the await the worker has reached
    batch,       \* the archive's answer, while it is needed
    loaded,      \* load_recent's answer, while it is needed
    row,         \* the candle the worker is handling
    written,     \* history: the buckets whose rows the worker's upsert changed,
                 \*   while it goes on to the cache
    missed,      \* history: the same, once the worker has given up half way
    faults,
    subscribers, \* registered browsers
    chan,        \* chan[c]: messages on their way to browser c
    stream,      \* stream[c]: state of c's websocket
    fetch,       \* fetch[c]: state of c's GET /v1/candles
    answer,      \* answer[c]: its candles
    streamed,    \* history: what the stream alone told browser c
    page         \* page[c]: the candles browser c shows

exchange == <<live, archive>>
upstream == <<socket, inbox>>
worker   == <<pc, batch, loaded, row, written, missed>>
browsers == <<subscribers, chan, stream, fetch, answer, streamed, page>>
vars == <<live, archive, socket, inbox, store, cache, pc, batch, loaded, row, written,
          missed, faults, subscribers, chan, stream, fetch, answer, streamed, page>>

NoRow == [bucket |-> 1, idx |-> 0]

Init ==
    /\ live = NoRows /\ archive = NoRows
    /\ socket = FALSE /\ inbox = <<>>
    /\ store = NoRows /\ cache = <<>>
    /\ pc = "bootstrap" /\ batch = NoRows /\ loaded = <<>> /\ row = NoRow
    /\ written = {} /\ missed = {}
    /\ faults = 0
    /\ subscribers = {}
    /\ chan = [c \in Clients |-> <<>>]
    /\ stream = [c \in Clients |-> "off"]
    /\ fetch = [c \in Clients |-> "off"]
    /\ answer = [c \in Clients |-> <<>>]
    /\ streamed = [c \in Clients |-> NoRows]
    /\ page = [c \in Clients |-> NoRows]

Fault == faults < MaxFaults /\ faults' = faults + 1

-----------------------------------------------------------------------------
(* The exchange.                                                           *)

Submissions(t) == CHOOSE n \in 0..MaxIdx :
    /\ \A b \in Buckets : t[b] <= n
    /\ n = 0 \/ \E b \in Buckets : t[b] = n

(* A submission changes the current candle, or opens the next bucket's.    *)
Trade(b) ==
    LET n == Submissions(live) + 1
    IN  /\ n <= MaxIdx
        /\ \A later \in Buckets : later > b => live[later] = Absent
        /\ live' = [live EXCEPT ![b] = n]
        /\ inbox' = IF socket THEN Append(inbox, [bucket |-> b, idx |-> n]) ELSE inbox
        /\ UNCHANGED <<archive, socket, store, cache, worker, faults, browsers>>

(* apply_row expects candles that come late or twice: the stream may send  *)
(* any past submission of a bucket again.                                  *)
Redeliver(b) ==
    LET opened == Submissions([x \in Buckets |-> IF x < b THEN live[x] ELSE Absent])
    IN  /\ socket /\ Fault
        /\ \E n \in opened + 1..live[b] : inbox' = Append(inbox, [bucket |-> b, idx |-> n])
        /\ UNCHANGED <<exchange, socket, store, cache, worker, browsers>>

ArchiveIndexes ==
    /\ archive # live
    /\ archive' = live
    /\ UNCHANGED <<live, upstream, store, cache, worker, faults, browsers>>

(* What was received before is handled before the error.                   *)
SocketFails ==
    /\ socket /\ Fault
    /\ socket' = FALSE
    /\ UNCHANGED <<exchange, inbox, store, cache, worker, browsers>>

-----------------------------------------------------------------------------
(* The three calls that bootstrap and backfill_from_archive both make, and *)
(* the table after a call that may fail.                                   *)

Changed == {b \in Buckets : store'[b] # store[b]}

(* upsert_many, one transaction.                                           *)
StoreBatch ==
    /\ store' = Upsert(store, batch)
    /\ written' = Changed
    /\ batch' = NoRows
    /\ UNCHANGED <<exchange, upstream, cache, loaded, row, missed, faults, browsers>>

(* load_recent.                                                            *)
Load ==
    /\ loaded' = LoadRecent(store)
    /\ UNCHANGED <<exchange, upstream, store, cache, batch, row, written, missed, faults,
                   browsers>>

(* replace_all, under the lock of the cache.  Subscribers are sent nothing.*)
Fill ==
    /\ cache' = ReplaceAll(loaded)
    /\ loaded' = <<>>
    /\ written' = {} /\ missed' = {}
    /\ UNCHANGED <<exchange, upstream, store, batch, row, faults, browsers>>

(* An upsert that fails has changed nothing, or its answer is lost: the    *)
(* transaction may have been committed.                                    *)
UpsertFails(rows) ==
    /\ Fault
    /\ store' \in {store, Upsert(store, rows)}
    /\ missed' = missed \cup Changed

-----------------------------------------------------------------------------
(* bootstrap: the table if it has enough rows, else the archive first.     *)

BootstrapLoad ==
    /\ pc = "bootstrap"
    /\ Load
    /\ pc' = IF Len(loaded') < HistoryLimit THEN "bootstrap_fetch" ELSE "bootstrap_fill"

BootstrapFetch ==
    /\ pc = "bootstrap_fetch"
    /\ batch' = Recent(archive)
    /\ pc' = IF batch' = NoRows THEN "bootstrap_fill" ELSE "bootstrap_store"
    /\ UNCHANGED <<exchange, upstream, store, cache, loaded, row, written, missed, faults,
                   browsers>>

BootstrapStore  == pc = "bootstrap_store" /\ StoreBatch /\ pc' = "bootstrap_load"
BootstrapReload == pc = "bootstrap_load" /\ Load /\ pc' = "bootstrap_fill"
BootstrapFill   == pc = "bootstrap_fill" /\ Fill /\ pc' = "backfill"

-----------------------------------------------------------------------------
(* run_worker_loop: backfill, then a session of the stream, and again.     *)

BackfillFetch ==
    /\ pc = "backfill"
    /\ batch' = Recent(archive)
    /\ pc' = IF batch' = NoRows THEN "connect" ELSE "backfill_store"
    /\ UNCHANGED <<exchange, upstream, store, cache, loaded, row, written, missed, faults,
                   browsers>>

BackfillStore == pc = "backfill_store" /\ StoreBatch /\ pc' = "backfill_load"
BackfillLoad  == pc = "backfill_load" /\ Load /\ pc' = "backfill_fill"
BackfillFill  == pc = "backfill_fill" /\ Fill /\ pc' = "connect"

(* Slip: a failed backfill ends the worker.                                *)
SlipFetchFatal ==
    /\ pc = "backfill" /\ Fault
    /\ pc' = "ended"
    /\ UNCHANGED <<exchange, upstream, store, cache, batch, loaded, row, written, missed,
                   browsers>>

(* The archive or the database refuses: the stream is tried all the same.  *)
FetchFails ==
    /\ pc = "backfill" /\ Fault
    /\ pc' = "connect"
    /\ UNCHANGED <<exchange, upstream, store, cache, batch, loaded, row, written, missed,
                   browsers>>

BackfillStoreFails ==
    /\ pc = "backfill_store" /\ UpsertFails(batch)
    /\ batch' = NoRows
    /\ pc' = "connect"
    /\ UNCHANGED <<exchange, upstream, cache, loaded, row, written, browsers>>

(* The cache stays behind the rows that were committed before.             *)
BackfillLoadFails ==
    /\ pc = "backfill_load" /\ Fault
    /\ written' = {} /\ missed' = missed \cup written
    /\ pc' = "connect"
    /\ UNCHANGED <<exchange, upstream, store, cache, batch, loaded, row, browsers>>

Connect ==
    /\ pc = "connect"
    /\ socket' = TRUE /\ inbox' = <<>>
    /\ pc' = "stream"
    /\ UNCHANGED <<exchange, store, cache, batch, loaded, row, written, missed, faults,
                   browsers>>

ConnectFails ==
    /\ pc = "connect" /\ Fault
    /\ pc' = "backfill"
    /\ UNCHANGED <<exchange, upstream, store, cache, batch, loaded, row, written, missed,
                   browsers>>

Single(c) == [NoRows EXCEPT ![c.bucket] = c.idx]

(* Slip: the candle is cached and sent before the database has it.         *)
SlipApplyBeforeStore ==
    /\ pc = "stream" /\ inbox # <<>>
    /\ row' = Head(inbox) /\ inbox' = Tail(inbox)
    /\ pc' = "apply"
    /\ UNCHANGED <<exchange, socket, store, cache, batch, loaded, written, missed, faults,
                   browsers>>

(* A candle is stored first, then cached, then sent.                       *)
StoreCandle ==
    /\ pc = "stream" /\ inbox # <<>>
    /\ row' = Head(inbox) /\ inbox' = Tail(inbox)
    /\ store' = Upsert(store, Single(row'))
    /\ written' = Changed
    /\ pc' = "apply"
    /\ UNCHANGED <<exchange, socket, cache, batch, loaded, missed, faults, browsers>>

(* The database refuses: the session ends with its unhandled messages.     *)
StoreFails ==
    /\ pc = "stream" /\ inbox # <<>> /\ UpsertFails(Single(Head(inbox)))
    /\ socket' = FALSE /\ inbox' = <<>>
    /\ pc' = "backfill"
    /\ UNCHANGED <<exchange, cache, batch, loaded, row, written, browsers>>

(* A bucket that was missed is made good by the row that the table holds.  *)
ApplyCandle ==
    /\ pc = "apply"
    /\ cache' = ApplyRow(cache, row)
    /\ pc' = IF Accepts(cache, row) THEN "emit" ELSE "stream"
    /\ written' = {}
    /\ missed' = missed \ {b \in {row.bucket} : store[b] = row.idx}
    /\ UNCHANGED <<exchange, upstream, store, batch, loaded, row, faults, browsers>>

EmitCandle ==
    /\ pc = "emit"
    /\ chan' = [c \in Clients |->
          IF c \in subscribers THEN Append(chan[c], row) ELSE chan[c]]
    /\ pc' = "stream" /\ row' = NoRow
    /\ UNCHANGED <<exchange, upstream, store, cache, batch, loaded, written, missed, faults,
                   subscribers, stream, fetch, answer, streamed, page>>

(* The error comes after the messages; the worker sleeps and starts over.  *)
SessionEnds ==
    /\ pc = "stream" /\ ~socket /\ inbox = <<>>
    /\ pc' = "backfill"
    /\ UNCHANGED <<exchange, upstream, store, cache, batch, loaded, row, written, missed,
                   faults, browsers>>

(* The process dies and is started again: the table remains, and what the  *)
(* browsers show.                                                          *)
Crash ==
    /\ Fault
    /\ socket' = FALSE /\ inbox' = <<>> /\ cache' = <<>>
    /\ pc' = "bootstrap" /\ batch' = NoRows /\ loaded' = <<>> /\ row' = NoRow
    /\ written' = {} /\ missed' = {}
    /\ subscribers' = {}
    /\ chan' = [c \in Clients |-> <<>>]
    /\ stream' = [c \in Clients |-> "off"]
    /\ fetch' = [c \in Clients |-> IF fetch[c] = "off" THEN "off" ELSE "done"]
    /\ answer' = [c \in Clients |-> <<>>]
    /\ UNCHANGED <<exchange, store, streamed, page>>

WorkerStep ==
    \/ BootstrapLoad \/ BootstrapFetch \/ BootstrapStore \/ BootstrapReload \/ BootstrapFill
    \/ BackfillFetch \/ BackfillStore \/ BackfillLoad \/ BackfillFill \/ Connect
    \/ StoreCandle \/ ApplyCandle \/ EmitCandle \/ SessionEnds

WorkerFault ==
    FetchFails \/ BackfillStoreFails \/ BackfillLoadFails \/ ConnectFails \/ StoreFails

-----------------------------------------------------------------------------
(* A browser: useChartCandles, get_candles and handle_ws_client.           *)

(* GET /v1/candles reads the cache; its answer arrives some time later.    *)
FetchReads(c) ==
    /\ fetch[c] = "off"
    /\ answer' = [answer EXCEPT ![c] = Last(HistoryLimit, cache)]
    /\ fetch' = [fetch EXCEPT ![c] = "answered"]
    /\ UNCHANGED <<exchange, upstream, store, cache, worker, faults,
                   subscribers, chan, stream, streamed, page>>

(* Whatever the page shows by then, the answer replaces it.                *)
FetchArrives(c) ==
    /\ fetch[c] = "answered"
    /\ page' = [page EXCEPT ![c] = AsMap(answer[c])]
    /\ answer' = [answer EXCEPT ![c] = <<>>]
    /\ fetch' = [fetch EXCEPT ![c] = "done"]
    /\ UNCHANGED <<exchange, upstream, store, cache, worker, faults,
                   subscribers, chan, stream, streamed>>

Register(c) ==
    /\ stream[c] = "off"
    /\ subscribers' = subscribers \cup {c}
    /\ stream' = [stream EXCEPT ![c] = "registered"]
    /\ UNCHANGED <<exchange, upstream, store, cache, worker, faults,
                   chan, fetch, answer, streamed, page>>

(* The snapshot precedes every queued update; an empty one ("warming_up")  *)
(* leaves the page alone.                                                  *)
Greet(c) ==
    LET snapshot == Last(HistoryLimit, cache)
        shown(p) == IF snapshot = <<>> THEN p ELSE AsMap(snapshot)
    IN  /\ stream[c] = "registered"
        /\ stream' = [stream EXCEPT ![c] = "open"]
        /\ page' = [page EXCEPT ![c] = shown(@)]
        /\ streamed' = [streamed EXCEPT ![c] = shown(@)]
        /\ UNCHANGED <<exchange, upstream, store, cache, worker, faults,
                       subscribers, chan, fetch, answer>>

Receive(c) ==
    LET m == Head(chan[c])
    IN  /\ stream[c] = "open" /\ chan[c] # <<>>
        /\ page' = [page EXCEPT ![c][m.bucket] = m.idx]
        /\ streamed' = [streamed EXCEPT ![c][m.bucket] = m.idx]
        /\ chan' = [chan EXCEPT ![c] = Tail(@)]
        /\ UNCHANGED <<exchange, upstream, store, cache, worker, faults,
                       subscribers, stream, fetch, answer>>

(* The websocket is lost with what was queued; the hook connects again.    *)
Disconnect(c) ==
    /\ stream[c] # "off" /\ Fault
    /\ subscribers' = subscribers \ {c}
    /\ chan' = [chan EXCEPT ![c] = <<>>]
    /\ stream' = [stream EXCEPT ![c] = "off"]
    /\ UNCHANGED <<exchange, upstream, store, cache, worker, fetch, answer, streamed, page>>

Browser(c) ==
    \/ FetchReads(c) \/ FetchArrives(c)
    \/ Register(c) \/ Greet(c) \/ Receive(c) \/ Disconnect(c)

Next ==
    \/ \E b \in Buckets : Trade(b) \/ Redeliver(b)
    \/ ArchiveIndexes \/ SocketFails \/ Crash
    \/ WorkerStep \/ WorkerFault
    \/ \E c \in Clients : Browser(c)

Spec == Init /\ [][Next]_vars

(* The worker's task is polled for as long as the process lives, and each  *)
(* await is assumed to end: no timeout of the code makes it (the SDK's     *)
(* RestClient has none).  Browsers, the exchange and failures are not      *)
(* scheduled.                                                              *)
FairSpec == Spec /\ WF_vars(WorkerStep)

-----------------------------------------------------------------------------
Bootstrapping == {"bootstrap", "bootstrap_fetch", "bootstrap_store", "bootstrap_load",
                  "bootstrap_fill"}

TypeOK ==
    /\ live \in Table /\ archive \in Table
    /\ socket \in BOOLEAN /\ inbox \in Seq(Candle)
    /\ store \in Table
    /\ cache \in Seq(Candle) /\ Len(cache) <= CacheCapacity
    /\ pc \in Bootstrapping \cup {"backfill", "backfill_store", "backfill_load", "backfill_fill",
                               "connect", "stream", "apply", "emit"}
    /\ batch \in Table /\ loaded \in Seq(Candle) /\ row \in Candle \cup {NoRow}
    /\ written \subseteq Buckets /\ missed \subseteq Buckets
    /\ faults \in 0..MaxFaults
    /\ subscribers \subseteq Clients
    /\ chan \in [Clients -> Seq(Candle)]
    /\ stream \in [Clients -> {"off", "registered", "open"}]
    /\ fetch \in [Clients -> {"off", "answered", "done"}]
    /\ answer \in [Clients -> Seq(Candle)]
    /\ streamed \in [Clients -> Table] /\ page \in [Clients -> Table]

(* A list in bucket order that holds the rows of t from its own first      *)
(* bucket on, and is empty only if t is.                                   *)
TailOf(s, t) ==
    /\ Ascending(s)
    /\ IF s = <<>> THEN t = NoRows
       ELSE Listed(s) = {c \in Rows(t) : c.bucket >= s[1].bucket}

(* The table as far as the cache follows it: without the changes that the  *)
(* worker has still in hand, or gave up.                                   *)
Followed(t) ==
    \A b \in Buckets : /\ t[b] <= store[b]
                       /\ b \in written \cup missed \/ t[b] = store[b]

(* The cache is what load_recent would say of the table, from its first    *)
(* bucket on: apply_row and the upsert's WHERE clause agree on every late, *)
(* repeated or overtaken candle, through backfills and restarts, at every  *)
(* await and whatever call fails.  What the cache may lack, or have older, *)
(* are the rows changed by an upsert that is still on its way to the cache *)
(* or was given up (market.rs:678-687), until the table is read again.     *)
CacheIsStoreTail ==
    pc \notin Bootstrapping => \E t \in Table : Followed(t) /\ TailOf(cache, t)

(* What a browser was ever sent is in the table, or a later submission of  *)
(* the same bucket is: a restart forgets nothing it has shown.             *)
ServedIsStored ==
    \A c \in Clients, b \in Buckets :
        /\ page[c][b] <= store[b]
        /\ \A i \in DOMAIN chan[c] : chan[c][i].bucket = b => chan[c][i].idx <= store[b]

(* While the process lives, no cached candle goes back to an earlier       *)
(* submission: not by a late update, nor by a backfill from an archive     *)
(* that lags the stream.                                                   *)
CacheNeverGoesBack ==
    [][\A b \in Buckets :
          AsMap(cache)[b] # Absent /\ AsMap(cache')[b] # Absent
             => AsMap(cache')[b] >= AsMap(cache)[b]]_vars

(* The worker comes back to the stream after whatever ended its session.   *)
KeepsStreaming == []<>(pc = "stream")

(* "The websocket stream stays source of truth" (Terminal.jsx:873): the    *)
(* page is never behind what the stream has told it.  It does not hold:    *)
(* the answer of GET /v1/candles replaces the page (Terminal.jsx:866).     *)
PageFollowsStream ==
    \A c \in Clients, b \in Buckets : page[c][b] >= streamed[c][b]
=============================================================================
