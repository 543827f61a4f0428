-------------------------- MODULE ChartSupervisor --------------------------
(***************************************************************************)
(* Who creates, fills and starts the series of one (symbol, granularity)   *)
(* in the chart gateway: Supervisor::ensure_series                         *)
(* (gateway/chart/src/market.rs), called by GET /v1/candles and by         *)
(* WS /ws/v1/candles (main.rs) in any number at once.                      *)
(*                                                                         *)
(* The map of series is locked three times by one call, never across       *)
(* bootstrap.  A call is a future: when the browser closes its connection  *)
(* the future is dropped at the await it has reached.                      *)
(***************************************************************************)
EXTENDS Naturals

CONSTANTS Requests,   \* HTTP and websocket requests for this series
          MaxHandles  \* bound: handles put into the map

ASSUME SupervisorAssumption == MaxHandles \in Nat

Handles == 1..MaxHandles
NoHandle == 0

VARIABLES
    series,     \* the map's entry for the key, or NoHandle
    created,    \* handles put into the map so far
    ready,      \* handles whose cache bootstrap has filled
    workers,    \* workers[h]: worker tasks spawned for h
    pc,         \* pc[r]: the await a request has reached
    handle,     \* handle[r]: the series a request holds
    aborted     \* history: a call was dropped, failed or hangs for good

vars == <<series, created, ready, workers, pc, handle, aborted>>

Init ==
    /\ series = NoHandle
    /\ created = 0
    /\ ready = {}
    /\ workers = [h \in Handles |-> 0]
    /\ pc = [r \in Requests |-> "out"]
    /\ handle = [r \in Requests |-> NoHandle]
    /\ aborted = FALSE

Hold(r, h, at) ==
    /\ handle' = [handle EXCEPT ![r] = h]
    /\ pc' = [pc EXCEPT ![r] = at]

-----------------------------------------------------------------------------
(* The first look at the map; an absent series is built and comes back     *)
(* for the lock.                                                           *)
Lookup(r) ==
    /\ pc[r] = "out"
    /\ IF series # NoHandle THEN Hold(r, series, "serving") ELSE Hold(r, NoHandle, "insert")
    /\ UNCHANGED <<series, created, ready, workers, aborted>>

(* Slip: the map is not looked at again under the second lock.             *)
SlipInsertBlind(r) ==
    /\ pc[r] = "insert" /\ created < MaxHandles
    /\ created' = created + 1
    /\ series' = created'
    /\ Hold(r, created', "bootstrap")
    /\ UNCHANGED <<ready, workers, aborted>>

(* Slip: the worker is started with the insertion.                         *)
SlipInsertSpawns(r) ==
    /\ pc[r] = "insert"
    /\ IF series # NoHandle
       THEN Hold(r, series, "serving") /\ UNCHANGED <<series, created, workers>>
       ELSE /\ created < MaxHandles
            /\ created' = created + 1
            /\ series' = created'
            /\ workers' = [workers EXCEPT ![created'] = 1]
            /\ Hold(r, created', "bootstrap")
    /\ UNCHANGED <<ready, aborted>>

(* The second look and the insertion, under one lock.                      *)
Insert(r) ==
    /\ pc[r] = "insert"
    /\ IF series # NoHandle
       THEN Hold(r, series, "serving") /\ UNCHANGED <<series, created>>
       ELSE /\ created < MaxHandles
            /\ created' = created + 1
            /\ series' = created'
            /\ Hold(r, created', "bootstrap")
    /\ UNCHANGED <<ready, workers, aborted>>

(* SeriesHandle::spawn.                                                    *)
Spawn(h) ==
    workers' = [workers EXCEPT ![h] = IF @ > 0 THEN @ ELSE 1]

(* Slip: a filled series whose worker is left for someone else to start.   *)
SlipBootstrapOnly(r) ==
    /\ pc[r] = "bootstrap"
    /\ ready' = ready \cup {handle[r]}
    /\ Hold(r, handle[r], "serving")
    /\ UNCHANGED <<series, created, workers, aborted>>

(* bootstrap's last await is the cache's lock: from there to the end of    *)
(* ensure_series nothing can interrupt the call.                           *)
BootstrapSucceeds(r) ==
    /\ pc[r] = "bootstrap"
    /\ ready' = ready \cup {handle[r]}
    /\ Spawn(handle[r])
    /\ Hold(r, handle[r], "serving")
    /\ UNCHANGED <<series, created, aborted>>

(* The archive's client has no timeout (RestClient::new of the SDK), nor   *)
(* have the queries of the store: a call may wait for its answer for good. *)
BootstrapHangs(r) ==
    /\ pc[r] = "bootstrap"
    /\ Hold(r, handle[r], "hung")
    /\ aborted' = TRUE
    /\ UNCHANGED <<series, created, ready, workers>>

(* The database or the archive refused: the call goes for the lock again.  *)
BootstrapFails(r) ==
    /\ pc[r] = "bootstrap"
    /\ Hold(r, handle[r], "remove")
    /\ aborted' = TRUE
    /\ UNCHANGED <<series, created, ready, workers>>

(* The entry is removed by its key, whichever handle it holds.             *)
Remove(r) ==
    /\ pc[r] = "remove"
    /\ series' = NoHandle
    /\ Hold(r, NoHandle, "out")
    /\ UNCHANGED <<created, ready, workers, aborted>>

(* The browser closes its connection while ensure_series awaits.           *)
Cancel(r) ==
    /\ pc[r] \in {"insert", "bootstrap", "hung", "remove"}
    /\ Hold(r, NoHandle, "out")
    /\ aborted' = TRUE
    /\ UNCHANGED <<series, created, ready, workers>>

(* The snapshot has been answered, or the websocket has closed.            *)
Leave(r) ==
    /\ pc[r] = "serving"
    /\ Hold(r, NoHandle, "out")
    /\ UNCHANGED <<series, created, ready, workers, aborted>>

Request(r) ==
    \/ Lookup(r) \/ Insert(r)
    \/ BootstrapSucceeds(r) \/ BootstrapFails(r) \/ BootstrapHangs(r) \/ Remove(r)
    \/ Cancel(r) \/ Leave(r)

Next == \E r \in Requests : Request(r)

Spec == Init /\ [][Next]_vars

(* A call that nobody drops is polled as long as it can go on: the map's   *)
(* lock is held for moments only, and a bootstrap that has not hung        *)
(* returns one way or the other.  Whether a browser asks, stays or goes is *)
(* its own affair, and no call has to hang.                                *)
FairSpec ==
    /\ Spec
    /\ \A r \in Requests :
          WF_vars(Insert(r) \/ BootstrapSucceeds(r) \/ BootstrapFails(r) \/ Remove(r))

-----------------------------------------------------------------------------
TypeOK ==
    /\ created \in 0..MaxHandles
    /\ series \in 0..created
    /\ ready \subseteq 1..created
    /\ workers \in [Handles -> Nat]
    /\ pc \in [Requests -> {"out", "insert", "bootstrap", "hung", "remove", "serving"}]
    /\ handle \in [Requests -> 0..created]
    /\ aborted \in BOOLEAN

(* A call between its insertion and its return owns the map's entry: no    *)
(* two calls fill a series at once, and the removal by key (market.rs:175) *)
(* removes the series that failed, never one inserted since.               *)
Filling == {"bootstrap", "hung", "remove"}

FillingOwnsTheEntry ==
    \A r, q \in Requests : pc[r] \in Filling =>
        /\ series = handle[r] /\ series # NoHandle
        /\ handle[r] \notin ready
        /\ pc[q] \in Filling => q = r

(* At most one worker writes the series' candles, for as long as the       *)
(* process runs: a worker's handle is filled and is the map's for good.    *)
OneWorker ==
    \A h \in Handles : workers[h] > 0 =>
        /\ workers[h] = 1
        /\ h \in ready
        /\ series = h

Started(h) == h \in Handles /\ workers[h] > 0

(* Until a call is dropped, fails or hangs, whoever holds a series holds   *)
(* the map's, and it is started or a call is about to start it: the entry  *)
(* is in the map before it is filled, and nobody forgets it.               *)
HeldIsInHand ==
    ~aborted => \A r \in Requests : handle[r] # NoHandle =>
        /\ handle[r] = series
        /\ Started(series) \/ \E q \in Requests : pc[q] = "bootstrap" /\ handle[q] = series

(* A request that was given a series sees it started, unless a call is     *)
(* dropped, fails or hangs: the archive that does not answer one call      *)
(* leaves the others with a series that nobody starts.                     *)
StartedUnlessAborted ==
    \A r \in Requests :
        pc[r] = "serving" ~> (Started(handle[r]) \/ pc[r] # "serving" \/ aborted)

(* "Live updates over the websocket" (docs/CHART_GATEWAY.md): a request    *)
(* that keeps its series sees it started.  It does not hold: a dropped,    *)
(* failed or hanging call leaves a series without a worker                 *)
(* (market.rs:160-176).                                                    *)
HeldIsStarted ==
    \A r \in Requests : pc[r] = "serving" ~> (Started(handle[r]) \/ pc[r] # "serving")
=============================================================================
