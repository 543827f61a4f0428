--------------------------- MODULE PortfolioStream ---------------------------
(***************************************************************************)
(* One account in the portfolio gateway (gateway/portfolio/src/main.rs)    *)
(* and in the page that shows it (client/src/hooks/usePortfolioData.js).   *)
(*                                                                         *)
(* The page polls GET /v1/portfolio/snapshot and holds a websocket, which  *)
(* it opens again when it closes.  Behind each websocket are two tasks:    *)
(* handle_ws_client, which fetches and sends, and the one that             *)
(* spawn_upstream_event_channel starts, which turns Nado's events into     *)
(* signals on a bounded channel.  The second learns only from that channel *)
(* that the first has gone.                                                *)
(*                                                                         *)
(* A portfolio is two version numbers: sum, of the mandatory summary, read *)
(* first from the engine, and rest, of orders and trades, read last from   *)
(* the indexer, which lags, and Missing when that read fails (.ok()).      *)
(***************************************************************************)
EXTENDS Integers, Sequences, FiniteSets

CONSTANTS MaxConns,    \* bound: websockets the page opens
          MaxVersion,  \* bound: changes of the account
          MaxEvents,   \* bound: events of one change
          MaxGets,     \* bound: snapshots the page asks for
          MaxClock,    \* bound: readings of the wall clock
          MaxFaults,   \* bound: failed queries, broken connections
          Cap          \* the signal channel's capacity (64)

ASSUME PortfolioAssumption ==
    /\ MaxConns \in Nat /\ MaxVersion \in Nat /\ MaxEvents \in Nat /\ MaxGets \in Nat
    /\ MaxClock \in Nat /\ MaxFaults \in Nat
    /\ Cap \in Nat \ {0}

Conns == 1..MaxConns

VARIABLES
    account,    \* the engine's version of the account
    archive,    \* the indexer's
    clock,      \* SystemTime::now, in the gateway
    open,       \* the reader has not left the page
    listening,  \* the page's websockets that are open
    live,       \* liveEnvelope
    snap,       \* snapshotQuery.data
    get, gets,  \* the page's GET, and how many it has begun
    task,       \* task[c]: where handle_ws_client is, and the summary it read
    recent,     \* recent[c]: an event has been followed by a refresh
    chan,       \* chan[c]: upstream_events
    up,         \* up[c]: where the upstream task is
    inbox,      \* inbox[c]: events on the upstream socket
    late,       \* history: events it read after handle_ws_client ended
    active,     \* active_ws_clients
    faults      \* faults so far

nado     == <<account, archive, clock>>
page     == <<open, listening, live, snap, get, gets>>
upstream == <<up, inbox, late>>
vars == <<account, archive, clock, open, listening, live, snap, get, gets, task,
          recent, chan, up, inbox, late, active, faults>>

Missing == -1
Version == Missing..MaxVersion

Envelope == [asOf : -1..MaxClock, sum : Version, rest : Version]
None     == [asOf |-> -1, sum |-> Missing, rest |-> Missing]

Idle == [at |-> "none", asOf |-> -1, sum |-> Missing]

Init ==
    /\ account = 0 /\ archive = 0 /\ clock = 0
    /\ open = TRUE /\ listening = {}
    /\ live = None /\ snap = None /\ get = Idle /\ gets = 0
    /\ task = [c \in Conns |-> [at |-> "off", sum |-> Missing]]
    /\ recent = [c \in Conns |-> FALSE]
    /\ chan = [c \in Conns |-> <<>>]
    /\ up = [c \in Conns |-> "off"]
    /\ inbox = [c \in Conns |-> 0]
    /\ late = [c \in Conns |-> 0]
    /\ active = 0 /\ faults = 0

Fault == faults < MaxFaults /\ faults' = faults + 1

-----------------------------------------------------------------------------
(* Nado and time (external).                                               *)

Subscribed == {c \in Conns : up[c] \in {"ratchet_on", "sdk_on"}}

(* A change is announced by one or more events: a position_change and the  *)
(* fills behind it.                                                        *)
AccountChanges ==
    /\ account < MaxVersion
    /\ account' = account + 1
    /\ \E n \in 1..MaxEvents :
          inbox' = [c \in Conns |-> IF c \in Subscribed THEN inbox[c] + n ELSE inbox[c]]
    /\ UNCHANGED <<archive, clock, page, task, recent, chan, up, late, active, faults>>

IndexerAdvances ==
    /\ archive < account
    /\ archive' = archive + 1
    /\ UNCHANGED <<account, clock, page, task, recent, chan, upstream, active, faults>>

ClockTicks ==
    /\ clock < MaxClock
    /\ clock' = clock + 1
    /\ UNCHANGED <<account, archive, page, task, recent, chan, upstream, active, faults>>

(* What the queries after the summary return, or nothing.                  *)
ReadsRest(r) ==
    \/ r = archive /\ UNCHANGED faults
    \/ r = Missing /\ Fault

-----------------------------------------------------------------------------
(* The page: get_snapshot as it sees it.                                   *)

GetBegins ==
    /\ open /\ get.at = "none"
    /\ gets < MaxGets /\ gets' = gets + 1
    /\ get' = [at |-> "summary", asOf |-> clock, sum |-> Missing]
    /\ UNCHANGED <<nado, open, listening, live, snap, task, recent, chan, upstream, active, faults>>

GetSummary ==
    /\ get.at = "summary"
    /\ \/ get' = [get EXCEPT !.at = "rest", !.sum = account] /\ UNCHANGED faults
       \/ get' = Idle /\ Fault
    /\ UNCHANGED <<nado, gets, open, listening, live, snap, task, recent, chan, upstream, active>>

(* Slip: as_of is taken after the fetch.                                   *)
SlipStampAfter ==
    /\ get.at = "rest"
    /\ \E r \in {archive, Missing} :
          /\ ReadsRest(r)
          /\ snap' = [asOf |-> clock, sum |-> get.sum, rest |-> r]
    /\ get' = Idle
    /\ UNCHANGED <<nado, gets, open, listening, live, task, recent, chan, upstream, active>>

GetAnswers ==
    /\ get.at = "rest"
    /\ \E r \in {archive, Missing} :
          /\ ReadsRest(r)
          /\ snap' = [asOf |-> get.asOf, sum |-> get.sum, rest |-> r]
    /\ get' = Idle
    /\ UNCHANGED <<nado, gets, open, listening, live, task, recent, chan, upstream, active>>

-----------------------------------------------------------------------------
(* The page's websocket.                                                   *)

(* Slip: a reconnect that does not wait for the old socket's onclose.      *)
SlipOpensAnyTime(c) ==
    /\ open
    /\ task[c].at = "off" /\ \A d \in Conns : d < c => task[d].at # "off"
    /\ listening' = listening \cup {c}
    /\ task' = [task EXCEPT ![c].at = "summary"]
    /\ active' = active + 1
    /\ UNCHANGED <<nado, gets, open, live, snap, get, recent, chan, upstream, faults>>

(* connect: at first, or some time after onclose.                          *)
PageOpens(c) ==
    /\ open /\ listening = {}
    /\ task[c].at = "off" /\ \A d \in Conns : d < c => task[d].at # "off"
    /\ listening' = listening \cup {c}
    /\ task' = [task EXCEPT ![c].at = "summary"]
    /\ active' = active + 1
    /\ UNCHANGED <<nado, gets, open, live, snap, get, recent, chan, upstream, faults>>

(* pickLatestEnvelope, when a snapshot or an update arrives.               *)
Latest(prev, next) == IF next.asOf >= prev.asOf THEN next ELSE prev

(* onclose, when the gateway has closed the socket.                        *)
PageClosed(c) ==
    /\ c \in listening /\ task[c].at = "ended"
    /\ listening' = listening \ {c}
    /\ UNCHANGED <<nado, gets, open, live, snap, get, task, recent, chan, upstream, active, faults>>

(* onclose, when the connection breaks.                                    *)
PageLoses(c) ==
    /\ c \in listening /\ c < MaxConns /\ Fault
    /\ listening' = listening \ {c}
    /\ UNCHANGED <<nado, gets, open, live, snap, get, task, recent, chan, upstream, active>>

(* The effect's cleanup closes the socket, the query is aborted, and the   *)
(* page's state goes with the component.                                   *)
PageLeaves ==
    /\ open
    /\ open' = FALSE
    /\ listening' = {} /\ get' = Idle
    /\ live' = None /\ snap' = None
    /\ UNCHANGED <<nado, gets, task, recent, chan, upstream, active, faults>>

-----------------------------------------------------------------------------
(* handle_ws_client for connection c.  Its first fetch comes before the    *)
(* upstream task is spawned.                                               *)

First(c) == up[c] = "off"

(* Every way out counts down; the receiver of the signals is dropped.      *)
End(c) ==
    /\ task' = [task EXCEPT ![c] = [at |-> "ended", sum |-> Missing]]
    /\ active' = active - 1
    /\ chan' = [chan EXCEPT ![c] = <<>>]
    /\ recent' = [recent EXCEPT ![c] = FALSE]
    /\ UNCHANGED up

Continue(c) ==
    /\ task' = [task EXCEPT ![c] = [at |-> "select", sum |-> Missing]]
    /\ up' = IF First(c) THEN [up EXCEPT ![c] = "loop"] ELSE up
    /\ UNCHANGED <<active, chan, recent>>

(* send_json.  A message under way to the page is taken to be there: what  *)
(* a broken connection loses is a message sent after the break.  Once the  *)
(* page is gone, messages vanish for a while, then sending fails.          *)
SendAndContinue(c, e) ==
    \/ c \in listening /\ Continue(c) /\ live' = Latest(live, e)
    \/ c \notin listening /\ Continue(c) /\ UNCHANGED live
    \/ c \notin listening /\ End(c) /\ UNCHANGED live

(* fetch_portfolio_payload, the summary.                                   *)
TaskSummary(c) ==
    /\ task[c].at = "summary"
    /\ task' = [task EXCEPT ![c] = [at |-> "rest", sum |-> account]]
    /\ UNCHANGED <<nado, page, recent, chan, upstream, active, faults>>

(* A failed first fetch ends the task after an error message, a later one  *)
(* is reported as refresh_failed.                                          *)
TaskFails(c) ==
    /\ task[c].at = "summary" /\ Fault
    /\ \/ First(c) /\ c < MaxConns /\ End(c)
       \/ ~First(c) /\ Continue(c)
       \/ ~First(c) /\ c \notin listening /\ End(c)
    /\ UNCHANGED <<nado, page, inbox, late>>

(* The rest, the stamp and the message.                                    *)
TaskRest(c) ==
    /\ task[c].at = "rest"
    /\ \E r \in {archive, Missing} :
          /\ ReadsRest(r)
          /\ SendAndContinue(c, [asOf |-> clock, sum |-> task[c].sum, rest |-> r])
    /\ UNCHANGED <<nado, open, listening, snap, get, gets, inbox, late>>

(* Slip: polling only while the upstream socket is down.                   *)
SlipPollsWhenDegraded(c) ==
    /\ task[c].at = "select" /\ c \notin Subscribed
    /\ task' = [task EXCEPT ![c].at = "summary"]
    /\ UNCHANGED <<nado, page, recent, chan, upstream, active, faults>>

TaskPolls(c) ==
    /\ task[c].at = "select"
    /\ task' = [task EXCEPT ![c].at = "summary"]
    /\ UNCHANGED <<nado, page, recent, chan, upstream, active, faults>>

(* An event within the debounce window of the last one that was followed   *)
(* by a refresh is dropped.                                                *)
TaskEvent(c) ==
    /\ task[c].at = "select" /\ chan[c] # <<>> /\ Head(chan[c]) = "event"
    /\ chan' = [chan EXCEPT ![c] = Tail(@)]
    /\ \/ recent[c] /\ UNCHANGED <<task, recent>>
       \/ /\ task' = [task EXCEPT ![c].at = "summary"]
          /\ recent' = [recent EXCEPT ![c] = TRUE]
    /\ UNCHANGED <<nado, page, upstream, active, faults>>

(* A degraded status is sent; the page gives it no reader.                 *)
TaskDegraded(c) ==
    /\ task[c].at = "select" /\ chan[c] # <<>> /\ Head(chan[c]) = "disconnected"
    /\ \/ /\ chan' = [chan EXCEPT ![c] = Tail(@)]
          /\ UNCHANGED <<task, recent, active, up>>
       \/ c \notin listening /\ End(c)
    /\ UNCHANGED <<nado, page, inbox, late, faults>>

(* receiver.next() yields a close frame, an error or the end.              *)
TaskNotices(c) ==
    /\ task[c].at = "select" /\ c \notin listening
    /\ End(c)
    /\ UNCHANGED <<nado, page, inbox, late, faults>>

Task(c) ==
    \/ TaskSummary(c) \/ TaskRest(c) \/ TaskPolls(c) \/ TaskEvent(c)
    \/ TaskDegraded(c) \/ TaskNotices(c)

-----------------------------------------------------------------------------
(* The upstream task of connection c.  tx.is_closed() is task[c] "ended".  *)

Closed(c) == task[c].at = "ended"

(* Any end of a session over the gateway's own websocket leads to one over *)
(* the SDK's client, any end of that to the report.                        *)
AfterSession(c) == IF up[c] \in {"loop", "ratchet_on"} THEN "sdk" ELSE "lost"

(* The loop looks whether the receiver is gone, then connects; the sdk     *)
(* fallback connects without looking.                                      *)
UpConnects(c) ==
    /\ \/ up[c] = "loop" /\ up' = [up EXCEPT ![c] = IF Closed(c) THEN "ended" ELSE "ratchet_on"]
       \/ up[c] = "sdk" /\ up' = [up EXCEPT ![c] = "sdk_on"]
    /\ UNCHANGED <<nado, page, task, recent, chan, inbox, late, active, faults>>

(* A failed connect, a closed socket, an error text; or an outage, in      *)
(* which the fallback fails as well.                                       *)
UpFails(c) ==
    /\ up[c] \in {"loop", "ratchet_on", "sdk", "sdk_on"} /\ Fault
    /\ up[c] = "loop" => ~Closed(c)
    /\ \E next \in {AfterSession(c), "lost"} : up' = [up EXCEPT ![c] = next]
    /\ inbox' = [inbox EXCEPT ![c] = 0]
    /\ UNCHANGED <<nado, page, task, recent, chan, late, active>>

(* Slip: a failed send to the channel is ignored.                          *)
SlipForwardsForEver(c) ==
    /\ c \in Subscribed /\ inbox[c] > 0
    /\ inbox' = [inbox EXCEPT ![c] = @ - 1]
    /\ IF Closed(c)
       THEN late' = [late EXCEPT ![c] = @ + 1] /\ UNCHANGED chan
       ELSE /\ Len(chan[c]) < Cap
            /\ chan' = [chan EXCEPT ![c] = Append(@, "event")]
            /\ UNCHANGED late
    /\ UNCHANGED <<nado, page, task, recent, up, active, faults>>

(* Slip: an unbounded channel of signals.                                  *)
SlipForwardsUnbounded(c) ==
    /\ c \in Subscribed /\ inbox[c] > 0 /\ ~Closed(c)
    /\ chan' = [chan EXCEPT ![c] = Append(@, "event")]
    /\ inbox' = [inbox EXCEPT ![c] = @ - 1]
    /\ UNCHANGED <<nado, page, task, recent, up, late, active, faults>>

(* The send waits for room, or fails because the receiver is gone: then    *)
(* the session ends like any other.                                        *)
UpForwards(c) ==
    /\ c \in Subscribed /\ inbox[c] > 0
    /\ IF Closed(c)
       THEN /\ late' = [late EXCEPT ![c] = @ + 1]
            /\ up' = [up EXCEPT ![c] = AfterSession(c)]
            /\ inbox' = [inbox EXCEPT ![c] = 0]
            /\ UNCHANGED chan
       ELSE /\ Len(chan[c]) < Cap
            /\ chan' = [chan EXCEPT ![c] = Append(@, "event")]
            /\ inbox' = [inbox EXCEPT ![c] = @ - 1]
            /\ UNCHANGED <<up, late>>
    /\ UNCHANGED <<nado, page, task, recent, active, faults>>

(* The report, then a wait of any length.                                  *)
UpReports(c) ==
    /\ up[c] = "lost"
    /\ IF Closed(c)
       THEN up' = [up EXCEPT ![c] = "ended"] /\ UNCHANGED chan
       ELSE /\ Len(chan[c]) < Cap
            /\ chan' = [chan EXCEPT ![c] = Append(@, "disconnected")]
            /\ up' = [up EXCEPT ![c] = "loop"]
    /\ UNCHANGED <<nado, page, task, recent, inbox, late, active, faults>>

Upstream(c) == UpConnects(c) \/ UpForwards(c) \/ UpReports(c)

-----------------------------------------------------------------------------
Nado == AccountChanges \/ IndexerAdvances \/ ClockTicks

Page ==
    \/ GetBegins \/ GetSummary \/ GetAnswers \/ PageLeaves
    \/ \E c \in Conns : PageOpens(c) \/ PageClosed(c) \/ PageLoses(c)

Gateway ==
    \E c \in Conns : Task(c) \/ TaskFails(c) \/ Upstream(c) \/ UpFails(c)

Next == Nado \/ Page \/ Gateway

Spec == Init /\ [][Next]_vars

(* The tasks that serve the page are polled and their queries return, the  *)
(* page handles what arrives and reconnects, the indexer catches up.  No   *)
(* event has to arrive, nobody has to ask for a snapshot, and the clock    *)
(* may stand still.                                                        *)
FairSpec ==
    /\ Spec
    /\ WF_vars(IndexerAdvances)
    /\ \A c \in Conns :
          WF_vars(Task(c)) /\ WF_vars(PageOpens(c)) /\ WF_vars(PageClosed(c))

-----------------------------------------------------------------------------
(* Types of the variables of an account.                                   *)
NadoTypes ==
    account \in 0..MaxVersion /\ archive \in 0..account /\ clock \in 0..MaxClock

GetTypes ==
    /\ gets \in 0..MaxGets
    /\ get \in [at : {"none", "summary", "rest"}, asOf : -1..MaxClock, sum : Version]

PageTypes ==
    /\ open \in BOOLEAN /\ listening \subseteq Conns
    /\ live \in Envelope /\ snap \in Envelope

TaskTypes ==
    /\ task \in [Conns -> [at : {"off", "summary", "rest", "select", "ended"}, sum : Version]]
    /\ recent \in [Conns -> BOOLEAN]
    /\ chan \in [Conns -> Seq({"event", "disconnected"})]
    /\ \A c \in Conns : Len(chan[c]) <= Cap
    /\ active \in Int

UpTypes ==
    /\ up \in [Conns -> {"off", "loop", "ratchet_on", "sdk", "sdk_on", "lost", "ended"}]
    /\ inbox \in [Conns -> Nat] /\ late \in [Conns -> Nat]

TypeOK ==
    NadoTypes /\ GetTypes /\ PageTypes /\ TaskTypes /\ UpTypes /\ faults \in 0..MaxFaults

(* activeEnvelope: of equal stamps the websocket's is shown.               *)
Shown == IF live.asOf >= snap.asOf THEN live ELSE snap

(* The websocket side of the page never goes back, neither in the summary  *)
(* nor in the orders and trades, although a task of an earlier connection  *)
(* may still be fetching: a new socket is opened only after onclose.       *)
LiveInOrder ==
    [][open' => /\ live'.sum >= live.sum
                /\ live'.rest # Missing => live'.rest >= live.rest]_live

(* Where the page prefers the HTTP answer to the websocket's, nothing gets *)
(* older by it: get_snapshot stamps before it reads, the websocket after.  *)
ShownKeepsLive ==
    /\ Shown.sum >= live.sum
    /\ Shown.rest # Missing => Shown.rest >= live.rest

(* The health route counts the tasks that serve a browser, however each of *)
(* them ended (handle_ws_client has three ways out).                       *)
ServingTasks == {c \in Conns : task[c].at \notin {"off", "ended"}}

ActiveCounts == active = Cardinality(ServingTasks)

(* An upstream task outlives its browser by two events at most: the first  *)
(* ends the gateway's own websocket, and the SDK fallback, opened although *)
(* nobody listens any more, ends with its first one.                       *)
OrphanBounded == \A c \in Conns : late[c] <= 2

(* A page that stays shows every change in the end, whatever events were   *)
(* dropped as too close to each other, lost with a socket or never sent,   *)
(* and whatever a query failed to bring (polling fallback).                *)
PageCatchesUp ==
    \A v \in 0..MaxVersion :
        (account >= v) ~> (~open \/ (Shown.sum >= v /\ Shown.rest >= v))

(* The websocket side alone is a page that follows its account.            *)
LiveView == INSTANCE LatestView WITH truth <- account, view <- live.sum

LiveFollows == LiveView!Spec
=============================================================================
