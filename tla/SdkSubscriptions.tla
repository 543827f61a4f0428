-------------------------- MODULE SdkSubscriptions --------------------------
(***************************************************************************)
(* The websocket subscriptions client of nado-rust-sdk/src/subscriptions.rs*)
(* (the portfolio gateway's fallback): an owner that makes requests, reads *)
(* events, closes or drops the client, and the worker task that owns the   *)
(* socket, joined by a channel of commands and a channel of events.        *)
(*                                                                         *)
(* authenticate, subscribe, unsubscribe and list are one Request, told     *)
(* apart by their ids only.  Requests take &self, so several may be in     *)
(* flight; next_event takes &mut self and close and drop take the client,  *)
(* so none of these overlaps a request.                                    *)
(***************************************************************************)
EXTENDS Integers, FiniteSets, SequencesExt

CONSTANTS MaxId,          \* bound: requests made
          MaxEvents,      \* bound: events sent by the server
          CommandBuffer,  \* SubscriptionsConfig.command_buffer (128)
          EventBuffer     \* SubscriptionsConfig.event_buffer (1024)

ASSUME SdkAssumption ==
    /\ MaxId \in Nat /\ MaxEvents \in Nat
    /\ CommandBuffer \in Nat \ {0} /\ EventBuffer \in Nat \ {0}

Ids == 1..MaxId

VARIABLES
    next_id,   \* the next request id
    call,      \* call[i]: where request i is, or how it returned
    cmds,      \* cmd_rx: ids, and Close
    pending,   \* the worker's map: ids whose sender it holds
    worker,    \* "select", "forward" (in events_tx.send) or "ended"
    held,      \* the event being forwarded
    events,    \* events_rx
    got,       \* history: what next_event returned
    owner,     \* "open", "closing" (in close), "joining", "closed", "dropped"
    socket,    \* "up", or "failed" once an error or a close frame is on its way
    asked,     \* ids the server has not answered
    verdict,   \* verdict[i]: the server's answer to request i
    wire,      \* from the server to the worker
    sent       \* events the server has sent

server == <<socket, asked, verdict, wire, sent>>
client == <<next_id, call, owner, got>>
vars == <<next_id, call, cmds, pending, worker, held, events, got, owner,
          socket, asked, verdict, wire, sent>>

Close == 0
Verdicts == {"ok", "rejected"}
Returned == Verdicts \cup {"closed", "timeout"}

Response(i, v) == [type |-> "response", n |-> i, verdict |-> v]
Event(n)       == [type |-> "event", n |-> n, verdict |-> "none"]
Failure        == [type |-> "failure", n |-> 0, verdict |-> "none"]

InFlight == {i \in Ids : call[i] \in {"sending", "waiting"}}

Init ==
    /\ next_id = 1
    /\ call = [i \in Ids |-> "off"]
    /\ cmds = <<>> /\ pending = {}
    /\ worker = "select" /\ held = 0
    /\ events = <<>> /\ got = <<>>
    /\ owner = "open"
    /\ socket = "up" /\ asked = {} /\ wire = <<>> /\ sent = 0
    /\ verdict = [i \in Ids |-> "none"]

-----------------------------------------------------------------------------
(* The owner's calls.                                                      *)

Call ==
    /\ owner = "open" /\ next_id <= MaxId
    /\ next_id' = next_id + 1
    /\ call' = [call EXCEPT ![next_id] = "sending"]
    /\ UNCHANGED <<cmds, pending, worker, held, events, got, owner, server>>

(* cmd_tx.send waits for room, without a timeout, or for the worker's end. *)
Submit(i) ==
    /\ call[i] = "sending"
    /\ \/ /\ worker # "ended" /\ Len(cmds) < CommandBuffer
          /\ cmds' = Append(cmds, i)
          /\ call' = [call EXCEPT ![i] = "waiting"]
       \/ /\ worker = "ended"
          /\ call' = [call EXCEPT ![i] = "closed"]
          /\ UNCHANGED cmds
    /\ UNCHANGED <<next_id, pending, worker, held, events, got, owner, server>>

(* request_timeout runs out; command and pending entry stay behind.        *)
TimeOut(i) ==
    /\ call[i] = "waiting"
    /\ call' = [call EXCEPT ![i] = "timeout"]
    /\ UNCHANGED <<next_id, cmds, pending, worker, held, events, got, owner, server>>

NextEvent ==
    /\ owner = "open" /\ InFlight = {}
    /\ events # <<>>
    /\ got' = Append(got, Head(events)) /\ events' = Tail(events)
    /\ UNCHANGED <<next_id, call, cmds, pending, worker, held, owner, server>>

BeginClose ==
    /\ owner = "open" /\ InFlight = {}
    /\ owner' = "closing"
    /\ UNCHANGED <<next_id, call, cmds, pending, worker, held, events, got, server>>

(* The ack is awaited for two seconds at most and its absence is ignored.  *)
SendClose ==
    /\ owner = "closing"
    /\ \/ /\ worker # "ended" /\ Len(cmds) < CommandBuffer
          /\ cmds' = Append(cmds, Close)
       \/ /\ worker = "ended"
          /\ UNCHANGED cmds
    /\ owner' = "joining"
    /\ UNCHANGED <<next_id, call, pending, worker, held, events, got, server>>

Join ==
    /\ owner = "joining" /\ worker = "ended"
    /\ owner' = "closed"
    /\ UNCHANGED <<next_id, call, cmds, pending, worker, held, events, got, server>>

(* Drop aborts the worker wherever it is; the channels go with the client. *)
DropClient ==
    /\ owner = "open" /\ InFlight = {}
    /\ owner' = "dropped" /\ worker' = "ended"
    /\ cmds' = <<>> /\ pending' = {} /\ events' = <<>> /\ held' = 0
    /\ UNCHANGED <<next_id, call, got, server>>

Owner ==
    \/ Call \/ NextEvent \/ BeginClose \/ SendClose \/ Join \/ DropClient
    \/ \E i \in Ids : Submit(i) \/ TimeOut(i)

-----------------------------------------------------------------------------
(* connection_worker.                                                      *)

(* Slip: the senders of queued commands get no error.                      *)
SlipPendingOnly == pending

(* The ids whose sender the worker still holds, in its map or its channel. *)
Unanswered == pending \cup (ToSet(cmds) \ {Close})

(* The loop ends: every pending sender gets an error, and the commands     *)
(* still queued are dropped with their senders.                            *)
End ==
    /\ worker' = "ended"
    /\ call' = [i \in Ids |-> IF i \in Unanswered /\ call[i] = "waiting"
                              THEN "closed" ELSE call[i]]
    /\ pending' = {} /\ cmds' = <<>>

WorkerRequest ==
    /\ worker = "select" /\ cmds # <<>> /\ Head(cmds) # Close
    /\ asked' = asked \cup {Head(cmds)}
    /\ pending' = pending \cup {Head(cmds)}
    /\ cmds' = Tail(cmds)
    /\ UNCHANGED <<client, worker, held, events, socket, verdict, wire, sent>>

(* Slip: the loop is not left after the ack.                               *)
SlipCloseContinues ==
    /\ worker = "select" /\ cmds # <<>> /\ Head(cmds) = Close
    /\ cmds' = Tail(cmds)
    /\ UNCHANGED <<client, pending, worker, held, events, server>>

WorkerClose ==
    /\ worker = "select" /\ cmds # <<>> /\ Head(cmds) = Close
    /\ End
    /\ UNCHANGED <<next_id, owner, got, held, events, server>>

(* A write, of a request or of a ping, meets the failed socket before the  *)
(* reader does.                                                            *)
WorkerWriteFails ==
    /\ worker = "select" /\ socket = "failed"
    /\ End
    /\ UNCHANGED <<next_id, owner, got, held, events, server>>

(* The request a response belongs to: pending.remove(&response.id).        *)
Addressee(i) == i

(* Slip: a response is delivered although its caller has timed out.        *)
SlipAnswerTheTimedOut ==
    /\ worker = "select" /\ wire # <<>> /\ Head(wire).type = "response"
    /\ LET i == Addressee(Head(wire).n)
       IN  /\ call' = IF i \in pending
                      THEN [call EXCEPT ![i] = Head(wire).verdict] ELSE call
           /\ pending' = pending \ {i}
    /\ wire' = Tail(wire)
    /\ UNCHANGED <<next_id, owner, got, cmds, worker, held, events, socket, asked, verdict, sent>>

(* A response whose request is not pending any more is ignored, as is one  *)
(* whose caller has timed out.                                             *)
WorkerResponse ==
    /\ worker = "select" /\ wire # <<>> /\ Head(wire).type = "response"
    /\ LET i == Addressee(Head(wire).n)
       IN  /\ call' = IF i \in pending /\ call[i] = "waiting"
                      THEN [call EXCEPT ![i] = Head(wire).verdict] ELSE call
           /\ pending' = pending \ {i}
    /\ wire' = Tail(wire)
    /\ UNCHANGED <<next_id, owner, got, cmds, worker, held, events, socket, asked, verdict, sent>>

WorkerEvent ==
    /\ worker = "select" /\ wire # <<>> /\ Head(wire).type = "event"
    /\ held' = Head(wire).n
    /\ worker' = "forward"
    /\ wire' = Tail(wire)
    /\ UNCHANGED <<client, cmds, pending, events, socket, asked, verdict, sent>>

(* Slip: try_send, whose failure is ignored.                               *)
SlipForwardOrDiscard ==
    /\ worker = "forward"
    /\ events' = IF Len(events) < EventBuffer THEN Append(events, held) ELSE events
    /\ held' = 0
    /\ worker' = "select"
    /\ UNCHANGED <<client, cmds, pending, server>>

(* Slip: an unbounded channel of events.                                   *)
SlipForwardUnbounded ==
    /\ worker = "forward"
    /\ events' = Append(events, held)
    /\ held' = 0
    /\ worker' = "select"
    /\ UNCHANGED <<client, cmds, pending, server>>

(* events_tx.send(event).await, inside the arm of the select: until there  *)
(* is room the worker serves neither commands nor the socket.              *)
WorkerForward ==
    /\ worker = "forward" /\ Len(events) < EventBuffer
    /\ events' = Append(events, held)
    /\ held' = 0
    /\ worker' = "select"
    /\ UNCHANGED <<client, cmds, pending, server>>

WorkerReadFails ==
    /\ worker = "select" /\ wire # <<>> /\ Head(wire).type = "failure"
    /\ End
    /\ wire' = Tail(wire)
    /\ UNCHANGED <<next_id, owner, got, held, events, socket, asked, verdict, sent>>

Worker ==
    \/ WorkerRequest \/ WorkerClose \/ WorkerWriteFails
    \/ WorkerResponse \/ WorkerEvent \/ WorkerForward \/ WorkerReadFails

-----------------------------------------------------------------------------
(* The server and the network (external).                                  *)

(* Requests are answered once, in any order, or never.                     *)
ServerAnswers(i, v) ==
    /\ i \in asked /\ socket = "up"
    /\ asked' = asked \ {i}
    /\ verdict' = [verdict EXCEPT ![i] = v]
    /\ wire' = Append(wire, Response(i, v))
    /\ UNCHANGED <<client, cmds, pending, worker, held, events, socket, sent>>

ServerSends ==
    /\ socket = "up" /\ sent < MaxEvents
    /\ sent' = sent + 1
    /\ wire' = Append(wire, Event(sent'))
    /\ UNCHANGED <<client, cmds, pending, worker, held, events, socket, asked, verdict>>

(* A close frame, a read error, the end of the stream or a malformed text. *)
SocketFails ==
    /\ socket = "up"
    /\ socket' = "failed"
    /\ wire' = Append(wire, Failure)
    /\ UNCHANGED <<client, cmds, pending, worker, held, events, asked, verdict, sent>>

Server == ServerSends \/ SocketFails \/ \E i \in Ids, v \in Verdicts : ServerAnswers(i, v)

Next == Owner \/ Worker \/ Server

Spec == Init /\ [][Next]_vars

(* The worker is polled; calls and close, once begun, are polled to their  *)
(* end and their timers fire.  Nobody has to make calls or read events,    *)
(* and the server need not answer.                                         *)
FairSpec ==
    /\ Spec
    /\ WF_vars(Worker)
    /\ WF_vars(SendClose) /\ WF_vars(Join)
    /\ \A i \in Ids : WF_vars(Submit(i)) /\ WF_vars(TimeOut(i))

-----------------------------------------------------------------------------
(* Types of the client's variables.                                        *)
TypeOK ==
    /\ next_id \in 1..(MaxId + 1)
    /\ call \in [Ids -> {"off", "sending", "waiting"} \cup Returned]
    /\ cmds \in Seq(Ids \cup {Close}) /\ Len(cmds) <= CommandBuffer
    /\ pending \subseteq Ids
    /\ worker \in {"select", "forward", "ended"}
    /\ held \in 0..MaxEvents
    /\ events \in Seq(1..MaxEvents) /\ Len(events) <= EventBuffer
    /\ got \in Seq(1..MaxEvents)
    /\ owner \in {"open", "closing", "joining", "closed", "dropped"}
    /\ socket \in {"up", "failed"}
    /\ asked \subseteq Ids
    /\ verdict \in [Ids -> Verdicts \cup {"none"}]
    /\ wire \in Seq([type : {"response", "event", "failure"}, n : Nat, verdict : Verdicts \cup {"none"}])
    /\ sent \in 0..MaxEvents

(* A request returns what the server answered to it, whatever the order of *)
(* the answers and whatever other requests timed out before (README:       *)
(* "request/response correlation by request id").                          *)
OwnAnswer == \A i \in Ids : call[i] \in Verdicts => call[i] = verdict[i]

(* Nobody waits for an answer that cannot come: a request that waits is    *)
(* queued, or its sender is in the map of a running worker.                *)
NoCallStranded ==
    \A i \in Ids : call[i] = "waiting" =>
        worker # "ended" /\ (i \in pending \/ \E k \in DOMAIN cmds : cmds[k] = i)

(* The events that next_event returned, the queued ones and the one being  *)
(* forwarded are the first that the server sent, each once and in order;   *)
(* while the worker runs the unread ones are exactly the rest, in order.   *)
(* What the end of the connection drops is therefore a suffix.             *)
Taken  == got \o events \o (IF worker = "forward" THEN <<held>> ELSE <<>>)
IsEvent(m) == m.type = "event"
Unread == {wire[k].n : k \in {k \in DOMAIN wire : IsEvent(wire[k])}}

EventsWhole ==
    /\ Len(Taken) <= sent /\ \A k \in DOMAIN Taken : Taken[k] = k
    /\ \A j, k \in DOMAIN wire :
          j < k /\ IsEvent(wire[j]) /\ IsEvent(wire[k]) => wire[j].n < wire[k].n
    /\ worker # "ended" => Unread = (Len(Taken) + 1)..sent

(* The client keeps RequestReply's promise to its callers: a call returns  *)
(* once, with its own answer or an error, and no late response, reused     *)
(* slot or end of the connection touches a call that has returned.         *)
AsCallerSees(c) == CASE c \in {"sending", "waiting"} -> "asked"
                     [] c \in {"closed", "timeout"}  -> "failed"
                     [] OTHER                        -> c

CallOfCaller == [i \in Ids |-> AsCallerSees(call[i])]

Caller == INSTANCE RequestReply WITH call <- CallOfCaller

AnswersOnce == Caller!Spec

(* Requests and close return, but for one case: the worker waits for room  *)
(* among the events, which only next_event makes.  A request then returns  *)
(* by its timeout once it is queued; a request that finds the commands     *)
(* full, and close, do not return.                                         *)
Blocked == worker = "forward" /\ Len(events) = EventBuffer

ReturnsUnlessBlocked ==
    /\ \A i \in Ids : (call[i] \in {"sending", "waiting"}) ~> (call[i] \in Returned \/ Blocked)
    /\ (owner \in {"closing", "joining"}) ~> (owner = "closed" \/ Blocked)
=============================================================================
