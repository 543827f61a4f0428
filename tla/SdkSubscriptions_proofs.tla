---------------------- MODULE SdkSubscriptions_proofs ----------------------
(***************************************************************************)
(* Theorems about SdkSubscriptions, for any number of requests and events  *)
(* and any size of the two channels.                                       *)
(***************************************************************************)
EXTENDS SdkSubscriptions, SequenceTheorems, TLAPS

-----------------------------------------------------------------------------
(* Sequences as queues.                                                    *)

(* Reading a queue moves its elements up by one.                           *)
LEMMA HeadAndTail ==
  ASSUME NEW S, NEW s \in Seq(S), s # <<>>
  PROVE  /\ Head(s) = s[1] /\ Head(s) \in S /\ 1 \in DOMAIN s
         /\ Tail(s) \in Seq(S)
         /\ \A k \in DOMAIN Tail(s) : k + 1 \in DOMAIN s /\ k + 1 # 1 /\ Tail(s)[k] = s[k + 1]
         /\ \A k \in DOMAIN s : k = 1 \/ (k - 1 \in DOMAIN Tail(s) /\ Tail(s)[k - 1] = s[k])
OBVIOUS

(* Writing to it leaves the others where they are.                         *)
LEMMA Appended ==
  ASSUME NEW S, NEW s \in Seq(S), NEW e \in S
  PROVE  /\ Append(s, e) \in Seq(S)
         /\ \A k \in DOMAIN s : k \in DOMAIN Append(s, e) /\ Append(s, e)[k] = s[k]
         /\ Len(s) + 1 \in DOMAIN Append(s, e) /\ Append(s, e)[Len(s) + 1] = e
         /\ \A k \in DOMAIN Append(s, e) :
               \/ k \in DOMAIN s /\ Append(s, e)[k] = s[k]
               \/ k = Len(s) + 1 /\ Append(s, e)[k] = e
OBVIOUS

-----------------------------------------------------------------------------
CallStates == {"off", "sending", "waiting"} \cup Returned
WireMessage == [type : {"response", "event", "failure"}, n : Nat,
                verdict : Verdicts \cup {"none"}]

Types ==
    /\ next_id \in Nat \ {0}
    /\ call \in [Ids -> CallStates]
    /\ cmds \in Seq(Ids \cup {Close})
    /\ pending \subseteq Ids /\ asked \subseteq Ids
    /\ worker \in {"select", "forward", "ended"}
    /\ verdict \in [Ids -> Verdicts \cup {"none"}]
    /\ wire \in Seq(WireMessage)
    /\ sent \in Nat

(* A request is asked of the server once and answered once: until it is    *)
(* answered it has no verdict, and it moves from the caller to the queue   *)
(* and from there to the server without being in two places.               *)
UnsentFresh ==
    \A i \in Ids : call[i] \in {"off", "sending"} =>
        /\ verdict[i] = "none" /\ i \notin asked
        /\ \A k \in DOMAIN cmds : cmds[k] # i
QueuedFresh ==
    \A k \in DOMAIN cmds : cmds[k] # Close => verdict[cmds[k]] = "none" /\ cmds[k] \notin asked
QueuedOnce ==
    \A j, k \in DOMAIN cmds : cmds[j] = cmds[k] /\ cmds[j] # Close => j = k
AskedFresh == \A i \in asked : verdict[i] = "none"
NewIdsOff == \A i \in Ids : i >= next_id => call[i] = "off"

(* What is on the wire is what the server decided.                         *)
AnswersTrue ==
    \A k \in DOMAIN wire : wire[k].type = "response" =>
        /\ wire[k].n \in Ids
        /\ wire[k].verdict \in Verdicts
        /\ wire[k].verdict = verdict[wire[k].n]

Bookkeeping ==
    /\ UnsentFresh /\ QueuedFresh /\ QueuedOnce /\ AskedFresh /\ NewIdsOff /\ AnswersTrue

SdkInv == Types /\ Bookkeeping /\ OwnAnswer /\ NoCallStranded

(* At first no call has been made.                                         *)
LEMMA SdkInit == Init => SdkInv
<1> SUFFICES ASSUME Init PROVE SdkInv  OBVIOUS
<1> USE SdkAssumption DEF Init, Ids, Verdicts, Returned, CallStates, Close
<1>1. Types
  BY DEF Types
<1>2. Bookkeeping
  BY DEF Bookkeeping, UnsentFresh, QueuedFresh, QueuedOnce, AskedFresh, NewIdsOff, AnswersTrue
<1>3. OwnAnswer /\ NoCallStranded
  BY DEF OwnAnswer, NoCallStranded
<1> QED  BY <1>1, <1>2, <1>3 DEF SdkInv

-----------------------------------------------------------------------------
(* The owner's steps keep the invariant.                                   *)
LEMMA OwnerStep == SdkInv /\ Owner => SdkInv'
<1> SUFFICES ASSUME SdkInv, Owner PROVE SdkInv'  OBVIOUS
<1> USE SdkAssumption
    DEF SdkInv, Types, Bookkeeping, UnsentFresh, QueuedFresh, QueuedOnce, AskedFresh, NewIdsOff,
        AnswersTrue, OwnAnswer, NoCallStranded, Ids, Close, CallStates, Returned, Verdicts, server
<1>1. CASE Call
  BY <1>1 DEF Call
<1>2. ASSUME NEW i \in Ids, Submit(i) PROVE SdkInv'
  <2>1. CASE worker # "ended" /\ cmds' = Append(cmds, i) /\ call' = [call EXCEPT ![i] = "waiting"]
    <3>1. /\ cmds' \in Seq(Ids \cup {Close})
          /\ \A k \in DOMAIN cmds : k \in DOMAIN cmds' /\ cmds'[k] = cmds[k]
          /\ Len(cmds) + 1 \in DOMAIN cmds' /\ cmds'[Len(cmds) + 1] = i
          /\ \A k \in DOMAIN cmds' :
                \/ k \in DOMAIN cmds /\ cmds'[k] = cmds[k]
                \/ k = Len(cmds) + 1 /\ cmds'[k] = i
      BY <2>1, Appended
    <3>2. /\ call[i] = "sending" /\ call' \in [Ids -> CallStates]
          /\ call'[i] = "waiting" /\ \A j \in Ids : j # i => call'[j] = call[j]
          /\ UNCHANGED <<next_id, pending, asked, worker, verdict, wire, sent>>
      BY <1>2, <2>1 DEF Submit
    <3>3. Types'
      BY <3>1, <3>2
    <3>4. /\ verdict[i] = "none" /\ i \notin asked
          /\ \A k \in DOMAIN cmds : cmds[k] # i
      BY <3>2
    <3>5. UnsentFresh'
      <4> SUFFICES ASSUME NEW j \in Ids, call'[j] \in {"off", "sending"}
                   PROVE  /\ verdict[j] = "none" /\ j \notin asked
                          /\ \A k \in DOMAIN cmds' : cmds'[k] # j
        BY <3>2 DEF UnsentFresh
      <4>1. j # i /\ call[j] \in {"off", "sending"}
        BY <3>2
      <4>2. verdict[j] = "none" /\ j \notin asked /\ \A k \in DOMAIN cmds : cmds[k] # j
        BY <4>1
      <4> QED  BY <3>1, <4>1, <4>2
    <3>6. QueuedFresh' /\ QueuedOnce'
      <4>1. ASSUME NEW k \in DOMAIN cmds', cmds'[k] # Close
            PROVE  verdict[cmds'[k]] = "none" /\ cmds'[k] \notin asked
        <5>1. \A l \in DOMAIN cmds : cmds[l] # Close => verdict[cmds[l]] = "none" /\ cmds[l] \notin asked
          OBVIOUS
        <5> QED  BY ONLY <3>1, <3>4, <4>1, <5>1
      <4>2. ASSUME NEW j \in DOMAIN cmds', NEW k \in DOMAIN cmds',
                   cmds'[j] = cmds'[k], cmds'[j] # Close
            PROVE  j = k
        <5>1. \A l, m \in DOMAIN cmds : cmds[l] = cmds[m] /\ cmds[l] # Close => l = m
          OBVIOUS
        <5> QED  BY ONLY <3>1, <3>4, <4>2, <5>1
      <4> QED  BY <3>2, <4>1, <4>2 DEF QueuedFresh, QueuedOnce
    <3>7. AskedFresh' /\ NewIdsOff' /\ AnswersTrue' /\ OwnAnswer'
      BY <3>2
    <3>8. NoCallStranded'
      <4> SUFFICES ASSUME NEW j \in Ids, call'[j] = "waiting"
                   PROVE  worker' # "ended"
                          /\ (j \in pending' \/ \E k \in DOMAIN cmds' : cmds'[k] = j)
        BY DEF NoCallStranded
      <4>1. CASE j = i
        BY <2>1, <3>1, <3>2, <4>1
      <4>2. CASE j # i
        <5>1. call[j] = "waiting"
          BY <3>2, <4>2
        <5>2. worker # "ended" /\ (j \in pending \/ \E k \in DOMAIN cmds : cmds[k] = j)
          BY <5>1
        <5> QED  BY <3>1, <3>2, <5>2
      <4> QED  BY <4>1, <4>2
    <3> QED  BY <3>3, <3>5, <3>6, <3>7, <3>8
  <2>2. CASE worker = "ended" /\ call' = [call EXCEPT ![i] = "closed"] /\ UNCHANGED cmds
    BY <1>2, <2>2 DEF Submit
  <2> QED  BY <1>2, <2>1, <2>2 DEF Submit
<1>3. ASSUME NEW i \in Ids, TimeOut(i) PROVE SdkInv'
  <2>1. /\ call' \in [Ids -> CallStates] /\ call[i] = "waiting"
        /\ call'[i] = "timeout" /\ \A j \in Ids : j # i => call'[j] = call[j]
        /\ UNCHANGED <<next_id, cmds, pending, asked, worker, verdict, wire, sent>>
    BY <1>3 DEF TimeOut
  <2>2. Types' /\ UnsentFresh' /\ NewIdsOff'
    BY <2>1
  <2>3. QueuedFresh' /\ QueuedOnce' /\ AskedFresh' /\ AnswersTrue' /\ OwnAnswer'
    BY <2>1
  <2>4. NoCallStranded'
    BY <2>1
  <2> QED  BY <2>2, <2>3, <2>4
<1>4. CASE NextEvent
  BY <1>4 DEF NextEvent
<1>5. CASE BeginClose
  BY <1>5 DEF BeginClose
<1>6. CASE SendClose
  <2>1. CASE cmds' = Append(cmds, Close)
    <3>1. /\ cmds' \in Seq(Ids \cup {Close})
          /\ \A k \in DOMAIN cmds : k \in DOMAIN cmds' /\ cmds'[k] = cmds[k]
          /\ \A k \in DOMAIN cmds' :
                \/ k \in DOMAIN cmds /\ cmds'[k] = cmds[k]
                \/ k = Len(cmds) + 1 /\ cmds'[k] = Close
      BY <2>1, Appended
    <3> QED  BY <1>6, <2>1, <3>1 DEF SendClose
  <2>2. CASE UNCHANGED cmds
    BY <1>6, <2>2 DEF SendClose
  <2> QED  BY <1>6, <2>1, <2>2 DEF SendClose
<1>7. CASE Join
  BY <1>7 DEF Join
<1>8. CASE DropClient
  BY <1>8 DEF DropClient, InFlight
<1> QED  BY <1>1, <1>2, <1>3, <1>4, <1>5, <1>6, <1>7, <1>8 DEF Owner

-----------------------------------------------------------------------------
(* The end of the worker's loop answers everybody who waits.               *)
LEMMA EndAnswers ==
  ASSUME SdkInv, End, UNCHANGED <<next_id, asked, verdict, sent>>, wire' \in Seq(WireMessage), AnswersTrue'
  PROVE  SdkInv'
<1> USE SdkAssumption
    DEF SdkInv, Types, Bookkeeping, UnsentFresh, QueuedFresh, QueuedOnce, AskedFresh, NewIdsOff,
        OwnAnswer, NoCallStranded, Ids, Close, CallStates, Returned, Verdicts
<1>1. /\ worker' = "ended" /\ pending' = {} /\ cmds' = <<>>
      /\ call' \in [Ids -> CallStates]
      /\ \A i \in Ids : call'[i] = call[i] \/ (call[i] = "waiting" /\ call'[i] = "closed")
  BY DEF End
<1>2. \A i \in Ids : call'[i] # "waiting"
  <2> SUFFICES ASSUME NEW i \in Ids, call[i] = "waiting" PROVE call'[i] # "waiting"
    BY <1>1
  <2>1. i \in pending \/ \E k \in DOMAIN cmds : cmds[k] = i
    OBVIOUS
  <2>2. i \in Unanswered
    BY <2>1 DEF Unanswered, ToSet
  <2> QED  BY <2>2 DEF End
<1>3. Types'
  BY <1>1
<1>4. UnsentFresh' /\ QueuedFresh' /\ QueuedOnce' /\ AskedFresh' /\ NewIdsOff'
  BY <1>1
<1>5. OwnAnswer' /\ NoCallStranded'
  BY <1>1, <1>2
<1> QED  BY <1>3, <1>4, <1>5

(* The worker's steps keep the invariant.                                  *)
LEMMA WorkerInv == SdkInv /\ Worker => SdkInv'
<1> SUFFICES ASSUME SdkInv, Worker PROVE SdkInv'  OBVIOUS
<1> USE SdkAssumption
    DEF SdkInv, Types, Bookkeeping, UnsentFresh, QueuedFresh, QueuedOnce, AskedFresh, NewIdsOff,
        AnswersTrue, OwnAnswer, NoCallStranded, Ids, Close, CallStates, Returned, Verdicts,
        server, client
<1>1. CASE WorkerRequest
  <2> DEFINE i == Head(cmds)
  <2>1. /\ i = cmds[1] /\ 1 \in DOMAIN cmds /\ i \in Ids
        /\ cmds' \in Seq(Ids \cup {Close})
        /\ \A k \in DOMAIN cmds' : k + 1 \in DOMAIN cmds /\ k + 1 # 1 /\ cmds'[k] = cmds[k + 1]
        /\ \A k \in DOMAIN cmds : k = 1 \/ (k - 1 \in DOMAIN cmds' /\ cmds'[k - 1] = cmds[k])
    BY <1>1, HeadAndTail DEF WorkerRequest
  <2>2. /\ asked' = asked \cup {i} /\ pending' = pending \cup {i} /\ worker = "select"
        /\ UNCHANGED <<next_id, call, worker, verdict, wire, sent>>
    BY <1>1 DEF WorkerRequest
  <2> HIDE DEF i
  <2>3. verdict[i] = "none" /\ i \notin asked
    BY <2>1
  <2>4. call[i] \notin {"off", "sending"}
    BY <2>1
  <2>5. \A k \in DOMAIN cmds' : cmds'[k] # i
    BY <2>1
  <2>6. Types'
    <3>1. pending' \subseteq Ids /\ asked' \subseteq Ids
      BY ONLY SdkInv, <2>1, <2>2 DEF SdkInv, Types
    <3> QED  BY ONLY SdkInv, <2>1, <2>2, <3>1 DEF SdkInv, Types
  <2>7. UnsentFresh'
    BY <2>1, <2>2, <2>4
  <2>8. QueuedFresh' /\ AskedFresh' /\ NewIdsOff' /\ AnswersTrue' /\ OwnAnswer'
    BY <2>1, <2>2, <2>3, <2>5
  <2>9. QueuedOnce'
    <3> SUFFICES ASSUME NEW j \in DOMAIN cmds', NEW k \in DOMAIN cmds',
                        cmds'[j] = cmds'[k], cmds'[j] # Close
                 PROVE  j = k
      BY DEF QueuedOnce
    <3>1. j + 1 = k + 1
      BY <2>1
    <3> QED  BY <3>1, <2>1
  <2>10. NoCallStranded'
    <3> SUFFICES ASSUME NEW j \in Ids, call[j] = "waiting"
                 PROVE  j \in pending' \/ \E k \in DOMAIN cmds' : cmds'[k] = j
      BY <2>2 DEF NoCallStranded
    <3>1. j \in pending \/ \E k \in DOMAIN cmds : cmds[k] = j
      OBVIOUS
    <3>2. CASE j \in pending
      BY <2>2, <3>2
    <3>3. ASSUME NEW k \in DOMAIN cmds, cmds[k] = j
          PROVE  j \in pending' \/ \E l \in DOMAIN cmds' : cmds'[l] = j
      <4>1. CASE k = 1
        BY <2>1, <2>2, <3>3, <4>1
      <4>2. CASE k # 1
        <5>1. k - 1 \in DOMAIN cmds' /\ cmds'[k - 1] = j
          BY <2>1, <3>3, <4>2
        <5> QED  BY <5>1
      <4> QED  BY <4>1, <4>2
    <3> QED  BY <3>1, <3>2, <3>3
  <2> QED  BY <2>6, <2>7, <2>8, <2>9, <2>10
<1>2. CASE WorkerClose
  BY <1>2, EndAnswers DEF WorkerClose
<1>3. CASE WorkerWriteFails
  BY <1>3, EndAnswers DEF WorkerWriteFails
<1>4. wire # <<>> => /\ Head(wire) = wire[1] /\ 1 \in DOMAIN wire
                     /\ Tail(wire) \in Seq(WireMessage)
                     /\ \A k \in DOMAIN Tail(wire) :
                           k + 1 \in DOMAIN wire /\ Tail(wire)[k] = wire[k + 1]
  BY HeadAndTail
<1>5. CASE WorkerResponse
  <2> DEFINE i == Head(wire).n
  <2>1. /\ i \in Ids /\ Head(wire).verdict = verdict[i] /\ verdict[i] \in Verdicts
        /\ wire' \in Seq(WireMessage)
        /\ \A k \in DOMAIN wire' : k + 1 \in DOMAIN wire /\ wire'[k] = wire[k + 1]
    BY <1>4, <1>5 DEF WorkerResponse
  <2>2. /\ pending' = pending \ {i} /\ call' \in [Ids -> CallStates]
        /\ \A j \in Ids : \/ call'[j] = call[j]
                          \/ j = i /\ call[j] = "waiting" /\ call'[j] = verdict[j]
        /\ i \in pending /\ call[i] = "waiting" => call'[i] = verdict[i]
        /\ UNCHANGED <<next_id, cmds, asked, worker, verdict, sent>>
    <3>1. /\ pending' = pending \ {i}
          /\ call' = IF i \in pending /\ call[i] = "waiting"
                     THEN [call EXCEPT ![i] = verdict[i]] ELSE call
          /\ UNCHANGED <<next_id, cmds, asked, worker, verdict, sent>>
      BY <1>5, <2>1 DEF WorkerResponse, Addressee
    <3> HIDE DEF i
    <3>2. call \in [Ids -> CallStates] /\ verdict[i] \in CallStates /\ i \in Ids
      BY <2>1
    <3> QED  BY ONLY <3>1, <3>2
  <2>3. Types'
    BY <2>1, <2>2
  <2>4. AnswersTrue'
    BY <2>1, <2>2
  <2>5. UnsentFresh' /\ QueuedFresh' /\ QueuedOnce' /\ AskedFresh' /\ NewIdsOff' /\ OwnAnswer'
    BY <2>1, <2>2
  <2>6. NoCallStranded'
    BY <2>1, <2>2
  <2> QED  BY <2>3, <2>4, <2>5, <2>6
<1>6. CASE WorkerEvent
  <2>1. AnswersTrue' /\ wire' \in Seq(WireMessage)
    BY <1>4, <1>6 DEF WorkerEvent
  <2> QED  BY <1>6, <2>1 DEF WorkerEvent
<1>7. CASE WorkerForward
  BY <1>7 DEF WorkerForward
<1>8. CASE WorkerReadFails
  <2>1. AnswersTrue' /\ wire' \in Seq(WireMessage)
    BY <1>4, <1>8 DEF WorkerReadFails
  <2> QED  BY <1>8, <2>1, EndAnswers DEF WorkerReadFails
<1> QED  BY <1>1, <1>2, <1>3, <1>5, <1>6, <1>7, <1>8 DEF Worker

(* The server's steps keep the invariant.                                  *)
LEMMA ServerInv == SdkInv /\ Server => SdkInv'
<1> SUFFICES ASSUME SdkInv, Server PROVE SdkInv'  OBVIOUS
<1> USE SdkAssumption
    DEF SdkInv, Types, Bookkeeping, UnsentFresh, QueuedFresh, QueuedOnce, AskedFresh, NewIdsOff,
        AnswersTrue, OwnAnswer, NoCallStranded, Ids, CallStates, Returned, Verdicts, client
<1>1. ASSUME NEW i \in Ids, NEW v \in Verdicts, ServerAnswers(i, v) PROVE SdkInv'
  <2>1. Response(i, v) \in WireMessage
    BY DEF Response, WireMessage
  <2>2. /\ wire' \in Seq(WireMessage)
        /\ \A k \in DOMAIN wire' :
              \/ k \in DOMAIN wire /\ wire'[k] = wire[k]
              \/ wire'[k] = Response(i, v)
    BY <1>1, <2>1, Appended DEF ServerAnswers
  <2>3. /\ verdict[i] = "none" /\ i \in asked /\ asked' = asked \ {i}
        /\ verdict' \in [Ids -> Verdicts \cup {"none"}] /\ verdict'[i] = v
        /\ \A j \in Ids : j # i => verdict'[j] = verdict[j]
        /\ UNCHANGED <<next_id, call, cmds, pending, worker, sent>>
    BY <1>1 DEF ServerAnswers
  <2>4. AnswersTrue'
    BY <2>2, <2>3 DEF Response
  <2>5. UnsentFresh' /\ AskedFresh' /\ NewIdsOff' /\ OwnAnswer' /\ NoCallStranded'
    BY <2>3
  <2>6. QueuedFresh' /\ QueuedOnce'
    BY <2>3
  <2>7. Types'
    BY <2>2, <2>3
  <2> QED  BY <2>4, <2>5, <2>6, <2>7
<1>2. CASE ServerSends
  <2>1. Event(sent + 1) \in WireMessage
    BY DEF Event, WireMessage
  <2>2. /\ wire' \in Seq(WireMessage)
        /\ \A k \in DOMAIN wire' :
              \/ k \in DOMAIN wire /\ wire'[k] = wire[k]
              \/ wire'[k] = Event(sent + 1)
    BY <1>2, <2>1, Appended DEF ServerSends
  <2>3. AnswersTrue'
    BY <1>2, <2>2 DEF ServerSends, Event
  <2> QED  BY <1>2, <2>2, <2>3 DEF ServerSends
<1>3. CASE SocketFails
  <2>1. Failure \in WireMessage
    BY DEF Failure, WireMessage
  <2>2. /\ wire' \in Seq(WireMessage)
        /\ \A k \in DOMAIN wire' :
              \/ k \in DOMAIN wire /\ wire'[k] = wire[k]
              \/ wire'[k] = Failure
    BY <1>3, <2>1, Appended DEF SocketFails
  <2>3. AnswersTrue'
    BY <1>3, <2>2 DEF SocketFails, Failure
  <2> QED  BY <1>3, <2>2, <2>3 DEF SocketFails
<1> QED  BY <1>1, <1>2, <1>3 DEF Server

(* Every step keeps the invariant.                                         *)
LEMMA SdkStep == SdkInv /\ [Next]_vars => SdkInv'
<1>1. SdkInv /\ UNCHANGED vars => SdkInv'
  BY DEF vars, SdkInv, Types, Bookkeeping, UnsentFresh, QueuedFresh, QueuedOnce, AskedFresh,
         NewIdsOff, AnswersTrue, OwnAnswer, NoCallStranded
<1> QED  BY <1>1, OwnerStep, WorkerInv, ServerInv DEF Next

(* The invariant holds in every reachable state.                           *)
LEMMA SdkAlways == Spec => []SdkInv
BY SdkInit, SdkStep, PTL DEF Spec

-----------------------------------------------------------------------------
(* A request returns the server's answer to that request and to no other,  *)
(* whatever was answered late, timed out or overtaken before               *)
(* (handle_text_message).                                                  *)
THEOREM AnswersReachTheirRequest == Spec => []OwnAnswer
<1>1. SdkInv => OwnAnswer
  BY DEF SdkInv
<1> QED  BY <1>1, SdkAlways, PTL

(* However the connection ends, no request is left waiting for an answer   *)
(* that cannot come (connection_worker).                                   *)
THEOREM NoCallIsStranded == Spec => []NoCallStranded
<1>1. SdkInv => NoCallStranded
  BY DEF SdkInv
<1> QED  BY <1>1, SdkAlways, PTL
-----------------------------------------------------------------------------
(* EventsWhole, position by position.                                      *)

(* The number of events that have left the wire and are not lost.          *)
Count == Len(got) + Len(events) + (IF worker = "forward" THEN 1 ELSE 0)

InOrder ==
    \A j, k \in DOMAIN wire :
        j < k /\ IsEvent(wire[j]) /\ IsEvent(wire[k]) => wire[j].n < wire[k].n

EventsInv ==
    /\ got \in Seq(Nat) /\ events \in Seq(Nat) /\ held \in Nat
    /\ \A k \in DOMAIN got : got[k] = k
    /\ \A k \in DOMAIN events : events[k] = Len(got) + k
    /\ held = IF worker = "forward" THEN Count ELSE 0
    /\ Count <= sent
    /\ InOrder
    /\ \A k \in DOMAIN wire : IsEvent(wire[k]) => wire[k].n <= sent
    /\ worker # "ended" => Unread = (Count + 1)..sent

(* Messages are numbered by naturals.                                      *)
LEMMA WireNumbers ==
  ASSUME wire \in Seq(WireMessage)
  PROVE  \A k \in DOMAIN wire : wire[k].n \in Nat
<1>1. \A k \in DOMAIN wire : wire[k] \in WireMessage
  OBVIOUS
<1>2. \A m \in WireMessage : m.n \in Nat
  BY DEF WireMessage
<1> QED  BY <1>1, <1>2

(* Initially nothing has been sent.                                        *)
LEMMA EventsInit == Init => EventsInv
BY DEF Init, EventsInv, Count, InOrder, Unread

(* Reading the first message of the wire leaves the others in order, and   *)
(* takes its number from those unread if it is an event.                   *)
LEMMA WireRead ==
  ASSUME wire \in Seq(WireMessage), wire # <<>>, wire' = Tail(wire), sent' = sent, InOrder,
         \A k \in DOMAIN wire : IsEvent(wire[k]) => wire[k].n <= sent
  PROVE  /\ InOrder'
         /\ \A k \in DOMAIN wire' : IsEvent(wire'[k]) => wire'[k].n <= sent
         /\ ~IsEvent(Head(wire)) => Unread' = Unread
         /\ IsEvent(Head(wire)) => /\ Head(wire).n \in Unread
                                   /\ \A n \in Unread : Head(wire).n <= n
                                   /\ Unread' = Unread \ {Head(wire).n}
<1>1. /\ Head(wire) = wire[1] /\ 1 \in DOMAIN wire
      /\ \A k \in DOMAIN wire' : k + 1 \in DOMAIN wire /\ k + 1 > 1 /\ wire'[k] = wire[k + 1]
      /\ \A k \in DOMAIN wire : k = 1 \/ (k > 1 /\ k - 1 \in DOMAIN wire' /\ wire'[k - 1] = wire[k])
      /\ \A j, k \in DOMAIN wire' : j < k => j + 1 < k + 1
  OBVIOUS
<1>2. InOrder' /\ \A k \in DOMAIN wire' : IsEvent(wire'[k]) => wire'[k].n <= sent
  BY <1>1 DEF InOrder
<1>3. \A n : n \in Unread' => \E k \in DOMAIN wire : k > 1 /\ IsEvent(wire[k]) /\ wire[k].n = n
  BY <1>1 DEF Unread
<1>4. \A k \in DOMAIN wire : k > 1 /\ IsEvent(wire[k]) => wire[k].n \in Unread'
  BY <1>1 DEF Unread
<1>5. Unread' \subseteq Unread
  BY <1>3 DEF Unread
<1>6. CASE ~IsEvent(Head(wire))
  <2>1. Unread \subseteq Unread'
    BY <1>1, <1>4, <1>6 DEF Unread
  <2> QED  BY <1>2, <1>5, <1>6, <2>1
<1>7. CASE IsEvent(Head(wire))
  <2>1. Head(wire).n \in Unread
    BY <1>1, <1>7 DEF Unread
  <2>2. \A k \in DOMAIN wire : wire[k].n \in Nat
    BY WireNumbers
  <2>3. \A k \in DOMAIN wire : k > 1 /\ IsEvent(wire[k]) => Head(wire).n < wire[k].n
    BY <1>1, <1>7 DEF InOrder
  <2>4. \A n \in Unread : n = Head(wire).n \/ (n \in Unread' /\ Head(wire).n < n)
    BY <1>1, <1>4, <2>3 DEF Unread
  <2>5. Head(wire).n \notin Unread'
    <3>1. \A k \in DOMAIN wire : k > 1 /\ IsEvent(wire[k]) => wire[k].n # Head(wire).n
      BY <1>1, <2>2, <2>3
    <3> QED  BY <1>3, <3>1
  <2>6. \A n \in Unread : Head(wire).n <= n
    <3>1. Head(wire).n \in Nat /\ \A n \in Unread : n \in Nat
      BY <1>1, <2>2 DEF Unread
    <3> QED  BY <2>4, <3>1
  <2> QED  BY <1>2, <1>5, <1>7, <2>1, <2>4, <2>5, <2>6
<1> QED  BY <1>6, <1>7

(* What the server writes comes last.                                      *)
LEMMA WireWritten ==
  ASSUME wire \in Seq(WireMessage), NEW m \in WireMessage, wire' = Append(wire, m), InOrder,
         sent \in Nat, sent' \in Nat, sent <= sent',
         \A k \in DOMAIN wire : IsEvent(wire[k]) => wire[k].n <= sent,
         IsEvent(m) => m.n = sent' /\ sent' = sent + 1
  PROVE  /\ InOrder'
         /\ \A k \in DOMAIN wire' : IsEvent(wire'[k]) => wire'[k].n <= sent'
         /\ Unread' = IF IsEvent(m) THEN Unread \cup {m.n} ELSE Unread
<1>1. /\ Len(wire) \in Nat
      /\ \A k \in DOMAIN wire : k \in DOMAIN wire' /\ wire'[k] = wire[k] /\ k < Len(wire) + 1
      /\ Len(wire) + 1 \in DOMAIN wire' /\ wire'[Len(wire) + 1] = m
      /\ \A k \in DOMAIN wire' :
            \/ k \in DOMAIN wire /\ wire'[k] = wire[k]
            \/ k = Len(wire) + 1 /\ wire'[k] = m
  BY Appended
<1>2. \A k \in DOMAIN wire : wire[k].n \in Nat
  BY WireNumbers
<1>3. \A k \in DOMAIN wire' : IsEvent(wire'[k]) => wire'[k].n <= sent'
  BY <1>1, <1>2
<1>4. InOrder'
  <2> SUFFICES ASSUME NEW j \in DOMAIN wire', NEW k \in DOMAIN wire', j < k,
                      IsEvent(wire'[j]), IsEvent(wire'[k])
               PROVE  wire'[j].n < wire'[k].n
    BY DEF InOrder
  <2>1. j \in DOMAIN wire /\ wire'[j] = wire[j]
    BY <1>1
  <2>2. CASE k \in DOMAIN wire /\ wire'[k] = wire[k]
    BY <2>1, <2>2 DEF InOrder
  <2>3. CASE wire'[k] = m
    BY <1>2, <2>1, <2>3
  <2> QED  BY <1>1, <2>2, <2>3
<1>5. Unread' = IF IsEvent(m) THEN Unread \cup {m.n} ELSE Unread
  <2>1. \A n : n \in Unread' <=> n \in Unread \/ (IsEvent(m) /\ n = m.n)
    BY <1>1 DEF Unread
  <2> QED  BY <2>1
<1> QED  BY <1>3, <1>4, <1>5

(* Every step keeps the events whole.                                      *)
LEMMA EventsStep == SdkInv /\ EventsInv /\ [Next]_vars => EventsInv'
<1> SUFFICES ASSUME SdkInv, EventsInv, [Next]_vars PROVE EventsInv'
  OBVIOUS
<1>t. /\ wire \in Seq(WireMessage) /\ sent \in Nat
      /\ worker \in {"select", "forward", "ended"}
  BY DEF SdkInv, Types
<1>s. ASSUME UNCHANGED <<got, events, held, wire, sent>>, worker' = worker \/ worker # "forward",
             worker' = worker \/ worker' = "ended"
      PROVE  EventsInv'
  BY <1>t, <1>s DEF EventsInv, Count, InOrder, Unread
<1>q. ASSUME UNCHANGED <<got, events, held, worker, sent>>, InOrder', Unread' = Unread,
             \A k \in DOMAIN wire' : IsEvent(wire'[k]) => wire'[k].n <= sent'
      PROVE  EventsInv'
  <2>1. Count' = Count
    BY <1>q DEF Count
  <2> QED
    BY <1>q, <2>1 DEF EventsInv
<1>1. CASE Call \/ BeginClose \/ SendClose \/ Join \/ \E i \in Ids : Submit(i) \/ TimeOut(i)
  BY <1>1, <1>s DEF Call, BeginClose, SendClose, Join, Submit, TimeOut, server
<1>2. CASE WorkerRequest \/ WorkerClose \/ WorkerWriteFails \/ UNCHANGED vars
  BY <1>2, <1>s DEF WorkerRequest, WorkerClose, WorkerWriteFails, End, server, client, vars
<1>3. CASE NextEvent
  <2>1. /\ events \in Seq(Nat) /\ events # <<>> /\ Head(events) = Len(got) + 1
        /\ Tail(events) \in Seq(Nat) /\ Len(Tail(events)) = Len(events) - 1
        /\ \A k \in DOMAIN Tail(events) : Tail(events)[k] = Len(got) + 1 + k
    <3>1. events \in Seq(Nat) /\ events # <<>> /\ \A k \in DOMAIN events : events[k] = Len(got) + k
      BY <1>3 DEF NextEvent, EventsInv
    <3>2. got \in Seq(Nat)
      BY DEF EventsInv
    <3> QED  BY ONLY <3>1, <3>2
  <2>2. /\ got' = Append(got, Head(events)) /\ events' = Tail(events)
        /\ UNCHANGED <<worker, held, wire, sent>>
    BY <1>3 DEF NextEvent, server
  <2>3. /\ got' \in Seq(Nat) /\ Len(got') = Len(got) + 1 /\ \A k \in DOMAIN got' : got'[k] = k
    BY <2>1, <2>2 DEF EventsInv
  <2>4. Count' = Count
    BY <2>1, <2>2, <2>3 DEF Count, EventsInv
  <2> QED
    BY <2>1, <2>2, <2>3, <2>4 DEF EventsInv, InOrder, Unread
<1>4. CASE DropClient
  BY <1>4, <1>t DEF DropClient, EventsInv, Count, InOrder, Unread, server
<1>5. CASE WorkerForward
  <2>1. /\ events' = Append(events, held) /\ worker = "forward" /\ worker' = "select" /\ held' = 0
        /\ UNCHANGED <<got, wire, sent>>
    BY <1>5 DEF WorkerForward, server, client
  <2>2. /\ events \in Seq(Nat) /\ held \in Nat /\ got \in Seq(Nat) /\ held = Len(got) + Len(events) + 1
    BY <2>1 DEF EventsInv, Count
  <2>3. /\ events' \in Seq(Nat) /\ Len(events') = Len(events) + 1
        /\ \A k \in DOMAIN events' : events'[k] = Len(got) + k
    BY <2>1, <2>2 DEF EventsInv
  <2>4. Count' = Count
    BY <2>1, <2>2, <2>3 DEF Count
  <2> QED
    BY <2>1, <2>2, <2>3, <2>4 DEF EventsInv, InOrder, Unread
<1>6. CASE WorkerEvent
  <2>1. /\ worker = "select" /\ worker' = "forward" /\ wire # <<>> /\ IsEvent(Head(wire))
        /\ held' = Head(wire).n /\ wire' = Tail(wire) /\ UNCHANGED <<got, events, sent>>
    BY <1>6 DEF WorkerEvent, IsEvent, client
  <2>2. /\ Head(wire).n \in Unread /\ \A n \in Unread : Head(wire).n <= n
        /\ Unread' = Unread \ {Head(wire).n}
        /\ InOrder' /\ \A k \in DOMAIN wire' : IsEvent(wire'[k]) => wire'[k].n <= sent
    BY <1>t, <2>1, WireRead DEF EventsInv
  <2>3. Count \in Nat /\ Unread = (Count + 1)..sent /\ Count' = Count + 1
    BY <1>t, <2>1 DEF EventsInv, Count
  <2>4. Head(wire).n = Count + 1 /\ Count + 1 <= sent
    BY <1>t, <2>2, <2>3
  <2>5. Unread' = (Count' + 1)..sent
    BY <1>t, <2>2, <2>3, <2>4
  <2> QED
    BY <1>t, <2>1, <2>2, <2>3, <2>4, <2>5 DEF EventsInv
<1>7. CASE WorkerResponse
  <2>1. /\ wire # <<>> /\ ~IsEvent(Head(wire)) /\ wire' = Tail(wire)
        /\ UNCHANGED <<got, events, held, worker, sent>>
    BY <1>7 DEF WorkerResponse, IsEvent
  <2>2. /\ InOrder' /\ Unread' = Unread
        /\ \A k \in DOMAIN wire' : IsEvent(wire'[k]) => wire'[k].n <= sent
    BY <1>t, <2>1, WireRead DEF EventsInv
  <2> QED
    BY <1>q, <2>1, <2>2
<1>8. CASE WorkerReadFails
  <2>1. /\ wire # <<>> /\ ~IsEvent(Head(wire)) /\ wire' = Tail(wire)
        /\ worker = "select" /\ worker' = "ended"
        /\ UNCHANGED <<got, events, held, sent>>
    BY <1>8 DEF WorkerReadFails, IsEvent, End
  <2> QED
    BY <1>t, <2>1, WireRead DEF EventsInv, Count
<1>9. ASSUME NEW i \in Ids, NEW v \in Verdicts, ServerAnswers(i, v) PROVE EventsInv'
  <2>1. /\ wire' = Append(wire, Response(i, v)) /\ Response(i, v) \in WireMessage
        /\ ~IsEvent(Response(i, v)) /\ UNCHANGED <<got, events, held, worker, sent>>
    BY <1>9, SdkAssumption DEF ServerAnswers, Response, IsEvent, WireMessage, client, Ids
  <2>2. /\ InOrder' /\ Unread' = Unread
        /\ \A k \in DOMAIN wire' : IsEvent(wire'[k]) => wire'[k].n <= sent'
    <3>1. InOrder /\ \A k \in DOMAIN wire : IsEvent(wire[k]) => wire[k].n <= sent
      BY DEF EventsInv
    <3>2. sent' \in Nat /\ sent <= sent'
      BY <1>t, <2>1
    <3> QED  BY ONLY <1>t, <2>1, <3>1, <3>2, WireWritten
  <2> QED
    BY <1>q, <2>1, <2>2
<1>10. CASE SocketFails
  <2>1. /\ wire' = Append(wire, Failure) /\ Failure \in WireMessage
        /\ ~IsEvent(Failure) /\ UNCHANGED <<got, events, held, worker, sent>>
    BY <1>10 DEF SocketFails, Failure, IsEvent, WireMessage, client
  <2>2. /\ InOrder' /\ Unread' = Unread
        /\ \A k \in DOMAIN wire' : IsEvent(wire'[k]) => wire'[k].n <= sent'
    <3>1. InOrder /\ \A k \in DOMAIN wire : IsEvent(wire[k]) => wire[k].n <= sent
      BY DEF EventsInv
    <3>2. sent' \in Nat /\ sent <= sent'
      BY <1>t, <2>1
    <3> QED  BY ONLY <1>t, <2>1, <3>1, <3>2, WireWritten
  <2> QED
    BY <1>q, <2>1, <2>2
<1>11. CASE ServerSends
  <2>1. /\ wire' = Append(wire, Event(sent')) /\ sent' = sent + 1 /\ Event(sent') \in WireMessage
        /\ IsEvent(Event(sent')) /\ Event(sent').n = sent'
        /\ UNCHANGED <<got, events, held, worker>>
    BY <1>t, <1>11 DEF ServerSends, Event, IsEvent, WireMessage, client
  <2>2. /\ InOrder' /\ \A k \in DOMAIN wire' : IsEvent(wire'[k]) => wire'[k].n <= sent'
        /\ Unread' = Unread \cup {sent'}
    <3>1. /\ InOrder /\ \A k \in DOMAIN wire : IsEvent(wire[k]) => wire[k].n <= sent
          /\ sent' \in Nat /\ sent <= sent'
      BY <1>t, <2>1 DEF EventsInv
    <3> DEFINE m == Event(sent')
    <3>2. /\ m \in WireMessage /\ wire' = Append(wire, m) /\ IsEvent(m) /\ m.n = sent'
      BY <2>1
    <3> HIDE DEF m
    <3>3. /\ InOrder' /\ \A k \in DOMAIN wire' : IsEvent(wire'[k]) => wire'[k].n <= sent'
          /\ Unread' = Unread \cup {m.n}
      BY <1>t, <2>1, <3>1, <3>2, WireWritten
    <3> QED  BY <3>2, <3>3
  <2>3. Count \in Nat /\ Count' = Count /\ Count <= sent
    BY <2>1 DEF EventsInv, Count
  <2>4. Unread = (Count + 1)..sent => Unread' = (Count + 1)..sent'
    BY <1>t, <2>1, <2>2, <2>3
  <2> QED
    <3>1. worker' # "ended" => Unread' = (Count' + 1)..sent'
      <4>1. worker # "ended" => Unread = (Count + 1)..sent
        BY DEF EventsInv
      <4>2. worker' = worker /\ Count' = Count
        BY <2>1, <2>3
      <4> QED
        BY ONLY <2>4, <4>1, <4>2
    <3>2. Count' <= sent'
      BY <1>t, <2>1, <2>3
    <3>3. /\ got' \in Seq(Nat) /\ events' \in Seq(Nat) /\ held' \in Nat
          /\ \A k \in DOMAIN got' : got'[k] = k
          /\ \A k \in DOMAIN events' : events'[k] = Len(got') + k
          /\ held' = IF worker' = "forward" THEN Count' ELSE 0
      BY <2>1, <2>3 DEF EventsInv
    <3> QED
      BY ONLY <2>2, <3>1, <3>2, <3>3 DEF EventsInv
<1> QED
  BY <1>1, <1>2, <1>3, <1>4, <1>5, <1>6, <1>7, <1>8, <1>9, <1>10, <1>11
     DEF Next, Owner, Worker, Server

(* The events are in order in every reachable state.                       *)
LEMMA EventsAlways == Spec => []EventsInv
BY EventsInit, EventsStep, SdkAlways, PTL DEF Spec

(* Numbers in order, followed by the next ones, are numbers in order.      *)
LEMMA Concatenated ==
  ASSUME NEW s \in Seq(Nat), NEW t \in Seq(Nat),
         \A k \in DOMAIN s : s[k] = k, \A k \in DOMAIN t : t[k] = Len(s) + k
  PROVE  /\ s \o t \in Seq(Nat) /\ Len(s \o t) = Len(s) + Len(t)
         /\ \A k \in DOMAIN (s \o t) : (s \o t)[k] = k
<1>1. s \o t \in Seq(Nat) /\ Len(s \o t) = Len(s) + Len(t)
  OBVIOUS
<1>2. ASSUME NEW k \in DOMAIN (s \o t) PROVE (s \o t)[k] = k
  <2>1. k \in 1..(Len(s) + Len(t)) /\ Len(s) \in Nat /\ Len(t) \in Nat
    BY <1>1
  <2>2. CASE k <= Len(s)
    <3>1. k \in DOMAIN s /\ (s \o t)[k] = s[k]
      BY <2>1, <2>2
    <3> QED  BY <3>1
  <2>3. CASE k > Len(s)
    <3>1. k - Len(s) \in DOMAIN t /\ (s \o t)[k] = t[k - Len(s)]
      BY <2>1, <2>3
    <3> QED  BY <2>1, <3>1
  <2> QED  BY <2>1, <2>2, <2>3
<1> QED  BY <1>1, <1>2

(* No event is lost, repeated or reordered between the socket and          *)
(* next_event, whatever responses come between and however full the        *)
(* channel is (connection_worker, next_event).                             *)
THEOREM EventsStayWhole == Spec => []EventsWhole
<1>1. SdkInv /\ EventsInv => EventsWhole
  <2> SUFFICES ASSUME SdkInv, EventsInv PROVE EventsWhole
    OBVIOUS
  <2> DEFINE prefix == got \o events
             rest   == IF worker = "forward" THEN <<held>> ELSE <<>>
  <2>1. prefix \in Seq(Nat) /\ Len(prefix) = Len(got) + Len(events)
        /\ \A k \in DOMAIN prefix : prefix[k] = k
    BY Concatenated DEF EventsInv
  <2>2. /\ rest \in Seq(Nat) /\ Len(rest) = IF worker = "forward" THEN 1 ELSE 0
        /\ \A k \in DOMAIN rest : rest[k] = Len(got) + Len(events) + k
    BY DEF EventsInv, Count
  <2>3. Taken = prefix \o rest /\ Count = Len(prefix) + Len(rest)
    BY <2>1, <2>2 DEF Taken, Count
  <2> HIDE DEF prefix, rest
  <2>4. Len(Taken) = Count /\ \A k \in DOMAIN Taken : Taken[k] = k
    BY <2>1, <2>2, <2>3, Concatenated
  <2> QED  BY <2>4 DEF EventsInv, EventsWhole, InOrder
<1> QED  BY <1>1, SdkAlways, EventsAlways, PTL

(* The channels keep their bounds, and every other variable its type.      *)
Bounds ==
    /\ next_id \in 1..(MaxId + 1)
    /\ Len(cmds) <= CommandBuffer /\ Len(events) <= EventBuffer
    /\ owner \in {"open", "closing", "joining", "closed", "dropped"}
    /\ socket \in {"up", "failed"}
    /\ sent \in 0..MaxEvents

(* Every step keeps the bounds.                                            *)
LEMMA BoundsStep == SdkInv /\ EventsInv /\ Bounds /\ [Next]_vars => Bounds'
<1> SUFFICES ASSUME SdkInv, EventsInv, Bounds, [Next]_vars PROVE Bounds'
  OBVIOUS
<1> USE SdkAssumption DEF Bounds
<1>t. cmds \in Seq(Ids \cup {Close}) /\ events \in Seq(Nat) /\ held \in Nat
  BY DEF SdkInv, Types, EventsInv
<1>1. CASE Owner
  <2>1. CASE Call
    BY <2>1 DEF Call, server
  <2>2. ASSUME NEW i \in Ids, Submit(i) PROVE Bounds'
    BY <1>t, <2>2 DEF Submit, server
  <2>3. ASSUME NEW i \in Ids, TimeOut(i) PROVE Bounds'
    BY <2>3 DEF TimeOut, server
  <2>4. CASE NextEvent
    BY <1>t, <2>4 DEF NextEvent, server
  <2>5. CASE SendClose
    BY <1>t, <2>5 DEF SendClose, server
  <2>6. CASE BeginClose \/ Join
    BY <2>6 DEF BeginClose, Join, server
  <2>7. CASE DropClient
    BY <2>7 DEF DropClient, server
  <2> QED
    BY <1>1, <2>1, <2>2, <2>3, <2>4, <2>5, <2>6, <2>7 DEF Owner
<1>2. CASE Worker
  BY <1>2, <1>t DEF Worker, WorkerRequest, WorkerClose, WorkerWriteFails, WorkerResponse, WorkerEvent,
     WorkerForward, WorkerReadFails, End, server, client
<1>3. CASE Server
  BY <1>3 DEF Server, ServerSends, SocketFails, ServerAnswers, client
<1>4. CASE UNCHANGED vars
  BY <1>4 DEF vars
<1> QED  BY <1>1, <1>2, <1>3, <1>4 DEF Next

(* Every variable keeps its type, and no channel exceeds its capacity: the *)
(* worker and the callers wait for room.                                   *)
THEOREM TypeCorrect == Spec => []TypeOK
<1>1. Init => Bounds
  BY SdkAssumption DEF Init, Bounds
<1>2. SdkInv /\ EventsInv /\ Bounds => TypeOK
  <2> SUFFICES ASSUME SdkInv, EventsInv, Bounds PROVE TypeOK
    OBVIOUS
  <2>1. got \in Seq(1..MaxEvents) /\ events \in Seq(1..MaxEvents)
    <3>1. /\ got \in Seq(Nat) /\ events \in Seq(Nat) /\ Len(got) + Len(events) <= MaxEvents
      BY SdkAssumption DEF EventsInv, Bounds, Count
    <3>2. \A k \in DOMAIN got : got[k] \in 1..MaxEvents
      <4>1. \A k \in DOMAIN got : got[k] = k
        BY DEF EventsInv
      <4> QED  BY ONLY <3>1, <4>1, SdkAssumption
    <3>4. \A k \in DOMAIN events : events[k] \in 1..MaxEvents
      <4>1. \A k \in DOMAIN events : events[k] = Len(got) + k
        BY DEF EventsInv
      <4> QED  BY ONLY <3>1, <4>1, SdkAssumption
    <3>3. ASSUME NEW q \in Seq(Nat), \A k \in DOMAIN q : q[k] \in 1..MaxEvents
          PROVE  q \in Seq(1..MaxEvents)
      <4> DEFINE n == Len(q)
      <4>1. n \in Nat /\ q \in [1..n -> Nat] /\ \A k \in 1..n : q[k] \in 1..MaxEvents
        BY <3>3
      <4> HIDE DEF n
      <4>2. q \in [1..n -> 1..MaxEvents]
        BY <4>1, Zenon
      <4>3. q \in UNION {[1..m -> 1..MaxEvents] : m \in Nat}
        BY <4>1, <4>2, Zenon
      <4> QED  BY <4>3, SeqDef, Zenon
    <3> QED  BY <3>1, <3>2, <3>3, <3>4
  <2>2. held \in 0..MaxEvents
    <3>1. held \in Nat /\ held <= sent /\ sent \in 0..MaxEvents /\ MaxEvents \in Nat
      BY SdkAssumption DEF EventsInv, Bounds, Count
    <3> QED  BY <3>1
  <2> QED
    BY <2>1, <2>2 DEF TypeOK, SdkInv, Types, Bounds, CallStates, WireMessage
<1> QED  BY <1>1, <1>2, BoundsStep, SdkAlways, EventsAlways, PTL DEF Spec

-----------------------------------------------------------------------------
(* Refinement: each step of the client is a step of RequestReply, or none. *)

CallerStep == Caller!Next \/ UNCHANGED <<CallOfCaller, verdict>>

(* A step that changes no call and no verdict is a stutter.                *)
LEMMA SameCalls ==
  ASSUME call' = call, verdict' = verdict
  PROVE  CallerStep
BY DEF CallerStep, CallOfCaller

(* One call moves.                                                         *)
LEMMA CallMoves ==
  ASSUME call \in [Ids -> CallStates], NEW i \in Ids, NEW v,
         call' = [call EXCEPT ![i] = v]
  PROVE  CallOfCaller' = [CallOfCaller EXCEPT ![i] = AsCallerSees(v)]
<1>1. \A j \in Ids : call'[j] = IF j = i THEN v ELSE call[j]
  OBVIOUS
<1>2. CallOfCaller' = [j \in Ids |-> AsCallerSees(IF j = i THEN v ELSE call[j])]
  BY <1>1 DEF CallOfCaller
<1> QED  BY <1>2 DEF CallOfCaller

(* The end of the loop gives up every call that waits.                     *)
LEMMA EndGivesUp ==
  ASSUME call \in [Ids -> CallStates], End, verdict' = verdict
  PROVE  CallerStep
<1> DEFINE S == {i \in Unanswered \cap Ids : call[i] = "waiting"}
<1>1. call' = [i \in Ids |-> IF i \in S THEN "closed" ELSE call[i]]
  BY DEF End
<1>2. \A i \in Ids : CallOfCaller'[i] = IF i \in S THEN "failed" ELSE CallOfCaller[i]
  <2> SUFFICES ASSUME NEW i \in Ids
               PROVE  CallOfCaller'[i] = IF i \in S THEN "failed" ELSE CallOfCaller[i]
    OBVIOUS
  <2>1. call'[i] = IF i \in S THEN "closed" ELSE call[i]
    BY <1>1
  <2> QED  BY <2>1 DEF CallOfCaller, AsCallerSees
<1>3. CallOfCaller' = [i \in Ids |-> IF i \in S THEN "failed" ELSE CallOfCaller[i]]
  BY <1>2 DEF CallOfCaller, AsCallerSees
<1>4. \A i \in S : CallOfCaller[i] = "asked"
  BY DEF CallOfCaller, AsCallerSees
<1>5. Caller!GiveUp(S)
  BY <1>3, <1>4 DEF Caller!GiveUp
<1>6. S \in SUBSET Ids
  OBVIOUS
<1> QED  BY <1>5, <1>6 DEF CallerStep, Caller!Next

(* Every step of the client is one of RequestReply or a stutter.           *)
LEMMA ClientRefines == SdkInv /\ [Next]_vars => CallerStep
<1> SUFFICES ASSUME SdkInv, [Next]_vars PROVE CallerStep  OBVIOUS
<1>t. call \in [Ids -> CallStates] /\ verdict \in [Ids -> Verdicts \cup {"none"}]
  BY DEF SdkInv, Types
<1>1. CASE Call
  <2>1. next_id \in Ids /\ call[next_id] = "off"
    BY <1>1, SdkAssumption DEF Call, SdkInv, Types, Bookkeeping, NewIdsOff, Ids
  <2>2. CallOfCaller' = [CallOfCaller EXCEPT ![next_id] = "asked"]
    BY <1>1, <1>t, <2>1, CallMoves DEF Call, AsCallerSees
  <2>3. CallOfCaller[next_id] = "off" /\ verdict' = verdict
    BY <1>1, <2>1 DEF Call, CallOfCaller, AsCallerSees, server
  <2> QED  BY <2>1, <2>2, <2>3 DEF CallerStep, Caller!Next, Caller!Ask
<1>2. ASSUME NEW i \in Ids, Submit(i) PROVE CallerStep
  <2>1. call[i] = "sending" /\ verdict' = verdict /\ CallOfCaller[i] = "asked"
    BY <1>2 DEF Submit, server, CallOfCaller, AsCallerSees
  <2>2. CASE call' = [call EXCEPT ![i] = "waiting"]
    <3>1. CallOfCaller' = [CallOfCaller EXCEPT ![i] = "asked"]
      BY <1>t, <2>2, CallMoves DEF AsCallerSees
    <3>2. CallOfCaller' = CallOfCaller
      BY <2>1, <3>1 DEF CallOfCaller, AsCallerSees
    <3> QED  BY <2>1, <3>2 DEF CallerStep
  <2>3. CASE call' = [call EXCEPT ![i] = "closed"]
    <3>1. CallOfCaller' = [CallOfCaller EXCEPT ![i] = "failed"]
      BY <1>t, <2>3, CallMoves DEF AsCallerSees
    <3>2. Caller!GiveUp({i})
      BY <2>1, <3>1 DEF Caller!GiveUp, CallOfCaller, AsCallerSees
    <3> QED  BY <3>2 DEF CallerStep, Caller!Next
  <2> QED  BY <1>2, <2>2, <2>3 DEF Submit
<1>3. ASSUME NEW i \in Ids, TimeOut(i) PROVE CallerStep
  <2>1. call' = [call EXCEPT ![i] = "timeout"] /\ verdict' = verdict /\ CallOfCaller[i] = "asked"
    BY <1>3 DEF TimeOut, server, CallOfCaller, AsCallerSees
  <2>2. CallOfCaller' = [CallOfCaller EXCEPT ![i] = "failed"]
    BY <1>t, <2>1, CallMoves DEF AsCallerSees
  <2>3. Caller!GiveUp({i})
    BY <2>1, <2>2 DEF Caller!GiveUp, CallOfCaller, AsCallerSees
  <2> QED  BY <2>3 DEF CallerStep, Caller!Next
<1>4. CASE NextEvent \/ BeginClose \/ SendClose \/ Join \/ DropClient
  BY <1>4, SameCalls DEF NextEvent, BeginClose, SendClose, Join, DropClient, server
<1>5. CASE WorkerRequest \/ WorkerEvent \/ WorkerForward
  BY <1>5, SameCalls DEF WorkerRequest, WorkerEvent, WorkerForward, server, client
<1>6. CASE WorkerClose \/ WorkerWriteFails \/ WorkerReadFails
  BY <1>6, <1>t, EndGivesUp DEF WorkerClose, WorkerWriteFails, WorkerReadFails, server
<1>7. CASE WorkerResponse
  <2> DEFINE i == Head(wire).n
             v == Head(wire).verdict
  <2>1. i \in Ids /\ v \in Verdicts /\ v = verdict[i]
    <3>1. 1 \in DOMAIN wire /\ Head(wire) = wire[1] /\ wire[1].type = "response"
      BY <1>7, HeadAndTail DEF WorkerResponse, SdkInv, Types
    <3> QED  BY <3>1 DEF SdkInv, Bookkeeping, AnswersTrue
  <2>2. verdict' = verdict
    BY <1>7 DEF WorkerResponse
  <2>3. CASE i \in pending /\ call[i] = "waiting"
    <3>1. call' = [call EXCEPT ![i] = v]
      BY <1>7, <2>3 DEF WorkerResponse, Addressee
    <3>2. CallOfCaller' = [CallOfCaller EXCEPT ![i] = v]
      BY <1>t, <2>1, <3>1, CallMoves DEF Verdicts, AsCallerSees
    <3>3. CallOfCaller[i] = "asked"
      BY <2>1, <2>3 DEF CallOfCaller, AsCallerSees
    <3>4. Caller!Return(i)
      BY <2>1, <2>2, <3>2, <3>3 DEF Caller!Return
    <3> QED  BY <2>1, <3>4 DEF CallerStep, Caller!Next
  <2>4. CASE ~(i \in pending /\ call[i] = "waiting")
    BY <1>7, <2>2, <2>4, SameCalls DEF WorkerResponse, Addressee
  <2> QED  BY <2>3, <2>4
<1>8. ASSUME NEW i \in Ids, NEW v \in Verdicts, ServerAnswers(i, v) PROVE CallerStep
  <2>1. call[i] # "off" /\ verdict[i] = "none"
    BY <1>8 DEF ServerAnswers, SdkInv, Bookkeeping, UnsentFresh, AskedFresh
  <2>2. CallOfCaller' = CallOfCaller /\ CallOfCaller[i] # "off"
    BY <1>8, <2>1 DEF ServerAnswers, client, CallOfCaller, AsCallerSees
  <2>3. Caller!Decide(i, v)
    BY <1>8, <2>1, <2>2 DEF ServerAnswers, Caller!Decide
  <2> QED  BY <2>3 DEF CallerStep, Caller!Next
<1>9. CASE ServerSends \/ SocketFails
  BY <1>9, SameCalls DEF ServerSends, SocketFails, client
<1>10. CASE UNCHANGED vars
  BY <1>10, SameCalls DEF vars
<1> QED
  BY <1>1, <1>2, <1>3, <1>4, <1>5, <1>6, <1>7, <1>8, <1>9, <1>10 DEF Next, Owner, Worker, Server

(* The client implements RequestReply: every call returns once, with the   *)
(* server's answer to that request or an error, and nothing that arrives   *)
(* late touches a call that has returned (send_request,                    *)
(* handle_text_message, connection_worker).                                *)
THEOREM ClientImplementsRequestReply == Spec => AnswersOnce
<1>1. Init => Caller!Init
  BY DEF Init, Caller!Init, CallOfCaller, AsCallerSees
<1>2. SdkInv /\ [Next]_vars => [Caller!Next]_(Caller!vars)
  BY ClientRefines DEF CallerStep, Caller!vars
<1> QED  BY <1>1, <1>2, SdkAlways, PTL DEF Spec, AnswersOnce, Caller!Spec
=============================================================================
