--------------------------- MODULE OrderbookMarket ---------------------------
(***************************************************************************)
(* One market of the orderbook gateway: the MarketHandle of                *)
(* gateway/orderbook/src/market.rs, its worker task, and the websocket     *)
(* tasks (handle_ws_client in main.rs) of the browsers that watch it.      *)
(*                                                                         *)
(* The Nado engine is outside the repository.  bookAt is its history:      *)
(* bookAt[t] is the book after its t-th change, so a timestamp is an index *)
(* of bookAt.  It publishes book_depth events, each listing every level    *)
(* touched after the previous event, and answers market_liquidity with the *)
(* best Depth levels of the book of that moment.                           *)
(***************************************************************************)
EXTENDS OrderBookState, Sequences

CONSTANTS Clients,    \* browser connections, each used once
          MaxTs,      \* bound: changes of the engine's book
          MaxFaults   \* bound: failed connects and fetches, closed sockets, lost events

ASSUME MarketAssumption == MaxTs \in Nat /\ MaxFaults \in Nat

VARIABLES
    bookAt,       \* the engine's history of books
    pubTs,        \* max_timestamp of the engine's last book_depth event
    feed,         \* this session's subscription at the engine
    chan,         \* event_rx: what the reader task has read and the worker has not
    answer,       \* the engine's market_liquidity answer in flight
    book, lastTs, \* OrderBookState
    seq,          \* the next value of the atomic counter seq
    subscribers,  \* ids in the subscribers map
    rx,           \* rx[c]: updates_rx of the task serving c
    pc,           \* where the worker task is
    out,          \* the message the worker is about to emit
    conn,         \* where the task serving c is
    greet,        \* the first message subscribe() returned to that task
    seen,         \* the last book the browser rendered
    snapTs,       \* history: timestamp of the last snapshot loaded
    sentTs,       \* history: newest timestamp the engine put on a live feed
    faults        \* faults so far

engine  == <<bookAt, pubTs>>
session == <<feed, chan, answer, sentTs>>
state   == <<book, lastTs, snapTs>>
tasks   == <<conn, greet, seen>>
vars == <<bookAt, pubTs, feed, chan, answer, book, lastTs, seq, subscribers, rx,
          pc, out, conn, greet, seen, snapTs, sentTs, faults>>

-----------------------------------------------------------------------------
Statuses == {"connecting", "connected", "reconnecting", "warming_up"}
Kinds    == {"snapshot", "update"} \cup Statuses

(* ServerMessage; a status carries no book.                                *)
Message == [kind : Kinds, seq : Nat, ts : Nat, view : Book]

Status(s) == [kind |-> s, seq |-> 0, ts |-> 0, view |-> EmptyBook]
IsBook(m) == m.kind \in {"snapshot", "update"}

(* UpstreamInbound after parsing: a book_depth event, a text the worker    *)
(* skips (an ack, another product), or an error, a close, a malformed text.*)
Inbound == [kind : {"delta", "other", "error"}, last_max : Nat, max : Nat, levels : Delta]

Event(k) == [kind |-> k, last_max |-> 0, max |-> 0, levels |-> [l \in Level |-> NoChange]]

PCs == {"announce", "connect", "connected", "fetch", "reset", "snapshot", "stamp",
        "emit", "stream", "failed"}

InSession == {"connected", "fetch", "reset", "snapshot", "stamp", "emit", "stream"}

Now == Len(bookAt)

Init ==
    /\ bookAt \in {<<b>> : b \in Book}
    /\ pubTs = 1
    /\ feed = "none" /\ chan = <<>> /\ sentTs = 0
    /\ answer = [ts |-> 0, levels |-> EmptyBook]
    /\ book = EmptyBook /\ lastTs = 0 /\ snapTs = 0
    /\ seq = 1
    /\ subscribers = {}
    /\ rx = [c \in Clients |-> <<>>]
    /\ pc = "announce"
    /\ out = Status("connecting")
    /\ conn = [c \in Clients |-> "off"]
    /\ greet = [c \in Clients |-> Status("warming_up")]
    /\ seen = [c \in Clients |-> Status("connecting")]
    /\ faults = 0

-----------------------------------------------------------------------------
(* The engine and the socket to it (external).                             *)

EngineChange ==
    /\ Now < MaxTs
    /\ \E l \in Level, s \in Size :
          /\ s # bookAt[Now][l]
          /\ bookAt' = Append(bookAt, [bookAt[Now] EXCEPT ![l] = s])
    /\ UNCHANGED <<pubTs, session, state, seq, subscribers, rx, pc, out, tasks, faults>>

(* Every level touched after `from` and up to `to`, with its size at `to`. *)
Touched(from, to) ==
    [l \in Level |->
        IF \E t \in from..to : bookAt[t][l] # bookAt[from][l]
        THEN bookAt[to][l] ELSE NoChange]

EnginePublish ==
    /\ pubTs < Now
    /\ pubTs' = Now
    /\ \/ /\ feed = "on"
          /\ chan' = Append(chan, [kind |-> "delta", last_max |-> pubTs, max |-> Now,
                                   levels |-> Touched(pubTs, Now)])
          /\ sentTs' = Now
          /\ UNCHANGED faults
       \/ /\ feed # "on"
          /\ UNCHANGED <<chan, sentTs, faults>>
       \/ /\ feed = "on" /\ faults < MaxFaults      \* dropped for a slow reader
          /\ faults' = faults + 1
          /\ UNCHANGED <<chan, sentTs>>
    /\ UNCHANGED <<bookAt, feed, answer, state, seq, subscribers, rx, pc, out, tasks>>

(* The subscribe request takes effect some time after the gateway flushed  *)
(* it; the ack is a text the worker skips.                                 *)
EngineSubscribed ==
    /\ feed = "pending"
    /\ feed' = "on"
    /\ chan' = Append(chan, Event("other"))
    /\ UNCHANGED <<engine, answer, sentTs, state, seq, subscribers, rx, pc, out, tasks, faults>>

SocketFails ==
    /\ feed \in {"pending", "on"}
    /\ faults < MaxFaults /\ faults' = faults + 1
    /\ feed' = "none"
    /\ chan' = Append(chan, Event("error"))
    /\ UNCHANGED <<engine, answer, sentTs, state, seq, subscribers, rx, pc, out, tasks>>

EngineAnswers ==
    /\ pc = "fetch"
    /\ answer' = [ts |-> Now, levels |-> DepthView(bookAt[Now])]
    /\ pc' = "reset"
    /\ UNCHANGED <<engine, feed, chan, sentTs, state, seq, subscribers, rx, out, tasks, faults>>

-----------------------------------------------------------------------------
(* Slip: a subscriber enters the map only once it has been greeted.        *)
SlipEmitToGreeted(m) ==
    /\ rx' = [c \in Clients |-> IF c \in subscribers /\ conn[c] = "open"
                               THEN Append(rx[c], m) ELSE rx[c]]
    /\ UNCHANGED subscribers

(* emit: under the subscribers lock, append to every live receiver and     *)
(* forget the ones whose receiver was dropped.                             *)
Emit(m) ==
    LET stale == {c \in subscribers : conn[c] = "dead"}
    IN  /\ rx' = [c \in Clients |-> IF c \in subscribers \ stale
                                    THEN Append(rx[c], m) ELSE rx[c]]
        /\ subscribers' = subscribers \ stale

(* End of run_upstream_session: the tasks are aborted, the queue dropped.  *)
EndSession == feed' = "none" /\ chan' = <<>>

WorkerAnnounce ==
    /\ pc = "announce"
    /\ Emit(Status("connecting"))
    /\ pc' = "connect"
    /\ UNCHANGED <<engine, session, state, seq, out, tasks, faults>>

WorkerConnect ==
    /\ pc = "connect"
    /\ \/ /\ pc' = "connected"
          /\ feed' = "pending"
          /\ UNCHANGED faults
       \/ /\ faults < MaxFaults /\ faults' = faults + 1
          /\ pc' = "failed"
          /\ UNCHANGED feed
    /\ UNCHANGED <<engine, chan, answer, sentTs, state, seq, subscribers, rx, out, tasks>>

WorkerConnected ==
    /\ pc = "connected"
    /\ Emit(Status("connected"))
    /\ pc' = "fetch"
    /\ UNCHANGED <<engine, session, state, seq, out, tasks, faults>>

WorkerFetchFails ==
    /\ pc = "fetch"
    /\ faults < MaxFaults /\ faults' = faults + 1
    /\ EndSession
    /\ pc' = "failed"
    /\ UNCHANGED <<engine, answer, sentTs, state, seq, subscribers, rx, out, tasks>>

(* Slip: the snapshot is loaded over the old book.                         *)
SlipResetKeepsBook ==
    /\ pc = "reset"
    /\ book' = [l \in Level |-> IF answer.levels[l] > 0 THEN answer.levels[l] ELSE book[l]]
    /\ lastTs' = answer.ts
    /\ snapTs' = answer.ts
    /\ pc' = "snapshot"
    /\ UNCHANGED <<engine, session, seq, subscribers, rx, out, tasks, faults>>

WorkerReset ==
    /\ pc = "reset"
    /\ book' = LoadSides(answer.levels)
    /\ lastTs' = answer.ts
    /\ snapTs' = answer.ts
    /\ pc' = "snapshot"
    /\ UNCHANGED <<engine, session, seq, subscribers, rx, out, tasks, faults>>

(* emit_snapshot, up to the emit: view and seq are taken under one lock.   *)
WorkerSnapshot ==
    /\ pc = "snapshot"
    /\ out' = [kind |-> "snapshot", seq |-> seq, ts |-> answer.ts, view |-> DepthView(book)]
    /\ seq' = seq + 1
    /\ pc' = "emit"
    /\ UNCHANGED <<engine, session, state, subscribers, rx, tasks, faults>>

(* One message of event_rx, in the drain loop or the main loop.            *)
WorkerApply ==
    LET e == Head(chan)
    IN  /\ pc = "stream" /\ chan # <<>>
        /\ e.kind = "delta"
        /\ ApplyOutcome(lastTs, e.last_max, e.max) = "applied"
        /\ book' = ApplySides(book, e.levels)
        /\ lastTs' = e.max
        /\ out' = [kind |-> "update", seq |-> 0, ts |-> e.max,
                   view |-> DepthView(ApplySides(book, e.levels))]
        /\ chan' = Tail(chan)
        /\ pc' = "stamp"
        /\ UNCHANGED <<engine, feed, answer, sentTs, snapTs, seq, subscribers, rx, tasks, faults>>

WorkerSkip ==
    LET e == Head(chan)
    IN  /\ pc = "stream" /\ chan # <<>>
        /\ \/ e.kind = "other"
           \/ e.kind = "delta" /\ ApplyOutcome(lastTs, e.last_max, e.max) = "stale"
        /\ chan' = Tail(chan)
        /\ UNCHANGED <<engine, feed, answer, sentTs, state, seq, subscribers, rx, pc, out,
                       tasks, faults>>

WorkerBreaks ==
    LET e == Head(chan)
    IN  /\ pc = "stream" /\ chan # <<>>
        /\ \/ e.kind = "error"
           \/ e.kind = "delta" /\ ApplyOutcome(lastTs, e.last_max, e.max) = "gap"
        /\ EndSession
        /\ pc' = "failed"
        /\ UNCHANGED <<engine, answer, sentTs, state, seq, subscribers, rx, out, tasks, faults>>

(* Slip: the counter is read and not advanced.                             *)
SlipStampTwice ==
    /\ pc = "stamp"
    /\ out' = [out EXCEPT !.seq = seq]
    /\ pc' = "emit"
    /\ UNCHANGED <<engine, session, state, seq, subscribers, rx, tasks, faults>>

(* The state lock is released before next_seq, and next_seq is taken       *)
(* before the subscribers lock.                                            *)
WorkerStamp ==
    /\ pc = "stamp"
    /\ out' = [out EXCEPT !.seq = seq]
    /\ seq' = seq + 1
    /\ pc' = "emit"
    /\ UNCHANGED <<engine, session, state, subscribers, rx, tasks, faults>>

WorkerEmit ==
    /\ pc = "emit"
    /\ Emit(out)
    /\ pc' = "stream"
    /\ UNCHANGED <<engine, session, state, seq, out, tasks, faults>>

(* Slip: the worker loop ends on an error.                                 *)
SlipFailedForGood ==
    /\ pc = "failed"
    /\ Emit(Status("reconnecting"))
    /\ pc' = "ended"
    /\ UNCHANGED <<engine, session, state, seq, out, tasks, faults>>

WorkerFailed ==
    /\ pc = "failed"
    /\ Emit(Status("reconnecting"))
    /\ pc' = "announce"
    /\ UNCHANGED <<engine, session, state, seq, out, tasks, faults>>

Worker ==
    \/ WorkerAnnounce \/ WorkerConnect \/ WorkerConnected \/ WorkerFetchFails
    \/ WorkerReset \/ WorkerSnapshot \/ WorkerApply \/ WorkerSkip \/ WorkerBreaks
    \/ WorkerStamp \/ WorkerEmit \/ WorkerFailed

-----------------------------------------------------------------------------
(* handle_ws_client for browser c.                                         *)

(* subscribe, first half: the sender enters the map.                       *)
ClientRegister(c) ==
    /\ conn[c] = "off"
    /\ subscribers' = subscribers \cup {c}
    /\ conn' = [conn EXCEPT ![c] = "registered"]
    /\ UNCHANGED <<engine, session, state, seq, rx, pc, out, greet, seen, faults>>

(* subscribe, second half: snapshot_message under the state's read lock.   *)
ClientSnapshot(c) ==
    /\ conn[c] = "registered"
    /\ conn' = [conn EXCEPT ![c] = "greeting"]
    /\ IF is_empty(book)
       THEN /\ greet' = [greet EXCEPT ![c] = Status("warming_up")]
            /\ UNCHANGED seq
       ELSE /\ greet' = [greet EXCEPT ![c] =
                    [kind |-> "snapshot", seq |-> seq, ts |-> lastTs, view |-> DepthView(book)]]
            /\ seq' = seq + 1
    /\ UNCHANGED <<engine, session, state, subscribers, rx, pc, out, seen, faults>>

(* The browser replaces the whole book by the one in the message, whatever *)
(* its seq (useOrderbookStream).                                           *)
Deliver(c, m) == seen' = [seen EXCEPT ![c] = IF IsBook(m) THEN m ELSE @]

ClientGreet(c) ==
    /\ conn[c] = "greeting"
    /\ Deliver(c, greet[c])
    /\ greet' = [greet EXCEPT ![c] = Status("warming_up")]
    /\ conn' = [conn EXCEPT ![c] = "open"]
    /\ UNCHANGED <<engine, session, state, seq, subscribers, rx, pc, out, faults>>

ClientForward(c) ==
    /\ conn[c] = "open" /\ rx[c] # <<>>
    /\ Deliver(c, Head(rx[c]))
    /\ rx' = [rx EXCEPT ![c] = Tail(@)]
    /\ UNCHANGED <<engine, session, state, seq, subscribers, pc, out, conn, greet, faults>>

(* A failed send, a close frame or a read error ends the task's loop; it   *)
(* then unsubscribes.                                                      *)
ClientLeave(c) ==
    /\ conn[c] \in {"greeting", "open"}
    /\ conn' = [conn EXCEPT ![c] = "leaving"]
    /\ UNCHANGED <<engine, session, state, seq, subscribers, rx, pc, out, greet, seen, faults>>

ClientUnsubscribe(c) ==
    /\ conn[c] = "leaving"
    /\ subscribers' = subscribers \ {c}
    /\ rx' = [rx EXCEPT ![c] = <<>>]
    /\ conn' = [conn EXCEPT ![c] = "gone"]
    /\ UNCHANGED <<engine, session, state, seq, pc, out, greet, seen, faults>>

(* The task is dropped (a panic, an aborted connection): its receiver goes *)
(* with it and nobody unsubscribes.                                        *)
ClientDies(c) ==
    /\ conn[c] \in {"registered", "greeting", "open", "leaving"}
    /\ conn' = [conn EXCEPT ![c] = "dead"]
    /\ rx' = [rx EXCEPT ![c] = <<>>]
    /\ UNCHANGED <<engine, session, state, seq, subscribers, pc, out, greet, seen, faults>>

Client(c) ==
    \/ ClientRegister(c) \/ ClientSnapshot(c) \/ ClientGreet(c) \/ ClientForward(c)
    \/ ClientLeave(c) \/ ClientUnsubscribe(c) \/ ClientDies(c)

Engine == EngineChange \/ EnginePublish \/ EngineSubscribed \/ EngineAnswers \/ SocketFails

Next == Engine \/ Worker \/ \E c \in Clients : Client(c)

Spec == Init /\ [][Next]_vars

(* The worker task and the browsers' tasks are polled by the runtime, and  *)
(* the engine acknowledges and answers what it is asked; nothing else is   *)
(* assumed: the engine may stop changing, browsers may come or go or not.  *)
Fairness ==
    /\ WF_vars(Worker) /\ WF_vars(EngineAnswers) /\ WF_vars(EngineSubscribed)
    /\ \A c \in Clients :
          WF_vars(ClientSnapshot(c)) /\ WF_vars(ClientGreet(c)) /\ WF_vars(ClientForward(c))

FairSpec == Spec /\ Fairness

-----------------------------------------------------------------------------
(* Types of the variables of a market.                                     *)
TypeOK ==
    /\ bookAt \in Seq(Book) /\ Now >= 1
    /\ pubTs \in 1..Now
    /\ feed \in {"none", "pending", "on"}
    /\ chan \in Seq(Inbound)
    /\ answer \in [ts : Nat, levels : Book]
    /\ book \in Book /\ lastTs \in Nat /\ snapTs \in Nat
    /\ seq \in Nat \ {0}
    /\ subscribers \subseteq Clients
    /\ rx \in [Clients -> Seq(Message)]
    /\ pc \in PCs
    /\ out \in Message
    /\ conn \in [Clients -> {"off", "registered", "greeting", "open", "leaving", "gone", "dead"}]
    /\ greet \in [Clients -> Message]
    /\ seen \in [Clients -> Message]
    /\ sentTs \in 0..Now
    /\ faults \in 0..MaxFaults

(* The local book is the engine's book at lastTs, but for levels that lay  *)
(* below the best Depth when the last snapshot was taken and that the      *)
(* engine has not touched since: bridging the window between subscribe and *)
(* snapshot, overlapping events and reconnects neither lose nor invent a   *)
(* level (run_upstream_session, apply_delta).                              *)
BookExact ==
    lastTs > 0 =>
        \A l \in Level :
            \/ book[l] = bookAt[lastTs][l]
            \/ /\ book[l] = 0
               /\ l \notin Top(bookAt[snapTs])
               /\ \A t \in snapTs..lastTs : bookAt[t][l] = bookAt[snapTs][l]

(* The strengthening that makes BookExact inductive: every queued event    *)
(* tells the truth about the engine's history between its two timestamps,  *)
(* and so does the answer about to be loaded.                              *)
EventTrue(h, e) ==
    e.kind = "delta" =>
        /\ 1 <= e.last_max /\ e.last_max <= e.max /\ e.max <= Len(h)
        /\ \A l \in Level :
              IF e.levels[l] = NoChange
              THEN \A t \in e.last_max..e.max : h[t][l] = h[e.last_max][l]
              ELSE e.levels[l] = h[e.max][l]

ChanTrue == \A i \in DOMAIN chan : EventTrue(bookAt, chan[i])

AnswerTrue ==
    pc = "reset" => /\ 1 <= answer.ts /\ answer.ts <= Now
                    /\ answer.levels = DepthView(bookAt[answer.ts])

StampsInOrder == lastTs > 0 => 1 <= snapTs /\ snapTs <= lastTs /\ lastTs <= Now

BookInv ==
    /\ ChanTrue
    /\ AnswerTrue
    /\ StampsInOrder
    /\ BookExact

(* Every size a browser is shown, or is about to be shown, was the         *)
(* engine's size of that level at the source_ts of the message: no         *)
(* interleaving of the worker with subscribe mislabels a view.             *)
ShowsThePast(m) ==
    IsBook(m) => /\ m.ts \in 1..Now
                 /\ \A l \in Level : m.view[l] # 0 => m.view[l] = bookAt[m.ts][l]

ViewsSound ==
    \A c \in Clients :
        /\ ShowsThePast(seen[c])
        /\ ShowsThePast(greet[c])
        /\ \A i \in DOMAIN rx[c] : ShowsThePast(rx[c][i])

(* What a browser's queue still holds is in order: seq increases strictly, *)
(* source_ts never goes back, even across reconnects of the worker, and    *)
(* the first book after a status is a whole snapshot.                      *)
QueueOrdered ==
    \A c \in Clients : \A i, j \in DOMAIN rx[c] :
        i < j =>
          /\ IsBook(rx[c][i]) /\ IsBook(rx[c][j]) =>
                rx[c][i].seq < rx[c][j].seq /\ rx[c][i].ts <= rx[c][j].ts
          /\ j = i + 1 /\ rx[c][j].kind = "update" => IsBook(rx[c][i])

(* A browser that has read its queue shows the gateway's book: subscribe   *)
(* enters the map before it takes the snapshot, so whatever the worker     *)
(* publishes around a subscription reaches the browser one way or both.    *)
NoLostUpdate ==
    \A c \in Clients :
        /\ conn[c] = "open" /\ rx[c] = <<>>
        /\ pc \notin {"snapshot", "stamp", "emit"}
        => seen[c].view = DepthView(book)

(* Every book that a browser shows or that is on its way to one.           *)
Held(c) == {seen[c], greet[c]} \cup {rx[c][i] : i \in DOMAIN rx[c]}
Books ==
    {m \in (UNION {Held(c) : c \in Clients}) \cup (IF pc = "emit" THEN {out} ELSE {}) : IsBook(m)}

(* A number names one book of the market, whichever browser has it, and a  *)
(* later number never an older book: subscribe takes next_seq under the    *)
(* state's lock, the worker after it, but only the worker changes the      *)
(* state.                                                                  *)
NumbersNameBooks ==
    \A m, n \in Books :
        /\ m.seq = n.seq => m = n
        /\ m.seq < n.seq => m.ts <= n.ts

(* Whatever the engine put on a live feed before a gap, a closed socket or *)
(* a failed fetch, a browser that stays is eventually shown that moment's  *)
(* book or a later one (or that book has no level): the reconnect loop     *)
(* of run_worker_loop repairs every failure.                               *)
CatchesUp ==
    \A c \in Clients : \A t \in 1..MaxTs :
        (conn[c] = "open" /\ sentTs >= t)
            ~> (conn[c] # "open" \/ seen[c].ts >= t \/ (lastTs >= t /\ is_empty(book)))
=============================================================================
