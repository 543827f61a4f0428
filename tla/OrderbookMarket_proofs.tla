------------------------ MODULE OrderbookMarket_proofs ------------------------
(***************************************************************************)
(* Theorems about OrderbookMarket, for every price grid, depth, set of     *)
(* browsers and bound: the gateway's book first, then the queues between   *)
(* the worker and the tasks that serve the browsers.                       *)
(***************************************************************************)
EXTENDS OrderbookMarket, TLAPS

-----------------------------------------------------------------------------
(* The operators of OrderBookState stay within the types.                  *)

(* An empty map is a book (OrderBookState::default).                       *)
LEMMA EmptyBookType == EmptyBook \in Book
BY BookAssumption DEF EmptyBook, Book, Size

(* A depth view is a book with some levels blanked (depth_view).           *)
LEMMA DepthViewType ==
  ASSUME NEW b \in Book
  PROVE  DepthView(b) \in Book
BY BookAssumption DEF DepthView, Book, Size

(* Loading a snapshot gives a book (reset_from_snapshot).                  *)
LEMMA LoadSidesType ==
  ASSUME NEW b \in Book
  PROVE  LoadSides(b) \in Book
BY BookAssumption DEF LoadSides, Book, Size

(* Applying a delta to a book gives a book (apply_side_delta).             *)
LEMMA ApplySidesType ==
  ASSUME NEW b \in Book, NEW d \in Delta
  PROVE  ApplySides(b, d) \in Book
BY BookAssumption DEF ApplySides, Book, Size, Delta, NoChange

(* An event's levels are a delta (the engine's book_depth event).          *)
LEMMA TouchedType ==
  ASSUME NEW from \in Nat, NEW to \in Nat, bookAt[to] \in Book
  PROVE  Touched(from, to) \in Delta
BY BookAssumption DEF Touched, Book, Delta

(* Status messages and placeholder events are well typed.                  *)
LEMMA StatusType ==
  ASSUME NEW s \in Statuses
  PROVE  Status(s) \in Message
BY EmptyBookType DEF Status, Message, Kinds

(* Placeholder events are well typed.                                      *)
LEMMA EventType ==
  ASSUME NEW k \in {"other", "error"}
  PROVE  Event(k) \in Inbound
BY DEF Event, Inbound, Delta

(* emit keeps the queues and the map well typed, whoever is subscribed.    *)
LEMMA EmitType ==
  ASSUME TypeOK, NEW m \in Message, Emit(m)
  PROVE  /\ rx' \in [Clients -> Seq(Message)]
         /\ subscribers' \subseteq Clients
BY DEF Emit, TypeOK

-----------------------------------------------------------------------------
(* Every state of a market is well typed.                                  *)
LEMMA InitType == Init => TypeOK
<1> SUFFICES ASSUME Init PROVE TypeOK
  OBVIOUS
<1>1. /\ Status("warming_up") \in Message
      /\ Status("connecting") \in Message
  BY StatusType DEF Statuses
<1>2. PICK b \in Book : bookAt = <<b>>
  BY DEF Init
<1>3. bookAt \in Seq(Book) /\ Now = 1
  BY <1>2 DEF Now
<1> QED
  BY <1>1, <1>3, EmptyBookType, MarketAssumption DEF Init, TypeOK, PCs

(* The engine's steps keep the types.                                     *)
LEMMA EngineType == TypeOK /\ Engine => TypeOK'
<1> SUFFICES ASSUME TypeOK, Engine PROVE TypeOK'
  OBVIOUS
<1>1. CASE EngineChange
  <2>1. PICK l \in Level, s \in Size :
           bookAt' = Append(bookAt, [bookAt[Now] EXCEPT ![l] = s])
    BY <1>1 DEF EngineChange
  <2>2. bookAt[Now] \in Book
    BY DEF TypeOK, Now
  <2>3. [bookAt[Now] EXCEPT ![l] = s] \in Book
    BY <2>2 DEF Book
  <2>4. bookAt' \in Seq(Book) /\ Now' = Now + 1 /\ Now \in Nat
    BY <2>1, <2>3 DEF TypeOK, Now
  <2> QED
    BY <1>1, <2>4 DEF EngineChange, TypeOK, session, state, tasks
<1>2. CASE EnginePublish
  <2>1. Now \in Nat /\ Now >= 1
    BY DEF TypeOK, Now
  <2>2. Now' = Now
    BY <1>2 DEF EnginePublish, Now
  <2>3. Touched(pubTs, Now) \in Delta
    BY <2>1, TouchedType DEF TypeOK, Now
  <2>4. [kind |-> "delta", last_max |-> pubTs, max |-> Now,
         levels |-> Touched(pubTs, Now)] \in Inbound
    BY <2>1, <2>3 DEF Inbound, TypeOK
  <2> DEFINE e == [kind |-> "delta", last_max |-> pubTs, max |-> Now,
                   levels |-> Touched(pubTs, Now)]
  <2>5. chan' \in Seq(Inbound)
    <3>1. chan' = chan \/ chan' = Append(chan, e)
      BY <1>2 DEF EnginePublish
    <3>2. e \in Inbound
      BY <2>4
    <3>3. chan \in Seq(Inbound)
      BY DEF TypeOK
    <3> HIDE DEF e
    <3> QED
      BY <3>1, <3>2, <3>3
  <2> QED
    BY <1>2, <2>1, <2>2, <2>5, MarketAssumption DEF EnginePublish, TypeOK, state, tasks
<1>3. CASE EngineSubscribed
  <2>1. Now' = Now
    BY <1>3 DEF EngineSubscribed, engine, Now
  <2> QED
    BY <1>3, <2>1, EventType DEF EngineSubscribed, TypeOK, engine, state, tasks
<1>4. CASE EngineAnswers
  <2>1. Now' = Now /\ Now \in Nat
    BY <1>4 DEF EngineAnswers, engine, Now, TypeOK
  <2>2. DepthView(bookAt[Now]) \in Book
    BY DepthViewType DEF TypeOK, Now
  <2> QED
    BY <1>4, <2>1, <2>2 DEF EngineAnswers, TypeOK, engine, state, tasks, PCs
<1>5. CASE SocketFails
  <2>1. Now' = Now
    BY <1>5 DEF SocketFails, engine, Now
  <2> QED
    BY <1>5, <2>1, EventType, MarketAssumption DEF SocketFails, TypeOK, engine, state, tasks
<1> QED
  BY <1>1, <1>2, <1>3, <1>4, <1>5 DEF Engine

(* The worker task's steps keep the types.                                *)
LEMMA WorkerType == TypeOK /\ Worker => TypeOK'
<1> SUFFICES ASSUME TypeOK, Worker PROVE TypeOK'
  OBVIOUS
<1>1. Now' = Now /\ Now \in Nat /\ bookAt' = bookAt /\ pubTs' = pubTs
  BY DEF Now, TypeOK, Worker, WorkerAnnounce, WorkerConnect, WorkerConnected, WorkerFetchFails,
         WorkerReset, WorkerSnapshot, WorkerApply, WorkerSkip, WorkerBreaks, WorkerStamp,
         WorkerEmit, WorkerFailed, engine
<1> USE <1>1 DEF engine, session, state, tasks
<1>2. CASE WorkerAnnounce \/ WorkerConnected \/ WorkerFailed
  <2>1. \A s \in {"connecting", "connected", "reconnecting"} : Status(s) \in Message
    BY StatusType DEF Statuses
  <2>2. /\ rx' \in [Clients -> Seq(Message)]
        /\ subscribers' \subseteq Clients
    BY <1>2, <2>1, EmitType DEF WorkerAnnounce, WorkerConnected, WorkerFailed
  <2> QED
    BY <1>2, <2>2 DEF WorkerAnnounce, WorkerConnected, WorkerFailed, TypeOK, PCs
<1>3. CASE WorkerConnect
  BY <1>3, MarketAssumption DEF WorkerConnect, TypeOK, PCs
<1>4. CASE WorkerFetchFails
  BY <1>4, MarketAssumption DEF WorkerFetchFails, EndSession, TypeOK, PCs
<1>5. CASE WorkerReset
  BY <1>5, LoadSidesType DEF WorkerReset, TypeOK, PCs
<1>6. CASE WorkerSnapshot
  <2>1. out' \in Message
    BY <1>6, DepthViewType DEF WorkerSnapshot, TypeOK, Message, Kinds
  <2> QED
    BY <1>6, <2>1 DEF WorkerSnapshot, TypeOK, PCs
<1>7. CASE WorkerApply
  <2>1. Head(chan) \in Inbound /\ Tail(chan) \in Seq(Inbound)
    BY <1>7 DEF WorkerApply, TypeOK
  <2>2. ApplySides(book, Head(chan).levels) \in Book
    BY <2>1, ApplySidesType DEF TypeOK, Inbound
  <2>3. Head(chan).max \in Nat
    BY <2>1 DEF Inbound
  <2>4. out' \in Message
    BY <1>7, <2>1, <2>2, DepthViewType DEF WorkerApply, Message, Kinds, Inbound
  <2> QED
    BY <1>7, <2>1, <2>2, <2>3, <2>4 DEF WorkerApply, TypeOK, PCs
<1>8. CASE WorkerSkip
  BY <1>8 DEF WorkerSkip, TypeOK
<1>9. CASE WorkerBreaks
  BY <1>9 DEF WorkerBreaks, EndSession, TypeOK, PCs
<1>10. CASE WorkerStamp
  <2>1. out' \in Message
    BY <1>10 DEF WorkerStamp, TypeOK, Message
  <2> QED
    BY <1>10, <2>1 DEF WorkerStamp, TypeOK, PCs
<1>11. CASE WorkerEmit
  <2>1. /\ rx' \in [Clients -> Seq(Message)]
        /\ subscribers' \subseteq Clients
    BY <1>11, EmitType DEF WorkerEmit, TypeOK
  <2> QED
    BY <1>11, <2>1 DEF WorkerEmit, TypeOK, PCs
<1> QED
  BY <1>2, <1>3, <1>4, <1>5, <1>6, <1>7, <1>8, <1>9, <1>10, <1>11 DEF Worker

(* The steps of a browser's task keep the types.                          *)
LEMMA ClientType == ASSUME TypeOK, NEW c \in Clients, Client(c) PROVE TypeOK'
<1>1. Now' = Now /\ bookAt' = bookAt /\ pubTs' = pubTs
  BY DEF Now, Client, ClientRegister, ClientSnapshot, ClientGreet, ClientForward, ClientLeave,
         ClientUnsubscribe, ClientDies, engine
<1>2. Status("warming_up") \in Message
  BY StatusType DEF Statuses
<1> USE <1>1 DEF engine, session, state, tasks
<1>3. CASE ClientRegister(c)
  BY <1>3 DEF ClientRegister, TypeOK
<1>4. CASE ClientSnapshot(c)
  <2>1. [kind |-> "snapshot", seq |-> seq, ts |-> lastTs, view |-> DepthView(book)] \in Message
    BY DepthViewType DEF TypeOK, Message, Kinds
  <2>2. greet' \in [Clients -> Message] /\ seq' \in Nat \ {0}
    <3>1. CASE is_empty(book)
      BY <1>2, <1>4, <3>1 DEF ClientSnapshot, TypeOK
    <3>2. CASE ~is_empty(book)
      <4>1. /\ greet' = [greet EXCEPT ![c] = [kind |-> "snapshot", seq |-> seq, ts |-> lastTs,
                                              view |-> DepthView(book)]]
            /\ seq' = seq + 1
        BY <1>4, <3>2 DEF ClientSnapshot
      <4> QED
        BY <2>1, <4>1 DEF TypeOK
    <3> QED
      BY <3>1, <3>2
  <2> QED
    BY <1>4, <2>2 DEF ClientSnapshot, TypeOK
<1>5. CASE ClientGreet(c)
  <2>1. seen' \in [Clients -> Message]
    BY <1>5 DEF ClientGreet, Deliver, TypeOK
  <2> QED
    BY <1>2, <1>5, <2>1 DEF ClientGreet, TypeOK
<1>6. CASE ClientForward(c)
  <2>1. rx[c] \in Seq(Message) /\ rx[c] # <<>>
    BY <1>6 DEF ClientForward, TypeOK
  <2>2. Head(rx[c]) \in Message /\ Tail(rx[c]) \in Seq(Message)
    BY <2>1
  <2>3. seen' \in [Clients -> Message]
    BY <1>6, <2>2 DEF ClientForward, Deliver, TypeOK
  <2>4. rx' \in [Clients -> Seq(Message)]
    <3>1. rx' = [rx EXCEPT ![c] = Tail(rx[c])]
      BY <1>6 DEF ClientForward
    <3> QED
      BY <2>2, <3>1 DEF TypeOK
  <2> QED
    BY <1>6, <2>3, <2>4 DEF ClientForward, TypeOK
<1>7. CASE ClientLeave(c)
  BY <1>7 DEF ClientLeave, TypeOK
<1>8. CASE ClientUnsubscribe(c)
  BY <1>8 DEF ClientUnsubscribe, TypeOK
<1>9. CASE ClientDies(c)
  BY <1>9 DEF ClientDies, TypeOK
<1> QED
  BY <1>3, <1>4, <1>5, <1>6, <1>7, <1>8, <1>9 DEF Client

(* Every step keeps the types.                                             *)
LEMMA StepType == TypeOK /\ [Next]_vars => TypeOK'
<1>1. ASSUME TypeOK, UNCHANGED vars PROVE TypeOK'
  BY <1>1 DEF vars, TypeOK, Now
<1> QED
  BY <1>1, EngineType, WorkerType, ClientType DEF Next

(* Type correctness: in every reachable state, for every instance.         *)
THEOREM TypeCorrect == Spec => []TypeOK
BY InitType, StepType, PTL DEF Spec

-----------------------------------------------------------------------------
(* BookExact.  The history only grows, so what was true of it stays true;  *)
(* only WorkerReset and WorkerApply change the book.                       *)

(* A truthful event stays truthful while the history keeps its prefix.     *)
LEMMA EventStaysTrue ==
  ASSUME NEW h \in Seq(Book), NEW g \in Seq(Book), NEW e \in Inbound, EventTrue(h, e),
         Len(h) <= Len(g), \A t \in 1..Len(h) : g[t] = h[t]
  PROVE  EventTrue(g, e)
<1> SUFFICES ASSUME e.kind = "delta"
             PROVE  EventTrue(g, e)
  BY DEF EventTrue
<1>1. e.last_max \in Nat /\ e.max \in Nat /\ Len(h) \in Nat /\ Len(g) \in Nat
  BY DEF Inbound
<1>2. /\ 1 <= e.last_max /\ e.last_max <= e.max /\ e.max <= Len(h)
      /\ \A l \in Level :
            IF e.levels[l] = NoChange
            THEN \A t \in e.last_max..e.max : h[t][l] = h[e.last_max][l]
            ELSE e.levels[l] = h[e.max][l]
  BY DEF EventTrue
<1>3. \A t \in e.last_max..e.max : g[t] = h[t]
  BY <1>1, <1>2
<1>4. g[e.last_max] = h[e.last_max] /\ g[e.max] = h[e.max]
  BY <1>1, <1>2
<1> QED
  BY <1>1, <1>2, <1>3, <1>4 DEF EventTrue

(* The event the engine publishes is truthful.                             *)
LEMMA PublishedTrue ==
  ASSUME TypeOK, pubTs < Now, NEW e,
         e = [kind |-> "delta", last_max |-> pubTs, max |-> Now, levels |-> Touched(pubTs, Now)]
  PROVE  EventTrue(bookAt, e)
<1>1. pubTs \in Nat /\ 1 <= pubTs /\ Now \in Nat
  BY DEF TypeOK, Now
<1>2. ASSUME NEW l \in Level
      PROVE  IF e.levels[l] = NoChange
             THEN \A t \in pubTs..Now : bookAt[t][l] = bookAt[pubTs][l]
             ELSE e.levels[l] = bookAt[Now][l]
  <2>1. bookAt[Now][l] # NoChange
    <3>1. bookAt[Now] \in Book
      BY <1>1 DEF TypeOK, Now
    <3> QED
      BY <3>1, BookAssumption DEF Book, Size, NoChange
  <2> QED
    BY <2>1 DEF Touched
<1> QED
  BY <1>1, <1>2 DEF EventTrue, Now

(* Loading the engine's answer makes the book exact.                       *)
LEMMA ResetExact ==
  ASSUME TypeOK, BookInv, WorkerReset
  PROVE  BookExact'
<1> DEFINE T == answer.ts
<1>1. /\ T \in Nat /\ 1 <= T /\ T <= Now
      /\ answer.levels = DepthView(bookAt[T])
      /\ book' = LoadSides(answer.levels)
      /\ lastTs' = T /\ snapTs' = T /\ bookAt' = bookAt
  BY DEF WorkerReset, BookInv, AnswerTrue, TypeOK, engine
<1>2. bookAt[T] \in Book
  BY <1>1 DEF TypeOK, Now
<1>3. ASSUME NEW l \in Level
      PROVE  \/ book'[l] = bookAt[T][l]
             \/ book'[l] = 0 /\ l \notin Top(bookAt[T])
  <2>1. DepthView(bookAt[T])[l] = IF l \in Top(bookAt[T]) THEN bookAt[T][l] ELSE 0
    BY DEF DepthView
  <2>2. bookAt[T][l] \in Nat
    BY <1>2, BookAssumption DEF Book, Size
  <2> QED
    BY <1>1, <2>1, <2>2 DEF LoadSides
<1> HIDE DEF T
<1>4. \A t \in T..T : t = T
  BY <1>1
<1> QED
  BY <1>1, <1>3, <1>4 DEF BookExact

(* Applying a truthful event that reaches back to lastTs keeps the book    *)
(* exact, at the event's max_timestamp.                                    *)
LEMMA ApplyExact ==
  ASSUME TypeOK, BookInv, WorkerApply
  PROVE  BookExact' /\ StampsInOrder'
<1> DEFINE e == Head(chan)
<1>1. e \in Inbound /\ e = chan[1] /\ 1 \in DOMAIN chan
  BY DEF WorkerApply, TypeOK
<1>2. e.kind = "delta" /\ EventTrue(bookAt, e)
  BY <1>1 DEF WorkerApply, BookInv, ChanTrue
<1>3. /\ e.last_max \in Nat /\ e.max \in Nat /\ lastTs \in Nat /\ snapTs \in Nat
      /\ Now \in Nat /\ e.levels \in Delta /\ book \in Book
  BY <1>1 DEF TypeOK, Now, Inbound
<1>4. e.last_max <= lastTs /\ lastTs < e.max
  BY <1>3 DEF WorkerApply, ApplyOutcome
<1>5. /\ book' = ApplySides(book, e.levels) /\ lastTs' = e.max /\ snapTs' = snapTs
      /\ bookAt' = bookAt
  BY DEF WorkerApply, engine
<1>6. 1 <= e.last_max /\ e.max <= Now
  BY <1>2 DEF EventTrue, Now
<1>7. lastTs > 0 /\ 1 <= snapTs /\ snapTs <= lastTs
  BY <1>3, <1>4, <1>6 DEF BookInv, StampsInOrder
<1>8. ASSUME NEW l \in Level
      PROVE  \/ book'[l] = bookAt[e.max][l]
             \/ /\ book'[l] = 0
                /\ l \notin Top(bookAt[snapTs])
                /\ \A t \in snapTs..e.max : bookAt[t][l] = bookAt[snapTs][l]
  <2>1. book'[l] = IF e.levels[l] >= 0 THEN e.levels[l] ELSE book[l]
    BY <1>5 DEF ApplySides
  <2>2. CASE e.levels[l] # NoChange
    <3>1. e.levels[l] >= 0
      BY <1>3, <2>2, BookAssumption DEF Delta, Size
    <3>2. e.levels[l] = bookAt[e.max][l]
      BY <1>2, <2>2 DEF EventTrue
    <3> QED
      BY <2>1, <3>1, <3>2
  <2>3. CASE e.levels[l] = NoChange
    <3>1. book'[l] = book[l]
      BY <2>1, <2>3 DEF NoChange
    <3>2. \A t \in e.last_max..e.max : bookAt[t][l] = bookAt[e.last_max][l]
      BY <1>2, <2>3 DEF EventTrue
    <3>3. \A t \in lastTs..e.max : bookAt[t][l] = bookAt[lastTs][l]
      BY <1>3, <1>4, <3>2
    <3>4. CASE book[l] = bookAt[lastTs][l]
      BY <1>3, <1>4, <3>1, <3>3, <3>4
    <3>5. CASE /\ book[l] = 0
               /\ l \notin Top(bookAt[snapTs])
               /\ \A t \in snapTs..lastTs : bookAt[t][l] = bookAt[snapTs][l]
      <4>1. bookAt[lastTs][l] = bookAt[snapTs][l]
        BY <1>3, <1>7, <3>5
      <4>2. ASSUME NEW t \in snapTs..e.max
            PROVE  bookAt[t][l] = bookAt[snapTs][l]
        <5>1. CASE t <= lastTs
          BY <1>3, <3>5, <5>1
        <5>2. CASE t > lastTs
          BY <1>3, <3>3, <4>1, <5>2
        <5> QED
          BY <1>3, <5>1, <5>2
      <4> QED
        BY <3>1, <3>5, <4>2
    <3> QED
      BY <1>7, <3>4, <3>5 DEF BookInv, BookExact
  <2> QED
    BY <2>2, <2>3
<1>9. Now' = Now
  BY <1>5 DEF Now
<1> HIDE DEF e
<1>10. BookExact'
  BY <1>5, <1>8 DEF BookExact
<1> QED
  BY <1>3, <1>4, <1>5, <1>6, <1>7, <1>9, <1>10 DEF StampsInOrder

(* The invariant survives a history that grows at its end.                 *)
LEMMA HistoryGrows ==
  ASSUME TypeOK, BookInv, bookAt' \in Seq(Book), Now <= Now',
         \A t \in 1..Now : bookAt'[t] = bookAt[t], UNCHANGED <<chan, answer, pc, state>>
  PROVE  BookInv'
<1>1. /\ bookAt \in Seq(Book) /\ chan \in Seq(Inbound) /\ answer.ts \in Nat
      /\ lastTs \in Nat /\ snapTs \in Nat /\ Now \in Nat /\ Now' \in Nat
  BY DEF TypeOK, Now
<1>2. ChanTrue'
  <2> SUFFICES ASSUME NEW i \in DOMAIN chan PROVE EventTrue(bookAt', chan[i])
    BY DEF ChanTrue
  <2>1. EventTrue(bookAt, chan[i]) /\ chan[i] \in Inbound
    BY <1>1 DEF BookInv, ChanTrue
  <2> QED
    BY <1>1, <2>1, EventStaysTrue DEF Now
<1>3. AnswerTrue'
  BY <1>1 DEF BookInv, AnswerTrue
<1>4. StampsInOrder'
  BY <1>1 DEF BookInv, StampsInOrder, state
<1>5. BookExact'
  <2> SUFFICES ASSUME lastTs > 0 PROVE BookExact'
    BY DEF BookExact, state
  <2>1. /\ bookAt'[lastTs] = bookAt[lastTs] /\ bookAt'[snapTs] = bookAt[snapTs]
        /\ \A t \in snapTs..lastTs : bookAt'[t] = bookAt[t]
    BY <1>1 DEF BookInv, StampsInOrder
  <2> QED
    BY <2>1 DEF BookInv, BookExact, state
<1> QED
  BY <1>2, <1>3, <1>4, <1>5 DEF BookInv

(* Initially nothing has been loaded.                                      *)
LEMMA InitBook == Init => BookInv
BY DEF Init, BookInv, ChanTrue, StampsInOrder, AnswerTrue, BookExact

(* The engine and the socket keep the invariant.                           *)
LEMMA EngineBook == TypeOK /\ BookInv /\ Engine => BookInv'
<1> SUFFICES ASSUME TypeOK, BookInv, Engine PROVE BookInv'
  OBVIOUS
<1>1. CASE EngineChange
  <2>1. PICK l \in Level, s \in Size :
           bookAt' = Append(bookAt, [bookAt[Now] EXCEPT ![l] = s])
    BY <1>1 DEF EngineChange
  <2>2. Now' = Now + 1 /\ Now \in Nat /\ \A t \in 1..Now : bookAt'[t] = bookAt[t]
    BY <2>1 DEF TypeOK, Now
  <2>3. bookAt' \in Seq(Book)
    BY EngineType DEF TypeOK
  <2>4. UNCHANGED <<chan, answer, pc, state>>
    BY <1>1 DEF EngineChange, session
  <2> QED
    BY <2>2, <2>3, <2>4, HistoryGrows
<1> DEFINE Queued(e) == chan' = Append(chan, e) /\ e \in Inbound /\ EventTrue(bookAt, e)
<1>2. ASSUME UNCHANGED <<bookAt, answer, pc, state>>,
             chan' = chan \/ \E e : Queued(e)
      PROVE  BookInv'
  <2>1. Now' = Now /\ chan \in Seq(Inbound)
    BY <1>2 DEF Now, TypeOK
  <2>2. ChanTrue'
    BY <1>2, <2>1 DEF BookInv, ChanTrue
  <2> QED
    BY <1>2, <2>1, <2>2 DEF BookInv, StampsInOrder, AnswerTrue, BookExact, state
<1>3. CASE EnginePublish
  <2> DEFINE e == [kind |-> "delta", last_max |-> pubTs, max |-> Now,
                   levels |-> Touched(pubTs, Now)]
  <2>1. EventTrue(bookAt, e)
    BY <1>3, PublishedTrue DEF EnginePublish
  <2>2. e \in Inbound
    <3>1. Touched(pubTs, Now) \in Delta
      BY TouchedType DEF TypeOK, Now
    <3> QED
      BY <3>1 DEF Inbound, TypeOK, Now
  <2>3. chan' = chan \/ chan' = Append(chan, e)
    BY <1>3 DEF EnginePublish
  <2>4. UNCHANGED <<bookAt, answer, pc, state>>
    BY <1>3 DEF EnginePublish
  <2> HIDE DEF e
  <2> QED
    BY <1>2, <2>1, <2>2, <2>3, <2>4
<1>4. CASE EngineSubscribed \/ SocketFails
  <2>1. \A k \in {"other", "error"} : EventTrue(bookAt, Event(k)) /\ Event(k) \in Inbound
    BY EventType DEF EventTrue, Event
  <2>2. UNCHANGED <<bookAt, answer, pc, state>>
    BY <1>4 DEF EngineSubscribed, SocketFails, engine
  <2>3. chan' = Append(chan, Event("other")) \/ chan' = Append(chan, Event("error"))
    BY <1>4 DEF EngineSubscribed, SocketFails
  <2> QED
    BY <1>2, <2>1, <2>2, <2>3
<1>5. CASE EngineAnswers
  <2>1. UNCHANGED <<bookAt, chan, state>> /\ Now' = Now /\ Now \in Nat /\ 1 <= Now
    BY <1>5 DEF EngineAnswers, engine, Now, TypeOK
  <2>2. AnswerTrue'
    BY <1>5, <2>1 DEF EngineAnswers, AnswerTrue
  <2> QED
    BY <2>1, <2>2 DEF BookInv, ChanTrue, StampsInOrder, BookExact, state
<1> QED
  BY <1>1, <1>3, <1>4, <1>5 DEF Engine

(* The worker's steps keep the invariant.                                  *)
LEMMA WorkerBook == TypeOK /\ BookInv /\ Worker => BookInv'
<1> SUFFICES ASSUME TypeOK, BookInv, Worker PROVE BookInv'
  OBVIOUS
<1>1. Now' = Now /\ bookAt' = bookAt
  BY DEF Now, Worker, WorkerAnnounce, WorkerConnect, WorkerConnected, WorkerFetchFails,
         WorkerReset, WorkerSnapshot, WorkerApply, WorkerSkip, WorkerBreaks, WorkerStamp,
         WorkerEmit, WorkerFailed, engine
<1>2. chan \in Seq(Inbound)
  BY DEF TypeOK
<1>3. ASSUME chan' \in {chan, <<>>} \/ (chan # <<>> /\ chan' = Tail(chan))
      PROVE  ChanTrue'
  BY <1>1, <1>2, <1>3 DEF BookInv, ChanTrue
<1>4. CASE WorkerReset
  <2>1. BookExact'
    BY <1>4, ResetExact
  <2>2. /\ chan' = chan /\ pc' = "snapshot" /\ lastTs' = answer.ts /\ snapTs' = answer.ts
        /\ 1 <= answer.ts /\ answer.ts <= Now /\ answer.ts \in Nat
    BY <1>4 DEF WorkerReset, session, BookInv, AnswerTrue, TypeOK
  <2> QED
    BY <1>1, <1>3, <2>1, <2>2 DEF BookInv, AnswerTrue, StampsInOrder
<1>5. CASE WorkerApply
  <2>1. chan # <<>> /\ chan' = Tail(chan) /\ pc' = "stamp"
    BY <1>5 DEF WorkerApply
  <2> QED
    BY <1>3, <1>5, <2>1, ApplyExact DEF BookInv, AnswerTrue
<1>6. ASSUME UNCHANGED <<answer, state>>, pc' # "reset",
             chan' \in {chan, <<>>} \/ (chan # <<>> /\ chan' = Tail(chan))
      PROVE  BookInv'
  BY <1>1, <1>3, <1>6 DEF BookInv, AnswerTrue, StampsInOrder, BookExact, state
<1>7. CASE WorkerSkip \/ WorkerBreaks \/ WorkerFetchFails
  BY <1>6, <1>7 DEF WorkerSkip, WorkerBreaks, WorkerFetchFails, EndSession
<1>8. CASE WorkerAnnounce \/ WorkerConnect \/ WorkerConnected \/ WorkerSnapshot
           \/ WorkerStamp \/ WorkerEmit \/ WorkerFailed
  BY <1>6, <1>8 DEF WorkerAnnounce, WorkerConnect, WorkerConnected, WorkerSnapshot,
                    WorkerStamp, WorkerEmit, WorkerFailed, session
<1> QED
  BY <1>4, <1>5, <1>7, <1>8 DEF Worker

(* Every step keeps the invariant; a browser's task touches none of it.    *)
LEMMA StepBook == TypeOK /\ BookInv /\ [Next]_vars => BookInv'
<1>1. ASSUME TypeOK, BookInv, UNCHANGED <<bookAt, chan, answer, state, pc>> PROVE BookInv'
  BY <1>1 DEF BookInv, ChanTrue, AnswerTrue, StampsInOrder, BookExact, Now, state
<1>2. ASSUME NEW c \in Clients, Client(c) PROVE UNCHANGED <<bookAt, chan, answer, state, pc>>
  BY <1>2 DEF Client, ClientRegister, ClientSnapshot, ClientGreet, ClientForward, ClientLeave,
              ClientUnsubscribe, ClientDies, engine, session
<1>3. ASSUME UNCHANGED vars PROVE UNCHANGED <<bookAt, chan, answer, state, pc>>
  BY <1>3 DEF vars, state
<1> QED
  BY <1>1, <1>2, <1>3, EngineBook, WorkerBook DEF Next

(* The gateway's book is exact in every reachable state: at lastTs it      *)
(* holds the engine's sizes, and lacks only levels that were below the     *)
(* requested depth at the last snapshot and untouched since.               *)
THEOREM BookAlwaysExact == Spec => []BookExact
<1>1. BookInv => BookExact
  BY DEF BookInv
<1> QED
  BY InitBook, StepBook, TypeCorrect, <1>1, PTL DEF Spec

-----------------------------------------------------------------------------
(* The message the worker holds.  From the moment it is built until it is  *)
(* emitted the state lock is free, but only the worker writes the state.   *)
OutCurrent ==
    /\ pc = "reset" => lastTs <= answer.ts
    /\ pc = "snapshot" => 1 <= lastTs /\ lastTs = answer.ts
    /\ pc \in {"stamp", "emit"} =>
          IsBook(out) /\ 1 <= lastTs /\ out.ts = lastTs /\ out.view = DepthView(book)
    /\ pc = "stamp" => out.kind = "update"
    /\ lastTs = 0 => book = EmptyBook

(* Initially no message has been built.                                    *)
LEMMA InitOut == Init => OutCurrent
BY DEF Init, OutCurrent

(* The engine never answers with a moment older than the gateway's book.   *)
LEMMA EngineOut == TypeOK /\ BookInv /\ OutCurrent /\ Engine => OutCurrent'
<1> SUFFICES ASSUME TypeOK, BookInv, OutCurrent, Engine PROVE OutCurrent'
  OBVIOUS
<1>1. CASE EngineAnswers
  <2>1. lastTs <= Now
    BY DEF BookInv, StampsInOrder, TypeOK, Now
  <2> QED
    BY <1>1, <2>1 DEF EngineAnswers, OutCurrent, state
<1>2. CASE EngineChange \/ EnginePublish \/ EngineSubscribed \/ SocketFails
  <2>1. UNCHANGED <<answer, state, pc, out>>
    BY <1>2 DEF EngineChange, EnginePublish, EngineSubscribed, SocketFails, session
  <2> QED
    BY <2>1 DEF OutCurrent, state, IsBook
<1> QED
  BY <1>1, <1>2 DEF Engine

(* The worker's own steps keep its message current.                        *)
LEMMA WorkerOut == TypeOK /\ BookInv /\ OutCurrent /\ Worker => OutCurrent'
<1> SUFFICES ASSUME TypeOK, BookInv, OutCurrent, Worker PROVE OutCurrent'
  OBVIOUS
<1>1. CASE WorkerReset
  <2>1. answer.ts \in Nat /\ 1 <= answer.ts
    BY <1>1 DEF WorkerReset, BookInv, AnswerTrue, TypeOK
  <2>2. lastTs' = answer.ts /\ answer' = answer /\ pc' = "snapshot"
    BY <1>1 DEF WorkerReset, session
  <2> QED
    BY <2>1, <2>2 DEF OutCurrent
<1>2. CASE WorkerSnapshot
  BY <1>2 DEF WorkerSnapshot, OutCurrent, state, IsBook
<1>3. CASE WorkerApply
  <2> DEFINE e == Head(chan)
  <2>1. e \in Inbound /\ lastTs \in Nat
    BY <1>3 DEF WorkerApply, TypeOK
  <2>2. e.max \in Nat /\ 1 <= e.max
    BY <1>3, <2>1 DEF WorkerApply, ApplyOutcome, Inbound
  <2>3. /\ pc' = "stamp" /\ lastTs' = e.max /\ book' = ApplySides(book, e.levels)
        /\ out' = [kind |-> "update", seq |-> 0, ts |-> e.max,
                   view |-> DepthView(ApplySides(book, e.levels))]
    BY <1>3 DEF WorkerApply
  <2> HIDE DEF e
  <2>4. out'.view = DepthView(book')
    BY <2>3
  <2>5. (DepthView(book))' = DepthView(book')
    BY DEF DepthView, Top
  <2> QED
    BY <2>2, <2>3, <2>4, <2>5 DEF OutCurrent, IsBook
<1>4. CASE WorkerStamp
  <2>1. /\ out'.kind = out.kind /\ out'.ts = out.ts /\ out'.view = out.view
        /\ pc = "stamp" /\ pc' = "emit" /\ UNCHANGED state
    BY <1>4 DEF WorkerStamp, TypeOK, Message
  <2> QED
    BY <2>1 DEF OutCurrent, state, IsBook
<1>5. CASE \/ WorkerAnnounce \/ WorkerConnect \/ WorkerConnected \/ WorkerFetchFails
           \/ WorkerSkip \/ WorkerBreaks \/ WorkerEmit \/ WorkerFailed
  <2>1. UNCHANGED state /\ pc' \notin {"reset", "snapshot", "stamp", "emit"}
    BY <1>5 DEF WorkerAnnounce, WorkerConnect, WorkerConnected, WorkerFetchFails,
                WorkerSkip, WorkerBreaks, WorkerEmit, WorkerFailed
  <2> QED
    BY <2>1 DEF OutCurrent, state
<1> QED
  BY <1>1, <1>2, <1>3, <1>4, <1>5 DEF Worker

(* Every step does: a browser's task writes none of it.                    *)
LEMMA StepOut == TypeOK /\ BookInv /\ OutCurrent /\ [Next]_vars => OutCurrent'
<1>1. ASSUME OutCurrent, UNCHANGED <<answer, state, pc, out>> PROVE OutCurrent'
  BY <1>1 DEF OutCurrent, state, IsBook
<1>2. ASSUME NEW c \in Clients, Client(c) PROVE UNCHANGED <<answer, state, pc, out>>
  BY <1>2 DEF Client, ClientRegister, ClientSnapshot, ClientGreet, ClientForward, ClientLeave,
              ClientUnsubscribe, ClientDies, session
<1>3. ASSUME UNCHANGED vars PROVE UNCHANGED <<answer, state, pc, out>>
  BY <1>3 DEF vars, state
<1> QED
  BY <1>1, <1>2, <1>3, EngineOut, WorkerOut DEF Next

-----------------------------------------------------------------------------
(* One step of the queue of browser c, whoever takes it.                   *)

(* The worker is following the stream: what it emits next is an update.    *)
Following == pc \in {"stream", "stamp"} \/ (pc = "emit" /\ out.kind = "update")

(* A queue is only filled for a subscriber, and a task that is served, or  *)
(* about to be, is one; it shows nothing before it is greeted.             *)
Ready(c) ==
    /\ rx[c] # <<>> => c \in subscribers /\ conn[c] # "dead"
    /\ c \in subscribers => conn[c] \notin {"off", "gone"}
    /\ conn[c] \in {"registered", "greeting", "open"} => c \in subscribers
    /\ conn[c] \in {"off", "registered", "greeting"} => seen[c].view = EmptyBook
    /\ ~IsBook(greet[c]) => greet[c].view = EmptyBook

QueueKept(c) == rx'[c] = rx[c] /\ (Following' => Following \/ rx[c] = <<>>)

QueueTold(c) ==
    /\ \E s \in Statuses : rx'[c] = Append(rx[c], Status(s))
    /\ pc \notin {"snapshot", "stamp", "emit"}
    /\ pc' \in {"connect", "fetch", "announce"}

QueueFed(c) == rx'[c] = Append(rx[c], out) /\ pc = "emit" /\ pc' = "stream"

QueueRead(c) == rx[c] # <<>> /\ rx'[c] = Tail(rx[c]) /\ UNCHANGED <<pc, out>>

QueueDropped(c) == rx'[c] = <<>>

QueueStep(c) ==
    QueueKept(c) \/ QueueTold(c) \/ QueueFed(c) \/ QueueRead(c) \/ QueueDropped(c)

(* emit reaches the queue of every subscriber whose task is alive.         *)
LEMMA EmitQueue ==
  ASSUME TypeOK, NEW m, Emit(m), NEW c \in Clients
  PROVE  \/ rx'[c] = Append(rx[c], m)
         \/ rx'[c] = rx[c] /\ (c \notin subscribers \/ conn[c] = "dead")
BY DEF Emit, TypeOK

(* The worker leaves a queue alone or appends to it.                       *)
LEMMA WorkerQueue ==
  ASSUME TypeOK, Worker, NEW c \in Clients, Ready(c)
  PROVE  QueueStep(c)
<1>1. CASE WorkerAnnounce \/ WorkerConnected \/ WorkerFailed
  <2>1. PICK s \in Statuses : Emit(Status(s))
    BY <1>1 DEF WorkerAnnounce, WorkerConnected, WorkerFailed, Statuses
  <2>2. /\ pc \notin {"snapshot", "stamp", "emit"}
        /\ pc' \in {"connect", "fetch", "announce"}
    BY <1>1 DEF WorkerAnnounce, WorkerConnected, WorkerFailed
  <2>3. QueueTold(c) \/ rx'[c] = rx[c]
    BY <2>1, <2>2, EmitQueue DEF QueueTold
  <2>4. ~Following'
    BY <2>2 DEF Following
  <2> QED
    BY <2>3, <2>4 DEF QueueStep, QueueKept
<1>2. CASE WorkerEmit
  <2>1. Emit(out) /\ pc = "emit" /\ pc' = "stream"
    BY <1>2 DEF WorkerEmit
  <2>2. rx'[c] = Append(rx[c], out) \/ (rx'[c] = rx[c] /\ rx[c] = <<>>)
    BY <2>1, EmitQueue DEF Ready
  <2> QED
    BY <2>1, <2>2 DEF QueueStep, QueueFed, QueueKept
<1>3. CASE \/ WorkerConnect \/ WorkerFetchFails \/ WorkerReset \/ WorkerSnapshot
           \/ WorkerApply \/ WorkerSkip \/ WorkerBreaks \/ WorkerStamp
  <2>1. rx' = rx
    BY <1>3 DEF WorkerConnect, WorkerFetchFails, WorkerReset, WorkerSnapshot, WorkerApply,
                WorkerSkip, WorkerBreaks, WorkerStamp
  <2>2. Following' => Following
    <3>1. CASE WorkerStamp
      BY <3>1 DEF WorkerStamp, Following, TypeOK, Message
    <3>2. CASE \/ WorkerConnect \/ WorkerFetchFails \/ WorkerReset \/ WorkerSnapshot
               \/ WorkerApply \/ WorkerSkip \/ WorkerBreaks
      BY <3>2 DEF WorkerConnect, WorkerFetchFails, WorkerReset, WorkerSnapshot, WorkerApply,
                  WorkerSkip, WorkerBreaks, Following
    <3> QED
      BY <1>3, <3>1, <3>2
  <2> QED
    BY <2>1, <2>2 DEF QueueStep, QueueKept
<1> QED
  BY <1>1, <1>2, <1>3 DEF Worker

(* A browser's task leaves every other queue alone, and reads or drops its *)
(* own.                                                                    *)
LEMMA ClientQueue ==
  ASSUME TypeOK, NEW d \in Clients, Client(d), NEW c \in Clients
  PROVE  QueueStep(c)
<1>1. UNCHANGED <<pc, out>>
  BY DEF Client, ClientRegister, ClientSnapshot, ClientGreet, ClientForward, ClientLeave,
         ClientUnsubscribe, ClientDies
<1>2. rx'[c] = rx[c] \/ (rx[c] # <<>> /\ rx'[c] = Tail(rx[c])) \/ rx'[c] = <<>>
  BY DEF Client, ClientRegister, ClientSnapshot, ClientGreet, ClientForward, ClientLeave,
         ClientUnsubscribe, ClientDies, TypeOK
<1> QED
  BY <1>1, <1>2 DEF QueueStep, QueueKept, QueueRead, QueueDropped, Following

(* So every step is one of the five.                                       *)
LEMMA NextQueue ==
  ASSUME TypeOK, [Next]_vars, NEW c \in Clients, Ready(c)
  PROVE  QueueStep(c)
<1>1. ASSUME UNCHANGED <<rx, out>>, Following' => Following PROVE QueueStep(c)
  BY <1>1 DEF QueueStep, QueueKept
<1>2. ASSUME Engine PROVE UNCHANGED <<rx, out>> /\ (Following' => Following)
  BY <1>2 DEF Engine, EngineChange, EnginePublish, EngineSubscribed, SocketFails,
              EngineAnswers, Following
<1>3. ASSUME UNCHANGED vars PROVE UNCHANGED <<rx, out>> /\ (Following' => Following)
  BY <1>3 DEF vars, Following
<1> QED
  BY <1>1, <1>2, <1>3, WorkerQueue, ClientQueue DEF Next

-----------------------------------------------------------------------------
(* ViewsSound: what was the engine's past stays so.                        *)

Past(h, m) ==
    IsBook(m) => /\ m.ts \in 1..Len(h)
                 /\ \A l \in Level : m.view[l] # 0 => m.view[l] = h[m.ts][l]

(* The history only grows, at its end.                                     *)
LEMMA HistoryKept ==
  ASSUME TypeOK, [Next]_vars
  PROVE  Len(bookAt) <= Len(bookAt') /\ \A t \in 1..Len(bookAt) : bookAt'[t] = bookAt[t]
<1>1. CASE EngineChange
  <2>1. PICK l \in Level, s \in Size :
           bookAt' = Append(bookAt, [bookAt[Now] EXCEPT ![l] = s])
    BY <1>1 DEF EngineChange
  <2> QED
    BY <2>1 DEF TypeOK
<1>2. CASE ~EngineChange
  <2>1. bookAt' = bookAt
    BY <1>2 DEF Next, Engine, EnginePublish, EngineSubscribed, SocketFails, EngineAnswers,
           Worker, WorkerAnnounce, WorkerConnect, WorkerConnected, WorkerFetchFails,
           WorkerReset, WorkerSnapshot, WorkerApply, WorkerSkip, WorkerBreaks, WorkerStamp,
           WorkerEmit, WorkerFailed, Client, ClientRegister, ClientSnapshot, ClientGreet,
           ClientForward, ClientLeave, ClientUnsubscribe, ClientDies, engine, vars
  <2> QED
    BY <2>1 DEF TypeOK
<1> QED
  BY <1>1, <1>2

(* A view of a longer history that is not newer shows its past.            *)
LEMMA PastStays ==
  ASSUME NEW h \in Seq(Book), NEW g \in Seq(Book), NEW m \in Message, Past(h, m),
         Len(h) <= Len(g), \A t \in 1..Len(h) : g[t] = h[t]
  PROVE  Past(g, m)
BY DEF Past, Message

(* A view of the gateway's book, stamped with lastTs, shows the past.      *)
LEMMA CurrentView ==
  ASSUME TypeOK, BookInv, NEW m, m.ts = lastTs, m.view = DepthView(book), 1 <= lastTs
  PROVE  Past(bookAt, m)
<1>1. lastTs \in 1..Len(bookAt)
  BY DEF BookInv, StampsInOrder, TypeOK, Now
<1>2. ASSUME NEW l \in Level, m.view[l] # 0 PROVE m.view[l] = bookAt[lastTs][l]
  <2>1. m.view[l] = book[l]
    BY <1>2 DEF DepthView
  <2>2. book[l] = bookAt[lastTs][l] \/ book[l] = 0
    BY <1>1 DEF BookInv, BookExact
  <2> QED
    BY <1>2, <2>1, <2>2
<1> QED
  BY <1>1, <1>2 DEF Past

(* A status shows no book.                                                 *)
LEMMA StatusShows ==
  ASSUME NEW h, NEW s \in Statuses
  PROVE  ~IsBook(Status(s)) /\ Past(h, Status(s)) /\ Status(s).view = EmptyBook
BY DEF Statuses, Status, IsBook, Past

(* The queue of c after a step holds what it held, or what was emitted.    *)
LEMMA QueueViews ==
  ASSUME TypeOK, BookInv, OutCurrent, NEW c \in Clients, QueueStep(c),
         \A i \in DOMAIN rx[c] : Past(bookAt, rx[c][i])
  PROVE  \A i \in DOMAIN rx'[c] : Past(bookAt, rx'[c][i])
<1>1. rx[c] \in Seq(Message)
  BY DEF TypeOK
<1>2. CASE QueueKept(c) \/ QueueDropped(c)
  BY <1>2 DEF QueueKept, QueueDropped
<1>3. CASE QueueTold(c)
  <2>1. PICK s \in Statuses : rx'[c] = Append(rx[c], Status(s))
    BY <1>3 DEF QueueTold
  <2>2. Past(bookAt, Status(s)) /\ Status(s) \in Message
    BY StatusShows, StatusType
  <2> QED
    BY <1>1, <2>1, <2>2
<1>4. CASE QueueFed(c)
  <2>1. Past(bookAt, out)
    BY <1>4, CurrentView DEF QueueFed, OutCurrent
  <2> QED
    BY <1>1, <1>4, <2>1 DEF QueueFed, TypeOK
<1>5. CASE QueueRead(c)
  BY <1>1, <1>5 DEF QueueRead
<1> QED
  BY <1>2, <1>3, <1>4, <1>5 DEF QueueStep

(* What a browser is greeted with and what it shows after a step.          *)
LEMMA ShownViews ==
  ASSUME TypeOK, BookInv, OutCurrent, ViewsSound, [Next]_vars, NEW c \in Clients
  PROVE  Past(bookAt, seen'[c]) /\ Past(bookAt, greet'[c])
<1>1. /\ Past(bookAt, seen[c]) /\ Past(bookAt, greet[c])
      /\ \A i \in DOMAIN rx[c] : Past(bookAt, rx[c][i])
  BY DEF ViewsSound, ShowsThePast, Past, Now
<1>2. Past(bookAt, Status("warming_up"))
  BY StatusShows DEF Statuses
<1>3. CASE ClientSnapshot(c)
  <2> DEFINE m == [kind |-> "snapshot", seq |-> seq, ts |-> lastTs, view |-> DepthView(book)]
  <2>1. seen'[c] = seen[c] /\ greet'[c] \in {Status("warming_up"), m}
    BY <1>3 DEF ClientSnapshot, TypeOK
  <2>2. CASE is_empty(book)
    BY <1>1, <1>2, <1>3, <2>1, <2>2 DEF ClientSnapshot, TypeOK
  <2>3. CASE ~is_empty(book)
    <3>1. 1 <= lastTs
      BY <2>3 DEF OutCurrent, is_empty, TypeOK
    <3>2. Past(bookAt, m)
      BY <3>1, CurrentView
    <3> QED
      BY <1>1, <1>2, <2>1, <3>2
  <2> QED
    BY <2>2, <2>3
<1>4. CASE ClientGreet(c)
  BY <1>1, <1>2, <1>4 DEF ClientGreet, Deliver, TypeOK
<1>5. CASE ClientForward(c)
  <2>1. rx[c] \in Seq(Message) /\ rx[c] # <<>>
    BY <1>5 DEF ClientForward, TypeOK
  <2>2. Past(bookAt, Head(rx[c]))
    BY <1>1, <2>1
  <2> QED
    BY <1>1, <1>5, <2>2 DEF ClientForward, Deliver, TypeOK
<1>6. CASE ~(ClientSnapshot(c) \/ ClientGreet(c) \/ ClientForward(c))
  <2>1. seen'[c] = seen[c] /\ greet'[c] = greet[c]
    <3>1. ASSUME NEW d \in Clients, Client(d) PROVE seen'[c] = seen[c] /\ greet'[c] = greet[c]
      BY <1>6, <3>1 DEF Client, ClientRegister, ClientSnapshot, ClientGreet, ClientForward,
                        ClientLeave, ClientUnsubscribe, ClientDies, Deliver, TypeOK
    <3>2. ASSUME Engine \/ Worker \/ UNCHANGED vars
          PROVE  seen'[c] = seen[c] /\ greet'[c] = greet[c]
      BY <3>2 DEF Engine, EngineChange, EnginePublish, EngineSubscribed, SocketFails,
             EngineAnswers, Worker, WorkerAnnounce, WorkerConnect, WorkerConnected,
             WorkerFetchFails, WorkerReset, WorkerSnapshot, WorkerApply, WorkerSkip,
             WorkerBreaks, WorkerStamp, WorkerEmit, WorkerFailed, tasks, vars
    <3> QED
      BY <3>1, <3>2 DEF Next
  <2> QED
    BY <1>1, <2>1
<1> QED
  BY <1>3, <1>4, <1>5, <1>6

-----------------------------------------------------------------------------
(* Ready.                                                                  *)

AllReady == \A c \in Clients : Ready(c)

(* Initially no browser is there.                                          *)
LEMMA InitReady == Init => AllReady
BY StatusShows DEF Init, AllReady, Ready, Statuses, Status

(* The worker fills and forgets only what it may.                          *)
LEMMA WorkerReady == TypeOK /\ AllReady /\ Worker => AllReady'
<1> SUFFICES ASSUME TypeOK, AllReady, Worker, NEW c \in Clients PROVE Ready(c)'
  BY DEF AllReady
<1>1. UNCHANGED tasks
  BY DEF Worker, WorkerAnnounce, WorkerConnect, WorkerConnected, WorkerFetchFails, WorkerReset,
         WorkerSnapshot, WorkerApply, WorkerSkip, WorkerBreaks, WorkerStamp, WorkerEmit,
         WorkerFailed, tasks
<1>2. CASE UNCHANGED <<rx, subscribers>>
  BY <1>1, <1>2 DEF AllReady, Ready, tasks, IsBook
<1>3. CASE \E m : Emit(m)
  <2>1. /\ (c \in subscribers /\ conn[c] # "dead") => c \in subscribers'
        /\ c \in subscribers' => c \in subscribers
        /\ rx'[c] = rx[c] \/ (c \in subscribers /\ conn[c] # "dead")
    BY <1>3 DEF Emit, TypeOK
  <2> QED
    BY <1>1, <2>1 DEF AllReady, Ready, tasks, IsBook
<1>4. UNCHANGED <<rx, subscribers>> \/ \E m : Emit(m)
  BY DEF Worker, WorkerAnnounce, WorkerConnect, WorkerConnected, WorkerFetchFails, WorkerReset,
         WorkerSnapshot, WorkerApply, WorkerSkip, WorkerBreaks, WorkerStamp, WorkerEmit,
         WorkerFailed
<1> QED
  BY <1>2, <1>3, <1>4

(* A browser's task keeps its own part and touches no other's.             *)
LEMMA ClientReady == ASSUME TypeOK, AllReady, NEW d \in Clients, Client(d) PROVE AllReady'
<1> SUFFICES ASSUME NEW c \in Clients PROVE Ready(c)'
  BY DEF AllReady
<1>1. Ready(c) /\ ~IsBook(Status("warming_up")) /\ Status("warming_up").view = EmptyBook
  BY StatusShows DEF AllReady, Statuses
<1>2. CASE ClientRegister(d)
  BY <1>1, <1>2 DEF ClientRegister, Ready, IsBook, TypeOK
<1>3. CASE ClientSnapshot(d)
  <2>1. ~IsBook(greet'[c]) => greet'[c].view = EmptyBook
    <3>1. CASE is_empty(book) \/ d # c
      BY <1>1, <1>3, <3>1 DEF ClientSnapshot, Ready, TypeOK
    <3>2. CASE ~is_empty(book) /\ d = c
      BY <1>3, <3>2 DEF ClientSnapshot, IsBook, TypeOK
    <3> QED
      BY <3>1, <3>2
  <2>2. UNCHANGED <<rx, subscribers, seen>>
    BY <1>3 DEF ClientSnapshot
  <2>3. /\ conn'[c] = conn[c] \/ (conn[c] = "registered" /\ conn'[c] = "greeting")
    BY <1>3 DEF ClientSnapshot, TypeOK
  <2> QED
    BY <1>1, <2>1, <2>2, <2>3 DEF Ready, IsBook
<1>4. CASE ClientGreet(d)
  BY <1>1, <1>4 DEF ClientGreet, Deliver, Ready, IsBook, TypeOK
<1>5. CASE ClientForward(d)
  BY <1>1, <1>5 DEF ClientForward, Deliver, Ready, IsBook, TypeOK
<1>6. CASE ClientLeave(d)
  BY <1>1, <1>6 DEF ClientLeave, Ready, IsBook, TypeOK
<1>7. CASE ClientUnsubscribe(d)
  BY <1>1, <1>7 DEF ClientUnsubscribe, Ready, IsBook, TypeOK
<1>8. CASE ClientDies(d)
  BY <1>1, <1>8 DEF ClientDies, Ready, IsBook, TypeOK
<1> QED
  BY <1>2, <1>3, <1>4, <1>5, <1>6, <1>7, <1>8 DEF Client

(* Every step keeps it.                                                    *)
LEMMA StepReady == TypeOK /\ AllReady /\ [Next]_vars => AllReady'
<1>1. ASSUME AllReady, UNCHANGED <<rx, subscribers, tasks>> PROVE AllReady'
  BY <1>1 DEF AllReady, Ready, IsBook, tasks
<1>2. ASSUME Engine \/ UNCHANGED vars PROVE UNCHANGED <<rx, subscribers, tasks>>
  BY <1>2 DEF Engine, EngineChange, EnginePublish, EngineSubscribed, SocketFails,
              EngineAnswers, vars, tasks
<1> QED
  BY <1>1, <1>2, WorkerReady, ClientReady DEF Next

(* Every step keeps the views sound.                                       *)
LEMMA StepViews ==
  TypeOK /\ BookInv /\ OutCurrent /\ AllReady /\ ViewsSound /\ [Next]_vars => ViewsSound'
<1> SUFFICES ASSUME TypeOK, BookInv, OutCurrent, AllReady, ViewsSound, [Next]_vars,
                    NEW c \in Clients
             PROVE  /\ Past(bookAt', seen'[c]) /\ Past(bookAt', greet'[c])
                    /\ \A i \in DOMAIN rx'[c] : Past(bookAt', rx'[c][i])
  BY DEF ViewsSound, ShowsThePast, Past, Now, IsBook
<1>1. \A i \in DOMAIN rx[c] : Past(bookAt, rx[c][i])
  BY DEF ViewsSound, ShowsThePast, Past, Now
<1>2. QueueStep(c)
  BY NextQueue DEF AllReady
<1>3. \A i \in DOMAIN rx'[c] : Past(bookAt, rx'[c][i])
  BY <1>1, <1>2, QueueViews
<1>4. Past(bookAt, seen'[c]) /\ Past(bookAt, greet'[c])
  BY ShownViews
<1>5. /\ bookAt \in Seq(Book) /\ bookAt' \in Seq(Book) /\ rx'[c] \in Seq(Message)
      /\ seen'[c] \in Message /\ greet'[c] \in Message
  BY StepType DEF TypeOK
<1>6. Len(bookAt) <= Len(bookAt') /\ \A t \in 1..Len(bookAt) : bookAt'[t] = bookAt[t]
  BY HistoryKept
<1> QED
  BY <1>3, <1>4, <1>5, <1>6, PastStays

(* Initially no book is shown.                                             *)
LEMMA InitViews == Init => ViewsSound
BY StatusShows DEF Init, ViewsSound, ShowsThePast, Statuses

(* Whatever a browser is shown was the engine's book, at the time stamped  *)
(* on the message, for the levels shown: no interleaving of the worker,    *)
(* the engine and subscribe mislabels a view.                              *)
THEOREM ViewsAreSound == Spec => []ViewsSound
BY InitBook, StepBook, TypeCorrect, InitOut, StepOut, InitReady, StepReady, InitViews,
   StepViews, PTL DEF Spec

-----------------------------------------------------------------------------
(* QueueOrdered: whatever a queue holds is behind the message the worker   *)
(* builds next.                                                            *)

Ordered(q) ==
    \A i, j \in DOMAIN q :
        i < j =>
          /\ IsBook(q[i]) /\ IsBook(q[j]) => q[i].seq < q[j].seq /\ q[i].ts <= q[j].ts
          /\ j = i + 1 /\ q[j].kind = "update" => IsBook(q[i])

(* Every book in q was stamped before n and is of t or earlier.            *)
Before(q, n, t) ==
    \A i \in DOMAIN q : IsBook(q[i]) => q[i].seq < n /\ q[i].ts <= t

(* The first book after a status is a whole one: q ends in a book while    *)
(* the worker follows the stream.                                          *)
EndsInBook(q) == q # <<>> => IsBook(q[Len(q)])

QueueInv(c) ==
    /\ Ordered(rx[c])
    /\ Before(rx[c], seq, lastTs)
    /\ pc = "emit" => Before(rx[c], out.seq, lastTs)
    /\ Following => EndsInBook(rx[c])

StampInv == pc = "emit" => out.seq < seq

QueuesInv == StampInv /\ \A c \in Clients : QueueInv(c)

(* Appending a later book, or a status, keeps a queue in order.            *)
LEMMA AppendOrdered ==
  ASSUME NEW q \in Seq(Message), NEW m \in Message, Ordered(q),
         IsBook(m) => Before(q, m.seq, m.ts),
         m.kind = "update" => EndsInBook(q)
  PROVE  Ordered(Append(q, m))
<1> SUFFICES ASSUME NEW i \in DOMAIN Append(q, m), NEW j \in DOMAIN Append(q, m), i < j
             PROVE  LET p == Append(q, m)
                    IN  /\ IsBook(p[i]) /\ IsBook(p[j]) => p[i].seq < p[j].seq /\ p[i].ts <= p[j].ts
                        /\ j = i + 1 /\ p[j].kind = "update" => IsBook(p[i])
  BY DEF Ordered
<1>1. i \in DOMAIN q /\ Append(q, m)[i] = q[i]
  OBVIOUS
<1>2. CASE j \in DOMAIN q
  <2>1. Append(q, m)[j] = q[j]
    BY <1>2
  <2> QED
    BY <1>1, <1>2, <2>1 DEF Ordered
<1>3. CASE j = Len(q) + 1
  <2>1. Append(q, m)[j] = m
    BY <1>3
  <2>2. j = i + 1 => i = Len(q) /\ q # <<>>
    BY <1>1, <1>3
  <2> QED
    BY <1>1, <2>1, <2>2 DEF Before, EndsInBook
<1> QED
  BY <1>2, <1>3

(* Appending keeps the bounds of a queue, if the message is within them.   *)
LEMMA AppendBefore ==
  ASSUME NEW q \in Seq(Message), NEW m \in Message, NEW n \in Nat, NEW t \in Nat,
         Before(q, n, t), IsBook(m) => m.seq < n /\ m.ts <= t
  PROVE  Before(Append(q, m), n, t)
BY DEF Before

(* Bounds may rise.                                                        *)
LEMMA BeforeRises ==
  ASSUME NEW q \in Seq(Message), NEW n \in Nat, NEW t \in Nat, NEW k \in Nat, NEW u \in Nat,
         Before(q, n, t), n <= k, t <= u
  PROVE  Before(q, k, u)
<1>1. \A i \in DOMAIN q : q[i] \in Message
  OBVIOUS
<1>2. \A m \in Message : m.seq \in Nat /\ m.ts \in Nat
  BY DEF Message
<1> QED
  BY <1>1, <1>2 DEF Before

(* Reading the first message keeps a queue in order, in its bounds and     *)
(* with its end.                                                           *)
LEMMA TailOrdered ==
  ASSUME NEW q \in Seq(Message), q # <<>>, Ordered(q)
  PROVE  Ordered(Tail(q))
<1>1. /\ Len(Tail(q)) = Len(q) - 1
      /\ \A i \in DOMAIN Tail(q) : i + 1 \in DOMAIN q /\ Tail(q)[i] = q[i + 1]
  OBVIOUS
<1> SUFFICES ASSUME NEW i \in DOMAIN Tail(q), NEW j \in DOMAIN Tail(q), i < j
             PROVE  LET p == Tail(q)
                    IN  /\ IsBook(p[i]) /\ IsBook(p[j]) => p[i].seq < p[j].seq /\ p[i].ts <= p[j].ts
                        /\ j = i + 1 /\ p[j].kind = "update" => IsBook(p[i])
  BY DEF Ordered
<1>2. i + 1 < j + 1 /\ (j = i + 1 => j + 1 = (i + 1) + 1)
  BY <1>1
<1> QED
  BY <1>1, <1>2 DEF Ordered

(* Reading the first message keeps the bounds of the rest.                 *)
LEMMA TailBefore ==
  ASSUME NEW q \in Seq(Message), q # <<>>, NEW n, NEW t, Before(q, n, t)
  PROVE  Before(Tail(q), n, t)
<1>1. \A i \in DOMAIN Tail(q) : i + 1 \in DOMAIN q /\ Tail(q)[i] = q[i + 1]
  OBVIOUS
<1> QED
  BY <1>1 DEF Before

(* And the rest, if any, still ends as the queue did.                      *)
LEMMA TailEnds ==
  ASSUME NEW q \in Seq(Message), q # <<>>, EndsInBook(q)
  PROVE  EndsInBook(Tail(q))
BY DEF EndsInBook

(* The counter and lastTs only rise, and a message is stamped with the     *)
(* counter before it is advanced.                                          *)
LEMMA StampRises ==
  ASSUME TypeOK, BookInv, OutCurrent, [Next]_vars
  PROVE  /\ seq <= seq' /\ lastTs <= lastTs'
         /\ pc' = "emit" => \/ pc = "emit" /\ out' = out
                            \/ pc # "emit" /\ out'.seq = seq /\ seq' = seq + 1
<1> USE DEF TypeOK
<1>1. CASE WorkerReset
  BY <1>1 DEF WorkerReset, OutCurrent
<1>2. CASE WorkerApply
  <2>3. Head(chan) \in Inbound
    BY <1>2 DEF WorkerApply
  <2>1. Head(chan).max \in Nat
    BY <2>3 DEF Inbound
  <2>2. seq' = seq /\ lastTs' = Head(chan).max /\ pc' = "stamp" /\ ~(Head(chan).max <= lastTs)
    BY <1>2 DEF WorkerApply, ApplyOutcome
  <2> QED
    BY <2>1, <2>2
<1>3. CASE WorkerSnapshot
  BY <1>3 DEF WorkerSnapshot, state
<1>4. CASE WorkerStamp
  BY <1>4 DEF WorkerStamp, state, Message
<1>5. CASE \/ WorkerAnnounce \/ WorkerConnect \/ WorkerConnected \/ WorkerFetchFails
           \/ WorkerSkip \/ WorkerBreaks \/ WorkerEmit \/ WorkerFailed
  BY <1>5 DEF WorkerAnnounce, WorkerConnect, WorkerConnected, WorkerFetchFails,
              WorkerSkip, WorkerBreaks, WorkerEmit, WorkerFailed, state
<1>6. CASE Engine \/ UNCHANGED vars
  BY <1>6 DEF Engine, EngineChange, EnginePublish, EngineSubscribed, SocketFails,
              EngineAnswers, state, vars
<1>7. CASE \E c \in Clients : Client(c)
  BY <1>7 DEF Client, ClientRegister, ClientSnapshot, ClientGreet, ClientForward, ClientLeave,
              ClientUnsubscribe, ClientDies, state
<1> QED
  BY <1>1, <1>2, <1>3, <1>4, <1>5, <1>6, <1>7 DEF Next, Worker

(* Every step of a queue keeps it in order and within its bounds.          *)
LEMMA StepQueue ==
  ASSUME TypeOK, BookInv, OutCurrent, QueuesInv, [Next]_vars, NEW c \in Clients, QueueStep(c)
  PROVE  QueueInv(c)'
<1> DEFINE q == rx[c]
<1>1. /\ q \in Seq(Message) /\ out \in Message /\ seq \in Nat /\ lastTs \in Nat
      /\ seq' \in Nat /\ lastTs' \in Nat /\ out' \in Message /\ out.seq \in Nat
  BY StepType DEF TypeOK, Message
<1>2. /\ seq <= seq' /\ lastTs <= lastTs'
      /\ pc' = "emit" => \/ pc = "emit" /\ out' = out
                         \/ pc # "emit" /\ out'.seq = seq /\ seq' = seq + 1
  BY StampRises
<1>3. /\ Ordered(q) /\ Before(q, seq, lastTs)
      /\ pc = "emit" => Before(q, out.seq, lastTs) /\ out.seq < seq
      /\ Following => EndsInBook(q)
  BY DEF QueuesInv, QueueInv, StampInv
(* A queue that only shrinks keeps all of it.                              *)
<1>4. ASSUME NEW p \in Seq(Message), Ordered(p), Before(p, seq, lastTs),
             pc = "emit" => Before(p, out.seq, lastTs), Following' => EndsInBook(p)
      PROVE  /\ Ordered(p) /\ Before(p, seq', lastTs')
             /\ pc' = "emit" => Before(p, out'.seq, lastTs')
             /\ Following' => EndsInBook(p)
  <2>1. Before(p, seq', lastTs')
    BY <1>1, <1>2, <1>4, BeforeRises
  <2>2. ASSUME pc' = "emit" PROVE Before(p, out'.seq, lastTs')
    <3>1. CASE pc = "emit" /\ out' = out
      BY <1>1, <1>2, <1>4, <3>1, BeforeRises
    <3>2. CASE pc # "emit" /\ out'.seq = seq
      BY <1>1, <1>2, <1>4, <3>2, BeforeRises
    <3> QED
      BY <1>2, <2>2, <3>1, <3>2
  <2> QED
    BY <1>4, <2>1, <2>2
<1>5. SUFFICES /\ Ordered(rx'[c]) /\ Before(rx'[c], seq', lastTs')
               /\ pc' = "emit" => Before(rx'[c], out'.seq, lastTs')
               /\ Following' => EndsInBook(rx'[c])
  BY DEF QueueInv, Ordered, Before, EndsInBook, IsBook
<1>6. CASE QueueKept(c)
  <2>1. rx'[c] = q /\ (Following' => EndsInBook(q))
    BY <1>3, <1>6 DEF QueueKept, EndsInBook
  <2> HIDE DEF q
  <2> QED
    BY <1>1, <1>3, <1>4, <2>1
<1>7. CASE QueueDropped(c)
  <2>1. rx'[c] = <<>>
    BY <1>7 DEF QueueDropped
  <2> QED
    BY <2>1 DEF Ordered, Before, EndsInBook
<1>8. CASE QueueRead(c)
  <2>1. q # <<>> /\ rx'[c] = Tail(q) /\ UNCHANGED <<pc, out>>
    BY <1>8 DEF QueueRead
  <2>2. Following' => Following
    BY <2>1 DEF Following
  <2> HIDE DEF q
  <2>3. Tail(q) \in Seq(Message) /\ Ordered(Tail(q)) /\ Before(Tail(q), seq, lastTs)
    BY <1>1, <1>3, <2>1, TailOrdered, TailBefore
  <2>4. pc = "emit" => Before(Tail(q), out.seq, lastTs)
    BY <1>1, <1>3, <2>1, TailBefore
  <2>5. Following' => EndsInBook(Tail(q))
    BY <1>1, <1>3, <2>1, <2>2, TailEnds
  <2> QED
    BY <1>4, <2>1, <2>3, <2>4, <2>5
<1>9. CASE QueueTold(c)
  <2>1. PICK s \in Statuses : rx'[c] = Append(q, Status(s))
    BY <1>9 DEF QueueTold
  <2> DEFINE m == Status(s)
  <2>2. m \in Message /\ ~IsBook(m) /\ m.kind # "update"
    BY StatusType, StatusShows DEF IsBook
  <2>3. ~Following' /\ pc' # "emit"
    BY <1>9 DEF QueueTold, Following
  <2> HIDE DEF m, q
  <2>4. Ordered(Append(q, m)) /\ Before(Append(q, m), seq, lastTs)
    BY <1>1, <1>3, <2>2, AppendOrdered, AppendBefore
  <2>5. Append(q, m) \in Seq(Message)
    BY <1>1, <2>2
  <2>6. Before(Append(q, m), seq', lastTs')
    BY <1>1, <1>2, <2>4, <2>5, BeforeRises
  <2> QED
    BY <2>1, <2>3, <2>4, <2>6 DEF m
<1>10. CASE QueueFed(c)
  <2>1. rx'[c] = Append(q, out) /\ pc = "emit" /\ pc' = "stream"
    BY <1>10 DEF QueueFed
  <2>2. IsBook(out) /\ out.ts = lastTs /\ out.seq < seq
    BY <1>3, <2>1 DEF OutCurrent
  <2>3. out.kind = "update" => EndsInBook(q)
    BY <1>3, <2>1 DEF Following
  <2> HIDE DEF q
  <2>4. Ordered(Append(q, out))
    BY <1>1, <1>3, <2>1, <2>2, <2>3, AppendOrdered
  <2>5. Before(Append(q, out), seq, lastTs)
    BY <1>1, <1>3, <2>2, AppendBefore
  <2>6. Append(q, out) \in Seq(Message)
    BY <1>1
  <2>7. Before(Append(q, out), seq', lastTs')
    BY <1>1, <1>2, <2>5, <2>6, BeforeRises
  <2>8. EndsInBook(Append(q, out))
    BY <1>1, <2>2 DEF EndsInBook
  <2> QED
    BY <2>1, <2>4, <2>7, <2>8
<1> HIDE DEF q
<1> QED
  BY <1>6, <1>7, <1>8, <1>9, <1>10 DEF QueueStep

(* Every step keeps every queue's part.                                    *)
LEMMA StepQueues ==
  TypeOK /\ BookInv /\ OutCurrent /\ AllReady /\ QueuesInv /\ [Next]_vars => QueuesInv'
<1> SUFFICES ASSUME TypeOK, BookInv, OutCurrent, AllReady, QueuesInv, [Next]_vars
             PROVE  QueuesInv'
  OBVIOUS
<1>1. \A c \in Clients : QueueInv(c)'
  BY NextQueue, StepQueue DEF AllReady
<1>2. StampInv'
  <2>1. /\ seq <= seq' /\ seq \in Nat /\ seq' \in Nat /\ out.seq \in Nat
        /\ pc' = "emit" => \/ pc = "emit" /\ out' = out
                           \/ pc # "emit" /\ out'.seq = seq /\ seq' = seq + 1
    BY StampRises, StepType DEF TypeOK, Message
  <2> QED
    BY <2>1 DEF QueuesInv, StampInv
<1> QED
  BY <1>1, <1>2 DEF QueuesInv

(* Initially every queue is empty.                                         *)
LEMMA InitQueues == Init => QueuesInv
BY DEF Init, QueuesInv, QueueInv, StampInv, Ordered, Before, EndsInBook, Following

(* A queue is in order in every reachable state: seq rises strictly,       *)
(* source_ts never goes back, also across reconnects, and the first book   *)
(* after a status is a whole snapshot.                                     *)
THEOREM QueuesAreOrdered == Spec => []QueueOrdered
<1>1. QueuesInv => QueueOrdered
  BY DEF QueuesInv, QueueInv, Ordered, QueueOrdered
<1> QED
  BY InitBook, StepBook, TypeCorrect, InitOut, StepOut, InitReady, StepReady, InitQueues,
     StepQueues, <1>1, PTL DEF Spec

-----------------------------------------------------------------------------
(* NoLostUpdate: between two books of the worker, a browser that is told,  *)
(* or about to be, has the gateway's book last in its queue, or has it     *)
(* already.                                                                *)

Publishing == {"snapshot", "stamp", "emit"}
Served     == {"registered", "greeting", "open"}

NoBook(q)     == \A i \in DOMAIN q : ~IsBook(q[i])
IsLast(q, i)  == i \in DOMAIN q /\ IsBook(q[i]) /\ \A j \in DOMAIN q : i < j => ~IsBook(q[j])
EndsAt(q, v)  == \A i \in DOMAIN q : IsLast(q, i) => q[i].view = v

ToldInv(c) ==
    pc \notin Publishing =>
        /\ conn[c] \in Served => EndsAt(rx[c], DepthView(book))
        /\ NoBook(rx[c]) /\ conn[c] = "greeting" => greet[c].view = DepthView(book)
        /\ NoBook(rx[c]) /\ conn[c] = "open" => seen[c].view = DepthView(book)

AllTold == \A c \in Clients : ToldInv(c)

(* A status at the end of a queue is not a book.                           *)
LEMMA AppendStatus ==
  ASSUME NEW q \in Seq(Message), NEW m \in Message, ~IsBook(m), NEW v
  PROVE  /\ EndsAt(q, v) => EndsAt(Append(q, m), v)
         /\ NoBook(Append(q, m)) => NoBook(q)
<1>1. /\ \A i \in DOMAIN q : i \in DOMAIN Append(q, m) /\ Append(q, m)[i] = q[i]
      /\ \A i \in DOMAIN Append(q, m) : i \in DOMAIN q \/ Append(q, m)[i] = m
  OBVIOUS
<1> QED
  BY <1>1 DEF EndsAt, IsLast, NoBook

(* A book at the end of a queue is its last one.                           *)
LEMMA AppendBook ==
  ASSUME NEW q \in Seq(Message), NEW m \in Message, IsBook(m)
  PROVE  EndsAt(Append(q, m), m.view) /\ ~NoBook(Append(q, m))
<1>1. /\ Len(q) + 1 \in DOMAIN Append(q, m) /\ Append(q, m)[Len(q) + 1] = m
      /\ \A i \in DOMAIN Append(q, m) : i # Len(q) + 1 => i < Len(q) + 1
  OBVIOUS
<1> QED
  BY <1>1 DEF EndsAt, IsLast, NoBook

(* Reading the first message leaves the last book last, or read it.        *)
LEMMA TailEndsAt ==
  ASSUME NEW q \in Seq(Message), q # <<>>, NEW v, EndsAt(q, v)
  PROVE  /\ EndsAt(Tail(q), v)
         /\ NoBook(Tail(q)) => IF IsBook(Head(q)) THEN Head(q).view = v ELSE NoBook(q)
<1>1. /\ Len(Tail(q)) = Len(q) - 1
      /\ \A i \in DOMAIN Tail(q) : i + 1 \in DOMAIN q /\ Tail(q)[i] = q[i + 1]
      /\ \A i \in DOMAIN q : i # 1 => i - 1 \in DOMAIN Tail(q) /\ Tail(q)[i - 1] = q[i]
      /\ Head(q) = q[1] /\ 1 \in DOMAIN q
  OBVIOUS
<1>2. ASSUME NEW i \in DOMAIN Tail(q), IsLast(Tail(q), i) PROVE Tail(q)[i].view = v
  <2>1. ASSUME NEW j \in DOMAIN q, i + 1 < j PROVE ~IsBook(q[j])
    <3>1. j # 1 /\ i \in Nat /\ j \in Nat /\ i < j - 1
      BY <2>1
    <3>2. j - 1 \in DOMAIN Tail(q) /\ Tail(q)[j - 1] = q[j]
      BY <1>1, <3>1
    <3> QED
      BY <1>2, <3>1, <3>2 DEF IsLast
  <2>2. i + 1 \in DOMAIN q /\ q[i + 1] = Tail(q)[i] /\ IsBook(q[i + 1])
    BY <1>1, <1>2 DEF IsLast
  <2> QED
    BY <2>1, <2>2 DEF IsLast, EndsAt
<1>3. ASSUME NoBook(Tail(q))
      PROVE  IF IsBook(Head(q)) THEN Head(q).view = v ELSE NoBook(q)
  <2>1. \A j \in DOMAIN q : j # 1 => ~IsBook(q[j])
    BY <1>1, <1>3 DEF NoBook
  <2> QED
    BY <1>1, <2>1 DEF IsLast, EndsAt, NoBook
<1> QED
  BY <1>2, <1>3 DEF EndsAt

(* An empty book has an empty view.                                        *)
LEMMA EmptyView == DepthView(EmptyBook) = EmptyBook
BY DEF DepthView, EmptyBook

(* Initially no browser is served.                                         *)
LEMMA InitTold == Init => AllTold
BY DEF Init, AllTold, ToldInv, Served

(* What leaves the book, the queue and the task alone keeps it.            *)
LEMMA ToldKept ==
  ASSUME NEW c \in Clients, ToldInv(c), pc \notin Publishing \/ pc' \in Publishing,
         book' = book, rx'[c] = rx[c], conn'[c] = conn[c], greet'[c] = greet[c],
         seen'[c] = seen[c]
  PROVE  ToldInv(c)'
BY DEF ToldInv, NoBook, EndsAt, IsLast, IsBook, DepthView, Top

(* The worker tells every subscriber what it published.                    *)
LEMMA WorkerTold ==
  ASSUME TypeOK, OutCurrent, AllReady, AllTold, Worker, NEW c \in Clients
  PROVE  ToldInv(c)'
<1>1. UNCHANGED tasks /\ Ready(c) /\ ToldInv(c) /\ rx[c] \in Seq(Message)
  BY DEF AllReady, AllTold, TypeOK, Worker, WorkerAnnounce, WorkerConnect, WorkerConnected,
         WorkerFetchFails, WorkerReset, WorkerSnapshot, WorkerApply, WorkerSkip, WorkerBreaks,
         WorkerStamp, WorkerEmit, WorkerFailed, tasks
<1>2. CASE WorkerReset \/ WorkerSnapshot \/ WorkerApply \/ WorkerStamp
  BY <1>2 DEF WorkerReset, WorkerSnapshot, WorkerApply, WorkerStamp, ToldInv, Publishing
<1>3. CASE WorkerConnect \/ WorkerFetchFails \/ WorkerSkip \/ WorkerBreaks
  <2>1. UNCHANGED <<book, rx>> /\ pc \notin Publishing
    BY <1>3 DEF WorkerConnect, WorkerFetchFails, WorkerSkip, WorkerBreaks, state, Publishing
  <2> QED
    BY <1>1, <2>1, ToldKept DEF tasks
<1>4. CASE WorkerAnnounce \/ WorkerConnected \/ WorkerFailed
  <2>1. PICK s \in Statuses : Emit(Status(s))
    BY <1>4 DEF WorkerAnnounce, WorkerConnected, WorkerFailed, Statuses
  <2>2. book' = book /\ pc \notin Publishing
    BY <1>4 DEF WorkerAnnounce, WorkerConnected, WorkerFailed, state, Publishing
  <2>3. CASE rx'[c] = rx[c]
    BY <1>1, <2>2, <2>3, ToldKept DEF tasks
  <2>4. CASE rx'[c] = Append(rx[c], Status(s))
    <3>1. /\ EndsAt(rx[c], DepthView(book)) => EndsAt(rx'[c], DepthView(book))
          /\ NoBook(rx'[c]) => NoBook(rx[c])
      BY <1>1, <2>4, StatusType, StatusShows, AppendStatus
    <3> QED
      BY <1>1, <2>2, <3>1 DEF ToldInv, NoBook, EndsAt, IsLast, IsBook, DepthView, Top, tasks
  <2> QED
    BY <2>1, <2>3, <2>4, EmitQueue
<1>5. CASE WorkerEmit
  <2>1. Emit(out) /\ book' = book /\ out.view = DepthView(book) /\ IsBook(out) /\ out \in Message
    BY <1>5 DEF WorkerEmit, OutCurrent, state, TypeOK
  <2>2. CASE conn[c] \notin Served
    BY <1>1, <2>2 DEF ToldInv, Served, tasks
  <2>3. CASE conn[c] \in Served
    <3>1. rx'[c] = Append(rx[c], out)
      BY <1>1, <2>1, <2>3, EmitQueue DEF Ready, Served
    <3>2. EndsAt(rx'[c], DepthView(book)) /\ ~NoBook(rx'[c])
      BY <1>1, <2>1, <3>1, AppendBook
    <3> QED
      BY <2>1, <3>2 DEF ToldInv, NoBook, EndsAt, IsLast, IsBook, DepthView, Top
  <2> QED
    BY <2>2, <2>3
<1> QED
  BY <1>2, <1>3, <1>4, <1>5 DEF Worker

(* A greeting is the book of its moment; what is read is shown.            *)
LEMMA ClientTold ==
  ASSUME TypeOK, AllReady, AllTold, NEW c \in Clients, Client(c)
  PROVE  ToldInv(c)'
<1>1. UNCHANGED <<book, pc>> /\ Ready(c) /\ ToldInv(c) /\ rx[c] \in Seq(Message)
  BY DEF AllReady, AllTold, TypeOK, Client, ClientRegister, ClientSnapshot, ClientGreet,
         ClientForward, ClientLeave, ClientUnsubscribe, ClientDies, state
<1> DEFINE v == DepthView(book)
<1>2. SUFFICES ASSUME pc \notin Publishing
               PROVE  /\ conn'[c] \in Served => EndsAt(rx'[c], v)
                      /\ NoBook(rx'[c]) /\ conn'[c] = "greeting" => greet'[c].view = v
                      /\ NoBook(rx'[c]) /\ conn'[c] = "open" => seen'[c].view = v
  BY <1>1 DEF ToldInv, NoBook, EndsAt, IsLast, IsBook, DepthView, Top
<1>3. /\ conn[c] \in Served => EndsAt(rx[c], v)
      /\ NoBook(rx[c]) /\ conn[c] = "greeting" => greet[c].view = v
      /\ NoBook(rx[c]) /\ conn[c] = "open" => seen[c].view = v
  BY <1>1, <1>2 DEF ToldInv
<1>4. CASE ClientRegister(c)
  <2>1. conn'[c] = "registered" /\ rx'[c] = <<>>
    BY <1>1, <1>4 DEF ClientRegister, Ready, TypeOK
  <2> QED
    BY <2>1 DEF EndsAt
<1>5. CASE ClientSnapshot(c)
  <2>1. conn[c] = "registered" /\ conn'[c] = "greeting" /\ rx'[c] = rx[c]
    BY <1>5 DEF ClientSnapshot, TypeOK
  <2>2. greet'[c].view = v
    <3>1. CASE is_empty(book)
      <4>1. greet'[c] = Status("warming_up") /\ v = EmptyBook
        BY <1>5, <3>1, EmptyView DEF ClientSnapshot, is_empty, TypeOK
      <4> QED
        BY <4>1 DEF Status
    <3>2. CASE ~is_empty(book)
      BY <1>5, <3>2 DEF ClientSnapshot, TypeOK
    <3> QED
      BY <3>1, <3>2
  <2> QED
    BY <1>3, <2>1, <2>2 DEF Served
<1>6. CASE ClientGreet(c)
  <2>1. /\ conn[c] = "greeting" /\ conn'[c] = "open" /\ rx'[c] = rx[c]
        /\ seen'[c] = IF IsBook(greet[c]) THEN greet[c] ELSE seen[c]
    BY <1>6 DEF ClientGreet, Deliver, TypeOK
  <2>2. seen'[c].view = greet[c].view
    BY <1>1, <2>1 DEF Ready
  <2> QED
    BY <1>3, <2>1, <2>2 DEF Served
<1>7. CASE ClientForward(c)
  <2>1. /\ conn[c] = "open" /\ conn'[c] = "open" /\ rx[c] # <<>> /\ rx'[c] = Tail(rx[c])
        /\ seen'[c] = IF IsBook(Head(rx[c])) THEN Head(rx[c]) ELSE seen[c]
    BY <1>7 DEF ClientForward, Deliver, TypeOK
  <2>2. /\ EndsAt(Tail(rx[c]), v)
        /\ NoBook(Tail(rx[c])) =>
              IF IsBook(Head(rx[c])) THEN Head(rx[c]).view = v ELSE NoBook(rx[c])
    BY <1>1, <1>3, <2>1, TailEndsAt DEF Served
  <2> QED
    BY <1>3, <2>1, <2>2
<1>8. CASE ClientLeave(c) \/ ClientUnsubscribe(c) \/ ClientDies(c)
  <2>1. conn'[c] \notin Served
    BY <1>8 DEF ClientLeave, ClientUnsubscribe, ClientDies, Served, TypeOK
  <2> QED
    BY <2>1 DEF Served
<1> QED
  BY <1>4, <1>5, <1>6, <1>7, <1>8 DEF Client

(* Every step keeps it for every browser.                                  *)
LEMMA StepTold == TypeOK /\ OutCurrent /\ AllReady /\ AllTold /\ [Next]_vars => AllTold'
<1> SUFFICES ASSUME TypeOK, OutCurrent, AllReady, AllTold, [Next]_vars, NEW c \in Clients
             PROVE  ToldInv(c)'
  BY DEF AllTold
<1>1. ToldInv(c)
  BY DEF AllTold
<1>2. CASE Engine \/ UNCHANGED vars
  <2>1. UNCHANGED <<book, rx, conn, greet, seen>> /\ (pc \notin Publishing \/ pc' \in Publishing)
    BY <1>2 DEF Engine, EngineChange, EnginePublish, EngineSubscribed, SocketFails,
                EngineAnswers, state, tasks, vars, Publishing
  <2> QED
    BY <1>1, <2>1, ToldKept
<1>3. ASSUME NEW d \in Clients, Client(d), d # c PROVE ToldInv(c)'
  <2>1. /\ UNCHANGED <<book, pc>> /\ rx'[c] = rx[c] /\ conn'[c] = conn[c]
        /\ greet'[c] = greet[c] /\ seen'[c] = seen[c]
    BY <1>3 DEF Client, ClientRegister, ClientSnapshot, ClientGreet, ClientForward,
                ClientLeave, ClientUnsubscribe, ClientDies, Deliver, state, TypeOK
  <2> QED
    BY <1>1, <2>1, ToldKept
<1> QED
  BY <1>2, <1>3, WorkerTold, ClientTold DEF Next

(* A browser that has read its queue shows the gateway's book: subscribe   *)
(* enters the map before it takes the snapshot, and emit holds the map's   *)
(* lock, so no book falls between the two.                                 *)
THEOREM NothingIsLost == Spec => []NoLostUpdate
<1>1. AllTold => NoLostUpdate
  BY DEF AllTold, ToldInv, NoBook, Publishing, NoLostUpdate
<1> QED
  BY InitBook, StepBook, TypeCorrect, InitOut, StepOut, InitReady, StepReady, InitTold,
     StepTold, <1>1, PTL DEF Spec

-----------------------------------------------------------------------------
(* NumbersNameBooks: a book gets its number once, from the counter, and    *)
(* the time of the worker's book at that moment.                           *)

(* Each number was given out before, for a moment no later than now.       *)
NumbersInv == NumbersNameBooks /\ \A m \in Books : m.seq < seq /\ m.ts <= lastTs

(* n is a book numbered by this step.                                      *)
Numbered(n) == n.seq = seq /\ seq' = seq + 1 /\ n.ts = lastTs /\ lastTs' = lastTs

(* The books are messages, and what a browser has is among them.           *)
LEMMA BooksOf ==
  ASSUME TypeOK
  PROVE  /\ \A c \in Clients : \A m \in Held(c) : IsBook(m) => m \in Books
         /\ \A m \in Books : m \in Message /\ m.seq \in Nat /\ m.ts \in Nat /\ IsBook(m)
         /\ pc = "emit" /\ IsBook(out) => out \in Books
<1>1. \A c \in Clients : \A m \in Held(c) : m \in Message
  <2> SUFFICES ASSUME NEW c \in Clients, NEW m \in Held(c) PROVE m \in Message
    OBVIOUS
  <2>1. seen[c] \in Message /\ greet[c] \in Message /\ \A i \in DOMAIN rx[c] : rx[c][i] \in Message
    BY DEF TypeOK
  <2> QED
    BY <2>1 DEF Held
<1>2. out \in Message
  BY DEF TypeOK
<1>3. \A m \in Message : m.seq \in Nat /\ m.ts \in Nat
  BY DEF Message
<1>4. \A m : m \in Books <=> IsBook(m) /\ ((\E c \in Clients : m \in Held(c)) \/ (pc = "emit" /\ m = out))
  <2> DEFINE H == UNION {Held(c) : c \in Clients}
             O == IF pc = "emit" THEN {out} ELSE {}
  <2>1. \A m : m \in H <=> \E c \in Clients : m \in Held(c)
    BY Zenon
  <2>2. \A m : m \in O <=> pc = "emit" /\ m = out
    OBVIOUS
  <2>3. Books = {m \in H \cup O : IsBook(m)}
    BY DEF Books
  <2> HIDE DEF H, O
  <2> QED
    BY <2>1, <2>2, <2>3, Zenon
<1> QED
  BY <1>1, <1>2, <1>3, <1>4

(* What browsers have after a step, and the message in the worker's hand,  *)
(* are all the books there are.                                            *)
LEMMA BooksAfter ==
  ASSUME NEW S, \A c \in Clients : \A m \in Held(c)' : IsBook(m) => m \in S,
         pc' = "emit" => out' \in S
  PROVE  Books' \subseteq S
<1> SUFFICES ASSUME NEW m \in Books' PROVE m \in S
  OBVIOUS
<1>1. IsBook(m) /\ ((\E c \in Clients : m \in Held(c)') \/ (pc' = "emit" /\ m = out'))
  <2> DEFINE H == UNION {Held(c)' : c \in Clients}
             O == IF pc' = "emit" THEN {out'} ELSE {}
  <2>1. \A k : k \in H <=> \E c \in Clients : k \in Held(c)'
    BY Zenon
  <2>2. \A k : k \in O <=> pc' = "emit" /\ k = out'
    OBVIOUS
  <2>3. Books' = {k \in H \cup O : IsBook(k)}
    BY DEF Books, IsBook
  <2> HIDE DEF H, O
  <2> QED
    BY <2>1, <2>2, <2>3, Zenon
<1> QED
  BY <1>1

(* A queue that is left, read or dropped holds nothing new.                *)
LEMMA HeldKept ==
  ASSUME NEW c \in Clients, rx[c] \in Seq(Message), seen'[c] = seen[c], greet'[c] = greet[c],
         \/ rx'[c] = rx[c] \/ rx'[c] = <<>>
  PROVE  \A m \in Held(c)' : m \in Held(c)
BY DEF Held

(* A queue that is emitted to holds the message besides.                   *)
LEMMA HeldEmitted ==
  ASSUME TypeOK, NEW c \in Clients, NEW n \in Message, Emit(n), UNCHANGED tasks
  PROVE  \A m \in Held(c)' : m \in Held(c) \/ m = n
<1>1. seen'[c] = seen[c] /\ greet'[c] = greet[c] /\ rx[c] \in Seq(Message)
  BY DEF tasks, TypeOK
<1>2. rx'[c] = rx[c] \/ rx'[c] = Append(rx[c], n)
  BY EmitQueue
<1>3. \A i \in DOMAIN rx'[c] : rx'[c][i] = n \/ (i \in DOMAIN rx[c] /\ rx'[c][i] = rx[c][i])
  BY <1>1, <1>2
<1> QED
  BY <1>1, <1>3 DEF Held

(* The worker numbers the message it is about to emit.                     *)
LEMMA WorkerBooks ==
  ASSUME TypeOK, OutCurrent, Worker
  PROVE  Books' \subseteq Books \/ \E n : Numbered(n) /\ Books' \subseteq Books \cup {n}
<1>t. UNCHANGED tasks
  BY DEF Worker, WorkerAnnounce, WorkerConnect, WorkerConnected, WorkerFetchFails, WorkerReset,
         WorkerSnapshot, WorkerApply, WorkerSkip, WorkerBreaks, WorkerStamp, WorkerEmit,
         WorkerFailed, tasks
<1>q. \A c \in Clients : rx[c] \in Seq(Message)
  BY DEF TypeOK
<1>1. ASSUME UNCHANGED rx PROVE \A c \in Clients : \A m \in Held(c)' : IsBook(m) => m \in Books
  BY <1>1, <1>t, <1>q, HeldKept, BooksOf DEF tasks
<1>2. CASE WorkerAnnounce \/ WorkerConnected \/ WorkerFailed
  <2>1. PICK s \in Statuses : Emit(Status(s))
    BY <1>2 DEF WorkerAnnounce, WorkerConnected, WorkerFailed, Statuses
  <2>2. Status(s) \in Message /\ ~IsBook(Status(s)) /\ pc' # "emit"
    BY <1>2, StatusType, StatusShows DEF WorkerAnnounce, WorkerConnected, WorkerFailed
  <2>3. \A c \in Clients : \A m \in Held(c)' : IsBook(m) => m \in Books
    BY <1>t, <2>1, <2>2, HeldEmitted, BooksOf
  <2> QED
    BY <2>2, <2>3, BooksAfter
<1>3. CASE WorkerEmit
  <2>1. Emit(out) /\ pc = "emit" /\ pc' = "stream" /\ out \in Message /\ IsBook(out)
    BY <1>3 DEF WorkerEmit, OutCurrent, TypeOK
  <2>2. \A c \in Clients : \A m \in Held(c)' : IsBook(m) => m \in Books
    BY <1>t, <2>1, HeldEmitted, BooksOf
  <2> QED
    BY <2>1, <2>2, BooksAfter
<1>4. CASE WorkerSnapshot \/ WorkerStamp
  <2>1. UNCHANGED <<rx, state>> /\ seq' = seq + 1 /\ out'.seq = seq
    BY <1>4 DEF WorkerSnapshot, WorkerStamp, TypeOK, Message
  <2>2. out'.ts = lastTs
    BY <1>4 DEF WorkerSnapshot, WorkerStamp, OutCurrent, TypeOK, Message
  <2>3. Numbered(out')
    BY <2>1, <2>2 DEF Numbered, state
  <2>4. Books' \subseteq Books \cup {out'}
    BY <1>1, <2>1, BooksAfter
  <2> QED
    BY <2>3, <2>4
<1>5. CASE \/ WorkerConnect \/ WorkerFetchFails \/ WorkerReset \/ WorkerApply \/ WorkerSkip
           \/ WorkerBreaks
  <2>1. UNCHANGED rx /\ pc' # "emit"
    BY <1>5 DEF WorkerConnect, WorkerFetchFails, WorkerReset, WorkerApply, WorkerSkip, WorkerBreaks
  <2> QED
    BY <1>1, <2>1, BooksAfter
<1> QED
  BY <1>2, <1>3, <1>4, <1>5 DEF Worker

(* subscribe numbers the greeting; a browser's other steps move a book     *)
(* that was there.                                                         *)
LEMMA ClientBooks ==
  ASSUME TypeOK, OutCurrent, NEW d \in Clients, Client(d)
  PROVE  Books' \subseteq Books \/ \E n : Numbered(n) /\ Books' \subseteq Books \cup {n}
<1>e. pc' = "emit" => out' \in Books
  <2>1. UNCHANGED <<pc, out>>
    BY DEF Client, ClientRegister, ClientSnapshot, ClientGreet, ClientForward, ClientLeave,
           ClientUnsubscribe, ClientDies
  <2> QED
    BY <2>1, BooksOf DEF OutCurrent
<1>q. \A c \in Clients : rx[c] \in Seq(Message)
  BY DEF TypeOK
<1>s. ~IsBook(Status("warming_up"))
  BY StatusShows DEF Statuses
<1>o. ASSUME NEW c \in Clients, c # d PROVE \A m \in Held(c)' : IsBook(m) => m \in Books
  <2>1. seen'[c] = seen[c] /\ greet'[c] = greet[c] /\ rx'[c] = rx[c]
    BY <1>o DEF Client, ClientRegister, ClientSnapshot, ClientGreet, ClientForward, ClientLeave,
                ClientUnsubscribe, ClientDies, Deliver, TypeOK
  <2> QED
    BY <1>q, <2>1, HeldKept, BooksOf
<1>1. CASE ClientSnapshot(d)
  <2>1. rx'[d] = rx[d] /\ seen'[d] = seen[d]
    BY <1>1 DEF ClientSnapshot
  <2>2. CASE is_empty(book)
    <3>1. greet'[d] = Status("warming_up")
      BY <1>1, <2>2 DEF ClientSnapshot, TypeOK
    <3>2. \A m \in Held(d)' : IsBook(m) => m \in Held(d)
      BY <1>s, <2>1, <3>1 DEF Held
    <3> QED
      BY <1>e, <1>o, <3>2, BooksOf, BooksAfter
  <2>3. CASE ~is_empty(book)
    <3> DEFINE n == greet'[d]
    <3>1. n = [kind |-> "snapshot", seq |-> seq, ts |-> lastTs, view |-> DepthView(book)]
          /\ seq' = seq + 1 /\ UNCHANGED state
      BY <1>1, <2>3 DEF ClientSnapshot, TypeOK
    <3>2. Numbered(n)
      BY <3>1 DEF Numbered, state
    <3>3. \A m \in Held(d)' : m \in Held(d) \/ m = n
      BY <2>1 DEF Held
    <3> HIDE DEF n
    <3>4. Books' \subseteq Books \cup {n}
      BY <1>e, <1>o, <3>3, BooksOf, BooksAfter
    <3> QED
      BY <3>2, <3>4
  <2> QED
    BY <2>2, <2>3
<1>2. CASE ClientGreet(d)
  <2>1. /\ rx'[d] = rx[d] /\ greet'[d] = Status("warming_up")
        /\ seen'[d] = greet[d] \/ seen'[d] = seen[d]
    BY <1>2 DEF ClientGreet, Deliver, TypeOK
  <2>2. \A m \in Held(d)' : IsBook(m) => m \in Held(d)
    BY <1>s, <2>1 DEF Held
  <2> QED
    BY <1>e, <1>o, <2>2, BooksOf, BooksAfter
<1>3. CASE ClientForward(d)
  <2>1. /\ rx[d] # <<>> /\ rx'[d] = Tail(rx[d]) /\ greet'[d] = greet[d]
        /\ seen'[d] = Head(rx[d]) \/ seen'[d] = seen[d]
    BY <1>3 DEF ClientForward, Deliver, TypeOK
  <2>2. /\ 1 \in DOMAIN rx[d] /\ Head(rx[d]) = rx[d][1]
        /\ \A i \in DOMAIN Tail(rx[d]) : i + 1 \in DOMAIN rx[d] /\ Tail(rx[d])[i] = rx[d][i + 1]
    BY <1>q, <2>1
  <2>3. \A m \in Held(d)' : m \in Held(d)
    BY <2>1, <2>2 DEF Held
  <2> QED
    BY <1>e, <1>o, <2>3, BooksOf, BooksAfter
<1>4. CASE ClientRegister(d) \/ ClientLeave(d) \/ ClientUnsubscribe(d) \/ ClientDies(d)
  <2>1. seen'[d] = seen[d] /\ greet'[d] = greet[d] /\ (rx'[d] = rx[d] \/ rx'[d] = <<>>)
    BY <1>4 DEF ClientRegister, ClientLeave, ClientUnsubscribe, ClientDies, TypeOK
  <2>2. \A m \in Held(d)' : m \in Held(d)
    BY <1>q, <2>1, HeldKept
  <2> QED
    BY <1>e, <1>o, <2>2, BooksOf, BooksAfter
<1> QED
  BY <1>1, <1>2, <1>3, <1>4 DEF Client

(* Every step numbers at most one book.                                    *)
LEMMA StepBooks ==
  ASSUME TypeOK, OutCurrent, [Next]_vars
  PROVE  Books' \subseteq Books \/ \E n : Numbered(n) /\ Books' \subseteq Books \cup {n}
<1>1. ASSUME Engine \/ UNCHANGED vars PROVE Books' \subseteq Books
  <2>1. UNCHANGED <<seen, greet, rx, out>> /\ (pc' = "emit" => pc = "emit")
    BY <1>1 DEF Engine, EngineChange, EnginePublish, EngineSubscribed, SocketFails,
                EngineAnswers, vars, tasks
  <2> QED
    BY <2>1 DEF Books, Held, IsBook
<1> QED
  BY <1>1, WorkerBooks, ClientBooks DEF Next

(* Initially no book has been numbered.                                    *)
LEMMA InitNumbers == Init => NumbersInv
<1> SUFFICES ASSUME Init PROVE Books = {}
  BY DEF NumbersInv, NumbersNameBooks
<1>1. \A s \in Statuses : ~IsBook(Status(s))
  BY StatusShows
<1> QED
  BY <1>1 DEF Init, Books, Held, Statuses

(* Every step keeps the numbers.                                           *)
LEMMA StepNumbers ==
  TypeOK /\ BookInv /\ OutCurrent /\ NumbersInv /\ [Next]_vars => NumbersInv'
<1> SUFFICES ASSUME TypeOK, BookInv, OutCurrent, NumbersInv, [Next]_vars PROVE NumbersInv'
  OBVIOUS
<1>1. /\ seq <= seq' /\ lastTs <= lastTs'
      /\ seq \in Nat /\ seq' \in Nat /\ lastTs \in Nat /\ lastTs' \in Nat
  BY StampRises, StepType DEF TypeOK
<1>2. \A m \in Books : m.seq \in Nat /\ m.ts \in Nat /\ m.seq < seq /\ m.ts <= lastTs
  BY BooksOf DEF NumbersInv
<1>3. \A m, n \in Books : (m.seq = n.seq => m = n) /\ (m.seq < n.seq => m.ts <= n.ts)
  BY DEF NumbersInv, NumbersNameBooks
<1>4. SUFFICES /\ \A m, n \in Books' : (m.seq = n.seq => m = n) /\ (m.seq < n.seq => m.ts <= n.ts)
               /\ \A m \in Books' : m.seq < seq' /\ m.ts <= lastTs'
  BY DEF NumbersInv, NumbersNameBooks
<1>5. CASE Books' \subseteq Books
  BY <1>1, <1>2, <1>3, <1>5
<1>6. CASE \E n : Numbered(n) /\ Books' \subseteq Books \cup {n}
  <2>1. PICK n : Numbered(n) /\ Books' \subseteq Books \cup {n}
    BY <1>6
  <2>2. n.seq = seq /\ seq' = seq + 1 /\ n.ts = lastTs /\ lastTs' = lastTs
    BY <2>1 DEF Numbered
  <2> QED
    BY <1>1, <1>2, <1>3, <2>1, <2>2
<1> QED
  BY <1>5, <1>6, StepBooks

(* A number names one book of the market, whichever browser has it, and a  *)
(* later number never an older book, whatever the worker, subscribe and    *)
(* the reconnects do (next_seq).                                           *)
THEOREM NumbersFollowTime == Spec => []NumbersNameBooks
<1>1. NumbersInv => NumbersNameBooks
  BY DEF NumbersInv
<1> QED
  BY InitBook, StepBook, TypeCorrect, InitOut, StepOut, InitNumbers, StepNumbers, <1>1,
     PTL DEF Spec

(* A browser's next book is older than the one it shows only if its number *)
(* is smaller: the greeting may overtake what was queued before it, and    *)
(* nothing else does.                                                      *)
THEOREM OnlyNumbersGoBack ==
  Spec => [][\A c \in Clients : IsBook(seen[c]) /\ seen[c].seq <= seen'[c].seq
                                    => seen[c].ts <= seen'[c].ts]_vars
<1>1. ASSUME TypeOK, OutCurrent, NumbersInv, [Next]_vars, NEW c \in Clients,
             IsBook(seen[c]), seen[c].seq <= seen'[c].seq
      PROVE  seen[c].ts <= seen'[c].ts
  <2>1. seen[c] \in Held(c) /\ greet[c] \in Held(c) /\ \A i \in DOMAIN rx[c] : rx[c][i] \in Held(c)
    BY DEF Held
  <2>2. seen'[c] \in Held(c) /\ (seen'[c] = seen[c] \/ IsBook(seen'[c]))
    <3>1. CASE ClientGreet(c)
      BY <1>1, <2>1, <3>1 DEF ClientGreet, Deliver, TypeOK
    <3>2. CASE ClientForward(c)
      <4>1. rx[c] \in Seq(Message) /\ rx[c] # <<>>
        BY <1>1, <3>2 DEF ClientForward, TypeOK
      <4>2. 1 \in DOMAIN rx[c] /\ Head(rx[c]) = rx[c][1]
        BY <4>1
      <4> QED
        BY <1>1, <2>1, <3>2, <4>2 DEF ClientForward, Deliver, TypeOK
    <3>3. CASE ~(ClientGreet(c) \/ ClientForward(c))
      <4>1. ASSUME NEW d \in Clients, Client(d) PROVE seen'[c] = seen[c]
        BY <1>1, <3>3, <4>1 DEF Client, ClientRegister, ClientSnapshot, ClientGreet, ClientForward,
                          ClientLeave, ClientUnsubscribe, ClientDies, Deliver, TypeOK
      <4>2. ASSUME Engine \/ Worker \/ UNCHANGED vars PROVE seen'[c] = seen[c]
        BY <4>2 DEF Engine, EngineChange, EnginePublish, EngineSubscribed, SocketFails,
               EngineAnswers, Worker, WorkerAnnounce, WorkerConnect, WorkerConnected,
               WorkerFetchFails, WorkerReset, WorkerSnapshot, WorkerApply, WorkerSkip,
               WorkerBreaks, WorkerStamp, WorkerEmit, WorkerFailed, tasks, vars
      <4> QED
        BY <1>1, <2>1, <4>1, <4>2 DEF Next
    <3> QED
      BY <3>1, <3>2, <3>3
  <2>3. seen[c] \in Books /\ seen'[c] \in Books
    BY <1>1, <2>1, <2>2, BooksOf
  <2>4. /\ seen[c].seq \in Nat /\ seen'[c].seq \in Nat /\ seen[c].ts \in Nat
        /\ seen[c].seq = seen'[c].seq => seen[c] = seen'[c]
        /\ seen[c].seq < seen'[c].seq => seen[c].ts <= seen'[c].ts
    BY <1>1, <2>3, BooksOf DEF NumbersInv, NumbersNameBooks
  <2> QED
    BY <1>1, <2>4
<1>2. TypeOK /\ OutCurrent /\ NumbersInv /\ [Next]_vars =>
        [\A c \in Clients : IsBook(seen[c]) /\ seen[c].seq <= seen'[c].seq
                                => seen[c].ts <= seen'[c].ts]_vars
  BY <1>1
<1> QED
  BY InitBook, StepBook, TypeCorrect, InitOut, StepOut, InitNumbers, StepNumbers, <1>2,
     PTL DEF Spec
=============================================================================
