------------------------ MODULE PortfolioStream_proofs ------------------------
(***************************************************************************)
(* Theorems of PortfolioStream for every value of its constants: types,    *)
(* the bound on an upstream task that has lost its browser, and the order  *)
(* of what the page is shown.                                              *)
(***************************************************************************)
EXTENDS PortfolioStream, FiniteSetTheorems, TLAPS

-----------------------------------------------------------------------------
(* Types.                                                                  *)

(* A GET that is not in flight has the type of one.                        *)
LEMMA IdleType ==
    Idle \in [at : {"none", "summary", "rest"}, asOf : -1..MaxClock, sum : Version]
BY PortfolioAssumption DEF Idle, Version, Missing

(* TypeOK holds at first.                                                  *)
LEMMA TypeInit == Init => TypeOK
BY PortfolioAssumption
   DEF Init, TypeOK, NadoTypes, GetTypes, PageTypes, TaskTypes, UpTypes,
       None, Idle, Missing, Envelope, Version, Conns

(* The steps of Nado and time keep the types.                              *)
LEMMA TypeOfNado == TypeOK /\ Nado => TypeOK'
<1> SUFFICES ASSUME TypeOK, Nado PROVE TypeOK'
    OBVIOUS
<1> USE PortfolioAssumption DEF TypeOK
<1>1. CASE AccountChanges
  <2>1. NadoTypes'
      BY <1>1 DEF AccountChanges, NadoTypes
  <2>2. UpTypes'
    <3> PICK n \in 1..MaxEvents :
          inbox' = [c \in Conns |-> IF c \in Subscribed THEN inbox[c] + n ELSE inbox[c]]
        BY <1>1 DEF AccountChanges
    <3>1. \A c \in Conns : inbox[c] \in Nat /\ inbox[c] + n \in Nat
        BY DEF UpTypes
    <3>2. inbox' \in [Conns -> Nat]
        BY <3>1
    <3> QED  BY <1>1, <3>2 DEF AccountChanges, UpTypes
  <2> QED  BY <1>1, <2>1, <2>2 DEF AccountChanges, GetTypes, PageTypes, TaskTypes, page
<1>2. CASE IndexerAdvances
      BY <1>2 DEF IndexerAdvances, NadoTypes, GetTypes, PageTypes, TaskTypes, UpTypes, page, upstream
<1>3. CASE ClockTicks
      BY <1>3 DEF ClockTicks, NadoTypes, GetTypes, PageTypes, TaskTypes, UpTypes, page, upstream
<1> QED  BY <1>1, <1>2, <1>3 DEF Nado

(* The page's steps keep the types.                                        *)
LEMMA TypeOfPage == TypeOK /\ Page => TypeOK'
<1> SUFFICES ASSUME TypeOK, Page PROVE TypeOK'
    OBVIOUS
<1> USE PortfolioAssumption DEF TypeOK
<1>0. account \in Version /\ archive \in Version /\ Missing \in Version /\ clock \in -1..MaxClock
    BY DEF NadoTypes, Version, Missing
<1>1. CASE GetBegins
  <2>1. GetTypes'
      BY <1>0, <1>1 DEF GetBegins, GetTypes
  <2> QED  BY <1>1, <2>1 DEF GetBegins, NadoTypes, PageTypes, TaskTypes, UpTypes, nado, upstream
<1>2. CASE GetSummary
  <2>1. GetTypes' /\ faults' \in 0..MaxFaults
    <3>1. CASE get' = [get EXCEPT !.at = "rest", !.sum = account] /\ UNCHANGED faults
        BY <1>0, <1>2, <3>1 DEF GetSummary, GetTypes
    <3>2. CASE get' = Idle /\ Fault
        BY <1>2, <3>2, IdleType DEF GetSummary, GetTypes, Fault
    <3> QED  BY <1>2, <3>1, <3>2 DEF GetSummary
  <2> QED  BY <1>2, <2>1 DEF GetSummary, NadoTypes, PageTypes, TaskTypes, UpTypes, nado, upstream
<1>3. CASE GetAnswers
  <2>1. GetTypes'
      BY <1>0, <1>3, IdleType DEF GetAnswers, GetTypes
  <2>2. snap' \in Envelope
    <3>1. get.asOf \in -1..MaxClock /\ get.sum \in Version
        BY DEF GetTypes
    <3>2. \A r \in {archive, Missing} : [asOf |-> get.asOf, sum |-> get.sum, rest |-> r] \in Envelope
        BY <1>0, <3>1 DEF Envelope
    <3> QED  BY <1>3, <3>2 DEF GetAnswers
  <2>3. faults' \in 0..MaxFaults
      BY <1>3 DEF GetAnswers, ReadsRest, Fault
  <2> QED  BY <1>3, <2>1, <2>2, <2>3 DEF GetAnswers, NadoTypes, PageTypes, TaskTypes, UpTypes, nado, upstream
<1>4. CASE PageLeaves
  <2>1. GetTypes'
      BY <1>0, <1>4, IdleType DEF PageLeaves, GetTypes
  <2>2. None \in Envelope
      BY <1>0 DEF None, Envelope, Version, Missing
  <2>3. open' = FALSE /\ listening' = {} /\ live' = None /\ snap' = None
      BY <1>4 DEF PageLeaves
  <2>4. PageTypes'
      BY <2>2, <2>3 DEF PageTypes
  <2> QED  BY <1>4, <2>1, <2>4 DEF PageLeaves, NadoTypes, TaskTypes, UpTypes, nado, upstream
<1>5. ASSUME NEW c \in Conns, PageOpens(c) PROVE TypeOK'
  <2>1. PageTypes'
      BY <1>5 DEF PageOpens, PageTypes
  <2>2. TaskTypes'
    <3>1. task' = [task EXCEPT ![c].at = "summary"] /\ active' = active + 1
          /\ UNCHANGED <<recent, chan>>
        BY <1>5 DEF PageOpens
    <3>2. task' \in [Conns -> [at : {"off", "summary", "rest", "select", "ended"}, sum : Version]]
        BY <3>1 DEF TaskTypes
    <3> QED  BY <3>1, <3>2 DEF TaskTypes
  <2> QED  BY <1>5, <2>1, <2>2 DEF PageOpens, NadoTypes, GetTypes, UpTypes, nado, upstream
<1>6. ASSUME NEW c \in Conns, PageClosed(c) PROVE TypeOK'
      BY <1>6 DEF PageClosed, NadoTypes, GetTypes, PageTypes, TaskTypes, UpTypes, nado, upstream
<1>7. ASSUME NEW c \in Conns, PageLoses(c) PROVE TypeOK'
      BY <1>7 DEF PageLoses, NadoTypes, GetTypes, PageTypes, TaskTypes, UpTypes, nado, upstream, Fault
<1> QED  BY <1>1, <1>2, <1>3, <1>4, <1>5, <1>6, <1>7 DEF Page

(* The steps of handle_ws_client and of the upstream task keep the types.  *)
LEMMA TypeOfGateway == TypeOK /\ Gateway => TypeOK'
<1> SUFFICES ASSUME TypeOK, NEW c \in Conns,
                    Task(c) \/ TaskFails(c) \/ Upstream(c) \/ UpFails(c)
             PROVE  TypeOK'
    BY DEF Gateway
<1> USE PortfolioAssumption DEF TypeOK
<1>0. account \in Version /\ archive \in Version /\ Missing \in Version /\ clock \in -1..MaxClock
    BY DEF NadoTypes, Version, Missing
<1>e. End(c) => TaskTypes' /\ UNCHANGED up
    BY <1>0 DEF End, TaskTypes
<1>c. Continue(c) => TaskTypes' /\ up' \in [Conns -> {"off", "loop", "ratchet_on", "sdk", "sdk_on", "lost", "ended"}]
    BY <1>0 DEF Continue, TaskTypes, UpTypes
<1>1. CASE TaskSummary(c)
  <2>1. TaskTypes'
      BY <1>0, <1>1 DEF TaskSummary, TaskTypes
  <2> QED  BY <1>1, <2>1 DEF TaskSummary, NadoTypes, GetTypes, PageTypes, UpTypes, nado, page, upstream
<1>2. CASE TaskFails(c)
  <2>1. TaskTypes' /\ UpTypes'
      BY <1>2, <1>e, <1>c DEF TaskFails, UpTypes
  <2> QED  BY <1>2, <2>1 DEF TaskFails, NadoTypes, GetTypes, PageTypes, nado, page, Fault
<1>3. CASE TaskRest(c)
  <2> PICK r \in {archive, Missing} :
            /\ ReadsRest(r)
            /\ SendAndContinue(c, [asOf |-> clock, sum |-> task[c].sum, rest |-> r])
      BY <1>3 DEF TaskRest
  <2>1. TaskTypes' /\ UpTypes'
      BY <1>3, <1>e, <1>c DEF TaskRest, SendAndContinue, UpTypes
  <2>2. task[c].sum \in Version
      BY DEF TaskTypes
  <2>3. [asOf |-> clock, sum |-> task[c].sum, rest |-> r] \in Envelope
      BY <1>0, <2>2 DEF Envelope
  <2>4. live' \in Envelope
      BY <2>3 DEF SendAndContinue, Latest, PageTypes
  <2>5. faults' \in 0..MaxFaults
      BY DEF ReadsRest, Fault
  <2> QED  BY <1>3, <2>1, <2>4, <2>5 DEF TaskRest, NadoTypes, GetTypes, PageTypes, nado
<1>4. CASE TaskPolls(c)
  <2>1. TaskTypes'
      BY <1>4 DEF TaskPolls, TaskTypes
  <2> QED  BY <1>4, <2>1 DEF TaskPolls, NadoTypes, GetTypes, PageTypes, UpTypes, nado, page, upstream
<1>t. chan[c] # <<>> =>
        [chan EXCEPT ![c] = Tail(@)] \in {f \in [Conns -> Seq({"event", "disconnected"})] :
                                            \A d \in Conns : Len(f[d]) <= Cap}
  <2> SUFFICES ASSUME chan[c] # <<>>
               PROVE  Tail(chan[c]) \in Seq({"event", "disconnected"}) /\ Len(Tail(chan[c])) <= Cap
      BY DEF TaskTypes
  <2>1. chan[c] \in Seq({"event", "disconnected"}) /\ Len(chan[c]) <= Cap
      BY DEF TaskTypes
  <2> QED  BY <2>1
<1>5. CASE TaskEvent(c)
  <2>1. task' \in [Conns -> [at : {"off", "summary", "rest", "select", "ended"}, sum : Version]]
        /\ recent' \in [Conns -> BOOLEAN]
      BY <1>5 DEF TaskEvent, TaskTypes
  <2>2. chan' = [chan EXCEPT ![c] = Tail(@)] /\ chan[c] # <<>>
      BY <1>5 DEF TaskEvent
  <2>3. TaskTypes'
      BY <1>5, <1>t, <2>1, <2>2 DEF TaskEvent, TaskTypes
  <2> QED  BY <1>5, <2>3 DEF TaskEvent, NadoTypes, GetTypes, PageTypes, UpTypes, nado, page, upstream
<1>6. CASE TaskDegraded(c)
  <2>1. TaskTypes' /\ UpTypes'
    <3>1. CASE chan' = [chan EXCEPT ![c] = Tail(@)] /\ UNCHANGED <<task, recent, active, up>>
        BY <1>6, <1>t, <3>1 DEF TaskDegraded, TaskTypes, UpTypes
    <3>2. CASE End(c)
        BY <1>6, <1>e, <3>2 DEF TaskDegraded, UpTypes
    <3> QED  BY <1>6, <3>1, <3>2 DEF TaskDegraded
  <2> QED  BY <1>6, <2>1 DEF TaskDegraded, NadoTypes, GetTypes, PageTypes, nado, page
<1>7. CASE TaskNotices(c)
      BY <1>7, <1>e DEF TaskNotices, NadoTypes, GetTypes, PageTypes, UpTypes, nado, page
<1>8. CASE UpConnects(c)
  <2>1. UpTypes'
      BY <1>8 DEF UpConnects, UpTypes
  <2> QED  BY <1>8, <2>1 DEF UpConnects, NadoTypes, GetTypes, PageTypes, TaskTypes, nado, page
<1>9. CASE UpFails(c)
  <2>1. UpTypes'
      BY <1>9 DEF UpFails, UpTypes, AfterSession
  <2> QED  BY <1>9, <2>1 DEF UpFails, NadoTypes, GetTypes, PageTypes, TaskTypes, nado, page, Fault
<1>a. ASSUME NEW s \in {"event", "disconnected"}, Len(chan[c]) < Cap
      PROVE  [chan EXCEPT ![c] = Append(@, s)] \in {f \in [Conns -> Seq({"event", "disconnected"})] :
                                                      \A d \in Conns : Len(f[d]) <= Cap}
  <2>1. chan[c] \in Seq({"event", "disconnected"})
      BY DEF TaskTypes
  <2>2. Append(chan[c], s) \in Seq({"event", "disconnected"}) /\ Len(Append(chan[c], s)) <= Cap
      BY <1>a, <2>1
  <2> QED  BY <2>2 DEF TaskTypes
<1>10. CASE UpForwards(c)
  <2>1. UpTypes'
    <3>1. CASE Closed(c)
        BY <1>10, <3>1 DEF UpForwards, UpTypes, AfterSession
    <3>2. CASE ~Closed(c)
      <4>1. inbox[c] - 1 \in Nat
          BY <1>10 DEF UpForwards, UpTypes
      <4> QED  BY <1>10, <3>2, <4>1 DEF UpForwards, UpTypes
    <3> QED  BY <3>1, <3>2
  <2>2. TaskTypes'
      BY <1>10, <1>a DEF UpForwards, TaskTypes
  <2> QED  BY <1>10, <2>1, <2>2 DEF UpForwards, NadoTypes, GetTypes, PageTypes, nado, page
<1>11. CASE UpReports(c)
  <2>1. UpTypes'
      BY <1>11 DEF UpReports, UpTypes
  <2>2. TaskTypes'
      BY <1>11, <1>a DEF UpReports, TaskTypes
  <2> QED  BY <1>11, <2>1, <2>2 DEF UpReports, NadoTypes, GetTypes, PageTypes, nado, page
<1> QED  BY <1>1, <1>2, <1>3, <1>4, <1>5, <1>6, <1>7, <1>8, <1>9, <1>10, <1>11 DEF Task, Upstream

(* Every variable keeps its type in every reachable state.                 *)
THEOREM TypeCorrect == Spec => []TypeOK
<1>1. TypeOK /\ UNCHANGED vars => TypeOK'
    BY DEF TypeOK, NadoTypes, GetTypes, PageTypes, TaskTypes, UpTypes, vars
<1>2. TypeOK /\ [Next]_vars => TypeOK'
    BY <1>1, TypeOfNado, TypeOfPage, TypeOfGateway DEF Next
<1> QED  BY TypeInit, <1>2, PTL DEF Spec

-----------------------------------------------------------------------------
(* The order of what the page is shown.                                    *)

(* Stamps and versions never run ahead of the clock and of Nado; at most   *)
(* one socket is open; a GET that has read its summary has read a newer    *)
(* one than any envelope with a smaller stamp; a task that has read its    *)
(* summary and is listened to holds nothing older than the page.           *)
StampsInv ==
    /\ live.asOf <= clock /\ live.sum <= account /\ live.rest <= archive
    /\ snap.asOf <= clock /\ get.asOf <= clock

GetInv == get.at = "rest" /\ live.asOf < get.asOf => live.sum <= get.sum

SnapInv ==
    live.asOf < snap.asOf =>
        /\ live.sum <= snap.sum
        /\ snap.rest # Missing => live.rest <= snap.rest

TaskInv ==
    /\ \A c, d \in listening : c = d
    /\ listening # {} => open
    /\ \A c \in Conns : task[c].at = "rest" =>
          task[c].sum <= account /\ (c \in listening => live.sum <= task[c].sum)

OrderInv == TypeOK /\ StampsInv /\ GetInv /\ SnapInv /\ TaskInv

(* The numbers in the state, as TypeOK gives them.                         *)
LEMMA Numbers ==
    ASSUME TypeOK
    PROVE  /\ account \in Int /\ archive \in Int /\ clock \in Int
           /\ archive <= account /\ 0 <= archive /\ 0 <= clock
           /\ live.asOf \in Int /\ live.sum \in Int /\ live.rest \in Int
           /\ snap.asOf \in Int /\ snap.sum \in Int /\ snap.rest \in Int
           /\ get.asOf \in Int /\ get.sum \in Int
           /\ -1 <= live.asOf /\ -1 <= live.sum /\ -1 <= live.rest
           /\ -1 <= get.asOf
           /\ \A c \in Conns : task[c].sum \in Int
<1>1. account \in Int /\ archive \in Int /\ clock \in Int
      /\ archive <= account /\ 0 <= archive /\ 0 <= clock
    BY PortfolioAssumption DEF TypeOK, NadoTypes
<1>2. live \in Envelope /\ snap \in Envelope
    BY DEF TypeOK, PageTypes
<1>3. get.asOf \in -1..MaxClock /\ get.sum \in Version
    BY DEF TypeOK, GetTypes
<1>4. \A c \in Conns : task[c].sum \in Version
    BY DEF TypeOK, TaskTypes
<1> QED  BY PortfolioAssumption, <1>1, <1>2, <1>3, <1>4 DEF Envelope, Version, Missing

(* A message from the task the page listens to is the newest it has had.   *)
LEMMA LiveStep ==
    ASSUME OrderInv, NEW c \in Conns, TaskRest(c)
    PROVE  \/ UNCHANGED live
           \/ /\ c \in listening
              /\ live'.asOf = clock
              /\ live'.sum = task[c].sum
              /\ live'.rest \in {archive, Missing}
<1>1. PICK r \in {archive, Missing} :
          SendAndContinue(c, [asOf |-> clock, sum |-> task[c].sum, rest |-> r])
    BY DEF TaskRest
<1>2. CASE c \in listening /\ live' = Latest(live, [asOf |-> clock, sum |-> task[c].sum, rest |-> r])
  <2>1. live' = [asOf |-> clock, sum |-> task[c].sum, rest |-> r]
      BY <1>2, Numbers DEF OrderInv, StampsInv, Latest
  <2> QED  BY <1>2, <2>1
<1> QED  BY <1>1, <1>2 DEF SendAndContinue

(* OrderInv holds at first.                                                *)
LEMMA OrderInit == Init => OrderInv
<1> SUFFICES ASSUME Init PROVE OrderInv
    OBVIOUS
<1>1. TypeOK
    BY TypeInit
<1> QED  BY <1>1 DEF OrderInv, Init, StampsInv, GetInv, SnapInv, TaskInv, None, Idle, Missing

(* Every step keeps OrderInv.                                              *)
LEMMA OrderStep == OrderInv /\ [Next]_vars => OrderInv'
<1> SUFFICES ASSUME OrderInv, [Next]_vars PROVE OrderInv'
    OBVIOUS
<1>0. TypeOK /\ TypeOK'
  <2>1. TypeOK /\ UNCHANGED vars => TypeOK'
      BY DEF TypeOK, NadoTypes, GetTypes, PageTypes, TaskTypes, UpTypes, vars
  <2> QED  BY <2>1, TypeOfNado, TypeOfPage, TypeOfGateway DEF OrderInv, Next
<1>n. TypeOK
    BY <1>0
<1> USE DEF StampsInv, GetInv, SnapInv, TaskInv
<1> DEFINE Rest == StampsInv /\ GetInv /\ SnapInv /\ TaskInv
<1>r. Rest
    BY DEF OrderInv
<1> SUFFICES Rest'
    BY <1>0 DEF OrderInv
<1>q. ASSUME UNCHANGED <<account, archive, clock, open, listening, live, snap, get>>,
             \A c \in Conns : task'[c].at = "rest" => task'[c] = task[c]
      PROVE  Rest'
    BY <1>q, <1>r
<1>1. CASE Nado
    BY <1>1, <1>r, <1>n, Numbers DEF Nado, AccountChanges, IndexerAdvances, ClockTicks, page
<1>2. CASE Page
  <2>1. CASE GetBegins
      BY <2>1, <1>r, <1>n, Numbers DEF GetBegins, nado
  <2>2. CASE GetSummary
    <3>1. CASE get' = [get EXCEPT !.at = "rest", !.sum = account]
      <4>1. get'.asOf = get.asOf /\ get'.sum = account
          BY <3>1, <1>n DEF TypeOK, GetTypes
      <4> QED  BY <2>2, <4>1, <1>r, <1>n, Numbers DEF GetSummary, nado
    <3>2. CASE get' = Idle
        BY <2>2, <3>2, <1>r, <1>n, Numbers DEF GetSummary, nado, Idle
    <3> QED  BY <2>2, <3>1, <3>2 DEF GetSummary
  <2>3. CASE GetAnswers
    <3> PICK r \in {archive, Missing} : snap' = [asOf |-> get.asOf, sum |-> get.sum, rest |-> r]
        BY <2>3 DEF GetAnswers
    <3> QED  BY <2>3, <1>r, <1>n, Numbers DEF GetAnswers, nado, Idle
  <2>4. CASE PageLeaves
      BY <2>4, <1>r, <1>n, Numbers DEF PageLeaves, nado, Idle, None, Missing
  <2>5. ASSUME NEW c \in Conns, PageOpens(c) PROVE Rest'
    <3>1. listening' = {c} /\ task' = [task EXCEPT ![c].at = "summary"]
        BY <2>5 DEF PageOpens
    <3>2. \A d \in Conns : task'[d].at = "rest" => d # c /\ task'[d] = task[d]
        BY <3>1, <1>n DEF TypeOK, TaskTypes
    <3> QED  BY <2>5, <3>1, <3>2, <1>r, <1>n, Numbers DEF PageOpens, nado
  <2>6. ASSUME NEW c \in Conns, PageClosed(c) \/ PageLoses(c) PROVE Rest'
      BY <2>6, <1>r, <1>n, Numbers DEF PageClosed, PageLoses, nado
  <2> QED  BY <1>2, <2>1, <2>2, <2>3, <2>4, <2>5, <2>6 DEF Page
<1>3. ASSUME NEW c \in Conns, Task(c) \/ TaskFails(c) \/ Upstream(c) \/ UpFails(c)
      PROVE  Rest'
  <2>e. End(c) => \A d \in Conns : task'[d].at = "rest" => task'[d] = task[d]
      BY <1>n DEF End, TypeOK, TaskTypes
  <2>c. Continue(c) => \A d \in Conns : task'[d].at = "rest" => task'[d] = task[d] /\ d # c
      BY <1>n DEF Continue, TypeOK, TaskTypes
  <2>1. CASE TaskSummary(c)
    <3>1. \A d \in Conns : task'[d].at = "rest" =>
              \/ d = c /\ task'[d].sum = account
              \/ task'[d] = task[d]
        BY <2>1, <1>n DEF TaskSummary, TypeOK, TaskTypes
    <3> QED  BY <2>1, <3>1, <1>r, <1>n, Numbers DEF TaskSummary, nado, page
  <2>2. CASE TaskRest(c)
    <3>1. \A d \in Conns : task'[d].at = "rest" => task'[d] = task[d]
        BY <2>2, <2>e, <2>c DEF TaskRest, SendAndContinue
    <3>2. CASE UNCHANGED live
        BY <2>2, <3>1, <3>2, <1>q DEF TaskRest, nado
    <3>3. CASE c \in listening /\ live'.asOf = clock /\ live'.sum = task[c].sum
               /\ live'.rest \in {archive, Missing}
      <4>1. UNCHANGED live \/ \A d \in Conns : task'[d].at = "rest" => d # c
          BY <2>2, <2>c, <3>3 DEF TaskRest, SendAndContinue
      <4>2. UNCHANGED <<account, archive, clock, open, listening, snap, get>>
          BY <2>2 DEF TaskRest, nado
      <4>3. task[c].sum <= account
          BY <2>2, <1>r DEF TaskRest
      <4> QED  BY <3>1, <3>3, <4>1, <4>2, <4>3, <1>q, <1>r, <1>n, Numbers DEF Missing
    <3> QED  BY <2>2, <3>2, <3>3, LiveStep
  <2>3. CASE TaskPolls(c) \/ TaskEvent(c)
    <3>1. \A d \in Conns : task'[d].at = "rest" => task'[d] = task[d]
        BY <2>3, <1>n DEF TaskPolls, TaskEvent, TypeOK, TaskTypes
    <3> QED  BY <2>3, <3>1, <1>q DEF TaskPolls, TaskEvent, nado, page
  <2>4. CASE TaskDegraded(c) \/ TaskNotices(c) \/ TaskFails(c)
    <3>1. \A d \in Conns : task'[d].at = "rest" => task'[d] = task[d]
        BY <2>4, <2>e, <2>c DEF TaskDegraded, TaskNotices, TaskFails
    <3> QED  BY <2>4, <3>1, <1>q DEF TaskDegraded, TaskNotices, TaskFails, nado, page
  <2>5. CASE Upstream(c) \/ UpFails(c)
      BY <2>5, <1>q DEF Upstream, UpConnects, UpForwards, UpReports, UpFails, nado, page
  <2> QED  BY <1>3, <2>1, <2>2, <2>3, <2>4, <2>5 DEF Task
<1>4. CASE UNCHANGED vars
    BY <1>4, <1>q DEF vars
<1> QED  BY <1>1, <1>2, <1>3, <1>4 DEF Next, Gateway

(* OrderInv is an invariant.                                               *)
LEMMA OrderAlways == Spec => []OrderInv
BY OrderInit, OrderStep, PTL DEF Spec

(* Where the page prefers the HTTP answer, nothing gets older by it: the   *)
(* snapshot is stamped before it is read, the websocket's after.           *)
THEOREM ShownNeverBehindLive == Spec => []ShownKeepsLive
<1>1. OrderInv => ShownKeepsLive
    BY Numbers DEF OrderInv, SnapInv, ShownKeepsLive, Shown
<1> QED  BY <1>1, OrderAlways, PTL

(* A step that changes the live envelope makes it newer, or closes the     *)
(* page.                                                                   *)
LEMMA LiveMoves ==
    ASSUME OrderInv, Next, live' # live
    PROVE  \/ /\ open /\ open' = open /\ account' = account
              /\ live.sum <= live'.sum /\ live'.sum <= account
              /\ live'.rest # Missing => live'.rest >= live.rest
           \/ /\ open' = FALSE /\ account' = account /\ live' = None
<1>0. TypeOK
    BY DEF OrderInv
<1>1. CASE PageLeaves
    BY <1>1 DEF PageLeaves, nado
<1>2. ASSUME NEW c \in Conns, TaskRest(c)
      PROVE  /\ open /\ open' = open /\ account' = account
             /\ live.sum <= live'.sum /\ live'.sum <= account
             /\ live'.rest # Missing => live'.rest >= live.rest
  <2>1. c \in listening /\ live'.sum = task[c].sum /\ live'.rest \in {archive, Missing}
      BY <1>2, LiveStep
  <2>2. task[c].sum <= account /\ live.sum <= task[c].sum
      BY <1>2, <2>1 DEF OrderInv, TaskInv, TaskRest
  <2>3. open
      BY <2>1 DEF OrderInv, TaskInv
  <2> QED  BY <1>0, <1>2, <2>1, <2>2, <2>3, Numbers DEF TaskRest, nado, OrderInv, StampsInv, Missing
<1>3. PageLeaves \/ \E c \in Conns : TaskRest(c)
    BY DEF Next, Nado, AccountChanges, IndexerAdvances, ClockTicks, Page, GetBegins, GetSummary,
           GetAnswers, PageOpens, PageClosed, PageLoses, Gateway, Task, TaskSummary, TaskPolls,
           TaskEvent, TaskDegraded, TaskNotices, TaskFails, Upstream, UpConnects, UpForwards,
           UpReports, UpFails, page
<1> QED  BY <1>1, <1>2, <1>3

(* The websocket side of the page never goes back, across any number of    *)
(* reconnects and whatever tasks of earlier connections still do.          *)
THEOREM LiveNeverGoesBack == Spec => LiveInOrder
<1>1. OrderInv /\ [Next]_vars =>
        [open' => /\ live'.sum >= live.sum
                  /\ live'.rest # Missing => live'.rest >= live.rest]_live
  <2> SUFFICES ASSUME OrderInv, Next, live' # live, open'
               PROVE  live'.sum >= live.sum /\ (live'.rest # Missing => live'.rest >= live.rest)
      BY DEF vars
  <2>1. live.sum \in Int /\ live'.sum \in Int
    <3>1. TypeOK /\ TypeOK'
        BY OrderStep DEF OrderInv
    <3> QED  BY <3>1, PortfolioAssumption DEF TypeOK, PageTypes, Envelope, Version, Missing
  <2> QED  BY <2>1, LiveMoves
<1> QED  BY <1>1, OrderAlways, PTL DEF Spec, LiveInOrder

(* The websocket side implements LatestView, but for its fairness, which   *)
(* is model-checked: each step of the gateway, of Nado or of the page is a *)
(* change, a show, a leave or a stutter of the page that follows its       *)
(* account.                                                                *)
THEOREM LiveImplementsView == Spec => LiveView!Init /\ [][LiveView!Next]_(LiveView!vars)
<1>1. Init => LiveView!Init
    BY DEF Init, LiveView!Init, None, Missing
<1>2. OrderInv /\ [Next]_vars => [LiveView!Next]_(LiveView!vars)
  <2> SUFFICES ASSUME OrderInv, [Next]_vars
               PROVE  [LiveView!Next]_(LiveView!vars)
      OBVIOUS
  <2>0. TypeOK /\ TypeOK'
      BY OrderStep DEF OrderInv
  <2>1. CASE UNCHANGED vars
      BY <2>1 DEF vars, LiveView!vars
  <2>2. CASE Next /\ live' # live
    <3>1. live.sum \in Int /\ live'.sum \in Int /\ account \in Int
      BY <2>0, PortfolioAssumption DEF TypeOK, NadoTypes, PageTypes, Envelope, Version, Missing
    <3>2. CASE open /\ open' = open /\ account' = account
               /\ live.sum <= live'.sum /\ live'.sum <= account
      <4>1. open = TRUE
          BY <2>0, <3>2 DEF TypeOK, PageTypes
      <4> QED  BY <3>1, <3>2, <4>1 DEF LiveView!Next, LiveView!Show, LiveView!vars
    <3>3. CASE open' = FALSE /\ account' = account /\ live' = None
        BY <3>3 DEF LiveView!Next, LiveView!Leave, None, Missing
    <3> QED  BY <2>2, <3>2, <3>3, LiveMoves
  <2>3. CASE Next /\ live' = live
    <3>1. CASE AccountChanges
        BY <2>3, <3>1 DEF AccountChanges, page, LiveView!Next, LiveView!Change
    <3>2. CASE PageLeaves
        BY <3>2 DEF PageLeaves, nado, LiveView!Next, LiveView!Leave, None, Missing
    <3>3. CASE ~AccountChanges /\ ~PageLeaves
      <4>1. account' = account /\ open' = open
          BY <2>3, <3>3
             DEF Next, Nado, IndexerAdvances, ClockTicks, Page, GetBegins, GetSummary, GetAnswers,
                 PageOpens, PageClosed, PageLoses, Gateway, Task, TaskSummary, TaskRest, TaskPolls,
                 TaskEvent, TaskDegraded, TaskNotices, TaskFails, Upstream, UpConnects,
                 UpForwards, UpReports, UpFails, page, nado
      <4> QED  BY <2>3, <4>1 DEF LiveView!vars
    <3> QED  BY <3>1, <3>2, <3>3
  <2> QED  BY <2>1, <2>2, <2>3 DEF vars
<1> QED  BY <1>1, <1>2, OrderAlways, PTL DEF Spec

-----------------------------------------------------------------------------
(* The upstream task that has lost its browser.                            *)

(* What it may have read by the time it is in a given place.               *)
Budget(place) ==
    IF place \in {"off", "loop", "ratchet_on"} THEN 0
    ELSE IF place \in {"sdk", "sdk_on"} THEN 1 ELSE 2

LateInv ==
    \A c \in Conns : IF Closed(c) THEN late[c] <= Budget(up[c]) ELSE late[c] = 0

(* Every step keeps LateInv.                                               *)
LEMMA LateStep == TypeOK /\ LateInv /\ [Next]_vars => LateInv'
<1> SUFFICES ASSUME TypeOK, LateInv, [Next]_vars PROVE LateInv'
    OBVIOUS
<1>t. /\ late \in [Conns -> Nat]
      /\ up \in [Conns -> {"off", "loop", "ratchet_on", "sdk", "sdk_on", "lost", "ended"}]
      /\ task \in [Conns -> [at : {"off", "summary", "rest", "select", "ended"}, sum : Version]]
    BY DEF TypeOK, UpTypes, TaskTypes
<1> USE DEF LateInv, Closed
<1>1. ASSUME UNCHANGED <<up, late>>, \A c \in Conns : Closed(c) => Closed(c)'
      PROVE  LateInv'
    BY <1>1, <1>t DEF Budget
<1>2. CASE Nado \/ UNCHANGED vars
    BY <1>1, <1>2 DEF Nado, AccountChanges, IndexerAdvances, ClockTicks, upstream, vars
<1>3. CASE Page
  <2>1. ASSUME NEW c \in Conns, PageOpens(c) PROVE LateInv'
      BY <1>1, <1>t, <2>1 DEF PageOpens, upstream
  <2> QED  BY <1>1, <1>3, <2>1
           DEF Page, GetBegins, GetSummary, GetAnswers, PageLeaves, PageClosed, PageLoses, upstream
<1>4. ASSUME NEW c \in Conns, Task(c) \/ TaskFails(c)
      PROVE  LateInv'
  <2>1. ~Closed(c)
      BY <1>4 DEF Task, TaskSummary, TaskRest, TaskPolls, TaskEvent, TaskDegraded, TaskNotices, TaskFails
  <2>2. late' = late /\ \A d \in Conns \ {c} : up'[d] = up[d] /\ task'[d] = task[d]
      BY <1>4, <1>t DEF Task, TaskSummary, TaskRest, TaskPolls, TaskEvent, TaskDegraded, TaskNotices,
            TaskFails, SendAndContinue, End, Continue, upstream
  <2> QED  BY <2>1, <2>2, <1>t DEF Budget
<1>5. ASSUME NEW c \in Conns, UpConnects(c) \/ UpFails(c) \/ UpForwards(c) \/ UpReports(c)
      PROVE  LateInv'
  <2>1. task' = task /\ \A d \in Conns \ {c} : up'[d] = up[d] /\ late'[d] = late[d]
      BY <1>5, <1>t DEF UpConnects, UpFails, UpForwards, UpReports
  <2>2. IF Closed(c) THEN late'[c] <= Budget(up'[c]) ELSE late'[c] = 0
    <3>1. CASE UpConnects(c)
        BY <3>1, <1>t DEF UpConnects, Budget
    <3>2. CASE UpFails(c)
        BY <3>2, <1>t DEF UpFails, Budget, AfterSession
    <3>3. CASE UpForwards(c)
        BY <3>3, <1>t DEF UpForwards, Budget, AfterSession, Subscribed
    <3>4. CASE UpReports(c)
        BY <3>4, <1>t DEF UpReports, Budget
    <3> QED  BY <1>5, <3>1, <3>2, <3>3, <3>4
  <2> QED  BY <2>1, <2>2
<1> QED  BY <1>2, <1>3, <1>4, <1>5 DEF Next, Gateway, Upstream

(* After its browser has gone, a connection's upstream task reads at most  *)
(* two more events, whenever the browser left and however sessions fail.   *)
THEOREM OrphanTasksEnd == Spec => []OrphanBounded
<1>1. Init => LateInv
    BY DEF Init, LateInv, Closed
<1>2. TypeOK /\ LateInv => OrphanBounded
    BY DEF LateInv, OrphanBounded, Budget, TypeOK, UpTypes
<1> QED  BY <1>1, <1>2, LateStep, TypeCorrect, PTL DEF Spec

-----------------------------------------------------------------------------
(* The counter of the health route.                                        *)

(* Every step that makes a task serve, or ends it, moves the counter.      *)
LEMMA CountStep == TypeOK /\ ActiveCounts /\ [Next]_vars => ActiveCounts'
<1> SUFFICES ASSUME TypeOK, ActiveCounts, [Next]_vars PROVE ActiveCounts'
    OBVIOUS
<1>t. task \in [Conns -> [at : {"off", "summary", "rest", "select", "ended"}, sum : Version]]
    BY DEF TypeOK, TaskTypes
<1>f. IsFiniteSet(ServingTasks) /\ Cardinality(ServingTasks) \in Nat
  <2>1. IsFiniteSet(Conns)
      BY PortfolioAssumption, FS_Interval DEF Conns
  <2> QED  BY <2>1, FS_Subset, FS_CardinalityType DEF ServingTasks
<1>s. ASSUME active' = active, ServingTasks' = ServingTasks
      PROVE  ActiveCounts'
    BY <1>s DEF ActiveCounts
<1>e. ASSUME NEW c \in ServingTasks, End(c)
      PROVE  ActiveCounts'
  <2>1. ServingTasks' = ServingTasks \ {c}
      BY <1>e, <1>t DEF End, ServingTasks
  <2>2. Cardinality(ServingTasks \ {c}) = Cardinality(ServingTasks) - 1
      BY <1>f, FS_RemoveElement
  <2> QED  BY <1>e, <2>1, <2>2 DEF End, ActiveCounts
<1>c. ASSUME NEW c \in ServingTasks, Continue(c)
      PROVE  ActiveCounts'
  <2>1. ServingTasks' = ServingTasks
      BY <1>c, <1>t DEF Continue, ServingTasks
  <2> QED  BY <1>c, <2>1, <1>s DEF Continue
<1>1. CASE Nado \/ UNCHANGED vars
    BY <1>1, <1>s DEF Nado, AccountChanges, IndexerAdvances, ClockTicks, vars, ServingTasks
<1>2. CASE Page
  <2>1. ASSUME NEW c \in Conns, PageOpens(c) PROVE ActiveCounts'
    <3>1. ServingTasks' = ServingTasks \cup {c} /\ c \notin ServingTasks
        BY <2>1, <1>t DEF PageOpens, ServingTasks
    <3>2. Cardinality(ServingTasks \cup {c}) = Cardinality(ServingTasks) + 1
        BY <1>f, <3>1, FS_AddElement
    <3> QED  BY <2>1, <3>1, <3>2 DEF PageOpens, ActiveCounts
  <2> QED  BY <1>2, <1>s, <2>1
           DEF Page, GetBegins, GetSummary, GetAnswers, PageLeaves, PageClosed, PageLoses, ServingTasks
<1>3. ASSUME NEW c \in Conns, Task(c) \/ TaskFails(c)
      PROVE  ActiveCounts'
  <2>1. c \in ServingTasks
      BY <1>3 DEF Task, TaskSummary, TaskRest, TaskPolls, TaskEvent, TaskDegraded, TaskNotices,
            TaskFails, ServingTasks
  <2>2. CASE TaskSummary(c) \/ TaskPolls(c) \/ TaskEvent(c)
    <3>1. ServingTasks' = ServingTasks
        BY <2>1, <2>2, <1>t DEF TaskSummary, TaskPolls, TaskEvent, ServingTasks
    <3> QED  BY <2>2, <3>1, <1>s DEF TaskSummary, TaskPolls, TaskEvent
  <2>3. CASE TaskRest(c) \/ TaskFails(c) \/ TaskNotices(c)
      BY <2>1, <2>3, <1>e, <1>c DEF TaskRest, TaskFails, TaskNotices, SendAndContinue
  <2>4. CASE TaskDegraded(c)
      BY <2>1, <2>4, <1>e, <1>s DEF TaskDegraded, ServingTasks
  <2> QED  BY <1>3, <2>2, <2>3, <2>4 DEF Task
<1>4. ASSUME NEW c \in Conns, Upstream(c) \/ UpFails(c)
      PROVE  ActiveCounts'
    BY <1>4, <1>s DEF Upstream, UpConnects, UpForwards, UpReports, UpFails, ServingTasks
<1> QED  BY <1>1, <1>2, <1>3, <1>4 DEF Next, Gateway

(* active_ws_clients is the number of tasks that serve a browser.          *)
THEOREM ActiveAlwaysCounts == Spec => []ActiveCounts
<1>1. Init => ActiveCounts
  <2>1. Init => ServingTasks = {}
      BY DEF Init, ServingTasks
  <2> QED  BY <2>1, FS_EmptySet DEF Init, ActiveCounts
<1> QED  BY <1>1, CountStep, TypeCorrect, PTL DEF Spec
=============================================================================
