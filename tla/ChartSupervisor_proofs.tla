----------------------- MODULE ChartSupervisor_proofs -----------------------
(***************************************************************************)
(* Theorems about ChartSupervisor, for any set of requests and any number  *)
(* of handles.                                                             *)
(***************************************************************************)
EXTENDS ChartSupervisor, TLAPS

(* The two invariants are inductive together with the types: a worker's    *)
(* handle is filled, the handle of a filling call is not, and both are the *)
(* map's entry, so the two never meet.                                     *)
SupervisorInv == TypeOK /\ FillingOwnsTheEntry /\ OneWorker

(* At first no handle exists.                                              *)
LEMMA InvInit == Init => SupervisorInv
<1> SUFFICES ASSUME Init PROVE SupervisorInv  OBVIOUS
<1> USE SupervisorAssumption DEF Init, Filling, Handles, NoHandle
<1>1. handle \in [Requests -> 0..created] /\ ready \subseteq 1..created
  OBVIOUS
<1>2. TypeOK
  <2>1. aborted \in BOOLEAN
    OBVIOUS
  <2>2. /\ created \in 0..MaxHandles /\ series \in 0..created
        /\ workers \in [1..MaxHandles -> Nat]
    OBVIOUS
  <2>3. pc \in [Requests -> {"out", "insert", "bootstrap", "hung", "remove", "serving"}]
    OBVIOUS
  <2> QED  BY <1>1, <2>1, <2>2, <2>3 DEF TypeOK
<1>3. FillingOwnsTheEntry /\ OneWorker
  BY DEF FillingOwnsTheEntry, OneWorker
<1> QED  BY <1>2, <1>3 DEF SupervisorInv

(* Every step keeps the invariant.                                         *)
LEMMA InvStep == SupervisorInv /\ [Next]_vars => SupervisorInv'
<1> SUFFICES ASSUME SupervisorInv, [Next]_vars PROVE SupervisorInv'  OBVIOUS
<1> USE SupervisorAssumption
    DEF SupervisorInv, TypeOK, FillingOwnsTheEntry, OneWorker, Filling, Handles, NoHandle, Hold
<1>1. ASSUME NEW r \in Requests, Lookup(r) PROVE SupervisorInv'
  <2>1. CASE series # NoHandle
    BY <1>1, <2>1 DEF Lookup
  <2>2. CASE series = NoHandle
    <3>1. /\ pc' = [pc EXCEPT ![r] = "insert"] /\ handle' = [handle EXCEPT ![r] = 0]
          /\ UNCHANGED <<series, created, ready, workers, aborted>>
      BY <1>1, <2>2 DEF Lookup
    <3> QED  BY <3>1
  <2> QED  BY <2>1, <2>2
<1>2. ASSUME NEW r \in Requests, Insert(r) PROVE SupervisorInv'
  <2>1. CASE series # NoHandle
    BY <1>2, <2>1 DEF Insert
  <2>2. CASE series = NoHandle
    <3>1. /\ created < MaxHandles /\ created' = created + 1 /\ series' = created + 1
          /\ handle' = [handle EXCEPT ![r] = created + 1]
          /\ pc' = [pc EXCEPT ![r] = "bootstrap"]
          /\ UNCHANGED <<ready, workers, aborted>>
      BY <1>2, <2>2 DEF Insert
    <3>2. \A q \in Requests : pc[q] \notin {"bootstrap", "hung", "remove"}
      BY <2>2
    <3>3. \A h \in 1..MaxHandles : ~(workers[h] > 0)
      BY <2>2
    <3>4. TypeOK'
      BY <3>1
    <3>5. FillingOwnsTheEntry'
      BY <3>1, <3>2
    <3>6. OneWorker'
      BY <3>1, <3>3
    <3> QED  BY <3>4, <3>5, <3>6
  <2> QED  BY <2>1, <2>2
<1>3. ASSUME NEW r \in Requests, BootstrapSucceeds(r) PROVE SupervisorInv'
  <2>1. /\ handle[r] = series /\ handle[r] \in 1..created /\ series \in 1..MaxHandles
        /\ \A q \in Requests : pc[q] \in {"bootstrap", "hung", "remove"} => q = r
    BY <1>3 DEF BootstrapSucceeds
  <2>2. /\ ready' = ready \cup {series} /\ pc' = [pc EXCEPT ![r] = "serving"]
        /\ handle' = handle /\ UNCHANGED <<series, created, aborted>>
    BY <1>3, <2>1 DEF BootstrapSucceeds
  <2>3. \A h \in 1..MaxHandles : ~(workers[h] > 0)
    BY <1>3, <2>1 DEF BootstrapSucceeds
  <2>4. workers' = [workers EXCEPT ![series] = 1]
    BY <1>3, <2>1, <2>3 DEF BootstrapSucceeds, Spawn
  <2>5. TypeOK'
    BY <2>1, <2>2, <2>4
  <2>6. FillingOwnsTheEntry'
    BY <2>1, <2>2
  <2>7. OneWorker'
    BY <2>1, <2>2, <2>3, <2>4
  <2> QED  BY <2>5, <2>6, <2>7
<1>4. ASSUME NEW r \in Requests, BootstrapFails(r) PROVE SupervisorInv'
  BY <1>4 DEF BootstrapFails
<1>5. ASSUME NEW r \in Requests, Remove(r) PROVE SupervisorInv'
  BY <1>5 DEF Remove
<1>6. ASSUME NEW r \in Requests, Cancel(r) PROVE SupervisorInv'
  BY <1>6 DEF Cancel
<1>7. ASSUME NEW r \in Requests, Leave(r) PROVE SupervisorInv'
  BY <1>7 DEF Leave
<1>8. ASSUME NEW r \in Requests, BootstrapHangs(r) PROVE SupervisorInv'
  BY <1>8 DEF BootstrapHangs
<1>9. CASE UNCHANGED vars
  BY <1>9 DEF vars
<1> QED  BY <1>1, <1>2, <1>3, <1>4, <1>5, <1>6, <1>7, <1>8, <1>9 DEF Next, Request

(* However requests interleave, fail and are dropped inside ensure_series, *)
(* one of them at a time fills the series and removes only its own handle. *)
THEOREM FillingAlwaysOwnsTheEntry == Spec => []FillingOwnsTheEntry
<1>1. SupervisorInv => FillingOwnsTheEntry
  BY DEF SupervisorInv
<1> QED  BY <1>1, InvInit, InvStep, PTL DEF Spec

(* At most one worker task ever runs for a series (spawn).                 *)
THEOREM AlwaysOneWorker == Spec => []OneWorker
<1>1. SupervisorInv => OneWorker
  BY DEF SupervisorInv
<1> QED  BY <1>1, InvInit, InvStep, PTL DEF Spec

-----------------------------------------------------------------------------
(* HeldIsInHand: the map's entry, too, is started or about to be.          *)
EntryInHand ==
    ~aborted =>
        /\ \A r \in Requests : handle[r] \in {NoHandle, series} /\ pc[r] # "remove"
        /\ series # NoHandle => \/ Started(series)
                                \/ \E q \in Requests : pc[q] = "bootstrap" /\ handle[q] = series

(* At first the map has no entry.                                          *)
LEMMA EntryInit == Init => EntryInHand
BY DEF Init, EntryInHand

(* Only an abort leaves an entry that nobody starts.                       *)
LEMMA EntryStep == SupervisorInv /\ EntryInHand /\ [Next]_vars => EntryInHand'
<1> SUFFICES ASSUME SupervisorInv, EntryInHand, [Next]_vars, ~aborted' PROVE EntryInHand'
  BY DEF EntryInHand
<1>t. /\ pc \in [Requests -> {"out", "insert", "bootstrap", "hung", "remove", "serving"}]
      /\ handle \in [Requests -> 0..created] /\ created \in Nat /\ series \in 0..created
      /\ workers \in [Handles -> Nat] /\ created <= MaxHandles
  BY SupervisorAssumption DEF SupervisorInv, TypeOK
<1>a. /\ ~aborted
      /\ \A r \in Requests : ~BootstrapFails(r) /\ ~BootstrapHangs(r) /\ ~Cancel(r) /\ ~Remove(r)
  BY DEF Next, Request, vars, Lookup, Insert, BootstrapSucceeds, BootstrapFails, BootstrapHangs,
         Remove, Cancel, Leave, EntryInHand
<1>1. /\ \A r \in Requests : handle[r] \in {NoHandle, series} /\ pc[r] # "remove"
      /\ series # NoHandle => \/ Started(series)
                              \/ \E q \in Requests : pc[q] = "bootstrap" /\ handle[q] = series
  BY <1>a DEF EntryInHand
<1>2. ASSUME NEW r \in Requests, Lookup(r) PROVE EntryInHand'
  <2>1. /\ UNCHANGED <<series, workers>> /\ pc[r] = "out"
        /\ \E h \in {NoHandle, series} : handle' = [handle EXCEPT ![r] = h]
        /\ \E at \in {"serving", "insert"} : pc' = [pc EXCEPT ![r] = at]
    BY <1>2 DEF Lookup, Hold
  <2> QED
    BY <1>t, <1>1, <2>1 DEF EntryInHand, Started
<1>3. ASSUME NEW r \in Requests, Insert(r) PROVE EntryInHand'
  <2>1. CASE series # NoHandle
    <3>1. /\ UNCHANGED <<series, workers>> /\ pc[r] = "insert"
          /\ handle' = [handle EXCEPT ![r] = series] /\ pc' = [pc EXCEPT ![r] = "serving"]
      BY <1>3, <2>1 DEF Insert, Hold
    <3> QED
      BY <1>t, <1>1, <3>1 DEF EntryInHand, Started
  <2>2. CASE series = NoHandle
    <3>1. /\ series' = created + 1
          /\ handle' = [handle EXCEPT ![r] = created + 1] /\ pc' = [pc EXCEPT ![r] = "bootstrap"]
      BY <1>3, <2>2 DEF Insert, Hold
    <3> QED
      BY <1>t, <1>1, <2>2, <3>1 DEF EntryInHand, NoHandle
  <2> QED
    BY <2>1, <2>2
<1>4. ASSUME NEW r \in Requests, BootstrapSucceeds(r) PROVE EntryInHand'
  <2>1. handle[r] = series /\ series \in Handles
    BY <1>4, <1>t, SupervisorAssumption
       DEF BootstrapSucceeds, SupervisorInv, FillingOwnsTheEntry, Filling, Handles, NoHandle
  <2>2. /\ UNCHANGED <<series, handle>> /\ pc' = [pc EXCEPT ![r] = "serving"]
        /\ workers' = [workers EXCEPT ![series] = IF @ > 0 THEN @ ELSE 1]
    BY <1>4, <1>t, <2>1 DEF BootstrapSucceeds, Hold, Spawn
  <2>3. Started(series)'
    BY <1>t, <2>1, <2>2 DEF Started, Handles
  <2> QED
    BY <1>t, <1>1, <2>2, <2>3 DEF EntryInHand
<1>5. ASSUME NEW r \in Requests, Leave(r) PROVE EntryInHand'
  <2>1. /\ UNCHANGED <<series, workers>> /\ pc[r] = "serving"
        /\ handle' = [handle EXCEPT ![r] = NoHandle] /\ pc' = [pc EXCEPT ![r] = "out"]
    BY <1>5 DEF Leave, Hold
  <2> QED
    BY <1>t, <1>1, <2>1 DEF EntryInHand, Started
<1>6. CASE UNCHANGED vars
  BY <1>6, <1>1 DEF vars, EntryInHand, Started
<1> QED  BY <1>a, <1>2, <1>3, <1>4, <1>5, <1>6 DEF Next, Request

(* Nobody holds a dead series unless a call was dropped, failed or hangs:  *)
(* what ensure_series returned is started or in the hands of a call.       *)
THEOREM HeldAlwaysInHand == Spec => []HeldIsInHand
<1>1. EntryInHand => HeldIsInHand
  BY DEF EntryInHand, HeldIsInHand
<1> QED  BY <1>1, InvInit, InvStep, EntryInit, EntryStep, PTL DEF Spec

(* A worker that was started stays, and its series stays in the map: no    *)
(* late removal takes it out (market.rs:175).                              *)
THEOREM WorkersStay ==
    Spec => [][\A h \in Handles : Started(h) => Started(h)' /\ series' = h]_vars
<1>1. ASSUME SupervisorInv, [Next]_vars, NEW h \in Handles, Started(h)
      PROVE  Started(h)' /\ series' = h
  <2>1. series = h /\ h \in ready /\ workers \in [Handles -> Nat] /\ h # NoHandle
    BY <1>1 DEF SupervisorInv, TypeOK, OneWorker, Started, Handles, NoHandle
  <2>2. \A r \in Requests : ~BootstrapSucceeds(r) /\ ~Remove(r)
    BY <1>1, <2>1 DEF SupervisorInv, FillingOwnsTheEntry, Filling, BootstrapSucceeds, Remove
  <2>3. UNCHANGED <<series, workers>>
    BY <1>1, <2>1, <2>2 DEF Next, Request, vars, Lookup, Insert, BootstrapFails, BootstrapHangs,
             Cancel, Leave
  <2> QED
    BY <1>1, <2>1, <2>3 DEF Started
<1>2. SupervisorInv /\ [Next]_vars =>
        [\A h \in Handles : Started(h) => Started(h)' /\ series' = h]_vars
  BY <1>1
<1> QED  BY <1>2, InvInit, InvStep, PTL DEF Spec
=============================================================================
