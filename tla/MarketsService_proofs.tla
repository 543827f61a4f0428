----------------------- MODULE MarketsService_proofs -----------------------
(***************************************************************************)
(* Theorems about MarketsService, for every set of products, of contents   *)
(* and of consumers, every capacity and every bound.                       *)
(***************************************************************************)
EXTENDS MarketsService, TLAPS

-----------------------------------------------------------------------------
(* Rows.                                                                   *)

(* diff_market_rows finds nothing only between equal rows.                 *)
LEMMA NoDifference ==
  ASSUME NEW old, NEW new, old = [k \in DOMAIN old |-> old[k]],
         new = [k \in DOMAIN new |-> new[k]], ~Differ(old, new)
  PROVE  old = new
<1>1. DOMAIN Updated(old, new) = {} /\ Removed(old, new) = {}
  BY DEF Differ, NoRows
<1>2. \A k \in DOMAIN new : k \in DOMAIN old /\ old[k] = new[k]
  BY <1>1 DEF Updated, Restrict
<1>3. DOMAIN old = DOMAIN new
  BY <1>1, <1>2 DEF Removed
<1> QED  BY <1>2, <1>3

(* build_market_rows returns a map.                                        *)
LEMMA BuildIsMap ==
  ASSUME NEW src, NEW t
  PROVE  Build(src, t) = [k \in DOMAIN Build(src, t) |-> Build(src, t)[k]]
BY DEF Build

(* But for the stale mark, the rows do not depend on the clock.            *)
LEMMA JoinedBuild ==
  ASSUME NEW src, NEW t, NEW u
  PROVE  Joined(Build(src, t)) = Joined(Build(src, u))
BY DEF Joined, Build

-----------------------------------------------------------------------------
(* What the rows' invariant needs to know besides itself.                  *)
RowsInv ==
    /\ pc \in [Pollers -> {"idle", "rebuild", "send"}]
    /\ markets = [k \in DOMAIN markets |-> markets[k]]
    /\ RowsCurrent

(* Nothing is listed before the first refresh.                             *)
LEMMA RowsInit == Init => RowsInv
<1> SUFFICES ASSUME Init PROVE RowsInv  OBVIOUS
<1>1. Listed(source) = {}
  BY DEF Init, Listed, NoRows
<1>2. Build(source, now) = NoRows
  BY <1>1 DEF Build, NoRows
<1> QED  BY <1>2 DEF Init, RowsInv, RowsCurrent, NoRows

(* Every step keeps the rows current.                                      *)
LEMMA RowsStep == RowsInv /\ [Next]_vars => RowsInv'
<1> SUFFICES ASSUME RowsInv, [Next]_vars PROVE RowsInv'  OBVIOUS
<1> USE DEF RowsInv
<1>1. CASE Tick
  BY <1>1, JoinedBuild DEF Tick, service, RowsCurrent
<1>2. ASSUME NEW p \in Pollers, PollerFails(p) PROVE RowsInv'
  BY <1>2 DEF PollerFails, service, RowsCurrent
<1>3. ASSUME NEW p \in Pollers, PollerStore(p) PROVE RowsInv'
  <2>1. pc'[p] = "rebuild" /\ pc' \in [Pollers -> {"idle", "rebuild", "send"}]
    BY <1>3 DEF PollerStore
  <2> QED  BY <1>3, <2>1 DEF PollerStore, RowsCurrent
<1>4. ASSUME NEW p \in Pollers, PollerRebuild(p) PROVE RowsInv'
  <2>1. markets' = Build(source, now) /\ source' = source /\ now' = now
    BY <1>4 DEF PollerRebuild
  <2>2. pc' \in [Pollers -> {"idle", "rebuild", "send"}]
    BY <1>4 DEF PollerRebuild
  <2> QED  BY <2>1, <2>2, BuildIsMap DEF RowsCurrent
<1>5. ASSUME NEW p \in Pollers, PollerUnchanged(p) PROVE RowsInv'
  <2>1. markets = Build(source, now)
    BY <1>5, NoDifference, BuildIsMap DEF PollerUnchanged
  <2>2. pc' \in [Pollers -> {"idle", "rebuild", "send"}]
    BY <1>5 DEF PollerUnchanged
  <2> QED  BY <1>5, <2>1, <2>2 DEF PollerUnchanged, service, RowsCurrent
<1>6. ASSUME NEW p \in Pollers, PollerSend(p) PROVE RowsInv'
  <2>1. /\ \A q \in Pollers : pc'[q] = "rebuild" <=> pc[q] = "rebuild"
        /\ pc' \in [Pollers -> {"idle", "rebuild", "send"}]
    BY <1>6 DEF PollerSend
  <2> QED  BY <1>6, <2>1 DEF PollerSend, service, RowsCurrent
<1>7. ASSUME NEW c \in Clients, Client(c) PROVE RowsInv'
  BY <1>7 DEF Client, ClientSubscribe, ClientSnapshot, ClientReceive, ClientLagged,
     ClientLeave, service, RowsCurrent
<1>8. CASE UNCHANGED vars
  BY <1>8 DEF vars, RowsCurrent
<1> QED  BY <1>1, <1>2, <1>3, <1>4, <1>5, <1>6, <1>7, <1>8 DEF Next, Poller

(* The published rows are the join of the three maps whenever no refresh   *)
(* is between its two critical sections: overlapping pollers                *)
(* (refresh_..._with_client, rebuild_and_publish) lose no payload.         *)
THEOREM RowsAlwaysCurrent == Spec => []RowsCurrent
<1>1. RowsInv => RowsCurrent
  BY DEF RowsInv
<1> QED  BY <1>1, RowsInit, RowsStep, PTL DEF Spec
-----------------------------------------------------------------------------
(* What the invariant on numbers needs to know besides itself: numbers are *)
(* given out in order, and a poller at "send" holds one of them.           *)
SeqInv ==
    /\ seq \in Nat
    /\ pc \in [Pollers -> {"idle", "rebuild", "send"}]
    /\ DOMAIN message = Pollers
    /\ \A p \in InFlight : message[p].type # "status"
    /\ EverySeqPublished

(* No number has been given out at the start.                              *)
LEMMA SeqInit == Init => SeqInv
BY DEF Init, SeqInv, EverySeqPublished, InFlight

(* Every step keeps each number in one place: sent, or held by one poller. *)
LEMMA SeqStep == SeqInv /\ [Next]_vars => SeqInv'
<1> SUFFICES ASSUME SeqInv, [Next]_vars PROVE SeqInv'  OBVIOUS
<1> USE DEF SeqInv, InFlight, EverySeqPublished
<1>1. CASE Tick
  BY <1>1 DEF Tick, service, channel
<1>2. ASSUME NEW p \in Pollers, PollerFails(p) PROVE SeqInv'
  <2>1. sent' = sent
    BY <1>2 DEF PollerFails, channel, Broadcast, Note, Status
  <2> QED  BY <1>2, <2>1 DEF PollerFails, service
<1>3. ASSUME NEW p \in Pollers, PollerStore(p) PROVE SeqInv'
  <2>1. /\ pc' \in [Pollers -> {"idle", "rebuild", "send"}]
        /\ \A q \in Pollers : pc'[q] = "send" <=> pc[q] = "send"
    BY <1>3 DEF PollerStore
  <2> QED  BY <1>3, <2>1 DEF PollerStore, channel
<1>4. ASSUME NEW p \in Pollers, PollerRebuild(p) PROVE SeqInv'
  <2>1. /\ pc' \in [Pollers -> {"idle", "rebuild", "send"}] /\ pc'[p] = "send"
        /\ pc[p] # "send" /\ \A q \in Pollers \ {p} : pc'[q] = pc[q]
    BY <1>4 DEF PollerRebuild
  <2>2. /\ seq' = seq + 1 /\ sent' = sent /\ DOMAIN message' = Pollers
        /\ \A q \in Pollers \ {p} : message'[q] = message[q]
    BY <1>4 DEF PollerRebuild, channel
  <2>3. message'[p].seq = seq + 1 /\ message'[p].type # "status"
    BY <1>4 DEF PollerRebuild, Snapshot
  <2>4. InFlight' = InFlight \cup {p} /\ p \notin InFlight
    BY <2>1
  <2>5. \A q \in InFlight : message[q].seq \in 1..seq
    OBVIOUS
  <2>6. sent \subseteq 1..seq
    OBVIOUS
  <2>7. 1..seq' = sent' \cup {message'[q].seq : q \in InFlight'}
    <3>1. 1..seq' = 1..seq \cup {seq + 1}
      BY <2>2
    <3>2. {message'[q].seq : q \in InFlight'} = {message[q].seq : q \in InFlight} \cup {seq + 1}
      BY <2>2, <2>3, <2>4
    <3> QED  BY <2>2, <3>1, <3>2
  <2>8. seq + 1 \notin 1..seq
    OBVIOUS
  <2>9. ASSUME NEW q \in InFlight', NEW r \in InFlight'
        PROVE  /\ message'[q].type # "status" /\ message'[q].seq \notin sent'
               /\ message'[q].seq = message'[r].seq => q = r
    BY <2>2, <2>3, <2>4, <2>5, <2>6, <2>8
  <2> QED  BY <2>1, <2>2, <2>7, <2>9
<1>5. ASSUME NEW p \in Pollers, PollerUnchanged(p) PROVE SeqInv'
  <2>1. /\ pc' \in [Pollers -> {"idle", "rebuild", "send"}]
        /\ \A q \in Pollers : pc'[q] = "send" <=> pc[q] = "send"
    BY <1>5 DEF PollerUnchanged
  <2> QED  BY <1>5, <2>1 DEF PollerUnchanged, service, channel
<1>6. ASSUME NEW p \in Pollers, PollerSend(p) PROVE SeqInv'
  <2>1. /\ pc' \in [Pollers -> {"idle", "rebuild", "send"}] /\ pc'[p] = "idle"
        /\ p \in InFlight /\ \A q \in Pollers \ {p} : pc'[q] = pc[q]
    BY <1>6 DEF PollerSend
  <2>2. /\ seq' = seq /\ DOMAIN message' = Pollers
        /\ \A q \in Pollers \ {p} : message'[q] = message[q]
    BY <1>6 DEF PollerSend, service
  <2>3. sent' = sent \cup {message[p].seq}
    BY <1>6, <2>1 DEF PollerSend, Broadcast, Note
  <2>4. InFlight' = InFlight \ {p}
    BY <2>1
  <2> QED  BY <2>1, <2>2, <2>3, <2>4
<1>7. ASSUME NEW c \in Clients, Client(c) PROVE SeqInv'
  BY <1>7 DEF Client, ClientSubscribe, ClientSnapshot, ClientReceive, ClientLagged,
     ClientLeave, service, channel
<1>8. CASE UNCHANGED vars
  BY <1>8 DEF vars
<1> QED  BY <1>1, <1>2, <1>3, <1>4, <1>5, <1>6, <1>7, <1>8 DEF Next, Poller

(* Every numbered change of the rows is broadcast exactly once             *)
(* (rebuild_and_publish), however the three pollers interleave.            *)
THEOREM EverySeqIsPublished == Spec => []EverySeqPublished
<1>1. SeqInv => EverySeqPublished
  BY DEF SeqInv
<1> QED  BY <1>1, SeqInit, SeqStep, PTL DEF Spec

-----------------------------------------------------------------------------
(* Types.                                                                  *)

(* A set of rows is a function from some keys to rows.                     *)
LEMMA RowsType ==
  ASSUME NEW f
  PROVE  f \in Rows <=> /\ DOMAIN f \subseteq Keys
                        /\ f = [k \in DOMAIN f |-> f[k]]
                        /\ \A k \in DOMAIN f : f[k] \in Row
<1>1. ASSUME f \in Rows
      PROVE  /\ DOMAIN f \subseteq Keys /\ f = [k \in DOMAIN f |-> f[k]]
             /\ \A k \in DOMAIN f : f[k] \in Row
  <2>1. PICK D \in SUBSET Keys : f \in [D -> Row]
    BY <1>1 DEF Rows
  <2> QED  BY <2>1
<1>2. ASSUME DOMAIN f \subseteq Keys, f = [k \in DOMAIN f |-> f[k]],
             \A k \in DOMAIN f : f[k] \in Row
      PROVE  f \in Rows
  <2>1. f \in [DOMAIN f -> Row] /\ DOMAIN f \in SUBSET Keys
    BY <1>2
  <2> QED  BY <2>1 DEF Rows
<1> QED  BY <1>1, <1>2

(* Among at most three times one is the latest.                            *)
LEMMA LatestOfThree ==
  ASSUME NEW a, NEW b, NEW c, NEW S \in SUBSET {a, b, c}, S # {}, NEW g \in [S -> Nat]
  PROVE  \E s \in S : \A r \in S : g[r] <= g[s]
<1>1. \A x, y, z \in S : \E s \in {x, y, z} : g[x] <= g[s] /\ g[y] <= g[s] /\ g[z] <= g[s]
  OBVIOUS
<1>2. PICK d \in S : TRUE
  OBVIOUS
<1> DEFINE or(x) == IF x \in S THEN x ELSE d
<1>3. or(a) \in S /\ or(b) \in S /\ or(c) \in S /\ S \subseteq {or(a), or(b), or(c)}
  OBVIOUS
<1> HIDE DEF or
<1>4. PICK s \in {or(a), or(b), or(c)} : g[or(a)] <= g[s] /\ g[or(b)] <= g[s] /\ g[or(c)] <= g[s]
  BY <1>1, <1>3
<1> QED  BY <1>3, <1>4

(* A listed product has a time of its last update (build_market_rows).     *)
LEMMA LastUpdateType ==
  ASSUME NEW src \in [Pollers -> Sources], NEW p \in Listed(src)
  PROVE  LastUpdate(src, p) \in 0..MaxNow
<1> DEFINE at(s) == src[s][p].at
           has == {s \in Pollers : p \in DOMAIN src[s]}
           times == {src[s][p].at : s \in {t \in Pollers : p \in DOMAIN src[t]}}
<1>1. \A s \in has : at(s) \in 0..MaxNow
  <2> SUFFICES ASSUME NEW s \in Pollers, p \in DOMAIN src[s] PROVE src[s][p].at \in 0..MaxNow
    OBVIOUS
  <2>1. PICK D \in SUBSET Products : src[s] \in [D -> Entry]
    BY DEF Sources
  <2> QED  BY <2>1 DEF Entry
<1>2. times = {at(s) : s \in has} /\ times # {}
  BY DEF Listed
<1>3. \E t \in times : \A u \in times : u <= t
  <2>1. \A s \in has : at(s) \in Nat
    BY <1>1, MarketsAssumption
  <2>2. has \subseteq {"symbols", "tickers", "contracts"} /\ has # {}
    BY DEF Listed, Pollers
  <2> HIDE DEF at, has, times
  <2> DEFINE g == [s \in has |-> at(s)]
  <2>3. g \in [has -> Nat]
    BY <2>1
  <2>4. \E s \in has : \A r \in has : g[r] <= g[s]
    BY <2>2, <2>3, LatestOfThree
  <2> QED  BY <1>2, <2>4
<1>4. LastUpdate(src, p) \in times
  BY <1>3 DEF LastUpdate
<1> HIDE DEF at, has
<1> QED  BY <1>1, <1>2, <1>4

(* build_market_rows returns rows.                                         *)
LEMMA BuildType ==
  ASSUME NEW src \in [Pollers -> Sources], NEW t \in 0..MaxNow
  PROVE  Build(src, t) \in Rows
<1>1. ASSUME NEW k \in DOMAIN Build(src, t) PROVE k \in Keys /\ k[2] \in Listed(src)
  <2>1. PICK p \in Listed(src) : k = Key(src, p)
    BY DEF Build
  <2>2. p \in Products
    <3>1. PICK s \in Pollers : p \in DOMAIN src[s]
      BY DEF Listed
    <3>2. PICK D \in SUBSET Products : src[s] \in [D -> Entry]
      BY DEF Sources
    <3> QED  BY <3>1, <3>2
  <2> QED  BY <2>1, <2>2 DEF Key, Keys
<1>2. ASSUME NEW s \in Pollers, NEW p PROVE Content(src, s, p) \in Values \cup {NoValue}
  <2>1. PICK D \in SUBSET Products : src[s] \in [D -> Entry]
    BY DEF Sources
  <2> QED  BY <2>1 DEF Content, Entry
<1>3. ASSUME NEW k \in DOMAIN Build(src, t) PROVE Build(src, t)[k] \in Row
  <2>1. LastUpdate(src, k[2]) \in 0..MaxNow
    BY <1>1, <1>3, LastUpdateType
  <2>2. /\ Content(src, "tickers", k[2]) \in Values \cup {NoValue}
        /\ Content(src, "contracts", k[2]) \in Values \cup {NoValue}
    BY <1>2 DEF Pollers
  <2> QED  BY <2>1, <2>2 DEF Build, Row
<1> QED  BY <1>1, <1>3, RowsType, BuildIsMap

(* What diff_market_rows sends is rows and keys.                           *)
LEMMA DiffType ==
  ASSUME NEW old \in Rows, NEW new \in Rows
  PROVE  Updated(old, new) \in Rows /\ Removed(old, new) \subseteq Keys
<1>1. /\ DOMAIN old \subseteq Keys /\ DOMAIN new \subseteq Keys
      /\ \A k \in DOMAIN new : new[k] \in Row
  BY RowsType
<1>2. Updated(old, new) \in Rows
  <2> DEFINE D == {k \in DOMAIN new : k \notin DOMAIN old \/ old[k] # new[k]}
  <2>1. Updated(old, new) = [k \in D |-> new[k]]
    BY DEF Updated, Restrict
  <2>2. D \subseteq DOMAIN new
    OBVIOUS
  <2> HIDE DEF D
  <2> QED  BY <1>1, <2>1, <2>2, RowsType
<1> QED  BY <1>1, <1>2 DEF Removed

(* Merging a message into rows gives rows.                                 *)
LEMMA MergeType ==
  ASSUME NEW rows \in Rows, NEW m \in Message
  PROVE  Merge(rows, m) \in Rows
<1>1. m.type \in {"snapshot", "delta", "status"} /\ m.rows \in Rows /\ m.removed \subseteq Keys
  BY DEF Message
<1>2. CASE m.type = "delta"
  <2>1. /\ DOMAIN rows \subseteq Keys /\ DOMAIN m.rows \subseteq Keys
        /\ \A k \in DOMAIN rows : rows[k] \in Row
        /\ \A k \in DOMAIN m.rows : m.rows[k] \in Row
    BY <1>1, RowsType
  <2> DEFINE D == (DOMAIN rows \cup DOMAIN m.rows) \ m.removed
             F == [k \in D |-> IF k \in DOMAIN m.rows THEN m.rows[k] ELSE rows[k]]
  <2>2. Merge(rows, m) = F
    BY <1>2 DEF Merge
  <2>3. DOMAIN F \subseteq Keys /\ \A k \in DOMAIN F : F[k] \in Row
    BY <2>1
  <2>4. F = [k \in DOMAIN F |-> F[k]]
    OBVIOUS
  <2> HIDE DEF F
  <2> QED  BY <2>2, <2>3, <2>4, RowsType
<1>3. CASE m.type # "delta"
  BY <1>1, <1>3 DEF Merge
<1> QED  BY <1>2, <1>3

(* No rows are rows, and the messages that carry them are messages.        *)
LEMMA NoRowsType == NoRows \in Rows /\ Status \in Message
<1>1. NoRows \in Rows
  BY RowsType DEF NoRows
<1> QED  BY <1>1 DEF Status, Message

(* A broadcast keeps the channel within its type and capacity.             *)
LEMMA BroadcastType ==
  ASSUME TypeOK, NEW m \in Message, Broadcast(m)
  PROVE  /\ DOMAIN unread' = Clients
         /\ \A c \in Clients : unread'[c] \in Seq(Message) /\ Len(unread'[c]) <= Capacity
         /\ lagged' \in [Clients -> BOOLEAN] /\ inverted' \in BOOLEAN
<1>1. DOMAIN unread' = Clients /\ lagged' \in [Clients -> BOOLEAN]
  BY DEF Broadcast
<1>2. inverted' \in BOOLEAN
  BY DEF Broadcast, Note, TypeOK
<1>3. ASSUME NEW c \in Clients
      PROVE  unread'[c] \in Seq(Message) /\ Len(unread'[c]) <= Capacity
  <2>1. unread[c] \in Seq(Message) /\ Len(unread[c]) <= Capacity
    BY DEF TypeOK
  <2>2. \/ unread'[c] = unread[c]
        \/ Len(unread[c]) < Capacity /\ unread'[c] = Append(unread[c], m)
        \/ ~(Len(unread[c]) < Capacity) /\ unread'[c] = Append(Tail(unread[c]), m)
    BY DEF Broadcast, Queued
  <2>3. ASSUME ~(Len(unread[c]) < Capacity)
        PROVE  /\ Tail(unread[c]) \in Seq(Message)
               /\ Len(Tail(unread[c])) = Len(unread[c]) - 1
    <3>1. unread[c] # <<>>
      BY <2>3, MarketsAssumption
    <3> QED  BY <2>1, <3>1
  <2>4. \A q \in Seq(Message) : /\ Append(q, m) \in Seq(Message)
                                /\ Len(Append(q, m)) = Len(q) + 1 /\ Len(q) \in Nat
    OBVIOUS
  <2>5. CASE Len(unread[c]) < Capacity /\ unread'[c] = Append(unread[c], m)
    BY <2>1, <2>4, <2>5, MarketsAssumption
  <2>6. CASE ~(Len(unread[c]) < Capacity) /\ unread'[c] = Append(Tail(unread[c]), m)
    BY <2>1, <2>3, <2>4, <2>6, MarketsAssumption
  <2> QED  BY <2>1, <2>2, <2>5, <2>6
<1> QED  BY <1>1, <1>2, <1>3

(* The service starts with no rows and no consumers.                       *)
LEMMA InitType == Init => TypeOK
<1> SUFFICES ASSUME Init PROVE TypeOK  OBVIOUS
<1>1. NoRows \in Sources
  <2>1. NoRows \in [{} -> Entry]
    BY DEF NoRows
  <2> QED  BY <2>1 DEF Sources
<1>2. \A c \in Clients : <<>> \in Seq(Message) /\ Len(<<>>) <= Capacity
  BY MarketsAssumption
<1>3. /\ source \in [Pollers -> Sources] /\ phase \in Pollers
      /\ pc \in [Pollers -> {"idle", "rebuild", "send"}]
      /\ \A p \in Pollers : message[p] \in Message
  BY <1>1, NoRowsType DEF Init, Pollers
<1>4. /\ DOMAIN unread = Clients
      /\ \A c \in Clients : unread[c] \in Seq(Message) /\ Len(unread[c]) <= Capacity
  BY <1>2 DEF Init
<1>5. lagged \in [Clients -> BOOLEAN] /\ replica \in [Clients -> Rows] /\ inverted \in BOOLEAN
  BY NoRowsType DEF Init
<1> QED  BY <1>3, <1>4, <1>5, NoRowsType, MarketsAssumption DEF Init, TypeOK

(* A poller's step keeps the types.                                        *)
LEMMA PollerType ==
  ASSUME TypeOK, SeqInv, SeqInv', NEW p \in Pollers, Poller(p)
  PROVE  TypeOK'
<1> USE DEF service, channel, consumer
<1>1. seq' \in Nat /\ sent' \subseteq 1..seq'
  BY DEF SeqInv, EverySeqPublished
<1>2. /\ \A s \in Pollers : NextPhase(s) \in Pollers \cup {"serve"}
      /\ now \in 0..MaxNow /\ source \in [Pollers -> Sources] /\ Status \in Message
  BY NoRowsType DEF NextPhase, Pollers, TypeOK
<1>3. CASE PollerFails(p)
  <2>1. CASE phase = "symbols"
    BY <1>1, <1>3, <2>1 DEF PollerFails, TypeOK
  <2>2. CASE phase # "symbols"
    <3>1. Broadcast(Status) /\ phase' = NextPhase(p)
      BY <1>3, <2>2 DEF PollerFails
    <3> QED  BY <1>1, <1>2, <1>3, <3>1, BroadcastType DEF PollerFails, TypeOK
  <2> QED  BY <2>1, <2>2
<1>4. CASE PollerStore(p)
  <2>1. PICK f \in Payloads(p) : source' = [source EXCEPT ![p] = f]
    BY <1>4 DEF PollerStore
  <2>2. f \in Sources
    <3>1. PICK D \in SUBSET Products : f \in [D -> [content : Values, at : {now}]]
      BY <2>1 DEF Payloads
    <3>2. f \in [D -> Entry]
      BY <1>2, <3>1 DEF Entry
    <3> QED  BY <3>2 DEF Sources
  <2>3. source' \in [Pollers -> Sources]
    BY <1>2, <2>1, <2>2
  <2> QED  BY <1>1, <1>4, <2>3 DEF PollerStore, TypeOK
<1>5. CASE PollerRebuild(p)
  <2> DEFINE next == Build(source, now)
             m == IF seq' = 1 THEN Snapshot(1, next)
                  ELSE [type |-> "delta", seq |-> seq',
                        rows |-> Updated(markets, next), removed |-> Removed(markets, next)]
  <2>1. next \in Rows
    BY <1>2, BuildType
  <2>2. markets' = next /\ message' = [message EXCEPT ![p] = m]
    BY <1>5 DEF PollerRebuild
  <2>3. m \in Message
    BY <1>1, <2>1, DiffType DEF Message, Snapshot, TypeOK
  <2> HIDE DEF next, m
  <2>4. \A q \in Pollers : message'[q] \in Message
    BY <2>2, <2>3 DEF TypeOK, SeqInv
  <2> QED  BY <1>1, <1>5, <2>1, <2>2, <2>4 DEF PollerRebuild, TypeOK
<1>6. CASE PollerUnchanged(p)
  BY <1>1, <1>2, <1>6 DEF PollerUnchanged, TypeOK
<1>7. CASE PollerSend(p)
  <2>1. Broadcast(message[p]) /\ message[p] \in Message
    BY <1>7 DEF PollerSend, TypeOK
  <2>2. \A q \in Pollers : message'[q] \in Message
    BY <1>2, <1>7 DEF PollerSend, TypeOK
  <2> QED  BY <1>1, <1>2, <1>7, <2>1, <2>2, BroadcastType DEF PollerSend, TypeOK
<1> QED  BY <1>3, <1>4, <1>5, <1>6, <1>7 DEF Poller

(* So does a step of a websocket task (handle_ws_client).                  *)
LEMMA ClientType ==
  ASSUME TypeOK, NEW c \in Clients, Client(c)
  PROVE  TypeOK'
<1> USE DEF service, channel, consumer
<1>1. CASE ClientSubscribe(c)
  BY <1>1 DEF ClientSubscribe, TypeOK
<1>2. CASE ClientSnapshot(c)
  <2>1. Merge(replica[c], Snapshot(seq, markets)) \in Rows
    BY DEF Merge, Snapshot, TypeOK
  <2> QED  BY <1>2, <2>1 DEF ClientSnapshot, TypeOK
<1>3. CASE ClientReceive(c)
  <2>1. unread[c] \in Seq(Message) /\ unread[c] # <<>> /\ Len(unread[c]) <= Capacity
    BY <1>3 DEF ClientReceive, TypeOK
  <2>2. /\ Head(unread[c]) \in Message /\ Tail(unread[c]) \in Seq(Message)
        /\ Len(Tail(unread[c])) <= Capacity
    BY <2>1, MarketsAssumption
  <2>3. Merge(replica[c], Head(unread[c])) \in Rows
    BY <2>2, MergeType DEF TypeOK
  <2> QED  BY <1>3, <2>2, <2>3 DEF ClientReceive, TypeOK
<1>4. CASE ClientLagged(c)
  BY <1>4 DEF ClientLagged, TypeOK
<1>5. CASE ClientLeave(c)
  <2>1. <<>> \in Seq(Message) /\ Len(<<>>) <= Capacity
    BY MarketsAssumption
  <2> QED  BY <1>5, <2>1, NoRowsType DEF ClientLeave, TypeOK
<1> QED  BY <1>1, <1>2, <1>3, <1>4, <1>5 DEF Client

(* So does every step.                                                     *)
LEMMA StepType == TypeOK /\ SeqInv /\ SeqInv' /\ [Next]_vars => TypeOK'
<1>1. ASSUME TypeOK, Tick PROVE TypeOK'
  BY <1>1, MarketsAssumption DEF Tick, TypeOK, service, channel, consumer
<1>2. ASSUME TypeOK, UNCHANGED vars PROVE TypeOK'
  BY <1>2 DEF vars, TypeOK
<1> QED  BY <1>1, <1>2, PollerType, ClientType DEF Next

(* Every variable of the service keeps its type: the rows that pollers     *)
(* join, publish and consumers merge are rows, and no channel outgrows     *)
(* its capacity.                                                           *)
THEOREM TypeCorrect == Spec => []TypeOK
BY InitType, StepType, SeqInit, SeqStep, PTL DEF Spec

-----------------------------------------------------------------------------
(* OrderedReplica.  What a consumer lacks is on its way: the last message  *)
(* that mentions a key, among those it has not read and those not yet      *)
(* sent, gives that key the service's row; without such a message its own  *)
(* row is the service's.                                                   *)

Mentions(m, k) ==
    \/ m.type = "snapshot"
    \/ m.type = "delta" /\ k \in DOMAIN m.rows \cup m.removed

Agree(r, s, k) ==
    /\ k \in DOMAIN r <=> k \in DOMAIN s
    /\ k \in DOMAIN r => r[k] = s[k]

Gives(m, rows, k) == Agree(Merge(NoRows, m), rows, k)

Quiet(q, k) == \A i \in DOMAIN q : ~Mentions(q[i], k)

QueueGives(q, rows, k) ==
    \A i \in DOMAIN q :
        /\ Mentions(q[i], k)
        /\ \A j \in DOMAIN q : i < j => ~Mentions(q[j], k)
        => Gives(q[i], rows, k)

(* The broadcasts so far, and those to come in any order of the pollers    *)
(* that could still be the order of seq, went out in that order.           *)
Orderly == ~inverted /\ \A p \in InFlight : \A s \in sent : s < message[p].seq

Silent(k) == \A p \in InFlight : ~Mentions(message[p], k)

LastInFlight(p, k) ==
    /\ p \in InFlight /\ Mentions(message[p], k)
    /\ \A q \in InFlight : Mentions(message[q], k) => message[q].seq <= message[p].seq

FlightInv == \A k \in Keys : \A p \in InFlight : LastInFlight(p, k) => Gives(message[p], markets, k)

ChannelInv ==
    \A c \in Receivers : \A k \in Keys : Silent(k) => QueueGives(unread[c], markets, k)

ReplicaInv ==
    \A c \in Clients : \A k \in Keys :
        task[c] = "loop" /\ ~lagged[c] /\ Silent(k) /\ Quiet(unread[c], k)
            => Agree(replica[c], markets, k)

NothingKept == \A c \in Clients : task[c] = "off" => unread[c] = <<>>

ReplayInv == NothingKept /\ (Orderly => FlightInv /\ ChannelInv /\ ReplicaInv)

(* A message decides the keys it mentions, whatever the consumer held.     *)
LEMMA MergeMentioned ==
  ASSUME NEW rows, NEW m \in Message, NEW s, NEW k, Mentions(m, k), Gives(m, s, k)
  PROVE  Agree(Merge(rows, m), s, k)
<1>1. CASE m.type = "snapshot"
  BY <1>1 DEF Gives, Merge
<1>2. CASE m.type = "delta"
  BY <1>2 DEF Gives, Merge, Agree, Mentions, NoRows
<1> QED  BY <1>1, <1>2 DEF Mentions

(* And leaves the others alone.                                            *)
LEMMA MergeUnmentioned ==
  ASSUME NEW rows, NEW m \in Message, NEW s, NEW k, ~Mentions(m, k), Agree(rows, s, k)
  PROVE  Agree(Merge(rows, m), s, k)
<1>1. CASE m.type = "delta"
  BY <1>1 DEF Merge, Agree, Mentions
<1>2. CASE m.type = "status"
  BY <1>2 DEF Merge
<1> QED  BY <1>1, <1>2 DEF Mentions, Message

(* A status decides nothing.                                               *)
LEMMA StatusQuiet == ASSUME NEW k PROVE ~Mentions(Status, k)
BY DEF Mentions, Status

(* Of a queue that gives a key its row, what is appended must.             *)
LEMMA AppendGives ==
  ASSUME NEW q \in Seq(Message), NEW m \in Message, NEW rows, NEW k,
         Mentions(m, k) => Gives(m, rows, k),
         ~Mentions(m, k) => QueueGives(q, rows, k)
  PROVE  QueueGives(Append(q, m), rows, k)
<1>1. /\ \A i \in DOMAIN q : i \in DOMAIN Append(q, m) /\ Append(q, m)[i] = q[i]
                              /\ i < Len(q) + 1
      /\ \A i \in DOMAIN Append(q, m) : i \in DOMAIN q \/ i = Len(q) + 1
      /\ Len(q) + 1 \in DOMAIN Append(q, m) /\ Append(q, m)[Len(q) + 1] = m
  OBVIOUS
<1> QED  BY <1>1 DEF QueueGives

(* Reading a message leaves the rest; if the rest does not mention a key   *)
(* the message read was the last to.                                       *)
LEMMA TailGives ==
  ASSUME NEW q \in Seq(Message), q # <<>>, NEW rows, NEW k, QueueGives(q, rows, k)
  PROVE  /\ QueueGives(Tail(q), rows, k)
         /\ Quiet(Tail(q), k) => IF Mentions(Head(q), k) THEN Gives(Head(q), rows, k)
                                                         ELSE Quiet(q, k)
<1>1. /\ \A i \in DOMAIN Tail(q) : i + 1 \in DOMAIN q /\ Tail(q)[i] = q[i + 1] /\ i \in Nat
      /\ \A i \in DOMAIN q : i # 1 => i - 1 \in DOMAIN Tail(q) /\ Tail(q)[i - 1] = q[i]
      /\ \A i \in DOMAIN q : i \in Nat /\ i >= 1
      /\ Head(q) = q[1] /\ 1 \in DOMAIN q
  OBVIOUS
<1>2. ASSUME NEW i \in DOMAIN Tail(q), Mentions(Tail(q)[i], k),
             \A j \in DOMAIN Tail(q) : i < j => ~Mentions(Tail(q)[j], k)
      PROVE  Gives(Tail(q)[i], rows, k)
  <2>1. ASSUME NEW j \in DOMAIN q, i + 1 < j PROVE ~Mentions(q[j], k)
    <3>1. j # 1 /\ i < j - 1
      BY <1>1, <2>1
    <3> QED  BY <1>1, <1>2, <3>1
  <2> QED  BY <1>1, <1>2, <2>1 DEF QueueGives
<1>3. ASSUME Quiet(Tail(q), k)
      PROVE  IF Mentions(Head(q), k) THEN Gives(Head(q), rows, k) ELSE Quiet(q, k)
  <2>1. \A j \in DOMAIN q : j # 1 => ~Mentions(q[j], k)
    BY <1>1, <1>3 DEF Quiet
  <2> QED  BY <1>1, <2>1 DEF QueueGives, Quiet
<1> QED  BY <1>2, <1>3 DEF QueueGives

(* The message of a rebuild gives every key it mentions its new row, and   *)
(* mentions every key whose row is new.                                    *)
LEMMA DeltaGives ==
  ASSUME NEW old \in Rows, NEW new \in Rows, NEW n, NEW k,
         NEW m, m = [type |-> "delta", seq |-> n,
                     rows |-> Updated(old, new), removed |-> Removed(old, new)]
  PROVE  /\ Mentions(m, k) => Gives(m, new, k)
         /\ ~Mentions(m, k) => \A r : Agree(r, old, k) => Agree(r, new, k)
<1> DEFINE D == {j \in DOMAIN new : j \notin DOMAIN old \/ old[j] # new[j]}
<1>1. Updated(old, new) = [j \in D |-> new[j]]
  BY DEF Updated, Restrict
<1>2. DOMAIN Updated(old, new) = D /\ Removed(old, new) = DOMAIN old \ DOMAIN new
  BY <1>1 DEF Removed
<1>3. Merge(NoRows, m) = [j \in D |-> new[j]]
  <2>1. (DOMAIN NoRows \cup DOMAIN m.rows) \ m.removed = D
    BY <1>2 DEF NoRows
  <2> QED  BY <1>1, <2>1 DEF Merge
<1>4. Mentions(m, k) <=> k \in D \cup (DOMAIN old \ DOMAIN new)
  BY <1>2 DEF Mentions
<1>5. ASSUME Mentions(m, k) PROVE Gives(m, new, k)
  BY <1>3, <1>4, <1>5 DEF Gives, Agree
<1>6. ASSUME ~Mentions(m, k), NEW r, Agree(r, old, k) PROVE Agree(r, new, k)
  BY <1>4, <1>6 DEF Agree
<1> QED  BY <1>5, <1>6

(* A rebuild is the last to mention what it changes.                       *)
LEMMA RebuildReplay ==
  ASSUME TypeOK, SeqInv, ReplayInv, NEW p \in Pollers, PollerRebuild(p)
  PROVE  ReplayInv'
<1> DEFINE next == Build(source, now)
           m == message'[p]
<1>1. /\ next \in Rows /\ markets \in Rows /\ markets' = next
      /\ seq \in Nat /\ seq' = seq + 1 /\ sent \subseteq 1..seq
      /\ UNCHANGED <<unread, lagged, sent, inverted, task, replica>>
  BY BuildType DEF TypeOK, PollerRebuild, channel, consumer
<1>2. /\ InFlight' = InFlight \cup {p} /\ p \notin InFlight
      /\ \A q \in InFlight : message'[q] = message[q] /\ message[q].seq \in 1..seq
      /\ m.seq = seq + 1
  <2>1. pc[p] # "send" /\ pc'[p] = "send" /\ \A q \in Pollers \ {p} : pc'[q] = pc[q]
    BY DEF PollerRebuild, TypeOK
  <2>2. m.seq = seq + 1 /\ \A q \in Pollers \ {p} : message'[q] = message[q]
    BY <1>1 DEF PollerRebuild, SeqInv, Snapshot
  <2>3. \A q \in InFlight : message[q].seq \in 1..seq
    BY DEF SeqInv, EverySeqPublished
  <2> QED  BY <2>1, <2>2, <2>3 DEF InFlight
<1>3. ASSUME NEW k
      PROVE  /\ Mentions(m, k) => Gives(m, next, k)
             /\ ~Mentions(m, k) => \A r : Agree(r, markets, k) => Agree(r, next, k)
  <2>1. CASE seq' = 1
    <3>1. m = Snapshot(1, next)
      BY <2>1 DEF PollerRebuild, SeqInv
    <3> QED  BY <3>1 DEF Mentions, Gives, Merge, Snapshot, Agree
  <2>2. CASE seq' # 1
    <3>1. m = [type |-> "delta", seq |-> seq', rows |-> Updated(markets, next),
               removed |-> Removed(markets, next)]
      BY <2>2 DEF PollerRebuild, SeqInv
    <3> HIDE DEF m, next
    <3> QED  BY <1>1, <3>1, DeltaGives
  <2> QED  BY <2>1, <2>2
<1> HIDE DEF next
<1>4. ASSUME Orderly' PROVE Orderly
  BY <1>1, <1>2, <1>4 DEF Orderly
<1>5. ASSUME NEW k PROVE Silent(k)' => Silent(k) /\ ~Mentions(m, k)
  BY <1>2 DEF Silent, Mentions
<1>6. ASSUME NEW x, NEW k, ~Mentions(m, k), Gives(x, markets, k) PROVE Gives(x, next, k)
  BY <1>3, <1>6 DEF Gives
<1>7. ASSUME Orderly', NEW k \in Keys, NEW q \in InFlight', LastInFlight(q, k)'
      PROVE  Gives(message'[q], next, k)
  <2>1. CASE q = p
    BY <1>3, <1>7, <2>1 DEF LastInFlight, Mentions
  <2>2. CASE q # p
    <3>1. q \in InFlight /\ message'[q] = message[q]
      BY <1>2, <1>7, <2>2
    <3>2. \A r \in InFlight' : Mentions(message'[r], k) => message'[r].seq <= message'[q].seq
      BY <1>7 DEF LastInFlight, Mentions
    <3>3. ~Mentions(m, k)
      BY <1>1, <1>2, <3>1, <3>2
    <3>4. LastInFlight(q, k)
      BY <1>2, <1>7, <3>1 DEF LastInFlight, Mentions
    <3>5. Gives(message[q], markets, k)
      BY <1>4, <1>7, <3>1, <3>4 DEF ReplayInv, FlightInv
    <3> QED  BY <1>6, <3>1, <3>3, <3>5
  <2> QED  BY <2>1, <2>2
<1>8. ASSUME Orderly' PROVE FlightInv'
  BY <1>1, <1>7, <1>8 DEF FlightInv
<1>9. ASSUME Orderly' PROVE ChannelInv'
  <2> SUFFICES ASSUME NEW c \in Receivers, NEW k \in Keys, Silent(k)'
               PROVE  QueueGives(unread[c], next, k)
    BY <1>1 DEF ChannelInv, Receivers
  <2>1. QueueGives(unread[c], markets, k) /\ ~Mentions(m, k)
    BY <1>4, <1>5, <1>9 DEF ReplayInv, ChannelInv
  <2> QED  BY <1>6, <2>1 DEF QueueGives
<1>10. ASSUME Orderly' PROVE ReplicaInv'
  <2> SUFFICES ASSUME NEW c \in Clients, NEW k \in Keys, task[c] = "loop", ~lagged[c],
                      Silent(k)', Quiet(unread[c], k)
               PROVE  Agree(replica[c], next, k)
    BY <1>1 DEF ReplicaInv, Quiet, Mentions, Agree
  <2> QED  BY <1>3, <1>4, <1>5, <1>10 DEF ReplayInv, ReplicaInv
<1>11. NothingKept'
  BY <1>1 DEF ReplayInv, NothingKept
<1> QED  BY <1>8, <1>9, <1>10, <1>11 DEF ReplayInv

(* A broadcast moves a message from its poller to the queues: a queue that *)
(* loses its oldest message makes its consumer ask for a snapshot.         *)
LEMMA BroadcastReplay ==
  ASSUME TypeOK, NEW m \in Message, Broadcast(m), NEW k,
         Mentions(m, k) => Gives(m, markets, k),
         NEW c \in Clients,
         task[c] = "off" => unread[c] = <<>>,
         c \in Receivers /\ ~Mentions(m, k) => QueueGives(unread[c], markets, k)
  PROVE  /\ c \notin Receivers => unread'[c] = unread[c]
         /\ c \in Receivers => QueueGives(unread'[c], markets, k)
         /\ c \in Receivers /\ ~lagged'[c] =>
               ~lagged[c] /\ (Quiet(unread'[c], k) => ~Mentions(m, k) /\ Quiet(unread[c], k))
<1>1. unread[c] \in Seq(Message) /\ Len(unread[c]) <= Capacity
  BY DEF TypeOK
<1>2. /\ c \notin Receivers => unread'[c] = unread[c]
      /\ c \in Receivers /\ Len(unread[c]) < Capacity => unread'[c] = Append(unread[c], m)
      /\ c \in Receivers /\ ~(Len(unread[c]) < Capacity) =>
            unread'[c] = Append(Tail(unread[c]), m) /\ lagged'[c] /\ Len(unread[c]) = Capacity
      /\ lagged[c] => lagged'[c]
  <2>1. Len(unread[c]) \in Nat /\ Capacity \in Nat
    BY <1>1, MarketsAssumption
  <2>2. unread'[c] = IF c \in Receivers THEN Queued(unread[c], m) ELSE unread[c]
    BY DEF Broadcast
  <2>3. lagged'[c] = (lagged[c] \/ (c \in Receivers /\ Len(unread[c]) = Capacity))
    BY DEF Broadcast
  <2>4. ~(Len(unread[c]) < Capacity) => Len(unread[c]) = Capacity
    BY <1>1, <2>1
  <2> QED  BY <2>2, <2>3, <2>4 DEF Queued, TypeOK
<1>3. ASSUME c \in Receivers PROVE QueueGives(unread'[c], markets, k)
  <2>1. CASE Len(unread[c]) < Capacity
    BY <1>1, <1>2, <1>3, <2>1, AppendGives
  <2>2. CASE ~(Len(unread[c]) < Capacity)
    <3>1. unread[c] # <<>>
      BY <1>1, <2>2, MarketsAssumption
    <3>2. Tail(unread[c]) \in Seq(Message)
      BY <1>1, <3>1
    <3>3. ~Mentions(m, k) => QueueGives(Tail(unread[c]), markets, k)
      BY <1>1, <1>3, <3>1, TailGives
    <3> QED  BY <1>2, <1>3, <2>2, <3>2, <3>3, AppendGives
  <2> QED  BY <2>1, <2>2
<1>4. ASSUME c \in Receivers, ~lagged'[c], Quiet(unread'[c], k)
      PROVE  ~Mentions(m, k) /\ Quiet(unread[c], k)
  <2>1. unread'[c] = Append(unread[c], m)
    BY <1>2, <1>4
  <2>2. /\ \A i \in DOMAIN unread[c] : /\ i \in DOMAIN Append(unread[c], m)
                                       /\ Append(unread[c], m)[i] = unread[c][i]
        /\ Len(unread[c]) + 1 \in DOMAIN Append(unread[c], m)
        /\ Append(unread[c], m)[Len(unread[c]) + 1] = m
    BY <1>1
  <2> QED  BY <1>4, <2>1, <2>2 DEF Quiet
<1> QED  BY <1>2, <1>3, <1>4

(* The message with the smallest number goes first, or the order is lost.  *)
LEMMA SendReplay ==
  ASSUME TypeOK, SeqInv, ReplayInv, NEW p \in Pollers, PollerSend(p)
  PROVE  ReplayInv'
<1> DEFINE m == message[p]
<1>1. /\ Broadcast(m) /\ m \in Message /\ m.type # "status"
      /\ UNCHANGED <<markets, task, replica>>
  BY DEF PollerSend, TypeOK, SeqInv, InFlight, service, consumer
<1>2. /\ InFlight' = InFlight \ {p} /\ p \in InFlight
      /\ \A q \in InFlight' : message'[q] = message[q]
  BY DEF PollerSend, InFlight, TypeOK, SeqInv
<1>3. /\ sent' = sent \cup {m.seq}
      /\ inverted' = (inverted \/ \E s \in sent : m.seq < s)
      /\ m.seq \notin sent /\ m.seq \in Nat /\ sent \subseteq Nat
  BY <1>1, <1>2 DEF Broadcast, Note, SeqInv, EverySeqPublished, Message, TypeOK
<1>4. ASSUME Orderly'
      PROVE  Orderly /\ \A q \in InFlight' : m.seq < message[q].seq
  <2>1. /\ \A s \in sent : s < m.seq
        /\ \A q \in InFlight' : \A s \in sent \cup {m.seq} : s < message[q].seq
        /\ ~inverted
    <3>1. ~inverted' /\ \A q \in InFlight' : \A s \in sent' : s < message'[q].seq
      BY <1>4 DEF Orderly
    <3>2. ~inverted /\ \A s \in sent : ~(m.seq < s)
      BY <1>3, <3>1
    <3>3. \A s \in sent : s < m.seq
      BY <1>3, <3>2
    <3> QED  BY <1>2, <1>3, <3>1, <3>2, <3>3
  <2> QED  BY <1>2, <2>1 DEF Orderly
<1>5. ASSUME NEW k, Silent(k)', ~Mentions(m, k) PROVE Silent(k)
  BY <1>2, <1>5 DEF Silent
<1>6. ASSUME Orderly', NEW k \in Keys, Silent(k)', Mentions(m, k) PROVE Gives(m, markets, k)
  <2>1. \A q \in InFlight : q = p \/ ~Mentions(message[q], k)
    BY <1>2, <1>6 DEF Silent
  <2>2. LastInFlight(p, k)
    BY <1>2, <1>3, <1>6, <2>1 DEF LastInFlight
  <2> QED  BY <1>2, <1>4, <1>6, <2>2 DEF ReplayInv, FlightInv
<1>7. ASSUME Orderly' PROVE FlightInv'
  <2> SUFFICES ASSUME NEW k \in Keys, NEW q \in InFlight', LastInFlight(q, k)'
               PROVE  Gives(message[q], markets, k)
    BY <1>1, <1>2 DEF FlightInv
  <2>1. /\ Mentions(message[q], k)
        /\ \A r \in InFlight' : Mentions(message[r], k) => message[r].seq <= message[q].seq
    BY <1>2 DEF LastInFlight
  <2>2. m.seq <= message[q].seq
    BY <1>2, <1>3, <1>4, <1>7 DEF SeqInv, EverySeqPublished
  <2>3. LastInFlight(q, k)
    BY <1>2, <2>1, <2>2 DEF LastInFlight
  <2> QED  BY <1>2, <1>4, <1>7, <2>3 DEF ReplayInv, FlightInv
<1>8. ASSUME Orderly', NEW c \in Clients, NEW k \in Keys, Silent(k)'
      PROVE  /\ c \in Receivers => QueueGives(unread'[c], markets, k)
             /\ c \in Receivers /\ ~lagged'[c] =>
                   ~lagged[c] /\ (Quiet(unread'[c], k) => ~Mentions(m, k) /\ Quiet(unread[c], k))
  <2>1. c \in Receivers /\ ~Mentions(m, k) => QueueGives(unread[c], markets, k)
    BY <1>4, <1>5, <1>8 DEF ReplayInv, ChannelInv
  <2>2. Mentions(m, k) => Gives(m, markets, k)
    BY <1>6, <1>8
  <2>3. task[c] = "off" => unread[c] = <<>>
    BY DEF ReplayInv, NothingKept
  <2> HIDE DEF m
  <2> QED  BY <1>1, <2>1, <2>2, <2>3, BroadcastReplay
<1>9. ASSUME Orderly' PROVE ChannelInv'
  BY <1>1, <1>8, <1>9 DEF ChannelInv, Receivers
<1>10. ASSUME Orderly' PROVE ReplicaInv'
  <2> SUFFICES ASSUME NEW c \in Clients, NEW k \in Keys, task[c] = "loop", ~lagged'[c],
                      Silent(k)', Quiet(unread'[c], k)
               PROVE  Agree(replica[c], markets, k)
    BY <1>1 DEF ReplicaInv
  <2>1. ~lagged[c] /\ Quiet(unread[c], k) /\ Silent(k)
    BY <1>5, <1>8, <1>10 DEF Receivers
  <2> QED  BY <1>4, <1>10, <2>1 DEF ReplayInv, ReplicaInv
<1>11. NothingKept'
  <2>1. \A c \in Clients : c \notin Receivers => unread'[c] = unread[c]
    BY <1>1 DEF Broadcast
  <2> QED  BY <1>1, <2>1 DEF ReplayInv, NothingKept, Receivers
<1> QED  BY <1>7, <1>9, <1>10, <1>11 DEF ReplayInv

(* A status reaches everybody and changes nothing.                         *)
LEMMA FailsReplay ==
  ASSUME TypeOK, SeqInv, ReplayInv, NEW p \in Pollers, PollerFails(p)
  PROVE  ReplayInv'
<1>1. UNCHANGED <<markets, pc, message, task, replica>> /\ InFlight' = InFlight
  BY DEF PollerFails, service, consumer, InFlight
<1>2. CASE UNCHANGED channel
  <2>1. Orderly' = Orderly /\ UNCHANGED <<unread, lagged>>
    BY <1>1, <1>2 DEF Orderly, channel
  <2> QED  BY <1>1, <2>1 DEF ReplayInv, NothingKept, FlightInv, ChannelInv, ReplicaInv,
                             Receivers, Silent, LastInFlight
<1>3. CASE Broadcast(Status)
  <2>1. UNCHANGED <<sent, inverted>>
    BY <1>3 DEF Broadcast, Note, Status
  <2>2. Orderly' = Orderly
    BY <1>1, <2>1 DEF Orderly
  <2>3. Status \in Message /\ \A k : ~Mentions(Status, k)
    BY NoRowsType, StatusQuiet
  <2>4. ASSUME Orderly, NEW c \in Clients, NEW k \in Keys, Silent(k)
        PROVE  /\ c \in Receivers => QueueGives(unread'[c], markets, k)
               /\ c \in Receivers /\ ~lagged'[c] =>
                     ~lagged[c] /\ (Quiet(unread'[c], k) => Quiet(unread[c], k))
    <3>1. /\ c \in Receivers => QueueGives(unread[c], markets, k)
          /\ task[c] = "off" => unread[c] = <<>>
      BY <2>4 DEF ReplayInv, ChannelInv, NothingKept
    <3> QED  BY <1>3, <2>3, <3>1, BroadcastReplay
  <2>5. FlightInv' = FlightInv /\ \A k : Silent(k)' = Silent(k)
    BY <1>1 DEF FlightInv, LastInFlight, Silent
  <2>6. ASSUME Orderly PROVE ChannelInv'
    BY <1>1, <2>4, <2>5, <2>6 DEF ChannelInv, Receivers
  <2>7. ASSUME Orderly PROVE ReplicaInv'
    <3> SUFFICES ASSUME NEW c \in Clients, NEW k \in Keys, task[c] = "loop", ~lagged'[c],
                        Silent(k), Quiet(unread'[c], k)
                 PROVE  Agree(replica[c], markets, k)
      BY <1>1, <2>5 DEF ReplicaInv
    <3>1. ~lagged[c] /\ Quiet(unread[c], k)
      BY <2>4, <2>7 DEF Receivers
    <3> QED  BY <2>7, <3>1 DEF ReplayInv, ReplicaInv
  <2>8. NothingKept'
    <3>1. \A c \in Clients : c \notin Receivers => unread'[c] = unread[c]
      BY <1>3 DEF Broadcast
    <3> QED  BY <1>1, <3>1 DEF ReplayInv, NothingKept, Receivers
  <2> QED  BY <2>2, <2>5, <2>6, <2>7, <2>8 DEF ReplayInv
<1> QED  BY <1>2, <1>3 DEF PollerFails

(* A consumer's own steps: a snapshot is the service's rows, and a message *)
(* read decides what nothing behind it mentions.                           *)
LEMMA ClientReplay ==
  ASSUME TypeOK, ReplayInv, NEW d \in Clients, Client(d)
  PROVE  ReplayInv'
<1>1. /\ UNCHANGED <<markets, pc, message, sent, inverted>> /\ InFlight' = InFlight
      /\ \A c \in Clients \ {d} : /\ unread'[c] = unread[c] /\ lagged'[c] = lagged[c]
                                  /\ task'[c] = task[c] /\ replica'[c] = replica[c]
  BY DEF Client, ClientSubscribe, ClientSnapshot, ClientReceive, ClientLagged, ClientLeave,
         service, channel, InFlight, TypeOK
<1>2. /\ Orderly' = Orderly /\ FlightInv' = FlightInv /\ \A k : Silent(k)' = Silent(k)
  BY <1>1 DEF Orderly, FlightInv, LastInFlight, Silent
<1>3. unread[d] \in Seq(Message) /\ (task[d] = "off" => unread[d] = <<>>)
  BY DEF TypeOK, ReplayInv, NothingKept
<1>4. ASSUME Orderly, NEW k \in Keys, Silent(k)
      PROVE  /\ task[d] # "off" => QueueGives(unread[d], markets, k)
             /\ task[d] = "loop" /\ ~lagged[d] /\ Quiet(unread[d], k)
                   => Agree(replica[d], markets, k)
  BY <1>4 DEF ReplayInv, ChannelInv, ReplicaInv, Receivers
<1>5. /\ task'[d] = "off" => unread'[d] = <<>>
      /\ Orderly => \A k \in Keys : Silent(k) =>
            /\ task'[d] # "off" => QueueGives(unread'[d], markets, k)
            /\ task'[d] = "loop" /\ ~lagged'[d] /\ Quiet(unread'[d], k)
                  => Agree(replica'[d], markets, k)
  <2>1. CASE ClientSubscribe(d)
    <3>1. task'[d] = "snapshot" /\ unread'[d] = <<>>
      BY <1>3, <2>1 DEF ClientSubscribe, channel, TypeOK
    <3> QED  BY <3>1 DEF QueueGives
  <2>2. CASE ClientSnapshot(d)
    <3>1. /\ task[d] = "snapshot" /\ task'[d] = "loop" /\ unread'[d] = unread[d]
          /\ replica'[d] = markets
      BY <2>2 DEF ClientSnapshot, channel, TypeOK, Merge, Snapshot
    <3> QED  BY <1>4, <3>1 DEF Agree
  <2>3. CASE ClientReceive(d)
    <3>1. /\ task[d] = "loop" /\ ~lagged[d] /\ unread[d] # <<>> /\ unread'[d] = Tail(unread[d])
          /\ task'[d] = task[d] /\ lagged'[d] = lagged[d]
          /\ replica'[d] = Merge(replica[d], Head(unread[d]))
      BY <2>3 DEF ClientReceive, TypeOK
    <3>2. Head(unread[d]) \in Message
      BY <1>3, <3>1
    <3>3. ASSUME Orderly, NEW k \in Keys, Silent(k)
          PROVE  /\ QueueGives(Tail(unread[d]), markets, k)
                 /\ Quiet(Tail(unread[d]), k) => Agree(replica'[d], markets, k)
      <4>1. /\ QueueGives(Tail(unread[d]), markets, k)
            /\ Quiet(Tail(unread[d]), k) => IF Mentions(Head(unread[d]), k)
                                            THEN Gives(Head(unread[d]), markets, k)
                                            ELSE Quiet(unread[d], k)
        BY <1>3, <1>4, <3>1, <3>3, TailGives
      <4>2. ASSUME Quiet(Tail(unread[d]), k) PROVE Agree(replica'[d], markets, k)
        <5>1. CASE Mentions(Head(unread[d]), k)
          BY <3>1, <3>2, <4>1, <4>2, <5>1, MergeMentioned
        <5>2. CASE ~Mentions(Head(unread[d]), k)
          <6>1. Agree(replica[d], markets, k)
            BY <1>4, <3>1, <3>3, <4>1, <4>2, <5>2
          <6> QED  BY <3>1, <3>2, <5>2, <6>1, MergeUnmentioned
        <5> QED  BY <5>1, <5>2
      <4> QED  BY <4>1, <4>2
    <3> QED  BY <3>1, <3>3
  <2>4. CASE ClientLagged(d)
    <3>1. task[d] = "loop" /\ task'[d] = "snapshot" /\ unread'[d] = unread[d]
      BY <2>4 DEF ClientLagged, TypeOK
    <3> QED  BY <1>4, <3>1
  <2>5. CASE ClientLeave(d)
    <3>1. task'[d] = "off" /\ unread'[d] = <<>>
      BY <2>5 DEF ClientLeave, TypeOK
    <3> QED  BY <3>1
  <2> QED  BY <2>1, <2>2, <2>3, <2>4, <2>5 DEF Client
<1>6. NothingKept'
  BY <1>1, <1>5 DEF ReplayInv, NothingKept
<1>7. ASSUME Orderly PROVE ChannelInv'
  <2> SUFFICES ASSUME NEW c \in Clients, task'[c] # "off", NEW k \in Keys, Silent(k)
               PROVE  QueueGives(unread'[c], markets, k)
    BY <1>1, <1>2 DEF ChannelInv, Receivers
  <2>1. CASE c = d
    BY <1>5, <1>7, <2>1
  <2>2. CASE c # d
    BY <1>1, <1>7, <2>2 DEF ReplayInv, ChannelInv, Receivers
  <2> QED  BY <2>1, <2>2
<1>8. ASSUME Orderly PROVE ReplicaInv'
  <2> SUFFICES ASSUME NEW c \in Clients, NEW k \in Keys, task'[c] = "loop", ~lagged'[c],
                      Silent(k), Quiet(unread'[c], k)
               PROVE  Agree(replica'[c], markets, k)
    BY <1>1, <1>2 DEF ReplicaInv
  <2>1. CASE c = d
    BY <1>5, <1>8, <2>1
  <2>2. CASE c # d
    BY <1>1, <1>8, <2>2 DEF ReplayInv, ReplicaInv
  <2> QED  BY <2>1, <2>2
<1> QED  BY <1>2, <1>6, <1>7, <1>8 DEF ReplayInv

(* Every step keeps the replay of queue and pollers equal to the rows.     *)
LEMMA ReplayStep == TypeOK /\ SeqInv /\ ReplayInv /\ [Next]_vars => ReplayInv'
<1>1. ASSUME ReplayInv, UNCHANGED <<markets, message, channel, consumer>>, InFlight' = InFlight
      PROVE  ReplayInv'
  BY <1>1 DEF ReplayInv, NothingKept, Orderly, FlightInv, ChannelInv, ReplicaInv, Receivers,
              Silent, LastInFlight, channel, consumer
<1>2. ASSUME TypeOK, NEW p \in Pollers, PollerStore(p) \/ PollerUnchanged(p)
      PROVE  UNCHANGED <<markets, message, channel, consumer>> /\ InFlight' = InFlight
  BY <1>2 DEF PollerStore, PollerUnchanged, service, InFlight, TypeOK
<1>3. ASSUME Tick \/ UNCHANGED vars
      PROVE  UNCHANGED <<markets, message, channel, consumer>> /\ InFlight' = InFlight
  BY <1>3 DEF Tick, service, InFlight, vars, channel, consumer
<1> QED  BY <1>1, <1>2, <1>3, RebuildReplay, SendReplay, FailsReplay, ClientReplay
         DEF Next, Poller

(* At the start there is nothing to replay.                                *)
LEMMA ReplayInit == Init => ReplayInv
<1>1. ASSUME Init PROVE InFlight = {} /\ Receivers = {} /\ \A c \in Clients : task[c] = "off"
  BY <1>1 DEF Init, InFlight, Receivers
<1> QED  BY <1>1 DEF Init, ReplayInv, NothingKept, FlightInv, ChannelInv, ReplicaInv

(* A consumer that has read everything holds the service's rows, through   *)
(* overlapping pollers, lag, fresh snapshots and deltas applied over newer *)
(* rows, as long as broadcasts went out in the order of seq.               *)
THEOREM OrderedReplicas == Spec => []OrderedReplica
<1>1. ASSUME TypeOK, ReplayInv PROVE OrderedReplica
  <2> SUFFICES ASSUME ~inverted, NEW c \in Clients, Drained(c) PROVE replica[c] = markets
    BY DEF OrderedReplica
  <2>1. Orderly /\ \A k : Silent(k)
    BY DEF Drained, Orderly, Silent
  <2>2. \A k \in Keys : Agree(replica[c], markets, k)
    BY <1>1, <2>1 DEF ReplayInv, ReplicaInv, Drained, Quiet
  <2>3. replica[c] \in Rows /\ markets \in Rows
    BY <1>1 DEF TypeOK
  <2>4. /\ DOMAIN replica[c] \subseteq Keys /\ DOMAIN markets \subseteq Keys
        /\ replica[c] = [k \in DOMAIN replica[c] |-> replica[c][k]]
        /\ markets = [k \in DOMAIN markets |-> markets[k]]
    BY <2>3, RowsType
  <2>5. /\ DOMAIN replica[c] = DOMAIN markets
        /\ \A k \in DOMAIN markets : replica[c][k] = markets[k]
    BY <2>2, <2>4 DEF Agree
  <2> QED  BY <2>4, <2>5
<1> QED  BY <1>1, TypeCorrect, SeqInit, SeqStep, ReplayInit, ReplayStep, PTL DEF Spec
=============================================================================
