--------------------------- MODULE MarketsService ---------------------------
(***************************************************************************)
(* The markets gateway: gateway/markets/src/service.rs and the websocket   *)
(* tasks of main.rs.                                                       *)
(*                                                                         *)
(* Three pollers fetch symbols, tickers and contracts from Nado, each      *)
(* replacing its own map and then rebuilding the joined rows; a change of  *)
(* the rows is published to a tokio broadcast channel.  The state lock is  *)
(* taken twice by a refresh, and released before the broadcast.            *)
(*                                                                         *)
(* A row is keyed by its symbol, or by its ticker id while its product is  *)
(* in tickers or contracts and not yet in symbols.                         *)
(***************************************************************************)
EXTENDS Integers, Sequences, FiniteSets, Functions

CONSTANTS Products,   \* product ids
          Values,     \* contents of a ticker or of a contract
          NoValue,    \* Option::None
          Clients,    \* websocket consumers
          StaleAfter, \* MARKETS_STALE_AFTER_MS
          Capacity,   \* of the broadcast channel (2048 in the code)
          MaxNow,     \* bound of the clock
          MaxSeq      \* bound of seq

ASSUME MarketsAssumption ==
    /\ NoValue \notin Values /\ Values # {}
    /\ StaleAfter \in Nat /\ Capacity \in Nat \ {0} /\ MaxNow \in Nat /\ MaxSeq \in Nat

Pollers == {"symbols", "tickers", "contracts"}
Keys    == {"symbol", "ticker"} \X Products

VARIABLES
    now,        \* the wall clock, in units of a refresh
    phase,      \* bootstrap's progress, then "serve"
    source,     \* source[p]: the map poller p maintains: product -> content and time
    markets,    \* the joined rows
    seq,        \* ServiceState.seq
    pc,         \* pc[p]: where poller p is in its refresh
    message,    \* message[p]: what poller p is about to broadcast
    unread,     \* unread[c]: what the channel holds for consumer c
    lagged,     \* lagged[c]: the channel dropped something c had not read
    task,       \* task[c]: where the websocket task of c is
    replica,    \* replica[c]: the rows the consumer holds
    sent,       \* history: the seqs broadcast
    inverted    \* history: a lower seq was broadcast after a higher one

service  == <<source, markets, seq>>
channel  == <<unread, lagged, sent, inverted>>
consumer == <<task, replica>>
vars == <<now, phase, source, markets, seq, pc, message, unread, lagged,
          task, replica, sent, inverted>>

-----------------------------------------------------------------------------
(* Rows.                                                                   *)

Entry == [content : Values, at : 0..MaxNow]
Row == [price : Values \cup {NoValue}, funding : Values \cup {NoValue},
        updated_at : 0..MaxNow, stale : BOOLEAN]
Rows == UNION {[D -> Row] : D \in SUBSET Keys}

NoRows == [k \in {} |-> NoValue]

(* The key of product p's row, given the symbols map.                      *)
Key(src, p) == IF p \in DOMAIN src["symbols"] THEN <<"symbol", p>> ELSE <<"ticker", p>>

Listed(src) == UNION {DOMAIN src[s] : s \in Pollers}

Content(src, s, p) == IF p \in DOMAIN src[s] THEN src[s][p].content ELSE NoValue

LastUpdate(src, p) ==
    LET times == {src[s][p].at : s \in {t \in Pollers : p \in DOMAIN src[t]}}
    IN  CHOOSE t \in times : \A u \in times : u <= t

(* build_market_rows at time t.                                            *)
Build(src, t) ==
    [k \in {Key(src, p) : p \in Listed(src)} |->
        [price |-> Content(src, "tickers", k[2]),
         funding |-> Content(src, "contracts", k[2]),
         updated_at |-> LastUpdate(src, k[2]),
         stale |-> t - LastUpdate(src, k[2]) > StaleAfter]]

(* Slip: rows that only changed are not sent.                              *)
SlipUpdatedNewKeys(old, new) == Restrict(new, DOMAIN new \ DOMAIN old)

(* diff_market_rows: the rows to send, and the keys that are gone.         *)
Updated(old, new) ==
    Restrict(new, {k \in DOMAIN new : k \notin DOMAIN old \/ old[k] # new[k]})
Removed(old, new) == DOMAIN old \ DOMAIN new
Differ(old, new) == Updated(old, new) # NoRows \/ Removed(old, new) # {}

(* What a consumer of the stream does with a message: a snapshot replaces  *)
(* its rows, a delta overwrites and deletes rows, a status changes none.   *)
Merge(rows, m) ==
    CASE m.type = "snapshot" -> m.rows
      [] m.type = "delta" ->
            [k \in (DOMAIN rows \cup DOMAIN m.rows) \ m.removed |->
                IF k \in DOMAIN m.rows THEN m.rows[k] ELSE rows[k]]
      [] m.type = "status" -> rows

Snapshot(s, rows) == [type |-> "snapshot", seq |-> s, rows |-> rows, removed |-> {}]
Status == [type |-> "status", seq |-> 0, rows |-> NoRows, removed |-> {}]

-----------------------------------------------------------------------------
Init ==
    /\ now = 0
    /\ phase = "symbols"
    /\ source = [p \in Pollers |-> NoRows]
    /\ markets = NoRows
    /\ seq = 0
    /\ pc = [p \in Pollers |-> "idle"]
    /\ message = [p \in Pollers |-> Status]
    /\ unread = [c \in Clients |-> <<>>]
    /\ lagged = [c \in Clients |-> FALSE]
    /\ task = [c \in Clients |-> "off"]
    /\ replica = [c \in Clients |-> NoRows]
    /\ sent = {} /\ inverted = FALSE

Tick ==
    /\ now < MaxNow
    /\ now' = now + 1
    /\ UNCHANGED <<phase, service, pc, message, channel, consumer>>

(* Slip: the client's task subscribes after it has read its snapshot.      *)
SlipReceiversAfterSnapshot == {c \in Clients : task[c] = "loop"}

Receivers == {c \in Clients : task[c] # "off"}

(* History: the numbers broadcast, and whether in their order.             *)
Note(m) ==
    IF m.type = "status"
    THEN UNCHANGED <<sent, inverted>>
    ELSE /\ sent' = sent \cup {m.seq}
         /\ inverted' = (inverted \/ \E s \in sent : m.seq < s)

(* Slip: an unbounded channel.                                             *)
SlipBroadcastUnbounded(m) ==
    /\ unread' = [c \in Clients |->
          IF c \in Receivers THEN Append(unread[c], m) ELSE unread[c]]
    /\ lagged' = lagged
    /\ Note(m)

(* The channel keeps its last Capacity messages.                           *)
Queued(q, m) == IF Len(q) < Capacity THEN Append(q, m) ELSE Append(Tail(q), m)

(* broadcast::Sender::send.  A receiver that is Capacity messages behind   *)
(* loses the oldest and will be told.  Nobody receives what was sent       *)
(* before it subscribed.                                                   *)
Broadcast(m) ==
    /\ unread' = [c \in Clients |->
          IF c \in Receivers THEN Queued(unread[c], m) ELSE unread[c]]
    /\ lagged' = [c \in Clients |->
          lagged[c] \/ (c \in Receivers /\ Len(unread[c]) = Capacity)]
    /\ Note(m)

(* bootstrap refreshes symbols, tickers and contracts in this order and    *)
(* only then are the pollers spawned and the port opened.                  *)
NextPhase(p) ==
    IF phase = "serve" \/ p = "contracts" THEN "serve"
    ELSE IF p = "symbols" THEN "tickers" ELSE "contracts"

(* An empty answer is an error for symbols and tickers, not for contracts. *)
Payloads(p) ==
    {f \in UNION {[D -> [content : Values, at : {now}]] : D \in SUBSET Products} :
        p = "contracts" \/ DOMAIN f # {}}

(* The query succeeds and its payload is stored: the first critical        *)
(* section of the refresh.                                                 *)
PollerStore(p) ==
    /\ phase \in {p, "serve"}
    /\ pc[p] = "idle"
    /\ seq < MaxSeq
    /\ \E f \in Payloads(p) : source' = [source EXCEPT ![p] = f]
    /\ pc' = [pc EXCEPT ![p] = "rebuild"]
    /\ UNCHANGED <<now, phase, markets, seq, message, channel, consumer>>

(* A failed query is reported to every consumer; at bootstrap, a failed    *)
(* symbols query ends the process.                                         *)
PollerFails(p) ==
    /\ phase \in {p, "serve"}
    /\ pc[p] = "idle"
    /\ IF phase = "symbols"
       THEN phase' = "down" /\ UNCHANGED channel
       ELSE phase' = NextPhase(p) /\ Broadcast(Status)
    /\ UNCHANGED <<now, service, pc, message, consumer>>

(* rebuild_and_publish up to the end of its critical section.              *)
PollerRebuild(p) ==
    LET next == Build(source, now)
    IN  /\ pc[p] = "rebuild"
        /\ Differ(markets, next)
        /\ seq' = seq + 1
        /\ markets' = next
        /\ message' = [message EXCEPT ![p] =
              IF seq' = 1 THEN Snapshot(1, next)
              ELSE [type |-> "delta", seq |-> seq',
                    rows |-> Updated(markets, next), removed |-> Removed(markets, next)]]
        /\ pc' = [pc EXCEPT ![p] = "send"]
        /\ UNCHANGED <<now, phase, source, channel, consumer>>

(* Nothing differs: nothing is published.                                  *)
PollerUnchanged(p) ==
    /\ pc[p] = "rebuild"
    /\ ~Differ(markets, Build(source, now))
    /\ pc' = [pc EXCEPT ![p] = "idle"]
    /\ phase' = NextPhase(p)
    /\ UNCHANGED <<now, service, message, channel, consumer>>

(* Slip: the message takes the number in force when it is sent.            *)
SlipSendCurrentSeq(p) ==
    /\ pc[p] = "send"
    /\ Broadcast([message[p] EXCEPT !.seq = seq])
    /\ message' = [message EXCEPT ![p] = Status]
    /\ pc' = [pc EXCEPT ![p] = "idle"]
    /\ phase' = NextPhase(p)
    /\ UNCHANGED <<now, service, consumer>>

PollerSend(p) ==
    /\ pc[p] = "send"
    /\ Broadcast(message[p])
    /\ message' = [message EXCEPT ![p] = Status]
    /\ pc' = [pc EXCEPT ![p] = "idle"]
    /\ phase' = NextPhase(p)
    /\ UNCHANGED <<now, service, consumer>>

Poller(p) ==
    \/ PollerFails(p) \/ PollerStore(p)
    \/ PollerRebuild(p) \/ PollerUnchanged(p) \/ PollerSend(p)

-----------------------------------------------------------------------------
(* handle_ws_client.                                                       *)

ClientSubscribe(c) ==
    /\ phase = "serve" /\ task[c] = "off"
    /\ task' = [task EXCEPT ![c] = "snapshot"]
    /\ UNCHANGED <<now, phase, service, pc, message, channel, replica>>

(* The first message, and the one that follows a "lagged" status.          *)
ClientSnapshot(c) ==
    /\ task[c] = "snapshot"
    /\ replica' = [replica EXCEPT ![c] = Merge(@, Snapshot(seq, markets))]
    /\ task' = [task EXCEPT ![c] = "loop"]
    /\ UNCHANGED <<now, phase, service, pc, message, channel>>

ClientReceive(c) ==
    /\ task[c] = "loop" /\ ~lagged[c] /\ unread[c] # <<>>
    /\ replica' = [replica EXCEPT ![c] = Merge(@, Head(unread[c]))]
    /\ unread' = [unread EXCEPT ![c] = Tail(@)]
    /\ UNCHANGED <<now, phase, service, pc, message, lagged, sent, inverted, task>>

(* RecvError::Lagged, told once; the next message is the oldest one kept.  *)
ClientLagged(c) ==
    /\ task[c] = "loop" /\ lagged[c]
    /\ lagged' = [lagged EXCEPT ![c] = FALSE]
    /\ task' = [task EXCEPT ![c] = "snapshot"]
    /\ UNCHANGED <<now, phase, service, pc, message, unread, sent, inverted, replica>>

ClientLeave(c) ==
    /\ task[c] \in {"snapshot", "loop"}
    /\ task' = [task EXCEPT ![c] = "off"]
    /\ unread' = [unread EXCEPT ![c] = <<>>]
    /\ lagged' = [lagged EXCEPT ![c] = FALSE]
    /\ replica' = [replica EXCEPT ![c] = NoRows]
    /\ UNCHANGED <<now, phase, service, pc, message, sent, inverted>>

Client(c) ==
    \/ ClientSubscribe(c) \/ ClientSnapshot(c) \/ ClientReceive(c)
    \/ ClientLagged(c) \/ ClientLeave(c)

Next ==
    \/ Tick
    \/ \E p \in Pollers : Poller(p)
    \/ \E c \in Clients : Client(c)

Spec == Init /\ [][Next]_vars

-----------------------------------------------------------------------------
(* Types of the variables of the service.                                  *)
Sources == UNION {[D -> Entry] : D \in SUBSET Products}
Message == [type : {"snapshot", "delta", "status"}, seq : Nat, rows : Rows, removed : SUBSET Keys]

TypeOK ==
    /\ now \in 0..MaxNow
    /\ phase \in Pollers \cup {"serve", "down"}
    /\ source \in [Pollers -> Sources]
    /\ markets \in Rows
    /\ seq \in Nat /\ sent \subseteq 1..seq
    /\ pc \in [Pollers -> {"idle", "rebuild", "send"}]
    /\ \A p \in Pollers : message[p] \in Message
    /\ DOMAIN unread = Clients
    /\ \A c \in Clients : unread[c] \in Seq(Message) /\ Len(unread[c]) <= Capacity
    /\ lagged \in [Clients -> BOOLEAN]
    /\ task \in [Clients -> {"off", "snapshot", "loop"}]
    /\ replica \in [Clients -> Rows]
    /\ inverted \in BOOLEAN

(* The rows are those of the three maps whenever no refresh is between its *)
(* store and its rebuild: pollers that overlap lose no payload, although   *)
(* each takes the lock twice (refresh_..., rebuild_and_publish).           *)
Joined(rows) == [k \in DOMAIN rows |-> <<rows[k].price, rows[k].funding, rows[k].updated_at>>]

RowsCurrent ==
    (\A p \in Pollers : pc[p] # "rebuild") => Joined(markets) = Joined(Build(source, now))

(* Every change of the rows is broadcast once, or about to be: a number is *)
(* either sent or held by exactly one poller at "send".                    *)
InFlight == {p \in Pollers : pc[p] = "send"}

EverySeqPublished ==
    /\ 1..seq = sent \cup {message[p].seq : p \in InFlight}
    /\ \A p \in InFlight :
          /\ message[p].seq \notin sent
          /\ \A q \in InFlight : message[p].seq = message[q].seq => p = q

(* A consumer that applies what it is sent, and has read it all, holds the *)
(* service's rows, through lag and resubscription, as long as broadcasts   *)
(* went out in the order of seq.                                           *)
Drained(c) ==
    /\ task[c] = "loop" /\ unread[c] = <<>> /\ ~lagged[c]
    /\ InFlight = {}

OrderedReplica == ~inverted => \A c \in Clients : Drained(c) => replica[c] = markets

(* The same without the condition, which is what "snapshot, then constant  *)
(* deltas" in docs/MARKETS_GATEWAY.md promises.  It does not hold: the     *)
(* broadcast is outside the lock that orders seq (service.rs:326-369).     *)
Replica == \A c \in Clients : Drained(c) => replica[c] = markets
=============================================================================
