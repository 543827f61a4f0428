-------------------------- MODULE ExecutionGateway --------------------------
(***************************************************************************)
(* The way of a signed request from a page to the Nado engine: the edge    *)
(* gateway's requireAuth and proxy with its timeout (execution_proxy.go),  *)
(* the execution gateway's validation, which waits for the engine between  *)
(* its checks, and the forwarding (execution/src/main.rs); composed with   *)
(* SessionAuth, whose cookie says whose requests they are.                 *)
(*                                                                         *)
(* A payload is [kind, parts]; a part is what one signature covers:        *)
(* [sender, signer, is_order, appendix], the appendix being any 128 bits,  *)
(* whoever packed them: pages use a library of their own and the gateway   *)
(* only reads.  cancel_orders stands for every transaction that is not an  *)
(* order: they all go through validate_endpoint_execute or the same lines. *)
(***************************************************************************)
EXTENDS SessionAuth, OrderAppendix, Sequences

CONSTANTS Requests,
          Senders,    \* subaccounts, each <<owner, name>>
          Keys,       \* session keys that an account may link
          Payloads,   \* the payloads that pages post
          FirstLinks, \* the linked signer of each sender to begin with
          MaxLinks    \* bound: changes of linked signers

ASSUME LinksAssumption ==
    /\ FirstLinks \in [Senders -> Keys \cup {None}] /\ MaxLinks \in Nat
    /\ {None, "unread"} \cap Keys = {}
ASSUME SendersAssumption == \A s \in Senders : s[1] \in Accounts
owner_from_subaccount(s) == s[1]

EngineKinds  == {"place_order", "cancel_orders", "cancel_and_place"}
TriggerKinds == {"trigger place_order", "trigger place_orders", "trigger cancel_orders"}

(* Only a batch may be empty.                                              *)
ASSUME PayloadsAssumption ==
    \A p \in Payloads :
        /\ p.parts \in Seq({p.parts[k] : k \in DOMAIN p.parts})
        /\ p.parts = <<>> => p.kind = "trigger place_orders"
        /\ \A k \in DOMAIN p.parts :
              /\ p.parts[k].sender \in Senders /\ p.parts[k].is_order \in BOOLEAN
              /\ p.parts[k].appendix \subseteq 0..127

NoLoad == [kind |-> "none", parts |-> <<>>]

VARIABLES
    stage,   \* stage[r]: where the execution gateway is with it
    ask,     \* ask[r]: what the handler holds while it lives, a record of
             \*   load, session (X-Thornado-Session-Address), part (the one being
             \*   checked), known (linked_signers, "unread" where it has none) and
             \*   seen (history: <<sender, key>> linked since the request came)
    engine,  \* engine[r]: what the engine knows of it
    sent,    \* sent[r]: the ask that was forwarded
    told,    \* told[r]: the status the page was given
    linked,  \* the engine's linked signer of each sender, or None
    links    \* changes of linked so far

requestVars == <<stage, ask, engine, sent, told, linked, links>>
vars == <<authVars, requestVars>>

Unread == [s \in Senders |-> "unread"]
NoAsk == [load |-> NoLoad, session |-> None, part |-> 1, known |-> Unread, seen |-> {}]

Init ==
    /\ AuthInit
    /\ stage = [r \in Requests |-> "off"]
    /\ ask = [r \in Requests |-> NoAsk] /\ sent = [r \in Requests |-> NoAsk]
    /\ engine = [r \in Requests |-> "none"]
    /\ told = [r \in Requests |-> "nothing"]
    /\ linked = FirstLinks /\ links = 0

LinkedNow == {<<s, linked[s]>> : s \in {s \in Senders : linked[s] # None}}

(* The answer to r, unless the edge has given up waiting for it.           *)
Tell(r, status) == told' = [told EXCEPT ![r] = IF @ = "nothing" THEN status ELSE @]

(* The handler ends, and what it holds with it.                            *)
EndAs(r, how) ==
    /\ stage' = [stage EXCEPT ![r] = how]
    /\ ask' = [ask EXCEPT ![r] = NoAsk]

Answer(r, status) == EndAs(r, "answered") /\ Tell(r, status)

InHand(r) == stage[r] \in {"contracts", "checking", "forwarded"}

-----------------------------------------------------------------------------
(* The edge: requireAuth, then the proxied request with the address of the *)
(* session.                                                                *)
Post(r, p) ==
    /\ stage[r] = "off"
    /\ \/ SessionAddress = None /\ Answer(r, "401")
       \/ /\ SessionAddress # None
          /\ stage' = [stage EXCEPT ![r] = "contracts"]
          /\ ask' = [ask EXCEPT ![r] = [NoAsk EXCEPT !.load = p, !.session = SessionAddress,
                                                     !.seen = LinkedNow]]
          /\ UNCHANGED told
    /\ UNCHANGED <<authVars, engine, sent, linked, links>>

(* Slip: a timeout has a status of its own, which pages do not know.       *)
SlipTimeoutStatus(r) ==
    /\ InHand(r) /\ told[r] = "nothing"
    /\ Tell(r, "504")
    /\ UNCHANGED <<authVars, stage, ask, engine, sent, linked, links>>

(* http.Client.Timeout: the page is told 502.  The execution gateway's own *)
(* clients have no timeout, so this may be the only answer there is.       *)
EdgeTimeout(r) ==
    /\ InHand(r) /\ told[r] = "nothing"
    /\ Tell(r, "502")
    /\ UNCHANGED <<authVars, stage, ask, engine, sent, linked, links>>

(* The server notices that the edge has hung up and drops the handler.     *)
HandlerDropped(r) ==
    /\ InHand(r) /\ told[r] # "nothing"
    /\ EndAs(r, "dropped")
    /\ UNCHANGED <<authVars, engine, sent, told, linked, links>>

-----------------------------------------------------------------------------
(* The execution gateway.                                                  *)

(* Slip: the order type read where the trigger is.                         *)
SlipOrderTypeSupported(appendix) == trigger_type_bits(appendix) # {1}

OrderTypeSupported(appendix) == order_type_bits(appendix) # {1}

ensure_supported_regular_order(appendix) ==
    OrderTypeSupported(appendix) /\ trigger_type_bits(appendix) = {}
ensure_supported_trigger_order(appendix) ==
    OrderTypeSupported(appendix) /\ trigger_type_bits(appendix) = {0}

Supported(kind, x) ==
    x.is_order => IF kind \in EngineKinds THEN ensure_supported_regular_order(x.appendix)
                  ELSE ensure_supported_trigger_order(x.appendix)

(* What is refused before the first wait for a linked signer: an empty     *)
(* batch, and a cancel_and_place of two senders or of an unsupported order.*)
RefusedAtOnce(p) ==
    IF p.kind = "trigger place_orders" /\ p.parts = <<>> THEN "400"
    ELSE IF p.kind # "cancel_and_place" THEN "no"
    ELSE IF p.parts[1].sender # p.parts[2].sender THEN "403"
    ELSE IF Supported(p.kind, p.parts[2]) THEN "no" ELSE "400"

(* fetch_contracts, for the domain of the signatures                       *)
Contracts(r) ==
    /\ stage[r] = "contracts"
    /\ LET refusal == RefusedAtOnce(ask[r].load) IN
       \/ Answer(r, "502")
       \/ refusal # "no" /\ Answer(r, refusal)
       \/ refusal = "no" /\ stage' = [stage EXCEPT ![r] = "checking"] /\ UNCHANGED <<ask, told>>
    /\ UNCHANGED <<authVars, engine, sent, linked, links>>

(* Slip: every part is compared with the first.                            *)
SlipPartInHand(r) == ask[r].load.parts[1]

PartInHand(r) == ask[r].load.parts[ask[r].part]

(* Slip: the linked signers are kept by owner.                             *)
SlipKnownSigner(r, s) ==
    LET ofOwner == {q \in Senders : q[1] = s[1] /\ ask[r].known[q] # "unread"}
    IN  IF ofOwner = {} THEN linked[s] ELSE ask[r].known[CHOOSE q \in ofOwner : TRUE]

(* linked_signer_for_sender: asked of the engine once per sender           *)
KnownSigner(r, s) == IF ask[r].known[s] = "unread" THEN linked[s] ELSE ask[r].known[s]

BadOwner(r) == owner_from_subaccount(PartInHand(r).sender) # ask[r].session

(* What is refused before the engine is asked for this part's signer; a    *)
(* signature that recovers to nobody is 400 or 401.                        *)
RefusedPart(r) ==
    LET x == PartInHand(r) IN
    IF ~Supported(ask[r].load.kind, x) \/ x.signer = None THEN "400"
    ELSE IF BadOwner(r) THEN "403" ELSE "no"

(* One part: the checks before the wait, the wait, and the comparison of   *)
(* the recovered signer; after the last part the payload is forwarded.     *)
CheckPart(r) ==
    /\ stage[r] = "checking"
    /\ LET x       == PartInHand(r)
           refusal == RefusedPart(r)
           signer  == KnownSigner(r, x.sender)
           signed  == x.signer = owner_from_subaccount(x.sender)
                      \/ (signer # None /\ x.signer = signer)
           last    == ask[r].part = Len(ask[r].load.parts)
       IN  \/ /\ refusal # "no"
              /\ Answer(r, refusal)
              /\ UNCHANGED <<engine, sent>>
           \/ /\ refusal = "no" /\ ask[r].known[x.sender] = "unread"
              /\ Answer(r, "502")
              /\ UNCHANGED <<engine, sent>>
           \/ /\ refusal = "no" /\ ~signed
              /\ Answer(r, "403")
              /\ UNCHANGED <<engine, sent>>
           \/ /\ refusal = "no" /\ signed /\ ~last
              /\ ask' = [ask EXCEPT ![r].known[x.sender] = signer, ![r].part = @ + 1]
              /\ UNCHANGED <<stage, engine, sent, told>>
           \/ /\ refusal = "no" /\ signed /\ last
              /\ stage' = [stage EXCEPT ![r] = "forwarded"]
              /\ engine' = [engine EXCEPT ![r] = "sent"]
              /\ sent' = [sent EXCEPT ![r] = ask[r]]
              /\ UNCHANGED <<ask, told>>
    /\ UNCHANGED <<authVars, linked, links>>

(* Slip: a forwarding that fails is reported as a bad request.             *)
SlipForwardFails(r) ==
    /\ stage[r] = "forwarded"
    /\ Answer(r, "400")
    /\ UNCHANGED <<authVars, engine, sent, linked, links>>

(* The engine cannot be reached, or its answer is lost or unreadable.      *)
ForwardFails(r) ==
    /\ stage[r] = "forwarded"
    /\ Answer(r, "502")
    /\ UNCHANGED <<authVars, engine, sent, linked, links>>

ForwardAnswered(r) ==
    /\ stage[r] = "forwarded" /\ engine[r] \in {"accepted", "rejected"}
    /\ Answer(r, "200")
    /\ UNCHANGED <<authVars, engine, sent, linked, links>>

(* The transactions of the request that was forwarded.                     *)
Parts(r) == {sent[r].load.parts[k] : k \in DOMAIN sent[r].load.parts}

Handler(r) == Contracts(r) \/ CheckPart(r) \/ ForwardFails(r) \/ ForwardAnswered(r)

-----------------------------------------------------------------------------
(* The engine (external): it checks signatures itself, against the links   *)
(* of the moment, and may reject for reasons of its own.                   *)
EngineTakes(r) ==
    /\ engine[r] = "sent"
    /\ \/ engine' = [engine EXCEPT ![r] = "rejected"]
       \/ /\ \A x \in Parts(r) : x.signer \in {owner_from_subaccount(x.sender), linked[x.sender]}
          /\ engine' = [engine EXCEPT ![r] = "accepted"]
    /\ UNCHANGED <<authVars, stage, ask, sent, told, linked, links>>

(* A link_signer, through this gateway or from elsewhere, takes effect.    *)
LinkChanges(s, k) ==
    /\ links < MaxLinks /\ linked[s] # k
    /\ links' = links + 1
    /\ linked' = [linked EXCEPT ![s] = k]
    /\ ask' = [r \in Requests |-> IF stage[r] \in {"contracts", "checking"} /\ k # None
                                  THEN [ask[r] EXCEPT !.seen = @ \cup {<<s, k>>}] ELSE ask[r]]
    /\ UNCHANGED <<authVars, stage, engine, sent, told>>

(* Either process dies; the page's connection or the edge's breaks.        *)
EdgeRestarts ==
    /\ Restart
    /\ told' = [r \in Requests |-> IF InHand(r) /\ told[r] = "nothing" THEN "lost" ELSE told[r]]
    /\ UNCHANGED <<stage, ask, engine, sent, linked, links>>

ExecutionRestarts ==
    /\ Fault
    /\ \E r \in Requests : InHand(r)
    /\ stage' = [r \in Requests |-> IF InHand(r) THEN "dropped" ELSE stage[r]]
    /\ ask' = [r \in Requests |-> IF InHand(r) THEN NoAsk ELSE ask[r]]
    /\ told' = [r \in Requests |-> IF InHand(r) /\ told[r] = "nothing" THEN "502" ELSE told[r]]
    /\ UNCHANGED <<now, minted, items, flow, cookie, spent, lastIn>>
    /\ UNCHANGED <<engine, sent, linked, links>>

SignIn ==
    /\ \/ \E t \in Tabs : Sign(t) \/ PostVerify(t) \/ Answered(t) \/ Repeat(t)
                          \/ \E a \in Accounts : GetNonce(t, a)
       \/ Logout \/ Tick
    /\ UNCHANGED requestVars

Next ==
    \/ SignIn
    \/ \E r \in Requests :
          \/ EdgeTimeout(r) \/ HandlerDropped(r) \/ Handler(r) \/ EngineTakes(r)
          \/ \E p \in Payloads : Post(r, p)
    \/ \E s \in Senders, k \in Keys \cup {None} : LinkChanges(s, k)
    \/ EdgeRestarts \/ ExecutionRestarts

Spec == Init /\ [][Next]_vars

-----------------------------------------------------------------------------
Asks == [load : Payloads \cup {NoLoad}, session : Accounts \cup {None}, part : Nat \ {0},
         known : [Senders -> Keys \cup {None, "unread"}], seen : SUBSET (Senders \X Keys)]

TypeOK ==
    /\ AuthTypeOK
    /\ stage \in [Requests -> {"off", "contracts", "checking", "forwarded", "answered", "dropped"}]
    /\ ask \in [Requests -> Asks] /\ sent \in [Requests -> Asks]
    /\ engine \in [Requests -> {"none", "sent", "accepted", "rejected"}]
    /\ told \in [Requests -> {"nothing", "200", "400", "401", "403", "502", "lost"}]
    /\ linked \in [Senders -> Keys \cup {None}] /\ links \in 0..MaxLinks

Reached(r) == engine[r] # "none"

(* Whatever reaches the engine, in all its parts, is of the account whose  *)
(* session the request came with (docs/EXECUTION_GATEWAY.md, validation 1; *)
(* validate_sender_and_signer).                                            *)
OwnOrdersOnly ==
    \A r \in Requests : Reached(r) => \A x \in Parts(r) : owner_from_subaccount(x.sender) = sent[r].session

(* Each part was signed by the owner, or by a key that was linked to that  *)
(* very sender at some moment of the validation; the link may be gone when *)
(* the request is forwarded (validation 2 and 3; linked_signer_for_sender).*)
SignerWasLinked ==
    \A r \in Requests : Reached(r) =>
        \A x \in Parts(r) : \/ x.signer = owner_from_subaccount(x.sender)
                              \/ <<x.sender, x.signer>> \in sent[r].seen

(* Whatever the 128 bits of an appendix are, the engine gets no order that *)
(* it reads as FOK or TWAP, a price-triggered order only through the       *)
(* trigger endpoint and every other one only through the regular endpoint, *)
(* and no empty batch (docs/EXECUTION_GATEWAY.md, order policy).           *)
PolicyKept ==
    \A r \in Requests : Reached(r) =>
        LET trigger == IF sent[r].load.kind \in EngineKinds THEN "none" ELSE "price" IN
        /\ Parts(r) # {}
        /\ \A x \in Parts(r) : x.is_order =>
              /\ order_type_bits(x.appendix) # TypeBits("fok")
              /\ trigger_type_bits(x.appendix) = KindBits(trigger)

(* A page that is told 4xx knows that its request never reaches the engine,*)
(* and one that is told 200 that the engine has decided; after 502 or a    *)
(* lost connection it knows neither (proxyWithSession, ApiError).          *)
StatusTruthful ==
    \A r \in Requests :
        /\ told[r] \in {"400", "401", "403"} => engine[r] = "none" /\ stage[r] \in {"answered", "dropped"}
        /\ told[r] = "200" => engine[r] \in {"accepted", "rejected"}
=============================================================================
