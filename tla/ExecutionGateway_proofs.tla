------------------------ MODULE ExecutionGateway_proofs ------------------------
(***************************************************************************)
(* For any accounts, senders, keys, payloads, lifetimes and bounds: what   *)
(* the engine is given was vetted, what pages are told is true, and the    *)
(* nonces and sessions of SessionAuth stay sound while requests are        *)
(* served.  First the invariant of signing in, step by step; then the bits *)
(* of an appendix that decide about an order; then the requests.           *)
(***************************************************************************)
EXTENDS ExecutionGateway, TLAPS

Flow == [at : {"idle", "signing", "posted", "posted badly", "granted", "refused"},
         account : Accounts \cup {None}, nonce : {0} \cup Nonces, born : Nat, exp : Nat]

(* The types, in parts.                                                    *)
Clocks   == now \in 0..MaxClock /\ minted \in 0..MaxNonces /\ faults \in 0..MaxFaults
Stores   == items \in [Nonces -> Nat] /\ spent \in [Nonces -> Nat]
Flows    == flow \in [Tabs -> Flow]
Sessions == cookie \in [account : Accounts \cup {None}, exp : Nat] /\ lastIn \in [Accounts -> Int]
Typed    == Clocks /\ Stores /\ Flows /\ Sessions

(* AuthTypeOK in four parts.                                               *)
LEMMA TypesApart == AuthTypeOK <=> Typed
BY DEF AuthTypeOK, Typed, Clocks, Stores, Flows, Sessions, Flow

(* A nonce in the store has not been used, and one that was not generated  *)
(* yet is neither in the store nor used.                                   *)
StoreClean ==
    \A n \in Nonces : /\ spent[n] <= 1
                      /\ items[n] # 0 => spent[n] = 0
                      /\ n > minted => items[n] = 0 /\ spent[n] = 0

(* A sign-in under way is some account's, and its nonce's expiry, while in *)
(* the store, is counted from the moment the tab was given it.             *)
Running(t) == flow[t].at # "idle"

FlowsTrue ==
    \A t \in Tabs : Running(t) =>
        /\ flow[t].account \in Accounts
        /\ flow[t].nonce \in Nonces /\ flow[t].nonce <= minted
        /\ items[flow[t].nonce] # 0 => items[flow[t].nonce] = flow[t].born + NonceTTL

(* The expiry e of account a's token is backed by a verification.          *)
Backed(a, e) == lastIn[a] >= 0 /\ e <= lastIn[a] + JwtTTL

TokensBacked ==
    /\ \A a \in Accounts : lastIn[a] <= now
    /\ cookie.account # None => Backed(cookie.account, cookie.exp)
    /\ \A t \in Tabs : flow[t].at = "granted" => Backed(flow[t].account, flow[t].exp)

AuthInv == Typed /\ StoreClean /\ FlowsTrue /\ TokensBacked

-----------------------------------------------------------------------------
(* The numbers that a nonce is compared with.                              *)
LEMMA NonceNumbers ==
  ASSUME Clocks
  PROVE  /\ now \in Nat /\ minted \in Nat /\ now + NonceTTL \in Nat /\ now + JwtTTL \in Nat
         /\ \A n \in Nonces : n \in Nat /\ n # 0
         /\ minted < MaxNonces => minted + 1 \in Nonces
BY AuthAssumption DEF Clocks, Nonces

(* A tab that does nothing, and one whose sign-in has moved on, is typed.  *)
LEMMA IdleFlow == Idle \in Flow
BY DEF Idle, Flow, None

(* Step moves a flow and changes nothing else of it.                       *)
LEMMA MovedFlow ==
  ASSUME NEW f \in Flow,
         NEW at \in {"idle", "signing", "posted", "posted badly", "granted", "refused"}
  PROVE  /\ Step(f, at) \in Flow /\ Step(f, at).at = at
         /\ Step(f, at).account = f.account /\ Step(f, at).nonce = f.nonce
         /\ Step(f, at).born = f.born /\ Step(f, at).exp = f.exp
BY DEF Step, Flow

(* The initial state.                                                      *)
LEMMA AuthInvInit == AuthInit => AuthInv
<1> SUFFICES ASSUME AuthInit PROVE AuthInv
    OBVIOUS
<1>1. Clocks /\ Stores /\ Sessions
    BY AuthAssumption DEF AuthInit, Clocks, Stores, Sessions, NoCookie, Nonces
<1>2. Flows
    BY IdleFlow DEF AuthInit, Flows
<1>3. StoreClean /\ FlowsTrue
    BY DEF AuthInit, StoreClean, FlowsTrue, Running, Idle
<1>4. TokensBacked
    BY DEF AuthInit, TokensBacked, Idle, NoCookie
<1> QED  BY <1>1, <1>2, <1>3, <1>4 DEF AuthInv, Typed

(* cleanupLocked only takes nonces out of the store.                       *)
LEMMA CleanedKeeps ==
  ASSUME Clocks, Stores
  PROVE  /\ Cleaned \in [Nonces -> Nat]
         /\ \A n \in Nonces : Cleaned[n] # 0 => Cleaned[n] = items[n] /\ now <= items[n]
<1>1. \A n \in Nonces : items[n] \in Nat /\ now \in Nat
    BY NonceNumbers DEF Stores
<1> QED  BY <1>1 DEF Cleaned

(* A change of one tab's sign-in.                                          *)
LEMMA OneFlow ==
  ASSUME Flows, NEW t \in Tabs, NEW f \in Flow, flow' = [flow EXCEPT ![t] = f]
  PROVE  Flows' /\ flow'[t] = f /\ \A u \in Tabs : u # t => flow'[u] = flow[u]
BY DEF Flows

(* getNonce keeps the invariant.                                           *)
LEMMA GetNonceKeeps ==
  ASSUME AuthInv, NEW t \in Tabs, NEW a \in Accounts, GetNonce(t, a)
  PROVE  AuthInv'
<1>t. Clocks /\ Stores /\ Flows /\ Sessions
    BY DEF AuthInv, Typed
<1> DEFINE new == [at |-> "signing", account |-> a, nonce |-> minted + 1, born |-> now, exp |-> 0]
<1>1. /\ minted < MaxNonces /\ minted' = minted + 1
      /\ now' = now /\ cookie' = cookie /\ spent' = spent /\ lastIn' = lastIn
      /\ items' = [Cleaned EXCEPT ![minted + 1] = now + NonceTTL]
      /\ (flow' = [flow EXCEPT ![t] = new] /\ faults' = faults) \/ (Fault /\ flow' = flow)
    BY DEF GetNonce
<1>2. minted + 1 \in Nonces
    BY <1>1, <1>t, NonceNumbers
<1>3. /\ items' \in [Nonces -> Nat]
      /\ \A n \in Nonces : items'[n] = IF n = minted + 1 THEN now + NonceTTL ELSE Cleaned[n]
    BY <1>1, <1>2, <1>t, CleanedKeeps, NonceNumbers
<1>4. Clocks'
    BY <1>1, <1>t, AuthAssumption DEF Clocks, Fault
<1>5. new \in Flow
    BY <1>2, <1>t, NonceNumbers DEF Flow
<1> HIDE DEF new
<1>6. Flows' /\ \A u \in Tabs : flow'[u] = new \/ flow'[u] = flow[u]
    BY <1>1, <1>5, <1>t, OneFlow DEF Flows
<1>7. Typed'
    BY <1>1, <1>3, <1>4, <1>6, <1>t DEF Typed, Stores, Sessions, Nonces
<1>8. StoreClean'
  <2> SUFFICES ASSUME NEW n \in Nonces
               PROVE  /\ spent[n] <= 1
                      /\ items'[n] # 0 => spent[n] = 0
                      /\ n > minted + 1 => items'[n] = 0 /\ spent[n] = 0
      BY <1>1 DEF StoreClean, Nonces
  <2>1. n \in Nat /\ minted \in Nat
      BY <1>t, NonceNumbers
  <2>2. /\ spent[n] <= 1 /\ (items[n] # 0 => spent[n] = 0)
        /\ (n > minted => items[n] = 0 /\ spent[n] = 0)
      BY DEF AuthInv, StoreClean
  <2>3. Cleaned[n] # 0 => items[n] # 0
      BY <1>t, CleanedKeeps
  <2> QED  BY <1>3, <2>1, <2>2, <2>3
<1>9. FlowsTrue'
  <2> SUFFICES ASSUME NEW u \in Tabs, flow'[u].at # "idle"
               PROVE  /\ flow'[u].account \in Accounts
                      /\ flow'[u].nonce \in Nonces /\ flow'[u].nonce <= minted + 1
                      /\ items'[flow'[u].nonce] # 0 => items'[flow'[u].nonce] = flow'[u].born + NonceTTL
      BY <1>1 DEF FlowsTrue, Running, Nonces
  <2>1. CASE flow'[u] = new
    <3>1. flow'[u].account = a /\ flow'[u].nonce = minted + 1 /\ flow'[u].born = now
        BY <2>1 DEF new
    <3> QED  BY <1>2, <1>3, <1>t, <3>1, NonceNumbers
  <2>2. CASE flow'[u] = flow[u]
    <3>1. /\ flow[u].account \in Accounts /\ flow[u].nonce \in Nonces /\ flow[u].nonce <= minted
          /\ items[flow[u].nonce] # 0 => items[flow[u].nonce] = flow[u].born + NonceTTL
        BY <2>2 DEF AuthInv, FlowsTrue, Running
    <3>2. flow[u].nonce # minted + 1 /\ flow[u].nonce <= minted + 1
        BY <1>t, <3>1, NonceNumbers
    <3>3. Cleaned[flow[u].nonce] # 0 => Cleaned[flow[u].nonce] = items[flow[u].nonce]
        BY <1>t, <3>1, CleanedKeeps
    <3> QED  BY <1>3, <2>2, <3>1, <3>2, <3>3
  <2> QED  BY <1>6, <2>1, <2>2
<1>10. TokensBacked'
  <2>1. new.at # "granted"
      BY DEF new
  <2> QED  BY <1>1, <1>6, <2>1 DEF AuthInv, TokensBacked, Backed
<1> QED  BY <1>7, <1>8, <1>9, <1>10 DEF AuthInv

(* A step that moves sign-ins on without touching the store or a token.    *)
LEMMA FlowMoves ==
  ASSUME AuthInv, Typed', UNCHANGED <<now, minted, spent, lastIn>>,
         items' = items \/ items' = [n \in Nonces |-> 0],
         cookie' = cookie \/ cookie' = NoCookie,
         \A t \in Tabs : /\ flow'[t].at # "idle" =>
                              /\ flow[t].at # "idle"
                              /\ flow'[t].account = flow[t].account
                              /\ flow'[t].nonce = flow[t].nonce /\ flow'[t].born = flow[t].born
                         /\ flow'[t].at = "granted" => flow'[t] = flow[t]
  PROVE  AuthInv'
<1>1. \A n \in Nonces : items'[n] = items[n] \/ items'[n] = 0
    OBVIOUS
<1>2. StoreClean'
    BY <1>1 DEF AuthInv, StoreClean, Nonces
<1>3. FlowsTrue'
    BY <1>1 DEF AuthInv, FlowsTrue, Running, Nonces
<1>4. TokensBacked'
    BY DEF AuthInv, TokensBacked, Backed, NoCookie
<1> QED  BY <1>2, <1>3, <1>4 DEF AuthInv

(* postVerify keeps the invariant: the nonce leaves the store with the     *)
(* first post that finds it there.                                         *)
LEMMA PostVerifyKeeps ==
  ASSUME AuthInv, NEW t \in Tabs, PostVerify(t)
  PROVE  AuthInv'
<1>t. Clocks /\ Stores /\ Flows /\ Sessions
    BY DEF AuthInv, Typed
<1> DEFINE n == flow[t].nonce
           granted == Stored(n) /\ flow[t].at = "posted"
           next == IF granted THEN [flow[t] EXCEPT !.at = "granted", !.exp = now + JwtTTL]
                   ELSE Step(flow[t], "refused")
<1>f. flow[t] \in Flow /\ flow[t].at \in {"posted", "posted badly"}
    BY <1>t DEF Flows, PostVerify
<1>1. /\ flow[t].account \in Accounts /\ n \in Nonces /\ n <= minted
      /\ items[n] # 0 => items[n] = flow[t].born + NonceTTL
    BY <1>f DEF AuthInv, FlowsTrue, Running
<1>2. /\ now' = now /\ minted' = minted /\ cookie' = cookie /\ faults' = faults
      /\ items' = IF Stored(n) THEN [Cleaned EXCEPT ![n] = 0] ELSE Cleaned
      /\ flow' = [flow EXCEPT ![t] = next]
      /\ spent' = IF granted THEN [spent EXCEPT ![n] = @ + 1] ELSE spent
      /\ lastIn' = IF granted THEN [lastIn EXCEPT ![flow[t].account] = now] ELSE lastIn
    BY <1>t DEF PostVerify, Taken, TokenExpiry, Flows
<1>3. next \in Flow
    BY <1>f, <1>t, MovedFlow, NonceNumbers DEF Flow
<1>4. /\ next.account = flow[t].account /\ next.nonce = n /\ next.born = flow[t].born
      /\ next.at # "idle"
      /\ next.at = "granted" => granted /\ next.exp = now + JwtTTL
    BY <1>f, MovedFlow DEF Flow
<1> HIDE DEF next
<1>5. /\ items' \in [Nonces -> Nat]
      /\ \A m \in Nonces : items'[m] # 0 => items'[m] = items[m]
      /\ items'[n] = 0
    BY <1>t, <1>1, <1>2, CleanedKeeps DEF Stored
<1>6. granted => items[n] # 0
    BY <1>t, <1>1, CleanedKeeps DEF Stored
<1> HIDE DEF granted, n
<1>7. spent' \in [Nonces -> Nat]
      /\ \A m \in Nonces : spent'[m] = IF granted /\ m = n THEN spent[m] + 1 ELSE spent[m]
    BY <1>t, <1>1, <1>2 DEF Stores
<1>8. lastIn' \in [Accounts -> Int]
      /\ \A a \in Accounts : lastIn'[a] = IF granted /\ a = flow[t].account THEN now ELSE lastIn[a]
    BY <1>t, <1>1, <1>2, NonceNumbers DEF Sessions
<1>9. Flows' /\ flow'[t] = next /\ \A u \in Tabs : u # t => flow'[u] = flow[u]
    BY <1>t, <1>2, <1>3, OneFlow
<1>10. Typed'
    BY <1>t, <1>2, <1>5, <1>7, <1>8, <1>9 DEF Typed, Clocks, Stores, Sessions, Nonces
<1>11. StoreClean'
  <2> SUFFICES ASSUME NEW m \in Nonces
               PROVE  /\ spent'[m] <= 1
                      /\ items'[m] # 0 => spent'[m] = 0
                      /\ m > minted => items'[m] = 0 /\ spent'[m] = 0
      BY <1>2 DEF StoreClean, Nonces
  <2>1. /\ spent[m] <= 1 /\ (items[m] # 0 => spent[m] = 0)
        /\ (m > minted => items[m] = 0 /\ spent[m] = 0)
      BY DEF AuthInv, StoreClean
  <2>2. m \in Nat /\ minted \in Nat /\ spent[m] \in Nat
      BY <1>t, NonceNumbers DEF Stores
  <2> QED  BY <1>1, <1>5, <1>6, <1>7, <2>1, <2>2
<1>12. FlowsTrue'
  <2> SUFFICES ASSUME NEW u \in Tabs, flow'[u].at # "idle"
               PROVE  /\ flow'[u].account \in Accounts
                      /\ flow'[u].nonce \in Nonces /\ flow'[u].nonce <= minted
                      /\ items'[flow'[u].nonce] # 0 => items'[flow'[u].nonce] = flow'[u].born + NonceTTL
      BY <1>2 DEF FlowsTrue, Running, Nonces
  <2>1. /\ flow'[u].account = flow[u].account /\ flow'[u].nonce = flow[u].nonce
        /\ flow'[u].born = flow[u].born /\ flow[u].at # "idle"
      BY <1>f, <1>4, <1>9 DEF n
  <2>2. /\ flow[u].account \in Accounts /\ flow[u].nonce \in Nonces /\ flow[u].nonce <= minted
        /\ items[flow[u].nonce] # 0 => items[flow[u].nonce] = flow[u].born + NonceTTL
      BY <2>1 DEF AuthInv, FlowsTrue, Running
  <2> QED  BY <1>5, <2>1, <2>2
<1>13. TokensBacked'
  <2>1. \A a \in Accounts : lastIn[a] \in Int /\ lastIn[a] <= now /\ now \in Nat
      BY <1>t, NonceNumbers DEF Sessions, AuthInv, TokensBacked
  <2>2. \A a \in Accounts : lastIn'[a] >= lastIn[a] /\ lastIn'[a] <= now /\ lastIn'[a] \in Int
      BY <1>8, <2>1
  <2>3. ASSUME NEW a \in Accounts, NEW e \in Nat, Backed(a, e) PROVE lastIn'[a] >= 0 /\ e <= lastIn'[a] + JwtTTL
      BY <2>1, <2>2, <2>3, AuthAssumption DEF Backed
  <2>4. cookie.account # None => lastIn'[cookie.account] >= 0 /\ cookie.exp <= lastIn'[cookie.account] + JwtTTL
    <3> SUFFICES ASSUME cookie.account # None
                 PROVE  lastIn'[cookie.account] >= 0 /\ cookie.exp <= lastIn'[cookie.account] + JwtTTL
        OBVIOUS
    <3>1. cookie.account \in Accounts /\ cookie.exp \in Nat
        BY <1>t DEF Sessions
    <3>2. Backed(cookie.account, cookie.exp)
        BY DEF AuthInv, TokensBacked
    <3> QED  BY <2>3, <3>1, <3>2
  <2>5. ASSUME NEW u \in Tabs, flow'[u].at = "granted"
        PROVE  lastIn'[flow'[u].account] >= 0 /\ flow'[u].exp <= lastIn'[flow'[u].account] + JwtTTL
    <3>1. CASE u = t
      <4>1. granted /\ flow'[u].account = flow[t].account /\ flow'[u].exp = now + JwtTTL
          BY <1>4, <1>9, <2>5, <3>1
      <4>2. lastIn'[flow[t].account] = now /\ now \in Nat
          BY <1>1, <1>8, <2>1, <4>1
      <4> QED  BY <4>1, <4>2, AuthAssumption
    <3>2. CASE u # t
      <4>1. flow'[u] = flow[u] /\ flow[u].account \in Accounts /\ flow[u].exp \in Nat
          BY <1>9, <1>t, <2>5, <3>2 DEF Flows, Flow, AuthInv, FlowsTrue, Running
      <4>2. Backed(flow[u].account, flow[u].exp)
          BY <2>5, <4>1 DEF AuthInv, TokensBacked
      <4> QED  BY <2>3, <4>1, <4>2
    <3> QED  BY <3>1, <3>2
  <2> QED  BY <1>2, <2>2, <2>4, <2>5 DEF TokensBacked, Backed
<1> QED  BY <1>10, <1>11, <1>12, <1>13 DEF AuthInv

(* The answer of a verification, which brings the cookie or is lost.       *)
LEMMA AnsweredKeeps ==
  ASSUME AuthInv, NEW t \in Tabs, Answered(t)
  PROVE  AuthInv'
<1>t. Clocks /\ Stores /\ Flows /\ Sessions
    BY DEF AuthInv, Typed
<1>1. /\ UNCHANGED <<now, minted, items, spent, lastIn>> /\ flow[t].at \in {"granted", "refused"}
      /\ flow' = [flow EXCEPT ![t] = Idle]
      /\ \/ cookie' = cookie
         \/ flow[t].at = "granted" /\ cookie' = [account |-> flow[t].account, exp |-> flow[t].exp]
      /\ faults' = faults \/ Fault
    BY DEF Answered
<1>2. Flows' /\ flow'[t] = Idle /\ \A u \in Tabs : u # t => flow'[u] = flow[u]
    BY <1>1, <1>t, OneFlow, IdleFlow
<1>3. Clocks'
    BY <1>1, <1>t, AuthAssumption DEF Fault, Clocks
<1>4. Sessions'
  <2>1. flow[t] \in Flow
      BY <1>t DEF Flows
  <2>2. flow[t].account \in Accounts \cup {None} /\ flow[t].exp \in Nat
      BY <2>1 DEF Flow
  <2>3. cookie' \in [account : Accounts \cup {None}, exp : Nat]
      BY <1>1, <1>t, <2>2 DEF Sessions
  <2> QED  BY <1>1, <1>t, <2>3 DEF Sessions
<1>5. Typed'
    BY <1>t, <1>1, <1>2, <1>3, <1>4 DEF Typed, Stores, Nonces
<1>6. StoreClean'
    BY <1>1 DEF AuthInv, StoreClean, Nonces
<1>7. FlowsTrue'
    BY <1>1, <1>2 DEF AuthInv, FlowsTrue, Running, Idle, Nonces
<1>8. TokensBacked'
    BY <1>1, <1>2 DEF AuthInv, TokensBacked, Backed, Idle
<1> QED  BY <1>5, <1>6, <1>7, <1>8 DEF AuthInv

(* The clock's ticks make no token younger.                                *)
LEMMA TickKeeps ==
  ASSUME AuthInv, Tick
  PROVE  AuthInv'
<1>t. Clocks /\ Stores /\ Flows /\ Sessions
    BY DEF AuthInv, Typed
<1>1. Typed'
    BY <1>t, AuthAssumption DEF Typed, Clocks, Stores, Flows, Sessions, Tick, Nonces
<1>2. StoreClean' /\ FlowsTrue'
    BY DEF AuthInv, StoreClean, FlowsTrue, Running, Tick, Nonces
<1>3. \A a \in Accounts : lastIn[a] \in Int /\ lastIn[a] <= now /\ now \in Nat
    BY <1>t, NonceNumbers DEF Sessions, AuthInv, TokensBacked
<1>4. TokensBacked'
    BY <1>3 DEF AuthInv, TokensBacked, Backed, Tick
<1> QED  BY <1>1, <1>2, <1>4 DEF AuthInv

(* The wallet's answer keeps the invariant.                                *)
LEMMA SignKeeps ==
  ASSUME AuthInv, NEW t \in Tabs, Sign(t)
  PROVE  AuthInv'
<1>t. Clocks /\ Stores /\ Flows /\ Sessions
    BY DEF AuthInv, Typed
<1>1. flow[t] \in Flow /\ flow[t].at = "signing"
      /\ UNCHANGED <<now, minted, items, cookie, spent, lastIn, faults>>
    BY <1>t DEF Sign, Flows
<1>2. \E f \in {Step(flow[t], "posted"), Step(flow[t], "posted badly"), Idle} : flow' = [flow EXCEPT ![t] = f]
    BY DEF Sign
<1>3. PICK f \in {Step(flow[t], "posted"), Step(flow[t], "posted badly"), Idle} : flow' = [flow EXCEPT ![t] = f]
    BY <1>2
<1>4. /\ f \in Flow /\ f.at # "granted"
      /\ f.at # "idle" => f.account = flow[t].account /\ f.nonce = flow[t].nonce /\ f.born = flow[t].born
  <2>1. /\ Step(flow[t], "posted") \in Flow /\ Step(flow[t], "posted").at = "posted"
        /\ Step(flow[t], "posted").account = flow[t].account
        /\ Step(flow[t], "posted").nonce = flow[t].nonce /\ Step(flow[t], "posted").born = flow[t].born
      BY <1>1, MovedFlow
  <2>2. /\ Step(flow[t], "posted badly") \in Flow /\ Step(flow[t], "posted badly").at = "posted badly"
        /\ Step(flow[t], "posted badly").account = flow[t].account
        /\ Step(flow[t], "posted badly").nonce = flow[t].nonce
        /\ Step(flow[t], "posted badly").born = flow[t].born
      BY <1>1, MovedFlow
  <2>3. Idle \in Flow /\ Idle.at = "idle"
      BY IdleFlow DEF Idle
  <2> QED  BY <1>3, <2>1, <2>2, <2>3
<1>5. Flows' /\ flow'[t] = f /\ \A u \in Tabs : u # t => flow'[u] = flow[u]
    BY <1>t, <1>3, <1>4, OneFlow
<1>6. Typed'
    BY <1>t, <1>1, <1>5 DEF Typed, Clocks, Stores, Sessions, Nonces
<1> QED  BY <1>1, <1>4, <1>5, <1>6, FlowMoves

(* So does a post that is repeated, an account that signs out, a restart.  *)
LEMMA RepeatKeeps ==
  ASSUME AuthInv, NEW t \in Tabs, Repeat(t)
  PROVE  AuthInv'
<1>t. Clocks /\ Stores /\ Flows /\ Sessions
    BY DEF AuthInv, Typed
<1>1. flow[t] \in Flow /\ flow[t].at = "granted" /\ Fault
      /\ UNCHANGED <<now, minted, items, cookie, spent, lastIn>>
      /\ flow' = [flow EXCEPT ![t] = Step(flow[t], "posted")]
    BY <1>t DEF Repeat, Flows
<1>2. /\ Step(flow[t], "posted") \in Flow /\ Step(flow[t], "posted").at = "posted"
      /\ Step(flow[t], "posted").account = flow[t].account
      /\ Step(flow[t], "posted").nonce = flow[t].nonce /\ Step(flow[t], "posted").born = flow[t].born
    BY <1>1, MovedFlow
<1>3. /\ Flows' /\ flow'[t] = Step(flow[t], "posted")
      /\ \A u \in Tabs : u # t => flow'[u] = flow[u]
    BY <1>t, <1>1, <1>2, OneFlow
<1>4. Clocks'
    BY <1>1, <1>t, AuthAssumption DEF Clocks, Fault
<1>5. Typed'
    BY <1>t, <1>1, <1>3, <1>4 DEF Typed, Stores, Sessions, Nonces
<1> QED  BY <1>1, <1>2, <1>3, <1>5, FlowMoves

(* Logging out clears the cookie and nothing else.                         *)
LEMMA LogoutKeeps ==
  ASSUME AuthInv, Logout
  PROVE  AuthInv'
<1>1. Typed'
    BY DEF AuthInv, Logout, Typed, Clocks, Stores, Flows, Sessions, NoCookie, Nonces
<1> QED  BY <1>1, FlowMoves DEF Logout

(* A restart forgets the nonces and the posts in hand; tokens stay backed. *)
LEMMA RestartKeeps ==
  ASSUME AuthInv, Restart
  PROVE  AuthInv'
<1>t. Clocks /\ Stores /\ Flows /\ Sessions
    BY DEF AuthInv, Typed
<1>1. \A t \in Tabs : flow'[t] = Idle \/ flow'[t] = flow[t]
    BY DEF Restart
<1>2. Flows'
    BY <1>t, IdleFlow DEF Restart, Flows
<1>3. Typed'
  <2>1. Clocks'
    <3>1. faults < MaxFaults /\ faults' = faults + 1 /\ now' = now /\ minted' = minted
        BY DEF Restart, Fault
    <3> QED  BY <1>t, <3>1, AuthAssumption DEF Clocks
  <2>2. Stores' /\ Sessions'
      BY <1>t DEF Stores, Sessions, Nonces, Restart
  <2> QED  BY <1>2, <2>1, <2>2 DEF Typed
<1> QED  BY <1>1, <1>3, FlowMoves DEF Restart, Idle

(* Every step of signing in keeps the invariant.                           *)
LEMMA AuthInvStep == AuthInv /\ [AuthNext]_authVars => AuthInv'
<1> SUFFICES ASSUME AuthInv, [AuthNext]_authVars PROVE AuthInv'
    OBVIOUS
<1>1. CASE UNCHANGED authVars
    BY <1>1 DEF authVars, AuthInv, Typed, Clocks, Stores, Flows, Sessions, StoreClean, FlowsTrue,
                Running, TokensBacked, Backed, Nonces
<1>2. CASE AuthNext
    BY <1>2, GetNonceKeeps, SignKeeps, PostVerifyKeeps, AnsweredKeeps, RepeatKeeps, LogoutKeeps,
       RestartKeeps, TickKeeps DEF AuthNext
<1> QED  BY <1>1, <1>2

-----------------------------------------------------------------------------
(* What the invariant says of nonces and sessions.                         *)
LEMMA InvNonceOnce == AuthInv => NonceOnce
BY DEF AuthInv, StoreClean, NonceOnce

(* A cookie that counts was granted at a verification less than JwtTTL     *)
(* ago.                                                                    *)
LEMMA InvSessionRecent == AuthInv => SessionRecent
<1> SUFFICES ASSUME AuthInv, SessionAddress # None
             PROVE  lastIn[SessionAddress] >= 0 /\ now - lastIn[SessionAddress] < JwtTTL
    BY DEF SessionRecent
<1>1. now < cookie.exp /\ SessionAddress = cookie.account
    BY DEF SessionAddress
<1>2. cookie.account \in Accounts /\ cookie.exp \in Nat /\ lastIn[cookie.account] \in Int /\ now \in Nat
    BY <1>1, NonceNumbers DEF AuthInv, Typed, Sessions
<1>3. Backed(cookie.account, cookie.exp)
    BY <1>1 DEF AuthInv, TokensBacked
<1> QED  BY <1>1, <1>2, <1>3, AuthAssumption DEF Backed

(* Only postVerify grants.                                                 *)
LEMMA OnlyVerifyGrants ==
  ASSUME Flows, [AuthNext]_authVars, NEW t \in Tabs, flow'[t].at = "granted", flow[t].at # "granted"
  PROVE  PostVerify(t)
<1>1. ASSUME NEW u \in Tabs, NEW a \in Accounts, GetNonce(u, a) PROVE FALSE
    BY <1>1 DEF GetNonce, Flows
<1>2. ASSUME NEW u \in Tabs, Sign(u) PROVE FALSE
  <2>1. Step(flow[u], "posted").at = "posted" /\ Step(flow[u], "posted badly").at = "posted badly"
        /\ Idle.at = "idle"
      BY MovedFlow DEF Flows, Idle
  <2>2. \/ flow' = [flow EXCEPT ![u] = Step(flow[u], "posted")]
        \/ flow' = [flow EXCEPT ![u] = Step(flow[u], "posted badly")]
        \/ flow' = [flow EXCEPT ![u] = Idle]
      BY <1>2 DEF Sign
  <2>3. flow'[t] = flow[t] \/ flow'[t] \in {Step(flow[u], "posted"), Step(flow[u], "posted badly"), Idle}
      BY <2>2 DEF Flows
  <2> QED  BY <2>1, <2>3
<1>3. ASSUME NEW u \in Tabs, Answered(u) PROVE FALSE
    BY <1>3 DEF Answered, Flows, Idle
<1>4. ASSUME NEW u \in Tabs, Repeat(u) PROVE FALSE
  <2>1. flow'[t].at = "posted" \/ flow'[t] = flow[t]
      BY <1>4, MovedFlow DEF Repeat, Flows
  <2> QED  BY <2>1
<1>5. ASSUME NEW u \in Tabs, PostVerify(u), u # t PROVE FALSE
    BY <1>5 DEF PostVerify, Flows
<1>6. ASSUME Logout \/ Restart \/ Tick \/ UNCHANGED authVars PROVE FALSE
  <2>1. flow' = flow \/ flow'[t] = Idle \/ flow'[t] = flow[t]
      BY <1>6 DEF Logout, Restart, Tick, authVars
  <2> QED  BY <2>1 DEF Idle
<1> QED  BY <1>1, <1>2, <1>3, <1>4, <1>5, <1>6 DEF AuthNext

(* It does so only while the nonce has not expired.                        *)
LEMMA StepNonceFresh ==
  ASSUME AuthInv, [AuthNext]_authVars, NEW t \in Tabs,
         flow'[t].at = "granted", flow[t].at # "granted"
  PROVE  now - flow[t].born <= NonceTTL
<1>t. Clocks /\ Stores /\ Flows /\ Sessions
    BY DEF AuthInv, Typed
<1>1. PostVerify(t) /\ flow[t] \in Flow
    BY <1>t, OnlyVerifyGrants DEF Flows
<1>2. flow[t].nonce \in Nonces /\ (items[flow[t].nonce] # 0 => items[flow[t].nonce] = flow[t].born + NonceTTL)
    BY <1>1 DEF AuthInv, FlowsTrue, Running, PostVerify
<1>3. Stored(flow[t].nonce)
  <2>1. ~Stored(flow[t].nonce) => flow'[t] = Step(flow[t], "refused")
      BY <1>1, <1>t DEF PostVerify, Flows
  <2> QED  BY <1>1, <2>1, MovedFlow
<1>4. items[flow[t].nonce] # 0 /\ now <= items[flow[t].nonce]
    BY <1>2, <1>3, <1>t, CleanedKeeps DEF Stored
<1>5. now \in Nat /\ flow[t].born \in Nat
    BY <1>1, <1>t, NonceNumbers DEF Flow
<1> QED  BY <1>2, <1>4, <1>5, AuthAssumption

-----------------------------------------------------------------------------
(* The powers of two that matter.                                          *)
LEMMA Powers ==
    /\ 2^0 = 1 /\ 2^1 = 2 /\ 2^3 = 8 /\ 2^4 = 16
    /\ 2^9 = 512 /\ 2^10 = 1024 /\ 2^12 = 4096 /\ 2^13 = 8192
<1>1. 2^0 = 1 OBVIOUS
<1>2. 2^1 = 2 OBVIOUS
<1>3. 2^3 = 8 OBVIOUS
<1>4. 2^4 = 16 OBVIOUS
<1>5. 2^9 = 512 OBVIOUS
<1>6. 2^10 = 1024 OBVIOUS
<1>7. 2^12 = 4096 OBVIOUS
<1>8. 2^13 = 8192 OBVIOUS
<1> QED BY <1>1, <1>2, <1>3, <1>4, <1>5, <1>6, <1>7, <1>8

(* Which low bits the small numbers have that name a type or a trigger.    *)
LEMMA SmallBits ==
    ASSUME NEW n \in 0..3
    PROVE  /\ Bit(n, 0) <=> n \in {1, 3}
           /\ Bit(n, 1) <=> n \in {2, 3}
           /\ \A k \in {3, 4, 9, 10, 12, 13} : ~ Bit(n, k)
<1>1. n = 0 \/ n = 1 \/ n = 2 \/ n = 3
  OBVIOUS
<1> QED BY <1>1, Powers DEF Bit

(* A number shifted left has its bits that much higher.                    *)
LEMMA ShiftedBits ==
    ASSUME NEW n, NEW at \in Nat, NEW b \in 0..127
    PROVE  b \in Shifted(n, at) <=> b - at \in 0..127 /\ Bit(n, b - at)
<1>1. ASSUME b \in Shifted(n, at) PROVE b - at \in 0..127 /\ Bit(n, b - at)
  <2>1. PICK j \in 0..127 : Bit(n, j) /\ b = at + j
    BY <1>1 DEF Shifted, BitsOf
  <2>2. b - at = j
    BY <2>1
  <2> QED BY <2>1, <2>2
<1>2. ASSUME b - at \in 0..127, Bit(n, b - at) PROVE b \in Shifted(n, at)
  <2> DEFINE j == b - at
  <2>1. j \in BitsOf(n) /\ at + j = b /\ at + j <= 127
    BY <1>2 DEF BitsOf
  <2> HIDE DEF j
  <2> QED BY <2>1 DEF Shifted
<1> QED BY <1>1, <1>2

(* The order's numbers are packed from bit 38 up, so that the bits of its  *)
(* type and its trigger are those that name them.                          *)
LEMMA DecidingOptions ==
    ASSUME NEW o, o.type \in OrderTypes, o.trigger \in Triggers
    PROVE  /\ order_type_bits(Options(o)) = TypeBits(o.type)
           /\ trigger_type_bits(Options(o)) = KindBits(o.trigger)
<1> DEFINE t == CASE o.type = "default"   -> 0
                  [] o.type = "ioc"       -> 1
                  [] o.type = "fok"       -> 2
                  [] o.type = "post_only" -> 3
           g == CASE o.trigger = "none"        -> 0
                  [] o.trigger = "price"       -> 1
                  [] o.trigger = "twap"        -> 2
                  [] o.trigger = "twap_custom" -> 3
<1>1. t \in 0..3 /\ g \in 0..3
  BY DEF OrderTypes, Triggers
<1>2. appendix_bit(o.type) = Shifted(t, 9)
  BY DEF appendix_bit, OrderTypes
<1>3. ASSUME NEW b \in {9, 10, 12, 13} PROVE b \in TriggerBits(o) <=> b \in Shifted(g, 12)
  <2>1. \A n : b \notin Shifted(n, 96) /\ b \notin Shifted(n, 64)
    BY <1>3, ShiftedBits
  <2>2. b \notin Shifted(0, 12)
    <3>1. b \in 0..127 /\ (b - 12 \in 0..127 => b - 12 \in {0, 1})
      BY <1>3
    <3> QED BY <3>1, ShiftedBits, SmallBits
  <2> QED BY <2>1, <2>2 DEF TriggerBits, Triggers
<1> HIDE DEF t, g
<1>4. ASSUME NEW b \in {9, 10, 12, 13}
      PROVE  b \in Options(o) <=> b \in Shifted(t, 9) \/ b \in Shifted(g, 12)
  <2>1. \A n : b \notin Shifted(n, 64) /\ b \notin Shifted(n, 48) /\ b \notin Shifted(n, 38)
    BY <1>4, ShiftedBits
  <2> QED BY <1>2, <1>3, <1>4, <2>1 DEF Options, BuilderBits
<1>5. /\ 9 \in Options(o) <=> t \in {1, 3}
      /\ 10 \in Options(o) <=> t \in {2, 3}
      /\ 12 \in Options(o) <=> g \in {1, 3}
      /\ 13 \in Options(o) <=> g \in {2, 3}
  BY <1>1, <1>4, ShiftedBits, SmallBits
<1>6. order_type_bits(Options(o)) = TypeBits(o.type)
  <2>1. order_type_bits(Options(o)) = {k \in 0..1 : 9 + k \in Options(o)}
    BY DEF order_type_bits, Field
  <2>2. \A k \in 0..1 : k = 0 \/ k = 1
    OBVIOUS
  <2> QED BY <1>5, <2>1, <2>2 DEF t, TypeBits, OrderTypes
<1>7. trigger_type_bits(Options(o)) = KindBits(o.trigger)
  <2>1. trigger_type_bits(Options(o)) = {k \in 0..1 : 12 + k \in Options(o)}
    BY DEF trigger_type_bits, Field
  <2>2. \A k \in 0..1 : k = 0 \/ k = 1
    OBVIOUS
  <2> QED BY <1>5, <2>1, <2>2 DEF g, KindBits, Triggers
<1> QED BY <1>6, <1>7

(* So an order whose starting appendix agrees with its options, or that    *)
(* has none, is read as the type and the trigger that it was built with.   *)
LEMMA DecidingBits ==
    ASSUME NEW o, o.type \in OrderTypes, o.trigger \in Triggers, o.start = {} \/ StartAgrees(o)
    PROVE  /\ order_type_bits(Appendix(o)) = TypeBits(o.type)
           /\ trigger_type_bits(Appendix(o)) = KindBits(o.trigger)
<1>1. /\ order_type_bits(Start(o)) \subseteq TypeBits(o.type)
      /\ trigger_type_bits(Start(o)) \subseteq KindBits(o.trigger)
  <2>1. CASE o.start = {}
    <3>1. \A b \in {9, 10, 12, 13} : b \notin Shifted(1, 0)
      BY ShiftedBits, SmallBits
    <3>2. Start(o) = Shifted(1, 0)
      BY <2>1 DEF Start, OrderVersion
    <3>3. order_type_bits(Start(o)) = {} /\ trigger_type_bits(Start(o)) = {}
      BY <3>1, <3>2 DEF order_type_bits, trigger_type_bits, Field
    <3> QED BY <3>3
  <2>2. CASE StartAgrees(o)
    BY <2>2 DEF StartAgrees
  <2> QED BY <2>1, <2>2
<1>2. \A at, width : Field(Appendix(o), at, width) = Field(Start(o), at, width) \cup Field(Options(o), at, width)
  BY Zenon DEF Field, Appendix
<1>3. order_type_bits(Appendix(o)) = order_type_bits(Start(o)) \cup order_type_bits(Options(o))
  BY <1>2 DEF order_type_bits
<1>4. trigger_type_bits(Appendix(o)) = trigger_type_bits(Start(o)) \cup trigger_type_bits(Options(o))
  BY <1>2 DEF trigger_type_bits
<1> QED BY <1>1, <1>3, <1>4, DecidingOptions

-----------------------------------------------------------------------------
Stages   == {"off", "contracts", "checking", "forwarded", "answered", "dropped"}
Statuses == {"nothing", "200", "400", "401", "403", "502", "lost"}
Decided  == {"none", "sent", "accepted", "rejected"}

RequestTypes ==
    /\ stage \in [Requests -> Stages]
    /\ ask \in [Requests -> Asks] /\ sent \in [Requests -> Asks]
    /\ engine \in [Requests -> Decided]
    /\ told \in [Requests -> Statuses]
    /\ linked \in [Senders -> Keys \cup {None}] /\ links \in 0..MaxLinks

(* The types of signing in and of requests make TypeOK.                    *)
LEMMA TypesMeet == TypeOK <=> (Typed /\ RequestTypes)
BY TypesApart DEF TypeOK, RequestTypes, Stages, Statuses, Decided

(* Transaction x passes for what the handler of a knows.                   *)
Vetted(a, x) ==
    /\ Supported(a.load.kind, x)
    /\ owner_from_subaccount(x.sender) = a.session
    /\ x.signer = owner_from_subaccount(x.sender) \/ <<x.sender, x.signer>> \in a.seen

(* Before it is forwarded a request is unknown to the engine; what its     *)
(* handler remembers of linked signers has been true since it came.        *)
Validating(r) == stage[r] \in {"contracts", "checking"}

Unsent(r) == Validating(r) \/ stage[r] = "off" => engine[r] = "none"

Remembers(r) ==
    Validating(r) =>
        /\ ask[r].load \in Payloads
        /\ LinkedNow \subseteq ask[r].seen
        /\ \A s \in Senders : ask[r].known[s] \in Keys => <<s, ask[r].known[s]>> \in ask[r].seen
        /\ stage[r] = "contracts" => ask[r].part = 1

(* The parts before the one in hand are vetted, and all that were sent.    *)
Progressed(r) ==
    stage[r] = "checking" =>
        /\ ask[r].part \in DOMAIN ask[r].load.parts
        /\ \A k \in DOMAIN ask[r].load.parts : k < ask[r].part => Vetted(ask[r], ask[r].load.parts[k])

SentVetted(r) ==
    Reached(r) => /\ sent[r].load \in Payloads /\ Parts(r) # {}
                  /\ \A x \in Parts(r) : Vetted(sent[r], x)

Truthful(r) ==
    /\ told[r] \in {"400", "401", "403"} => engine[r] = "none" /\ stage[r] \in {"answered", "dropped"}
    /\ told[r] = "200" => engine[r] \in {"accepted", "rejected"}

RequestSound(r) == Unsent(r) /\ Remembers(r) /\ Progressed(r) /\ SentVetted(r) /\ Truthful(r)

GatewayInv == AuthInv /\ RequestTypes /\ \A r \in Requests : RequestSound(r)

-----------------------------------------------------------------------------
(* What a handler holds stays a record of its kind.                        *)
LEMMA NoAskType == NoAsk \in Asks
BY DEF NoAsk, Asks, Unread

(* A posted request has read no link yet.                                  *)
LEMMA PostedAsk ==
  ASSUME NEW p \in Payloads, NEW a \in Accounts, RequestTypes,
         NEW b, b = [load |-> p, session |-> a, part |-> 1, known |-> Unread, seen |-> LinkedNow]
  PROVE  b \in Asks /\ b.load = p /\ b.seen = LinkedNow /\ b.known = Unread /\ b.part = 1
<1>1. LinkedNow \in SUBSET (Senders \X Keys)
  <2>1. ASSUME NEW e \in LinkedNow PROVE e \in Senders \X Keys
    <3>1. PICK s \in Senders : linked[s] # None /\ e = <<s, linked[s]>>
        BY <2>1 DEF LinkedNow
    <3>2. linked[s] \in Keys
        BY <3>1 DEF RequestTypes
    <3> QED  BY <3>1, <3>2
  <2> QED  BY <2>1
<1>2. Unread \in [Senders -> Keys \cup {None, "unread"}]
    BY DEF Unread
<1>3. b \in Asks
  <2>1. p \in Payloads \cup {NoLoad} /\ a \in Accounts \cup {None} /\ 1 \in Nat \ {0}
      OBVIOUS
  <2> QED  BY <1>1, <1>2, <2>1, SMTT(30) DEF Asks
<1> QED  BY <1>3

Moved(a, s, k) == [a EXCEPT !.known = [a.known EXCEPT ![s] = k], !.part = a.part + 1]

(* Reading a link moves the request on by one part.                        *)
LEMMA MovedAsk ==
  ASSUME NEW a \in Asks, NEW s \in Senders, NEW k \in Keys \cup {None}
  PROVE  LET b == Moved(a, s, k)
         IN  /\ b \in Asks /\ b.load = a.load /\ b.session = a.session /\ b.seen = a.seen
             /\ b.part = a.part + 1 /\ b.known = [a.known EXCEPT ![s] = k]
<1>1. a.part + 1 \in Nat \ {0} /\ [a.known EXCEPT ![s] = k] \in [Senders -> Keys \cup {None, "unread"}]
    BY DEF Asks
<1> QED  BY <1>1 DEF Moved, Asks

Told(a, s, k) == [a EXCEPT !.seen = a.seen \cup {<<s, k>>}]

(* A link that was seen is added to those seen before.                     *)
LEMMA ToldAsk ==
  ASSUME NEW a \in Asks, NEW s \in Senders, NEW k \in Keys
  PROVE  LET b == Told(a, s, k)
         IN  /\ b \in Asks /\ b.load = a.load /\ b.session = a.session
             /\ b.seen = a.seen \cup {<<s, k>>} /\ b.part = a.part /\ b.known = a.known
BY DEF Told, Asks

(* A payload is a sequence of transactions of known senders.               *)
LEMMA PayloadParts ==
  ASSUME NEW p \in Payloads
  PROVE  /\ Len(p.parts) \in Nat /\ DOMAIN p.parts = 1..Len(p.parts)
         /\ p.parts # <<>> => 1 \in DOMAIN p.parts
         /\ \A k \in DOMAIN p.parts : p.parts[k].sender \in Senders
<1>1. p.parts \in Seq({p.parts[k] : k \in DOMAIN p.parts})
    BY PayloadsAssumption
<1>2. \A k \in DOMAIN p.parts : p.parts[k].sender \in Senders
    BY PayloadsAssumption
<1> QED  BY <1>1, <1>2

-----------------------------------------------------------------------------
(* Nothing was posted at first.                                            *)
LEMMA GatewayInvInit == Init => GatewayInv
<1> SUFFICES ASSUME Init PROVE GatewayInv
    OBVIOUS
<1>1. AuthInv
    BY AuthInvInit DEF Init
<1>2. RequestTypes
    BY NoAskType, LinksAssumption DEF Init, RequestTypes, Stages, Statuses, Decided
<1>3. \A r \in Requests : RequestSound(r)
    BY DEF Init, RequestSound, Unsent, Validating, Remembers, Progressed, SentVetted, Reached, Truthful
<1> QED  BY <1>1, <1>2, <1>3 DEF GatewayInv

(* The sign-ins do not depend on the requests.                             *)
LEMMA FaultKeepsAuth ==
  ASSUME AuthInv, Fault, UNCHANGED <<now, minted, items, flow, cookie, spent, lastIn>>
  PROVE  AuthInv'
<1>1. now' = now /\ minted' = minted /\ faults < MaxFaults /\ faults' = faults + 1
    BY DEF Fault
<1>2. Clocks'
    BY <1>1, AuthAssumption DEF Clocks, AuthInv, Typed
<1> QED  BY <1>2 DEF AuthInv, Typed, Stores, Flows, Sessions, StoreClean, FlowsTrue, Running,
                     TokensBacked, Backed, Nonces

(* Every step of the whole is one of signing in or leaves it alone, but a  *)
(* restart of the execution gateway counts as a fault.                     *)
LEMMA AuthSteps == [Next]_vars => [AuthNext]_authVars \/ ExecutionRestarts
<1> SUFFICES ASSUME [Next]_vars PROVE [AuthNext]_authVars \/ ExecutionRestarts
    OBVIOUS
<1>1. CASE UNCHANGED vars
    BY <1>1 DEF vars, authVars
<1>2. CASE SignIn
    BY <1>2 DEF SignIn, AuthNext
<1>3. CASE EdgeRestarts
    BY <1>3 DEF EdgeRestarts, AuthNext
<1>4. ASSUME NEW r \in Requests, EdgeTimeout(r) \/ HandlerDropped(r) \/ Handler(r) \/ EngineTakes(r)
      PROVE  UNCHANGED authVars
    BY <1>4 DEF EdgeTimeout, HandlerDropped, Handler, Contracts, CheckPart, ForwardFails,
                ForwardAnswered, EngineTakes
<1>5. ASSUME NEW r \in Requests, NEW p \in Payloads, Post(r, p)
      PROVE  UNCHANGED authVars
    BY <1>5 DEF Post
<1>6. ASSUME NEW s \in Senders, NEW k \in Keys \cup {None}, LinkChanges(s, k)
      PROVE  UNCHANGED authVars
    BY <1>6 DEF LinkChanges
<1> QED  BY <1>1, <1>2, <1>3, <1>4, <1>5, <1>6 DEF Next

(* Every step of the composition keeps the invariant of signing in.        *)
LEMMA AuthKept ==
  ASSUME AuthInv, [Next]_vars
  PROVE  AuthInv'
<1>1. CASE [AuthNext]_authVars
    BY <1>1, AuthInvStep
<1>2. CASE ExecutionRestarts
    BY <1>2, FaultKeepsAuth DEF ExecutionRestarts
<1> QED  BY <1>1, <1>2, AuthSteps

-----------------------------------------------------------------------------
(* What was sent stays vetted.                                             *)
LEMMA SentKept ==
  ASSUME NEW r \in Requests, SentVetted(r), sent'[r] = sent[r], Reached(r)' => Reached(r)
  PROVE  SentVetted(r)'
<1> SUFFICES ASSUME Reached(r)' PROVE SentVetted(r)'
    BY DEF SentVetted
<1>1. sent[r].load \in Payloads /\ Parts(r) # {} /\ \A x \in Parts(r) : Vetted(sent[r], x)
    BY DEF SentVetted
<1>2. Parts(r)' = Parts(r)
    BY DEF Parts
<1> QED  BY <1>1, <1>2 DEF SentVetted, Vetted

(* A step that leaves a request and the links alone leaves it sound.       *)
LEMMA OthersKeep ==
  ASSUME NEW r \in Requests, RequestSound(r),
         stage'[r] = stage[r], ask'[r] = ask[r], engine'[r] = engine[r],
         sent'[r] = sent[r], told'[r] = told[r], linked' = linked
  PROVE  RequestSound(r)'
BY DEF RequestSound, Unsent, Validating, Remembers, LinkedNow, Progressed, SentVetted, Reached,
       Parts, Vetted, Truthful

(* When a handler is through with a request, what it knew is gone.         *)
LEMMA EndedKeeps ==
  ASSUME NEW r \in Requests, RequestSound(r), stage'[r] \in {"answered", "dropped"},
         engine'[r] = engine[r], sent'[r] = sent[r], Truthful(r)'
  PROVE  RequestSound(r)'
BY DEF RequestSound, Unsent, Validating, Remembers, Progressed, SentVetted, Reached, Parts, Vetted

(* An answer is true when the request never reached the engine, or the     *)
(* status leaves its outcome open, or the engine has decided.              *)
LEMMA AnswerKeeps ==
  ASSUME RequestTypes, NEW r \in Requests, \A q \in Requests : RequestSound(q),
         NEW status \in {"200", "400", "401", "403", "502"}, Answer(r, status),
         UNCHANGED <<engine, sent, linked, links>>,
         \/ status = "502"
         \/ status = "200" /\ engine[r] \in {"accepted", "rejected"}
         \/ status \in {"400", "401", "403"} /\ engine[r] = "none"
  PROVE  RequestTypes' /\ \A q \in Requests : RequestSound(q)'
<1>1. /\ stage' = [stage EXCEPT ![r] = "answered"] /\ ask' = [ask EXCEPT ![r] = NoAsk]
      /\ told' = [told EXCEPT ![r] = IF @ = "nothing" THEN status ELSE @]
    BY DEF Answer, EndAs, Tell
<1>2. RequestTypes'
    BY <1>1, NoAskType DEF RequestTypes, Stages, Statuses
<1>3. RequestSound(r)'
  <2>1. Truthful(r)'
      BY <1>1 DEF RequestTypes, Truthful, RequestSound
  <2> QED  BY <1>1, <2>1, EndedKeeps DEF RequestTypes
<1>4. ASSUME NEW q \in Requests, q # r PROVE RequestSound(q)'
    BY <1>1, <1>4, OthersKeep DEF RequestTypes
<1> QED  BY <1>2, <1>3, <1>4

(* A posted request is refused for its session or begins its validation.   *)
LEMMA PostKeeps ==
  ASSUME RequestTypes, \A q \in Requests : RequestSound(q), Sessions,
         NEW r \in Requests, NEW p \in Payloads, Post(r, p)
  PROVE  RequestTypes' /\ \A q \in Requests : RequestSound(q)'
<1>1. engine[r] = "none" /\ UNCHANGED <<engine, sent, linked, links>>
    BY DEF Post, RequestSound, Unsent
<1>2. CASE Answer(r, "401")
    BY <1>1, <1>2, AnswerKeeps
<1>3. CASE SessionAddress # None /\ ~Answer(r, "401")
  <2> DEFINE b == [load |-> p, session |-> SessionAddress, part |-> 1, known |-> Unread, seen |-> LinkedNow]
  <2>1. SessionAddress \in Accounts
      BY <1>3 DEF SessionAddress, Sessions
  <2>2. /\ stage' = [stage EXCEPT ![r] = "contracts"] /\ told' = told
        /\ ask' = [ask EXCEPT ![r] = b]
      BY <1>3 DEF Post, NoAsk
  <2>3. b \in Asks /\ b.load = p /\ b.seen = LinkedNow /\ b.known = Unread /\ b.part = 1
      BY <2>1, PostedAsk
  <2> HIDE DEF b
  <2>4. RequestTypes'
      BY <1>1, <2>2, <2>3 DEF RequestTypes, Stages
  <2>5. RequestSound(r)'
    <3>1. stage'[r] = "contracts" /\ ask'[r] = b /\ stage[r] = "off" /\ LinkedNow' = LinkedNow
        BY <1>1, <2>2 DEF RequestTypes, LinkedNow, Post
    <3>2. Remembers(r)'
        BY <2>3, <3>1, LinksAssumption DEF Remembers, Validating, Unread
    <3>3. Truthful(r)'
        BY <1>1, <2>2, <3>1 DEF Truthful, RequestSound
    <3> QED  BY <1>1, <3>1, <3>2, <3>3 DEF RequestSound, Unsent, Validating, Progressed, SentVetted, Reached, Parts
  <2>6. ASSUME NEW q \in Requests, q # r PROVE RequestSound(q)'
      BY <1>1, <2>2, <2>6, OthersKeep DEF RequestTypes
  <2> QED  BY <2>4, <2>5, <2>6
<1> QED  BY <1>2, <1>3 DEF Post

(* A timeout or a dropped handler leaves the request to the engine's       *)
(* decision.                                                               *)
LEMMA TimeoutKeeps ==
  ASSUME RequestTypes, \A q \in Requests : RequestSound(q),
         NEW r \in Requests, EdgeTimeout(r) \/ HandlerDropped(r)
  PROVE  RequestTypes' /\ \A q \in Requests : RequestSound(q)'
<1>1. CASE EdgeTimeout(r)
  <2>1. told' = [told EXCEPT ![r] = "502"] /\ UNCHANGED <<stage, ask, engine, sent, linked, links>>
      BY <1>1 DEF EdgeTimeout, Tell, RequestTypes
  <2>2. RequestTypes'
      BY <2>1 DEF RequestTypes, Statuses
  <2>3. ASSUME NEW q \in Requests, q # r PROVE RequestSound(q)'
      BY <2>1, <2>3, OthersKeep DEF RequestTypes
  <2>4. RequestSound(r)'
    <3>1. told'[r] = "502"
        BY <2>1 DEF RequestTypes
    <3>2. SentVetted(r)'
        BY <2>1, SentKept DEF RequestSound, Reached
    <3> QED  BY <2>1, <3>1, <3>2 DEF RequestSound, Unsent, Validating, Remembers, LinkedNow, Progressed,
                Vetted, Truthful
  <2> QED  BY <2>2, <2>3, <2>4
<1>2. CASE HandlerDropped(r)
  <2>1. /\ stage' = [stage EXCEPT ![r] = "dropped"] /\ ask' = [ask EXCEPT ![r] = NoAsk]
        /\ UNCHANGED <<engine, sent, told, linked, links>>
      BY <1>2 DEF HandlerDropped, EndAs
  <2>2. RequestTypes'
      BY <2>1, NoAskType DEF RequestTypes, Stages
  <2>3. ASSUME NEW q \in Requests, q # r PROVE RequestSound(q)'
      BY <2>1, <2>3, OthersKeep DEF RequestTypes
  <2>4. stage'[r] = "dropped" /\ Truthful(r)'
      BY <2>1 DEF RequestTypes, RequestSound, Truthful
  <2> QED  BY <2>1, <2>2, <2>3, <2>4, EndedKeeps
<1> QED  BY <1>1, <1>2

(* Once the contracts are read the payload is refused or its parts come    *)
(* next.                                                                   *)
LEMMA ContractsKeep ==
  ASSUME RequestTypes, \A q \in Requests : RequestSound(q), NEW r \in Requests, Contracts(r)
  PROVE  RequestTypes' /\ \A q \in Requests : RequestSound(q)'
<1>1. /\ stage[r] = "contracts" /\ engine[r] = "none" /\ ask[r].load \in Payloads
      /\ UNCHANGED <<engine, sent, linked, links>>
    BY DEF Contracts, RequestSound, Unsent, Remembers, Validating
<1>2. CASE \E status \in {"400", "403", "502"} : Answer(r, status)
    BY <1>1, <1>2, AnswerKeeps
<1>3. CASE RefusedAtOnce(ask[r].load) = "no" /\ stage' = [stage EXCEPT ![r] = "checking"] /\ UNCHANGED <<ask, told>>
  <2>1. RequestTypes'
      BY <1>1, <1>3 DEF RequestTypes, Stages
  <2>2. ASSUME NEW q \in Requests, q # r PROVE RequestSound(q)'
      BY <1>1, <1>3, <2>2, OthersKeep DEF RequestTypes
  <2>3. RequestSound(r)'
    <3>1. stage'[r] = "checking"
        BY <1>3 DEF RequestTypes
    <3>2. ask[r].load.parts # <<>>
        BY <1>1, <1>3, PayloadsAssumption DEF RefusedAtOnce
    <3>3. ask[r].part = 1
        BY <1>1 DEF RequestSound, Remembers, Validating
    <3>4. Progressed(r)'
        BY <1>1, <1>3, <3>1, <3>2, <3>3, PayloadParts DEF Progressed
    <3> QED  BY <1>1, <1>3, <3>1, <3>4 DEF RequestSound, Unsent, Validating, Remembers, LinkedNow,
                SentVetted, Reached, Parts, Vetted, Truthful
  <2> QED  BY <2>1, <2>2, <2>3
<1> QED  BY <1>2, <1>3 DEF Contracts, RefusedAtOnce

(* Checking one part: what lets the handler go on makes the part vetted,   *)
(* by the owner's signature, a key remembered, or the key linked now.      *)
LEMMA CheckKeeps ==
  ASSUME RequestTypes, \A q \in Requests : RequestSound(q), NEW r \in Requests, CheckPart(r)
  PROVE  RequestTypes' /\ \A q \in Requests : RequestSound(q)'
<1> DEFINE a == ask[r]
           x == PartInHand(r)
           s == x.sender
           signer == KnownSigner(r, s)
           signed == x.signer = owner_from_subaccount(s) \/ (signer # None /\ x.signer = signer)
           last == a.part = Len(a.load.parts)
<1>1. /\ stage[r] = "checking" /\ engine[r] = "none" /\ a \in Asks /\ a.load \in Payloads
      /\ a.part \in DOMAIN a.load.parts /\ LinkedNow \subseteq a.seen
      /\ \A q \in Senders : a.known[q] \in Keys => <<q, a.known[q]>> \in a.seen
      /\ \A k \in DOMAIN a.load.parts : k < a.part => Vetted(a, a.load.parts[k])
      /\ UNCHANGED <<linked, links>>
    BY DEF CheckPart, RequestSound, Unsent, Remembers, Validating, Progressed, RequestTypes
<1>2. x = a.load.parts[a.part] /\ s \in Senders
    BY <1>1, PayloadParts DEF PartInHand
<1>3. signer \in Keys \cup {None} /\ (signer # None => <<s, signer>> \in a.seen)
  <2>1. a.known[s] \in Keys \cup {None, "unread"} /\ linked[s] \in Keys \cup {None}
      BY <1>1, <1>2 DEF Asks, RequestTypes
  <2>2. CASE a.known[s] = "unread"
    <3>1. signer = linked[s]
        BY <2>2 DEF KnownSigner
    <3>2. linked[s] # None => <<s, linked[s]>> \in LinkedNow
        BY <1>2 DEF LinkedNow
    <3> QED  BY <1>1, <2>1, <3>1, <3>2
  <2>3. CASE a.known[s] # "unread"
    <3>1. signer = a.known[s]
        BY <2>3 DEF KnownSigner
    <3> QED  BY <1>1, <1>2, <2>1, <2>3, <3>1
  <2> QED  BY <2>2, <2>3
<1>4. RefusedPart(r) = "no" /\ signed => Vetted(a, x)
    BY <1>3 DEF RefusedPart, BadOwner, Vetted
<1>5. \/ \E status \in {"400", "403", "502"} : Answer(r, status) /\ UNCHANGED <<engine, sent>>
      \/ /\ RefusedPart(r) = "no" /\ signed /\ ~last
         /\ ask' = [ask EXCEPT ![r].known[s] = signer, ![r].part = @ + 1]
         /\ UNCHANGED <<stage, engine, sent, told>>
      \/ /\ RefusedPart(r) = "no" /\ signed /\ last
         /\ stage' = [stage EXCEPT ![r] = "forwarded"]
         /\ engine' = [engine EXCEPT ![r] = "sent"]
         /\ sent' = [sent EXCEPT ![r] = a]
         /\ UNCHANGED <<ask, told>>
  <2>1. RefusedPart(r) \in {"400", "403", "no"}
      BY DEF RefusedPart
  <2> QED  BY <2>1 DEF CheckPart
<1>6. CASE \E status \in {"400", "403", "502"} : Answer(r, status) /\ UNCHANGED <<engine, sent>>
    BY <1>1, <1>6, AnswerKeeps
<1>7. CASE /\ RefusedPart(r) = "no" /\ signed /\ ~last
           /\ ask' = [ask EXCEPT ![r].known[s] = signer, ![r].part = @ + 1]
           /\ UNCHANGED <<stage, engine, sent, told>>
  <2> DEFINE b == Moved(a, s, signer)
  <2>1. ask' = [ask EXCEPT ![r] = b]
      BY <1>7, <1>1 DEF RequestTypes, Asks, Moved
  <2>2. /\ b \in Asks /\ b.load = a.load /\ b.session = a.session /\ b.seen = a.seen
        /\ b.part = a.part + 1 /\ b.known = [a.known EXCEPT ![s] = signer]
    <3> HIDE DEF a, s, signer
    <3>1. a \in Asks /\ s \in Senders /\ signer \in Keys \cup {None}
        BY <1>1, <1>2, <1>3
    <3> QED  BY <3>1, MovedAsk
  <2> HIDE DEF b
  <2>3. ask'[r] = b /\ (\A q \in Requests : q # r => ask'[q] = ask[q]) /\ RequestTypes'
      BY <1>1, <1>7, <2>1, <2>2 DEF RequestTypes
  <2>4. ASSUME NEW q \in Requests, q # r PROVE RequestSound(q)'
      BY <1>1, <1>7, <2>3, <2>4, OthersKeep
  <2>5. Remembers(r)'
    <3>1. \A q \in Senders : b.known[q] \in Keys => <<q, b.known[q]>> \in a.seen
        BY <1>1, <1>3, <2>2, LinksAssumption DEF Asks
    <3> QED  BY <1>1, <1>7, <2>2, <2>3, <3>1 DEF Remembers, LinkedNow
  <2>6. Progressed(r)'
    <3>1. a.part + 1 \in DOMAIN a.load.parts /\ \A k \in DOMAIN a.load.parts : k \in Nat
        BY <1>1, <1>7, PayloadParts
    <3>2. \A k \in DOMAIN a.load.parts : k < a.part + 1 => Vetted(a, a.load.parts[k])
      <4>1. a.part \in Nat /\ Vetted(a, a.load.parts[a.part])
          BY <1>1, <1>2, <1>4, <1>7, <3>1
      <4>2. ASSUME NEW k \in DOMAIN a.load.parts, k < a.part + 1 PROVE k < a.part \/ k = a.part
          BY <3>1, <4>1, <4>2
      <4> HIDE DEF a, x, s, signer, signed
      <4> QED  BY <1>1, <4>1, <4>2
    <3>3. \A y : Vetted(a, y) => Vetted(b, y)
        BY <2>2 DEF Vetted
    <3>4. \A k \in DOMAIN b.load.parts : k < b.part => Vetted(b, b.load.parts[k])
        BY <2>2, <3>2, <3>3
    <3> QED  BY <1>7, <2>2, <2>3, <3>1, <3>4 DEF Progressed, Vetted
  <2>7. RequestSound(r)'
    <3>1. stage' = stage /\ engine' = engine /\ sent' = sent /\ told' = told
        BY <1>7
    <3>2. Unsent(r)' /\ SentVetted(r)' /\ Truthful(r)'
        BY <3>1 DEF RequestSound, Unsent, Validating, SentVetted, Reached, Parts, Vetted, Truthful
    <3> QED  BY <2>5, <2>6, <3>2 DEF RequestSound
  <2> QED  BY <2>3, <2>4, <2>7
<1>8. CASE /\ RefusedPart(r) = "no" /\ signed /\ last
           /\ stage' = [stage EXCEPT ![r] = "forwarded"]
           /\ engine' = [engine EXCEPT ![r] = "sent"]
           /\ sent' = [sent EXCEPT ![r] = a]
           /\ UNCHANGED <<ask, told>>
  <2>1. RequestTypes'
      BY <1>1, <1>8 DEF RequestTypes, Stages, Decided
  <2>2. ASSUME NEW q \in Requests, q # r PROVE RequestSound(q)'
      BY <1>1, <1>8, <2>2, OthersKeep DEF RequestTypes
  <2>3. stage'[r] = "forwarded" /\ engine'[r] = "sent" /\ sent'[r] = a /\ told'[r] = told[r]
      BY <1>8 DEF RequestTypes
  <2>4. \A k \in DOMAIN a.load.parts : Vetted(a, a.load.parts[k])
    <3>1. \A k \in DOMAIN a.load.parts : k \in Nat /\ (k < a.part \/ k = a.part)
      <4> DEFINE n == Len(a.load.parts)
      <4>1. n \in Nat /\ DOMAIN a.load.parts = 1..n
          BY <1>1, PayloadParts
      <4>2. a.part = n
          BY <1>8
      <4> HIDE DEF n
      <4> QED  BY ONLY <4>1, <4>2
    <3> QED  BY <1>1, <1>2, <1>4, <1>8, <3>1
  <2>5. SentVetted(r)'
    <3>1. Parts(r)' = {a.load.parts[k] : k \in DOMAIN a.load.parts}
        BY <2>3 DEF Parts
    <3>2. a.load \in Payloads /\ Parts(r)' # {}
        BY <1>1, <3>1
    <3> QED  BY <2>3, <2>4, <3>1, <3>2 DEF SentVetted, Vetted
  <2>6. Truthful(r)'
      BY <1>1, <2>3 DEF Truthful, RequestSound
  <2> QED  BY <2>1, <2>2, <2>3, <2>5, <2>6 DEF RequestSound, Unsent, Validating, Remembers, Progressed
<1> QED  BY <1>5, <1>6, <1>7, <1>8

(* What the engine answered, or failed to, ends the request.               *)
LEMMA ForwardKeeps ==
  ASSUME RequestTypes, \A q \in Requests : RequestSound(q),
         NEW r \in Requests, ForwardFails(r) \/ ForwardAnswered(r)
  PROVE  RequestTypes' /\ \A q \in Requests : RequestSound(q)'
BY AnswerKeeps DEF ForwardFails, ForwardAnswered

(* The engine decides about a request once.                                *)
LEMMA EngineKeeps ==
  ASSUME RequestTypes, \A q \in Requests : RequestSound(q), NEW r \in Requests, EngineTakes(r)
  PROVE  RequestTypes' /\ \A q \in Requests : RequestSound(q)'
<1>1. PICK verdict \in {"accepted", "rejected"} : engine' = [engine EXCEPT ![r] = verdict]
    BY DEF EngineTakes
<1>2. engine[r] = "sent" /\ UNCHANGED <<stage, ask, sent, told, linked, links>>
    BY DEF EngineTakes
<1>3. RequestTypes'
    BY <1>1, <1>2 DEF RequestTypes, Decided
<1>4. ASSUME NEW q \in Requests, q # r PROVE RequestSound(q)'
    BY <1>1, <1>2, <1>4, OthersKeep DEF RequestTypes
<1>5. RequestSound(r)'
  <2>1. engine'[r] = verdict
      BY <1>1 DEF RequestTypes
  <2>2. SentVetted(r)'
      BY <1>2, SentKept DEF RequestSound, Reached
  <2> QED  BY <1>2, <2>1, <2>2 DEF RequestSound, Unsent, Validating, Remembers, LinkedNow, Progressed,
              Vetted, Truthful
<1> QED  BY <1>3, <1>4, <1>5

(* A link that appears while a request is validated is seen by it.         *)
LEMMA LinkKeeps ==
  ASSUME RequestTypes, \A q \in Requests : RequestSound(q),
         NEW s \in Senders, NEW k \in Keys \cup {None}, LinkChanges(s, k)
  PROVE  RequestTypes' /\ \A q \in Requests : RequestSound(q)'
<1>1. /\ links < MaxLinks /\ links' = links + 1 /\ linked' = [linked EXCEPT ![s] = k]
      /\ ask' = [r \in Requests |-> IF Validating(r) /\ k # None THEN Told(ask[r], s, k) ELSE ask[r]]
      /\ UNCHANGED <<stage, engine, sent, told>>
    BY DEF LinkChanges, Validating, Told
<1>2. ASSUME NEW r \in Requests
      PROVE  /\ ask'[r] \in Asks /\ ask'[r].load = ask[r].load /\ ask'[r].session = ask[r].session
             /\ ask'[r].part = ask[r].part /\ ask'[r].known = ask[r].known
             /\ ask[r].seen \subseteq ask'[r].seen
             /\ Validating(r) /\ k # None => <<s, k>> \in ask'[r].seen
  <2>1. CASE Validating(r) /\ k # None
    <3>1. ask'[r] = Told(ask[r], s, k) /\ ask[r] \in Asks /\ k \in Keys
        BY <1>1, <2>1 DEF RequestTypes
    <3> QED  BY <3>1, ToldAsk
  <2>2. CASE ~(Validating(r) /\ k # None)
      BY <1>1, <2>2 DEF RequestTypes
  <2> QED  BY <2>1, <2>2
<1>3. RequestTypes'
  <2>1. ask' \in [Requests -> Asks]
      BY <1>1, <1>2
  <2>2. links' \in 0..MaxLinks
      BY <1>1, LinksAssumption DEF RequestTypes
  <2> QED  BY <1>1, <2>1, <2>2 DEF RequestTypes
<1>4. ASSUME NEW e \in LinkedNow' PROVE e \in LinkedNow \/ (k # None /\ e = <<s, k>>)
  <2>1. PICK q \in Senders : linked'[q] # None /\ e = <<q, linked'[q]>>
      BY <1>4 DEF LinkedNow
  <2>2. linked'[q] = IF q = s THEN k ELSE linked[q]
      BY <1>1 DEF RequestTypes
  <2> QED  BY <2>1, <2>2 DEF LinkedNow
<1>5. ASSUME NEW r \in Requests PROVE RequestSound(r)'
  <2>1. Unsent(r)' /\ SentVetted(r)' /\ Truthful(r)'
      BY <1>1, SentKept DEF RequestSound, Unsent, Validating, Reached, Truthful
  <2>2. Remembers(r)'
    <3> SUFFICES ASSUME Validating(r) PROVE Remembers(r)'
        BY <1>1 DEF Remembers, Validating
    <3>1. LinkedNow \subseteq ask'[r].seen
        BY <1>2 DEF RequestSound, Remembers
    <3>2. LinkedNow' \subseteq ask'[r].seen
        BY <1>2, <1>4, <3>1
    <3> QED  BY <1>1, <1>2, <3>2 DEF RequestSound, Remembers
  <2>3. Progressed(r)'
    <3>1. \A x : Vetted(ask[r], x) => Vetted(ask'[r], x)
        BY <1>2 DEF Vetted
    <3>2. Progressed(r) /\ stage'[r] = stage[r] /\ ask'[r].load = ask[r].load /\ ask'[r].part = ask[r].part
        BY <1>1, <1>2 DEF RequestSound
    <3> QED  BY <3>1, <3>2 DEF Progressed, Vetted
  <2> QED  BY <2>1, <2>2, <2>3 DEF RequestSound
<1> QED  BY <1>3, <1>5

(* A restart ends the handlers, or only the waits of the pages.            *)
LEMMA RestartsKeep ==
  ASSUME RequestTypes, \A q \in Requests : RequestSound(q), EdgeRestarts \/ ExecutionRestarts
  PROVE  RequestTypes' /\ \A q \in Requests : RequestSound(q)'
<1>1. CASE EdgeRestarts
  <2>1. UNCHANGED <<stage, ask, engine, sent, linked, links>>
        /\ told' = [r \in Requests |-> IF InHand(r) /\ told[r] = "nothing" THEN "lost" ELSE told[r]]
      BY <1>1 DEF EdgeRestarts
  <2>2. RequestTypes'
      BY <2>1 DEF RequestTypes, Statuses
  <2>3. ASSUME NEW r \in Requests PROVE RequestSound(r)'
    <3>1. told'[r] = told[r] \/ told'[r] = "lost"
        BY <2>1
    <3>2. SentVetted(r)'
        BY <2>1, SentKept DEF RequestSound, Reached
    <3> QED  BY <2>1, <3>1, <3>2 DEF RequestSound, Unsent, Validating, Remembers, LinkedNow, Progressed,
                Vetted, Truthful
  <2> QED  BY <2>2, <2>3
<1>2. CASE ExecutionRestarts
  <2>1. /\ stage' = [r \in Requests |-> IF InHand(r) THEN "dropped" ELSE stage[r]]
        /\ ask' = [r \in Requests |-> IF InHand(r) THEN NoAsk ELSE ask[r]]
        /\ told' = [r \in Requests |-> IF InHand(r) /\ told[r] = "nothing" THEN "502" ELSE told[r]]
        /\ UNCHANGED <<engine, sent, linked, links>>
      BY <1>2 DEF ExecutionRestarts
  <2>2. RequestTypes'
      BY <2>1, NoAskType DEF RequestTypes, Stages, Statuses
  <2>3. ASSUME NEW r \in Requests PROVE RequestSound(r)'
    <3>1. CASE InHand(r)
      <4>1. stage'[r] = "dropped" /\ told'[r] \in {told[r], "502"}
          BY <2>1, <3>1
      <4>2. Truthful(r)'
          BY <2>1, <4>1 DEF RequestSound, Truthful
      <4> QED  BY <2>1, <4>1, <4>2, EndedKeeps
    <3>2. CASE ~InHand(r)
        BY <2>1, <3>2, OthersKeep
    <3> QED  BY <3>1, <3>2
  <2> QED  BY <2>2, <2>3
<1> QED  BY <1>1, <1>2

-----------------------------------------------------------------------------
(* Every step keeps the invariant: one of signing in, a request's, the     *)
(* engine's, or a fault.                                                   *)
LEMMA GatewayInvStep == GatewayInv /\ [Next]_vars => GatewayInv'
<1> SUFFICES ASSUME GatewayInv, [Next]_vars PROVE GatewayInv'
    OBVIOUS
<1>1. AuthInv /\ Sessions /\ RequestTypes /\ \A q \in Requests : RequestSound(q)
    BY DEF GatewayInv, AuthInv, Typed
<1>2. AuthInv'
    BY <1>1, AuthKept
<1>3. CASE UNCHANGED requestVars
  <2>1. UNCHANGED <<stage, ask, engine, sent, told, linked, links>>
      BY <1>3 DEF requestVars
  <2>2. RequestTypes'
      BY <1>1, <2>1 DEF RequestTypes
  <2>3. ASSUME NEW r \in Requests PROVE RequestSound(r)'
      BY <1>1, <2>1, OthersKeep
  <2> QED  BY <1>2, <2>2, <2>3 DEF GatewayInv
<1>4. ASSUME NEW r \in Requests, EdgeTimeout(r) \/ HandlerDropped(r) \/ Handler(r) \/ EngineTakes(r)
      PROVE  GatewayInv'
    BY <1>1, <1>2, <1>4, TimeoutKeeps, ContractsKeep, CheckKeeps, ForwardKeeps, EngineKeeps
    DEF Handler, GatewayInv
<1>5. ASSUME NEW r \in Requests, NEW p \in Payloads, Post(r, p) PROVE GatewayInv'
    BY <1>1, <1>2, <1>5, PostKeeps DEF GatewayInv
<1>6. ASSUME NEW s \in Senders, NEW k \in Keys \cup {None}, LinkChanges(s, k) PROVE GatewayInv'
    BY <1>1, <1>2, <1>6, LinkKeeps DEF GatewayInv
<1>7. CASE EdgeRestarts \/ ExecutionRestarts
    BY <1>1, <1>2, <1>7, RestartsKeep DEF GatewayInv
<1>8. SignIn \/ UNCHANGED vars => UNCHANGED requestVars
    BY DEF SignIn, vars
<1> QED  BY <1>3, <1>4, <1>5, <1>6, <1>7, <1>8 DEF Next

(* The invariant holds in every reachable state.                           *)
LEMMA GatewayInvAlways == Spec => []GatewayInv
<1> QED  BY GatewayInvInit, GatewayInvStep, PTL DEF Spec

(* Every variable keeps its type (SessionAuth and ExecutionGateway).       *)
THEOREM TypeCorrect == Spec => []TypeOK
<1>1. GatewayInv => TypeOK
    BY TypesMeet DEF GatewayInv, AuthInv
<1> QED  BY <1>1, GatewayInvAlways, PTL

(* A nonce lets one sign-in through (nonceStore.take).                     *)
THEOREM NoncesAreUsedOnce == Spec => []NonceOnce
<1>1. GatewayInv => NonceOnce
    BY InvNonceOnce DEF GatewayInv
<1> QED  BY <1>1, GatewayInvAlways, PTL

(* A session is never older than its token's life, whatever restarts,      *)
(* other tabs and late answers do to the cookie (issueJWT).                *)
THEOREM SessionsAreRecent == Spec => []SessionRecent
<1>1. GatewayInv => SessionRecent
    BY InvSessionRecent DEF GatewayInv
<1> QED  BY <1>1, GatewayInvAlways, PTL

(* No sign-in is granted on an expired nonce (nonceStore.take).            *)
THEOREM NoncesAreFresh == Spec => NonceFresh
<1>1. GatewayInv /\ [Next]_vars =>
        [\A t \in Tabs : (flow'[t].at = "granted" /\ flow[t].at # "granted")
                          => now - flow[t].born <= NonceTTL]_authVars
  <2> SUFFICES ASSUME GatewayInv, [Next]_vars, NEW t \in Tabs,
                      flow'[t].at = "granted", flow[t].at # "granted"
               PROVE  now - flow[t].born <= NonceTTL
      OBVIOUS
  <2>1. AuthInv
      BY DEF GatewayInv
  <2>2. ~ExecutionRestarts
      BY DEF ExecutionRestarts
  <2> QED  BY <2>1, <2>2, AuthSteps, StepNonceFresh
<1> QED  BY <1>1, GatewayInvAlways, PTL DEF Spec, NonceFresh

(* Whatever reaches the engine is the session's own, in every part         *)
(* (validate_sender_and_signer).                                           *)
THEOREM OnlyOwnOrders == Spec => []OwnOrdersOnly
<1>1. GatewayInv => OwnOrdersOnly
    BY DEF GatewayInv, RequestSound, SentVetted, Vetted, OwnOrdersOnly
<1> QED  BY <1>1, GatewayInvAlways, PTL

(* It is signed by the owner or by a key linked during the validation      *)
(* (linked_signer_for_sender).                                             *)
THEOREM SignersWereLinked == Spec => []SignerWasLinked
<1>1. GatewayInv => SignerWasLinked
    BY DEF GatewayInv, RequestSound, SentVetted, Vetted, SignerWasLinked
<1> QED  BY <1>1, GatewayInvAlways, PTL

(* What a page is told of its request is true (proxyWithSession).          *)
THEOREM StatusesAreTruthful == Spec => []StatusTruthful
<1>1. GatewayInv => StatusTruthful
    BY DEF GatewayInv, RequestSound, Truthful, StatusTruthful
<1> QED  BY <1>1, GatewayInvAlways, PTL

(* No FOK, no TWAP, each trigger through its own endpoint, and no empty    *)
(* batch (ensure_supported_regular_order, ensure_supported_trigger_order), *)
(* for any 128 bits that any page posts.                                   *)
THEOREM PolicyIsKept == Spec => []PolicyKept
<1>1. ASSUME GatewayInv PROVE PolicyKept
  <2> SUFFICES ASSUME NEW r \in Requests, Reached(r)
               PROVE  LET trigger == IF sent[r].load.kind \in EngineKinds THEN "none" ELSE "price" IN
                      /\ Parts(r) # {}
                      /\ \A x \in Parts(r) : x.is_order =>
                            /\ order_type_bits(x.appendix) # TypeBits("fok")
                            /\ trigger_type_bits(x.appendix) = KindBits(trigger)
      BY Zenon DEF PolicyKept
  <2> DEFINE kind == sent[r].load.kind
             trigger == IF kind \in EngineKinds THEN "none" ELSE "price"
  <2>1. Parts(r) # {} /\ \A x \in Parts(r) : Supported(kind, x)
      BY <1>1 DEF GatewayInv, RequestSound, SentVetted, Vetted
  <2>2. KindBits(trigger) = IF kind \in EngineKinds THEN {} ELSE {0}
      BY DEF KindBits
  <2>3. TypeBits("fok") = {1}
      BY DEF TypeBits
  <2> HIDE DEF kind
  <2>4. ASSUME NEW x \in Parts(r), x.is_order
        PROVE  order_type_bits(x.appendix) # {1} /\ trigger_type_bits(x.appendix) = KindBits(trigger)
    <3>1. Supported(kind, x)
        BY <2>1, <2>4
    <3> QED  BY <2>2, <2>4, <3>1 DEF Supported, ensure_supported_regular_order,
                                     ensure_supported_trigger_order, OrderTypeSupported
  <2> QED  BY <2>1, <2>3, <2>4 DEF kind
<1> QED  BY <1>1, GatewayInvAlways, PTL

(* The order o, as a page built it, kept the policy on its way.            *)
BuiltPolicyKept(o) ==
    \A r \in Requests : Reached(r) =>
        \A x \in Parts(r) : x.is_order /\ x.appendix = Appendix(o) =>
            /\ o.type # "fok"
            /\ o.trigger = IF sent[r].load.kind \in EngineKinds THEN "none" ELSE "price"

(* The policy holds of the options of every order that the SDK's builder   *)
(* packs, however large its numbers are, if its starting appendix, when    *)
(* the caller gives one, agrees with its options (order_inner,             *)
(* order_type_bits, trigger_type_bits).                                    *)
THEOREM BuiltPolicyIsKept ==
    ASSUME NEW CONSTANT o, o.type \in OrderTypes, o.trigger \in Triggers, o.start = {} \/ StartAgrees(o)
    PROVE  Spec => []BuiltPolicyKept(o)
<1>1. ASSUME PolicyKept PROVE BuiltPolicyKept(o)
  <2> SUFFICES ASSUME NEW r \in Requests, Reached(r), NEW x \in Parts(r), x.is_order, x.appendix = Appendix(o)
               PROVE  /\ o.type # "fok"
                      /\ o.trigger = IF sent[r].load.kind \in EngineKinds THEN "none" ELSE "price"
      BY DEF BuiltPolicyKept
  <2> DEFINE trigger == IF sent[r].load.kind \in EngineKinds THEN "none" ELSE "price"
  <2>1. order_type_bits(x.appendix) # TypeBits("fok") /\ trigger_type_bits(x.appendix) = KindBits(trigger)
      BY <1>1, Zenon DEF PolicyKept
  <2>2. order_type_bits(x.appendix) = TypeBits(o.type) /\ trigger_type_bits(x.appendix) = KindBits(o.trigger)
      BY DecidingBits
  <2>3. trigger \in {"none", "price"}
      OBVIOUS
  <2> HIDE DEF trigger
  <2>4. o.type # "fok"
      BY <2>1, <2>2
  <2>5. KindBits(o.trigger) = KindBits(trigger)
      BY <2>1, <2>2
  <2>6. o.trigger = trigger
      BY <2>3, <2>5 DEF KindBits, Triggers
  <2> QED  BY <2>4, <2>6 DEF trigger
<1> QED  BY <1>1, PolicyIsKept, PTL
=============================================================================
