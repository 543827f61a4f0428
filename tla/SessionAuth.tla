---------------------------- MODULE SessionAuth ----------------------------
(***************************************************************************)
(* Signing in to the edge gateway (gateway/main.go, siweAuth.js): the      *)
(* tabs of one browser ask for a nonce, have the wallet sign it, and post  *)
(* it; the gateway takes the nonce from its store and answers with a JWT   *)
(* cookie, which the browser's tabs share.  The gateway may restart, which *)
(* forgets the nonces and keeps the JWT secret.                            *)
(***************************************************************************)
EXTENDS Integers

CONSTANTS Tabs, Accounts,
          NonceTTL, JwtTTL,   \* 10 minutes and 24 hours
          MaxNonces,          \* bound: nonces generated
          MaxClock,           \* bound: ticks of the clock
          MaxFaults           \* bound: restarts, lost answers, repeated posts

ASSUME AuthAssumption ==
    /\ NonceTTL \in Nat \ {0} /\ JwtTTL \in Nat \ {0}
    /\ MaxNonces \in Nat /\ MaxClock \in Nat /\ MaxFaults \in Nat

Nonces == 1..MaxNonces
None == "none"
ASSUME AccountsAssumption == None \notin Accounts

VARIABLES
    now,     \* the gateway's clock
    minted,  \* nonces generated so far; a nonce never repeats
    items,   \* nonceStore.items: expiry by nonce, 0 for a nonce not in it
    flow,    \* flow[t]: where the tab's sign-in is; born is a history variable:
             \* when the nonce was generated
    cookie,  \* the browser's thornado_auth
    spent,   \* history: how often each nonce let a sign-in through
    lastIn,  \* history: when the account last passed verification, or -1
    faults

authVars == <<now, minted, items, flow, cookie, spent, lastIn, faults>>

NoCookie == [account |-> None, exp |-> 0]
Idle == [at |-> "idle", account |-> None, nonce |-> 0, born |-> 0, exp |-> 0]
Step(f, at) == [f EXCEPT !.at = at]

AuthInit ==
    /\ now = 0 /\ minted = 0
    /\ items = [n \in Nonces |-> 0]
    /\ flow = [t \in Tabs |-> Idle]
    /\ cookie = NoCookie
    /\ spent = [n \in Nonces |-> 0]
    /\ lastIn = [a \in Accounts |-> -1]
    /\ faults = 0

Fault == faults < MaxFaults /\ faults' = faults + 1

(* nonceStore.cleanupLocked, under the mutex of put and take.              *)
Cleaned == [n \in Nonces |-> IF now > items[n] THEN 0 ELSE items[n]]

-----------------------------------------------------------------------------
(* getNonce; with a lost answer the nonce stays in the store and the tab   *)
(* reports that it failed.                                                 *)
GetNonce(t, a) ==
    /\ flow[t].at = "idle" /\ minted < MaxNonces
    /\ minted' = minted + 1
    /\ items' = [Cleaned EXCEPT ![minted'] = now + NonceTTL]
    /\ \/ flow' = [flow EXCEPT ![t] = [at |-> "signing", account |-> a, nonce |-> minted',
                                           born |-> now, exp |-> 0]]
          /\ UNCHANGED faults
       \/ Fault /\ UNCHANGED flow
    /\ UNCHANGED <<now, cookie, spent, lastIn>>

(* The wallet signs, badly, or its user declines.                          *)
Sign(t) ==
    /\ flow[t].at = "signing"
    /\ \/ flow' = [flow EXCEPT ![t] = Step(@, "posted")]
       \/ flow' = [flow EXCEPT ![t] = Step(@, "posted badly")]
       \/ flow' = [flow EXCEPT ![t] = Idle]
    /\ UNCHANGED <<now, minted, items, cookie, spent, lastIn, faults>>

(* Slip: a nonce that let a sign-in through stays in the store.            *)
SlipTakeLeaves(n) == Cleaned

(* nonceStore.take                                                         *)
Taken(n) == [Cleaned EXCEPT ![n] = 0]

(* Slip: the expiry is left to the next cleanup, which a put makes.        *)
SlipStored(n) == items[n] # 0

Stored(n) == Cleaned[n] # 0

(* Slip: the token's life is counted from the end of the nonce's.          *)
SlipTokenExpiry(n) == items[n] + JwtTTL

(* issueJWT's ExpiresAt                                                    *)
TokenExpiry(n) == now + JwtTTL

(* postVerify: the nonce is taken first and the signature verified after,  *)
(* so a bad signature uses the nonce up.                                   *)
PostVerify(t) ==
    /\ flow[t].at \in {"posted", "posted badly"}
    /\ LET n       == flow[t].nonce
           granted == Stored(n) /\ flow[t].at = "posted"
       IN  /\ items' = IF Stored(n) THEN Taken(n) ELSE Cleaned
           /\ flow' = [flow EXCEPT ![t] = IF granted
                          THEN [@ EXCEPT !.at = "granted", !.exp = TokenExpiry(n)]
                          ELSE Step(@, "refused")]
           /\ spent' = IF granted THEN [spent EXCEPT ![n] = @ + 1] ELSE spent
           /\ lastIn' = IF granted THEN [lastIn EXCEPT ![flow[t].account] = now] ELSE lastIn
    /\ UNCHANGED <<now, minted, cookie, faults>>

(* The answer arrives, and the browser keeps the cookie that comes with    *)
(* it; or it is lost, and the cookie with it.                              *)
Answered(t) ==
    /\ flow[t].at \in {"granted", "refused"}
    /\ flow' = [flow EXCEPT ![t] = Idle]
    /\ \/ /\ cookie' = IF flow[t].at = "granted"
                       THEN [account |-> flow[t].account, exp |-> flow[t].exp] ELSE cookie
          /\ UNCHANGED faults
       \/ Fault /\ UNCHANGED cookie
    /\ UNCHANGED <<now, minted, items, spent, lastIn>>

(* Something between the browser and the gateway repeats the post.         *)
Repeat(t) ==
    /\ flow[t].at = "granted"
    /\ Fault
    /\ flow' = [flow EXCEPT ![t] = Step(@, "posted")]
    /\ UNCHANGED <<now, minted, items, cookie, spent, lastIn>>

(* postLogout only has the browser delete the cookie.                      *)
Logout ==
    /\ cookie # NoCookie
    /\ cookie' = NoCookie
    /\ UNCHANGED <<now, minted, items, flow, spent, lastIn, faults>>

(* The store is lost, as are the posts under way; the JWT secret is in the *)
(* environment.                                                            *)
Restart ==
    /\ Fault
    /\ items' = [n \in Nonces |-> 0]
    /\ flow' = [t \in Tabs |-> IF flow[t].at \in {"posted", "posted badly", "granted", "refused"}
                               THEN Idle ELSE flow[t]]
    /\ UNCHANGED <<now, minted, cookie, spent, lastIn>>

Tick ==
    /\ now < MaxClock
    /\ now' = now + 1
    /\ UNCHANGED <<minted, items, flow, cookie, spent, lastIn, faults>>

AuthNext ==
    \/ \E t \in Tabs : Sign(t) \/ PostVerify(t) \/ Answered(t) \/ Repeat(t)
                       \/ \E a \in Accounts : GetNonce(t, a)
    \/ Logout \/ Restart \/ Tick

(* parseJWT in requireAuth: the account of a cookie that has not expired.  *)
SessionAddress == IF now < cookie.exp THEN cookie.account ELSE None

-----------------------------------------------------------------------------
AuthTypeOK ==
    /\ now \in 0..MaxClock /\ minted \in 0..MaxNonces /\ faults \in 0..MaxFaults
    /\ items \in [Nonces -> Nat] /\ spent \in [Nonces -> Nat]
    /\ flow \in [Tabs -> [at : {"idle", "signing", "posted", "posted badly", "granted", "refused"},
                          account : Accounts \cup {None}, nonce : {0} \cup Nonces, born : Nat, exp : Nat]]
    /\ cookie \in [account : Accounts \cup {None}, exp : Nat]
    /\ lastIn \in [Accounts -> Int]

(* A nonce lets one sign-in through, however often its post is repeated    *)
(* (docs/AUTH.md: one-time nonce).                                         *)
NonceOnce == \A n \in Nonces : spent[n] <= 1

(* While a session lasts its account has passed verification within       *)
(* JwtTTL: neither a late answer, another tab's sign-in, a logout nor a    *)
(* restart makes a session that is older (issueJWT; docs/AUTH.md: 24h).    *)
SessionRecent ==
    SessionAddress # None => /\ lastIn[SessionAddress] >= 0
                             /\ now - lastIn[SessionAddress] < JwtTTL

(* Whoever is let in by a nonce is let in within NonceTTL of its           *)
(* generation, whether or not a cleanup came in between (nonceStore).      *)
NonceFresh ==
    [][\A t \in Tabs : (flow'[t].at = "granted" /\ flow[t].at # "granted")
                        => now - flow[t].born <= NonceTTL]_authVars
=============================================================================
