---------------------------- MODULE RequestReply ----------------------------
(***************************************************************************)
(* What a client that multiplexes requests over one connection promises    *)
(* its callers: every call returns at most once, with the answer the peer  *)
(* gave to that very request, or with an error; what has returned is not   *)
(* touched again by an answer that comes later.                            *)
(***************************************************************************)
CONSTANTS Ids, Verdicts

VARIABLES call,    \* call[i]: "off", "asked", "failed" or the answer returned
          verdict  \* verdict[i]: the peer's answer to request i, or "none"

vars == <<call, verdict>>

Init ==
    /\ call = [i \in Ids |-> "off"]
    /\ verdict = [i \in Ids |-> "none"]

Ask(i) ==
    /\ call[i] = "off"
    /\ call' = [call EXCEPT ![i] = "asked"]
    /\ UNCHANGED verdict

(* The peer decides once, and also requests whose caller has given up.     *)
Decide(i, v) ==
    /\ call[i] # "off" /\ verdict[i] = "none"
    /\ verdict' = [verdict EXCEPT ![i] = v]
    /\ UNCHANGED call

Return(i) ==
    /\ call[i] = "asked" /\ verdict[i] \in Verdicts
    /\ call' = [call EXCEPT ![i] = verdict[i]]
    /\ UNCHANGED verdict

(* The end of the connection may fail several calls at once.               *)
GiveUp(S) ==
    /\ \A i \in S : call[i] = "asked"
    /\ call' = [i \in Ids |-> IF i \in S THEN "failed" ELSE call[i]]
    /\ UNCHANGED verdict

Next ==
    \/ \E i \in Ids : Ask(i) \/ Return(i)
    \/ \E i \in Ids, v \in Verdicts : Decide(i, v)
    \/ \E S \in SUBSET Ids : GiveUp(S)

Spec == Init /\ [][Next]_vars
=============================================================================
