----------------------------- MODULE LatestView -----------------------------
(***************************************************************************)
(* What a page that follows one account promises its reader, whatever      *)
(* carries the data: it shows values the account really had, it never      *)
(* goes back to an older one, and while it stays open it ends with the     *)
(* newest.  The values are numbered in the order in which they came about. *)
(***************************************************************************)
EXTENDS Integers

VARIABLES truth,  \* the number of the account's present value
          view,   \* the number of the value the page shows, or -1
          open    \* the reader has not left

vars == <<truth, view, open>>

Init == truth = 0 /\ view = -1 /\ open = TRUE

Change ==
    /\ truth' = truth + 1
    /\ UNCHANGED <<view, open>>

Show ==
    /\ open = TRUE
    /\ view' \in (view + 1)..truth
    /\ UNCHANGED <<truth, open>>

Leave ==
    /\ open' = FALSE
    /\ view' = -1
    /\ UNCHANGED truth

Next == Change \/ Show \/ Leave

Spec == Init /\ [][Next]_vars /\ WF_vars(Show)
=============================================================================
