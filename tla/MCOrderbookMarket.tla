------------------------- MODULE MCOrderbookMarket -------------------------
(* Instances of OrderbookMarket for TLC.                                   *)
EXTENDS OrderbookMarket, TLC

(* The liveness run starts the engine from one full book: recovery does    *)
(* not depend on what the book holds, and the changes empty and refill it. *)
InitFull == Init /\ bookAt = <<[l \in Level |-> MaxSize]>>

FairFromFull == InitFull /\ [][Next]_vars /\ Fairness
=============================================================================
