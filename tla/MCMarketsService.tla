-------------------------- MODULE MCMarketsService --------------------------
(* Instances of MarketsService for TLC.                                    *)
EXTENDS MarketsService, TLC

(* No definition tells one content from another.                           *)
Symmetric == Permutations(Values)
=============================================================================
