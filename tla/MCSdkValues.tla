---------------------------- MODULE MCSdkValues ----------------------------
(* Instances of SdkValues for TLC.                                         *)
EXTENDS SdkValues

(* None; no bit at all; an IOC order; a price trigger; an isolated order;  *)
(* a TWAP order; a reduce-only order with a reserved bit and a builder.    *)
Starts == {{}, {{}}, {{0, 9}}, {{12}}, {{0, 8, 68}}, {{0, 13, 64, 96}}, {{0, 11, 14, 38, 48}}}

(* Fees of 10 bits and builders of 16, and the first numbers beyond.       *)
MCOrders ==
    [type : OrderTypes, trigger : Triggers, reduce_only : BOOLEAN, isolated : BOOLEAN,
     margin : {-1, 70000}, times : {2147483647}, slippage : {0, 7},
     builder : {0, 65535, 65536}, fee : {0, 1023, 1024}, start : Starts]

(* Every pair of integers of the width; the least of them has no negative. *)
MCPairs == (-IMax..IMax) \X (-IMax..IMax)

MCTexts == [negative : BOOLEAN, whole : 0..3, fraction : UNION {[1..n -> 0..9] : n \in 0..3}]
=============================================================================
