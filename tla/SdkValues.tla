----------------------------- MODULE SdkValues -----------------------------
(* The SDK's pure functions, one input at a time.                          *)
EXTENDS OrderAppendix, FixedPoint

CONSTANTS Orders, Pairs, Texts   \* the inputs

(* The numbers of an order are unsigned, its margin is signed: in the      *)
(* models all of them are less than 2^31, the bound of Bit.                *)
Largest == 2^30 + (2^30 - 1)
Number == 0..Largest

ASSUME OrdersAssumption ==
    \A o \in Orders :
        /\ o.type \in OrderTypes /\ o.trigger \in Triggers
        /\ o.reduce_only \in BOOLEAN /\ o.isolated \in BOOLEAN
        /\ {o.times, o.slippage, o.builder, o.fee} \subseteq Number
        /\ o.margin \in -Largest..Largest
        /\ o.start \subseteq SUBSET (0..127) /\ \A s \in o.start : o.start = {s}

(* Every integer but the least, which has no negative.                     *)
ASSUME PairsAssumption == Pairs \subseteq (-IMax..IMax) \X (-IMax..IMax)

(* The last conjunct is arithmetic, as PowersAssumption is.                *)
ASSUME TextsAssumption ==
    \A t \in Texts :
        /\ t.negative \in BOOLEAN /\ t.whole \in Nat /\ t.fraction \in Seq(0..9)
        /\ \A k \in 1..(Digits + Len(t.fraction)) : 10^k = 10 * 10^(k - 1)

VARIABLE input

NoInput == [of |-> "nothing"]

Init == input = NoInput

OrderBuilt == input = NoInput /\ \E o \in Orders : Buildable(o) /\ input' = [of |-> "order", order |-> o]
Computed   == input = NoInput /\ \E p \in Pairs : input' = [of |-> "pair", x |-> p[1], y |-> p[2]]
Parsed     == input = NoInput /\ \E t \in Texts : input' = [of |-> "text", text |-> t]

Next == OrderBuilt \/ Computed \/ Parsed

Spec == Init /\ [][Next]_input

-----------------------------------------------------------------------------
(* order_inner and Order's accessors: no number of an order disturbs the   *)
(* fields that control it, and the order reads back as it was built        *)
(* exactly when its numbers fit their fields and the caller's starting     *)
(* appendix, if there is one, does not contradict the options.             *)
AppendixReadsBack ==
    input.of = "order" =>
        /\ ControlBitsKept(input.order)
        /\ ReadsBack(input.order) <=> InRange(input.order) /\ StartAgrees(input.order)

(* math.rs: mul_x18, div_x18, try_sqrt_x18, spot_round and str_to_x18      *)
(* return what their mathematical definitions say, within the limits that  *)
(* MulExact, DivExact, SqrtLeast, RoundSound and StrExact name.            *)
FixedPointExact ==
    /\ input.of = "pair" => /\ MulExact(input.x, input.y) /\ DivExact(input.x, input.y)
                            /\ SqrtLeast(input.x) /\ RoundSound(input.x)
    /\ input.of = "text" => StrExact(input.text)

(* FeeCalculator: the amount is x and the rate y.                          *)
FeesSound == input.of = "pair" => FeeSound(input.x, input.y)
=============================================================================
