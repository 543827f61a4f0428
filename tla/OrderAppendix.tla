--------------------------- MODULE OrderAppendix ---------------------------
(***************************************************************************)
(* The 128-bit appendix of an order: how the SDK's builder packs an        *)
(* order's options into it (order_inner of place_order.rs) and how the SDK *)
(* (eip712_structs.rs) and the execution gateway read them back.           *)
(*                                                                         *)
(* An appendix is the set of its bits that are one; `|=' is union.  A      *)
(* number that is read back is the set of the bits found in its field.     *)
(***************************************************************************)
EXTENDS Integers

OrderTypes == {"default", "ioc", "fok", "post_only"}
Triggers   == {"none", "price", "twap", "twap_custom"}

(* Bit k of the two's complement of n, exact for |n| < 2^31 (bound).       *)
Bit(n, k) == IF k <= 30 THEN (n \div 2^k) % 2 = 1 ELSE n < 0

(* The bits of an unsigned or signed 128-bit number.                       *)
BitsOf(n) == {k \in 0..127 : Bit(n, k)}

(* n << at, in 128 bits                                                    *)
Shifted(n, at) == {at + k : k \in {j \in BitsOf(n) : at + j <= 127}}

(* (appendix >> at) & (2^width - 1)                                        *)
Field(appendix, at, width) == {k \in 0..(width - 1) : at + k \in appendix}

-----------------------------------------------------------------------------
(* The builder.                                                            *)

OrderVersion == 1

appendix_bit(type) ==
    Shifted(CASE type = "default"   -> 0
              [] type = "ioc"       -> 1
              [] type = "fok"       -> 2
              [] type = "post_only" -> 3, 9)

TriggerBits(o) ==
    CASE o.trigger = "none"        -> {}
      [] o.trigger = "price"       -> Shifted(1, 12)
      [] o.trigger = "twap"        -> Shifted(2, 12) \cup Shifted(o.times, 96) \cup Shifted(o.slippage, 64)
      [] o.trigger = "twap_custom" -> Shifted(3, 12) \cup Shifted(o.times, 96) \cup Shifted(o.slippage, 64)

(* Slip: the builder's fee where its id begins.                            *)
SlipBuilderBits(o) == Shifted(o.builder, 48) \cup Shifted(o.fee, 39)

BuilderBits(o) == Shifted(o.builder, 48) \cup Shifted(o.fee, 38)

(* order_inner asserts that a time-triggered order is not isolated.        *)
TimeTriggered(o) == o.trigger \in {"twap", "twap_custom"}
Buildable(o) == TimeTriggered(o) => ~o.isolated

(* What the options set.  o.margin is already divided by ONE_X12.          *)
Options(o) ==
    (IF o.reduce_only THEN {11} ELSE {})
    \cup (IF o.isolated THEN {8} \cup Shifted(o.margin, 64) ELSE {})
    \cup appendix_bit(o.type)
    \cup TriggerBits(o)
    \cup BuilderBits(o)

(* self.appendix.unwrap_or(ORDER_VERSION): o.start holds the appendix that *)
(* the caller gave to begin with, or is empty.  It is used as it is, and   *)
(* the version is not added to it.                                         *)
Start(o) == IF o.start = {} THEN Shifted(OrderVersion, 0) ELSE UNION o.start

Appendix(o) == Start(o) \cup Options(o)

-----------------------------------------------------------------------------
(* The readers: Order's accessors, and the gateway's order_type_bits and   *)
(* trigger_type_bits.                                                      *)

order_type_bits(appendix)   == Field(appendix, 9, 2)
trigger_type_bits(appendix) == Field(appendix, 12, 2)
reduce_only(appendix)       == 11 \in appendix
is_isolated(appendix)       == 8 \in appendix
is_twap(appendix)           == 13 \in appendix
isolated_margin(appendix)   == Field(appendix, 64, 64)
twap_times(appendix)        == Field(appendix, 96, 32)
twap_slippage(appendix)     == Field(appendix, 64, 32)
builder_id(appendix)        == Field(appendix, 48, 16)
builder_fee(appendix)       == Field(appendix, 38, 10)
reserved_bits(appendix)     == Field(appendix, 14, 24)
version(appendix)           == Field(appendix, 0, 8)

-----------------------------------------------------------------------------
TypeBits(type) == CASE type = "default" -> {} [] type = "ioc" -> {0}
                    [] type = "fok" -> {1}    [] type = "post_only" -> {0, 1}
KindBits(trigger) == CASE trigger = "none" -> {} [] trigger = "price" -> {0}
                       [] trigger = "twap" -> {1} [] trigger = "twap_custom" -> {0, 1}

(* Whatever the numbers are, in range or not, they never reach the fields  *)
(* that decide how the order is executed and which endpoint takes it, nor  *)
(* the reserved bits: numbers are packed from bit 38 up.  Besides what the *)
(* options say these fields have what the order was begun with.            *)
ControlBitsKept(o) ==
    LET a == Appendix(o)
        s == Start(o)
    IN  /\ order_type_bits(a) = order_type_bits(s) \cup TypeBits(o.type)
        /\ trigger_type_bits(a) = trigger_type_bits(s) \cup KindBits(o.trigger)
        /\ reduce_only(a) <=> reduce_only(s) \/ o.reduce_only
        /\ is_isolated(a) <=> is_isolated(s) \/ o.isolated
        /\ is_twap(a) <=> is_twap(s) \/ TimeTriggered(o)
        /\ version(a) = version(s) /\ reserved_bits(a) = reserved_bits(s)
        /\ o.start = {} => version(s) = BitsOf(OrderVersion) /\ reserved_bits(s) = {}

(* What the options' numbers must be for the fields to hold them: the      *)
(* builder checks none of this.                                            *)
InRange(o) ==
    /\ o.fee < 2^10 /\ o.builder < 2^16
    /\ o.isolated => o.margin >= 0

(* Bits are or-ed: nothing that the caller's starting appendix says may    *)
(* contradict the options.  The builder does not check this either.        *)
StartAgrees(o) ==
    LET s == Start(o) IN
    /\ order_type_bits(s) \subseteq TypeBits(o.type)
    /\ trigger_type_bits(s) \subseteq KindBits(o.trigger)
    /\ reduce_only(s) => o.reduce_only
    /\ is_isolated(s) => o.isolated
    /\ builder_fee(s) \subseteq BitsOf(o.fee) /\ builder_id(s) \subseteq BitsOf(o.builder)
    /\ o.isolated => isolated_margin(s) \subseteq BitsOf(o.margin)
    /\ TimeTriggered(o) => /\ twap_times(s) \subseteq BitsOf(o.times)
                           /\ twap_slippage(s) \subseteq BitsOf(o.slippage)

(* Every reader finds what the options say.                                *)
ReadsBack(o) ==
    LET a == Appendix(o) IN
    /\ order_type_bits(a) = TypeBits(o.type)
    /\ trigger_type_bits(a) = KindBits(o.trigger)
    /\ reduce_only(a) <=> o.reduce_only
    /\ is_isolated(a) <=> o.isolated
    /\ builder_fee(a) = BitsOf(o.fee) /\ builder_id(a) = BitsOf(o.builder)
    /\ o.isolated => isolated_margin(a) = BitsOf(o.margin)
    /\ TimeTriggered(o) => twap_times(a) = BitsOf(o.times) /\ twap_slippage(a) = BitsOf(o.slippage)
=============================================================================
