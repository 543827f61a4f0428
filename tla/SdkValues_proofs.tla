-------------------------- MODULE SdkValues_proofs --------------------------
(***************************************************************************)
(* Proofs about SdkValues.                                                 *)
(***************************************************************************)
EXTENDS SdkValues, WellFoundedInduction, TLAPS

(* A set of naturals has a least element.                                  *)
LEMMA LeastNatural ==
    ASSUME NEW S, S \subseteq Nat, S # {}
    PROVE  \E m \in S : \A n \in S : m <= n
<1> DEFINE R == OpToRel(<, Nat)
<1>1. \A x, y \in Nat : <<y, x>> \in R <=> y < x
  BY DEF OpToRel
<1>2. IsWellFoundedOn(R, Nat)
  BY NatLessThanWellFounded
<1> HIDE DEF R
<1>3. PICK m \in S : \A n \in S : <<n, m>> \notin R
  BY <1>2, WFMin
<1>4. ASSUME NEW n \in S PROVE m <= n
  <2>1. m \in Nat /\ n \in Nat
    OBVIOUS
  <2>2. ~ (n < m)
    BY <1>1, <1>3, <2>1, Zenon
  <2> QED BY <2>1, <2>2
<1> QED BY <1>4

(* A set that has 0 and the successors of its elements has every natural.  *)
LEMMA EveryNatural ==
    ASSUME NEW S, 0 \in S, \A n \in Nat : n \in S => n + 1 \in S
    PROVE  \A n \in Nat : n \in S
<1> SUFFICES ASSUME Nat \ S # {} PROVE FALSE
  OBVIOUS
<1>1. PICK m \in Nat \ S : \A n \in Nat \ S : m <= n
  BY LeastNatural
<1>2. m # 0 /\ m - 1 \in Nat
  BY <1>1
<1>3. m - 1 \in S
  BY <1>1, <1>2
<1> QED BY <1>1, <1>2, <1>3

-----------------------------------------------------------------------------
(* Powers of two and the bits of a number.                                 *)

(* A sequence that doubles rises.                                          *)
LEMMA DoublingRises ==
    ASSUME NEW N \in Nat, NEW P, \A k \in 0..N : P[k] \in Nat \ {0},
           \A k \in 0..N : k > 0 => P[k] = 2 * P[k - 1]
    PROVE  \A w \in 0..N : \A k \in w..N : P[w] <= P[k]
<1> TAKE w \in 0..N
<1> TAKE k \in w..N
<1> DEFINE S == {j \in Nat : w + j <= N => P[w] <= P[w + j]}
<1>1. 0 \in S
  <2>1. w + 0 = w /\ P[w] \in Nat
    OBVIOUS
  <2> QED BY <2>1
<1>2. ASSUME NEW j \in Nat, j \in S PROVE j + 1 \in S
  <2> SUFFICES ASSUME w + j + 1 <= N PROVE P[w] <= P[w + (j + 1)]
    OBVIOUS
  <2> DEFINE m == w + j
  <2>1. m \in 0..N /\ m + 1 \in 0..N /\ m + 1 > 0 /\ (m + 1) - 1 = m /\ w + (j + 1) = m + 1
    OBVIOUS
  <2>2. P[m + 1] = 2 * P[m] /\ P[m] \in Nat /\ P[w] \in Nat
    BY <2>1
  <2>3. P[w] <= P[m]
    BY <1>2
  <2> QED BY <2>1, <2>2, <2>3
<1>3. \A j \in Nat : j \in S
  <2> HIDE DEF S
  <2> QED BY <1>1, <1>2, EveryNatural
<1>4. k - w \in Nat /\ w + (k - w) = k /\ k <= N
  OBVIOUS
<1> QED BY <1>3, <1>4

(* The provers compute a power only of numerals.                           *)
LEMMA Powers == \A k \in 0..30 : 2^k \in Nat \ {0} /\ 2^(k + 1) = 2 * 2^k
<1> TAKE k \in 0..30
<1>0. CASE k = 0 BY <1>0, SMT
<1>1. CASE k = 1 BY <1>1, SMT
<1>2. CASE k = 2 BY <1>2, SMT
<1>3. CASE k = 3 BY <1>3, SMT
<1>4. CASE k = 4 BY <1>4, SMT
<1>5. CASE k = 5 BY <1>5, SMT
<1>6. CASE k = 6 BY <1>6, SMT
<1>7. CASE k = 7 BY <1>7, SMT
<1>8. CASE k = 8 BY <1>8, SMT
<1>9. CASE k = 9 BY <1>9, SMT
<1>10. CASE k = 10 BY <1>10, SMT
<1>11. CASE k = 11 BY <1>11, SMT
<1>12. CASE k = 12 BY <1>12, SMT
<1>13. CASE k = 13 BY <1>13, SMT
<1>14. CASE k = 14 BY <1>14, SMT
<1>15. CASE k = 15 BY <1>15, SMT
<1>16. CASE k = 16 BY <1>16, SMT
<1>17. CASE k = 17 BY <1>17, SMT
<1>18. CASE k = 18 BY <1>18, SMT
<1>19. CASE k = 19 BY <1>19, SMT
<1>20. CASE k = 20 BY <1>20, SMT
<1>21. CASE k = 21 BY <1>21, SMT
<1>22. CASE k = 22 BY <1>22, SMT
<1>23. CASE k = 23 BY <1>23, SMT
<1>24. CASE k = 24 BY <1>24, SMT
<1>25. CASE k = 25 BY <1>25, SMT
<1>26. CASE k = 26 BY <1>26, SMT
<1>27. CASE k = 27 BY <1>27, SMT
<1>28. CASE k = 28 BY <1>28, SMT
<1>29. CASE k = 29 BY <1>29, SMT
<1>30. CASE k = 30 BY <1>30, SMT
<1> QED BY <1>0, <1>1, <1>2, <1>3, <1>4, <1>5, <1>6, <1>7, <1>8, <1>9,
         <1>10, <1>11, <1>12, <1>13, <1>14, <1>15, <1>16, <1>17, <1>18,
         <1>19, <1>20, <1>21, <1>22, <1>23, <1>24, <1>25, <1>26, <1>27,
         <1>28, <1>29, <1>30, SMT

(* From here on a power of two is the value of a function.                 *)
Power == [k \in 0..31 |-> 2^k]

(* Its values.                                                             *)
LEMMA PowerOf == \A k \in 0..31 : Power[k] = 2^k
BY Zenon DEF Power

(* What is used of them: they are positive, each doubles the one before,   *)
(* and the bound of the numbers is the last.                               *)
LEMMA PowerFacts ==
    /\ Power[0] = 1 /\ Power[1] = 2
    /\ \A k \in 0..31 : Power[k] \in Nat \ {0}
    /\ \A k \in 0..30 : Power[k + 1] = 2 * Power[k]
    /\ \A n \in Number : n \in Nat /\ n < Power[31]
    /\ Largest \in Nat
<1>1. \A k \in 0..31 : Power[k] = 2^k
  BY PowerOf
<1>2. 0 \in 0..31 /\ 1 \in 0..31 /\ 30 \in 0..30 /\ 30 \in 0..31 /\ 31 \in 0..31 /\ 30 + 1 = 31
  OBVIOUS
<1>3. Power[0] = 1 /\ Power[1] = 2
  <2>1. 2^0 = 1
    OBVIOUS
  <2>2. 2^1 = 2
    OBVIOUS
  <2> QED BY <1>1, <1>2, <2>1, <2>2, Zenon
<1>4. ASSUME NEW k \in 0..30 PROVE Power[k] \in Nat \ {0} /\ Power[k + 1] = 2 * Power[k]
  <2>1. k \in 0..31 /\ k + 1 \in 0..31
    OBVIOUS
  <2>2. 2^k \in Nat \ {0} /\ 2^(k + 1) = 2 * 2^k
    BY Powers, Zenon
  <2> QED BY <1>1, <2>1, <2>2, Zenon
<1>5. Power[30] = 2^30 /\ Power[30] \in Nat \ {0} /\ Power[31] = 2 * Power[30]
  <2>1. Power[30] = 2^30
    BY <1>1, <1>2, Zenon
  <2>2. Power[30] \in Nat \ {0} /\ Power[30 + 1] = 2 * Power[30]
    BY <1>2, <1>4, Zenon
  <2> QED BY <1>2, <2>1, <2>2, Zenon
<1>6. \A k \in 0..31 : Power[k] \in Nat \ {0}
  <2> SUFFICES ASSUME NEW k \in 0..31 PROVE Power[k] \in Nat \ {0}
    OBVIOUS
  <2>1. CASE k = 31
    BY <1>5, <2>1
  <2>2. CASE k # 31
    <3>1. k \in 0..30
      BY <2>2
    <3> QED BY <1>4, <3>1, Zenon
  <2> QED BY <2>1, <2>2
<1>7. ASSUME NEW n \in Number PROVE n \in Nat /\ n < Power[31]
  <2>1. Number = 0..(Power[30] + (Power[30] - 1))
    BY <1>5, Zenon DEF Number, Largest
  <2>2. Power[30] \in Nat /\ Power[31] = 2 * Power[30]
    BY <1>5, Zenon
  <2>3. n \in 0..(Power[30] + (Power[30] - 1))
    BY <2>1, Zenon
  <2> QED BY ONLY <2>2, <2>3, SMT
<1>8. Largest \in Nat
  <2>1. Largest = Power[30] + (Power[30] - 1) /\ Power[30] \in Nat \ {0}
    BY <1>5, Zenon DEF Largest
  <2> QED BY ONLY <2>1, SMT
<1> QED BY <1>3, <1>4, <1>6, <1>7, <1>8, Zenon

(* The bits of a number below the bound, by the function.                  *)
LEMMA BitPower ==
    ASSUME NEW n
    PROVE  /\ \A k \in 0..30 : Bit(n, k) <=> (n \div Power[k]) % 2 = 1
           /\ n \in Number => n \in Nat /\ \A k \in Nat : k > 30 => ~ Bit(n, k)
<1>1. ASSUME NEW k \in 0..30 PROVE Bit(n, k) <=> (n \div Power[k]) % 2 = 1
  <2>1. k <= 30 /\ k \in 0..31
    OBVIOUS
  <2>2. Power[k] = 2^k
    BY <2>1, PowerOf, Zenon
  <2> QED BY <2>1, <2>2, Zenon DEF Bit
<1>2. ASSUME n \in Number PROVE n \in Nat
  BY <1>2, PowerFacts
<1>3. ASSUME n \in Number, NEW k \in Nat, k > 30 PROVE ~ Bit(n, k)
  <2>1. ~ (k <= 30) /\ ~ (n < 0)
    BY <1>2, <1>3
  <2> QED BY <2>1, Zenon DEF Bit
<1> QED BY <1>1, <1>2, <1>3, Zenon

(* Powers are ordered as their exponents.                                  *)
LEMMA PowersRise ==
    ASSUME NEW w \in 0..31, NEW k \in w..31
    PROVE  Power[w] <= Power[k]
<1>1. \A j \in 0..31 : j > 0 => Power[j] = 2 * Power[j - 1]
  <2> TAKE j \in 0..31
  <2> HAVE j > 0
  <2>1. j - 1 \in 0..30 /\ (j - 1) + 1 = j
    OBVIOUS
  <2>2. Power[(j - 1) + 1] = 2 * Power[j - 1]
    BY <2>1, PowerFacts, Zenon
  <2> QED BY <2>1, <2>2, Zenon
<1>2. 31 \in Nat /\ \A j \in 0..31 : Power[j] \in Nat \ {0}
  BY PowerFacts
<1> QED BY <1>1, <1>2, DoublingRises, Zenon

(* A quotient whose last bit is zero halves the bound of its dividend.     *)
LEMMA Halved ==
    ASSUME NEW n \in Nat, NEW p \in Nat \ {0}
    PROVE  /\ n < p => (n \div p) % 2 # 1
           /\ n < 2 * p /\ (n \div p) % 2 # 1 => n < p
BY SMT

(* A number's bits from w on are zero exactly when it is less than 2^w.    *)
LEMMA BitsBelow ==
    ASSUME NEW n \in Number, NEW w \in 0..31
    PROVE  n < Power[w] <=> \A k \in w..30 : ~ Bit(n, k)
<1>1. n \in Nat
  BY BitPower
<1>2. ASSUME n < Power[w], NEW k \in w..30 PROVE ~ Bit(n, k)
  <2>1. k \in w..31 /\ k \in 0..31 /\ k \in 0..30
    OBVIOUS
  <2>2. Power[k] \in Nat \ {0} /\ Power[w] \in Nat /\ Power[w] <= Power[k]
    BY <2>1, PowerFacts, PowersRise
  <2>3. n < Power[k]
    BY <1>1, <1>2, <2>2
  <2>4. (n \div Power[k]) % 2 # 1
    BY <1>1, <2>2, <2>3, Halved
  <2> QED BY <2>1, <2>4, BitPower
<1>3. ASSUME \A k \in w..30 : ~ Bit(n, k) PROVE n < Power[w]
  <2> DEFINE S == {j \in Nat : j <= 31 - w => n < Power[31 - j]}
  <2>1. 0 \in S
    <3>1. 31 - 0 = 31 /\ 31 \in 0..31
      OBVIOUS
    <3>2. n < Power[31]
      BY <3>1, PowerFacts
    <3> QED BY <1>1, <3>1, <3>2
  <2>2. ASSUME NEW j \in Nat, j \in S PROVE j + 1 \in S
    <3> SUFFICES ASSUME j + 1 <= 31 - w PROVE n < Power[31 - (j + 1)]
      OBVIOUS
    <3> DEFINE k == 31 - (j + 1)
    <3>1. k \in w..30 /\ 31 - j = k + 1 /\ k \in 0..30 /\ k \in 0..31 /\ j <= 31 - w
      OBVIOUS
    <3>2. n < Power[k + 1] /\ Power[k] \in Nat \ {0} /\ Power[k + 1] = 2 * Power[k]
      BY <2>2, <3>1, PowerFacts
    <3>3. (n \div Power[k]) % 2 # 1
      BY <1>3, <3>1, BitPower
    <3>4. n < 2 * Power[k]
      BY <3>2
    <3> QED BY <1>1, <3>2, <3>3, <3>4, Halved
  <2>3. \A j \in Nat : j \in S
    <3> HIDE DEF S
    <3> QED BY <2>1, <2>2, EveryNatural
  <2>4. 31 - w \in Nat /\ 31 - (31 - w) = w
    OBVIOUS
  <2> QED BY <2>3, <2>4
<1> QED BY <1>2, <1>3

-----------------------------------------------------------------------------
(* The bits of an appendix.                                                *)

(* Which bits the small numbers have that name a type or a trigger.        *)
LEMMA SmallBits ==
    ASSUME NEW n \in 0..3
    PROVE  /\ Bit(n, 0) <=> n \in {1, 3}
           /\ Bit(n, 1) <=> n \in {2, 3}
           /\ \A k \in 2..127 : ~ Bit(n, k)
<1>1. n \in Nat /\ (n = 0 \/ n = 1 \/ n = 2 \/ n = 3) /\ 0 \in 0..30 /\ 1 \in 0..30 /\ 2 \in 0..31
  OBVIOUS
<1>2. Power[0] = 1 /\ Power[1] = 2 /\ Power[2] = 4
  <2>1. Power[1 + 1] = 2 * Power[1]
    BY <1>1, PowerFacts
  <2> QED BY <2>1, PowerFacts
<1>3. Bit(n, 0) <=> n \in {1, 3}
  <2>1. Bit(n, 0) <=> (n \div 1) % 2 = 1
    BY <1>1, <1>2, BitPower, Zenon
  <2> QED BY <1>1, <2>1
<1>4. Bit(n, 1) <=> n \in {2, 3}
  <2>1. Bit(n, 1) <=> (n \div 2) % 2 = 1
    BY <1>1, <1>2, BitPower, Zenon
  <2> QED BY <1>1, <2>1
<1>5. ASSUME NEW k \in 2..127 PROVE ~ Bit(n, k)
  <2>1. CASE k <= 30
    <3>1. k \in 2..31 /\ k \in 0..31 /\ k \in 0..30
      BY <2>1
    <3>2. Power[k] \in Nat \ {0} /\ 4 <= Power[k]
      BY <1>1, <1>2, <3>1, PowerFacts, PowersRise
    <3>3. (n \div Power[k]) % 2 # 1
      BY <1>1, <3>2, Halved
    <3> QED BY <3>1, <3>3, BitPower, Zenon
  <2>2. CASE k > 30
    <3>1. ~ (k <= 30) /\ ~ (n < 0)
      BY <1>1, <2>2
    <3> QED BY <3>1, Zenon DEF Bit
  <2> QED BY <2>1, <2>2
<1> QED BY <1>3, <1>4, <1>5

(* A number shifted left has its bits that much higher.                    *)
LEMMA ShiftedBits ==
    ASSUME NEW n, NEW at \in Nat, NEW b \in 0..127
    PROVE  b \in Shifted(n, at) <=> b >= at /\ Bit(n, b - at)
<1>1. ASSUME b \in Shifted(n, at) PROVE b >= at /\ Bit(n, b - at)
  <2>1. PICK j \in 0..127 : Bit(n, j) /\ b = at + j
    BY <1>1 DEF Shifted, BitsOf
  <2>2. b - at = j /\ b >= at
    BY <2>1
  <2> QED BY <2>1, <2>2
<1>2. ASSUME b >= at, Bit(n, b - at) PROVE b \in Shifted(n, at)
  <2> DEFINE j == b - at
  <2>1. j \in BitsOf(n) /\ at + j = b /\ at + j <= 127
    BY <1>2 DEF BitsOf
  <2> HIDE DEF j
  <2> QED BY <2>1 DEF Shifted
<1> QED BY <1>1, <1>2

(* The bits that an order's options set, one source to a line.             *)
HasBit(o, b) ==
    \/ b = 11 /\ o.reduce_only
    \/ b = 8 /\ o.isolated
    \/ b = 9 /\ o.type \in {"ioc", "post_only"}
    \/ b = 10 /\ o.type \in {"fok", "post_only"}
    \/ b = 12 /\ o.trigger \in {"price", "twap_custom"}
    \/ b = 13 /\ TimeTriggered(o)
    \/ b >= 64 /\ o.isolated /\ Bit(o.margin, b - 64)
    \/ b >= 96 /\ TimeTriggered(o) /\ Bit(o.times, b - 96)
    \/ b >= 64 /\ TimeTriggered(o) /\ Bit(o.slippage, b - 64)
    \/ b >= 48 /\ Bit(o.builder, b - 48)
    \/ b >= 38 /\ Bit(o.fee, b - 38)

(* The options set the bits that HasBit says.                              *)
LEMMA OptionBits ==
    ASSUME NEW o \in Orders, NEW b \in 0..127
    PROVE  b \in Options(o) <=> HasBit(o, b)
<1>1. o.type \in OrderTypes /\ o.trigger \in Triggers
  BY OrdersAssumption
<1>2. ASSUME NEW n \in 0..3, NEW at \in {0, 9, 12}
      PROVE  b \in Shifted(n, at) <=> (b = at /\ n \in {1, 3}) \/ (b = at + 1 /\ n \in {2, 3})
  <2>1. b \in Shifted(n, at) <=> b >= at /\ Bit(n, b - at)
    <3>1. at \in Nat
      OBVIOUS
    <3> QED BY <3>1, ShiftedBits
  <2>2. CASE b = at \/ b = at + 1
    BY <2>1, <2>2, SmallBits
  <2>3. CASE b < at
    BY <2>1, <2>3
  <2>4. CASE b > at + 1
    <3>1. b - at \in 2..127
      BY <2>4
    <3> QED BY <2>1, <2>4, <3>1, SmallBits
  <2> QED BY <2>2, <2>3, <2>4
<1>4. b \in appendix_bit(o.type) <=> \/ b = 9 /\ o.type \in {"ioc", "post_only"}
                                     \/ b = 10 /\ o.type \in {"fok", "post_only"}
  <2>1. /\ b \notin Shifted(0, 9)
        /\ b \in Shifted(1, 9) <=> b = 9
        /\ b \in Shifted(2, 9) <=> b = 10
        /\ b \in Shifted(3, 9) <=> b = 9 \/ b = 10
    BY <1>2
  <2> DEFINE t == CASE o.type = "default"   -> 0
                    [] o.type = "ioc"       -> 1
                    [] o.type = "fok"       -> 2
                    [] o.type = "post_only" -> 3
  <2>2. appendix_bit(o.type) = Shifted(t, 9)
    BY DEF appendix_bit
  <2>3. \/ o.type = "default" /\ t = 0
        \/ o.type = "ioc" /\ t = 1
        \/ o.type = "fok" /\ t = 2
        \/ o.type = "post_only" /\ t = 3
    BY <1>1 DEF OrderTypes
  <2> HIDE DEF t
  <2>4. CASE o.type = "default" /\ t = 0
    BY ONLY <2>1, <2>2, <2>4
  <2>5. CASE o.type = "ioc" /\ t = 1
    BY ONLY <2>1, <2>2, <2>5
  <2>6. CASE o.type = "fok" /\ t = 2
    BY ONLY <2>1, <2>2, <2>6
  <2>7. CASE o.type = "post_only" /\ t = 3
    BY ONLY <2>1, <2>2, <2>7
  <2> QED BY <2>3, <2>4, <2>5, <2>6, <2>7, Zenon
<1>5. \A n : /\ b \in Shifted(n, 96) <=> b >= 96 /\ Bit(n, b - 96)
             /\ b \in Shifted(n, 64) <=> b >= 64 /\ Bit(n, b - 64)
             /\ b \in Shifted(n, 48) <=> b >= 48 /\ Bit(n, b - 48)
             /\ b \in Shifted(n, 38) <=> b >= 38 /\ Bit(n, b - 38)
  BY ShiftedBits
<1>6. b \in TriggerBits(o) <=> \/ b = 12 /\ o.trigger \in {"price", "twap_custom"}
                               \/ b = 13 /\ TimeTriggered(o)
                               \/ b >= 96 /\ TimeTriggered(o) /\ Bit(o.times, b - 96)
                               \/ b >= 64 /\ TimeTriggered(o) /\ Bit(o.slippage, b - 64)
  <2>1. /\ b \in Shifted(1, 12) <=> b = 12
        /\ b \in Shifted(2, 12) <=> b = 13
        /\ b \in Shifted(3, 12) <=> b = 12 \/ b = 13
    BY <1>2
  <2>2. CASE o.trigger = "none"
    BY <2>1, <2>2 DEF TriggerBits, TimeTriggered
  <2>3. CASE o.trigger = "price"
    BY <2>1, <2>3 DEF TriggerBits, TimeTriggered
  <2>4. CASE o.trigger = "twap"
    BY <1>5, <2>1, <2>4 DEF TriggerBits, TimeTriggered
  <2>5. CASE o.trigger = "twap_custom"
    BY <1>5, <2>1, <2>5 DEF TriggerBits, TimeTriggered
  <2> QED BY <1>1, <2>2, <2>3, <2>4, <2>5, Zenon DEF Triggers
<1>7. b \in BuilderBits(o) <=> (b >= 48 /\ Bit(o.builder, b - 48)) \/ (b >= 38 /\ Bit(o.fee, b - 38))
  BY <1>5 DEF BuilderBits
<1>8. b \in Options(o) <=> \/ (o.reduce_only /\ b = 11)
                           \/ (o.isolated /\ (b = 8 \/ b \in Shifted(o.margin, 64)))
                           \/ b \in appendix_bit(o.type) \/ b \in TriggerBits(o)
                           \/ b \in BuilderBits(o)
  BY Zenon DEF Options
<1>9. b \in Shifted(o.margin, 64) <=> b >= 64 /\ Bit(o.margin, b - 64)
  BY <1>5
<1> QED BY ONLY <1>4, <1>6, <1>7, <1>8, <1>9 DEF HasBit

(* What the options say in a field of the appendix.                        *)
LEMMA FieldBits ==
    ASSUME NEW o \in Orders, NEW at \in 0..127, NEW width \in 1..64, at + width <= 128
    PROVE  \A k : k \in Field(Options(o), at, width) <=> k \in 0..(width - 1) /\ HasBit(o, at + k)
<1>1. ASSUME NEW k \in 0..(width - 1) PROVE at + k \in Options(o) <=> HasBit(o, at + k)
  <2>1. at + k \in 0..127
    OBVIOUS
  <2> QED BY <2>1, OptionBits
<1> QED BY <1>1, Zenon DEF Field

(* The options of an order that can be built.                              *)
LEMMA OrderOptions ==
    ASSUME NEW o \in Orders, Buildable(o)
    PROVE  /\ o.type \in OrderTypes /\ o.trigger \in Triggers
           /\ o.reduce_only \in BOOLEAN /\ o.isolated \in BOOLEAN
           /\ o.times \in Number /\ o.slippage \in Number /\ o.builder \in Number /\ o.fee \in Number
           /\ o.margin \in Int /\ (o.margin >= 0 => o.margin \in Number)
           /\ ~ (TimeTriggered(o) /\ o.isolated)
<1>1. o.margin \in Int /\ (o.margin >= 0 => o.margin \in Number)
  BY OrdersAssumption, PowerFacts DEF Number
<1> QED BY <1>1, OrdersAssumption DEF Buildable, TimeTriggered

(* The numbers of an order have no bit that its type, its trigger, its     *)
(* version or the reserved bits are read from.                             *)
LEMMA OptionControls ==
    ASSUME NEW o \in Orders, Buildable(o)
    PROVE  /\ order_type_bits(Options(o)) = TypeBits(o.type)
           /\ trigger_type_bits(Options(o)) = KindBits(o.trigger)
           /\ reduce_only(Options(o)) <=> o.reduce_only
           /\ is_isolated(Options(o)) <=> o.isolated
           /\ is_twap(Options(o)) <=> TimeTriggered(o)
           /\ version(Options(o)) = {} /\ reserved_bits(Options(o)) = {}
<1>1. o.type \in OrderTypes /\ o.trigger \in Triggers /\ o.reduce_only \in BOOLEAN /\ o.isolated \in BOOLEAN
  BY OrderOptions
<1>2. \A b \in 0..37 : HasBit(o, b) <=>
        \/ b = 11 /\ o.reduce_only
        \/ b = 8 /\ o.isolated
        \/ b = 9 /\ o.type \in {"ioc", "post_only"}
        \/ b = 10 /\ o.type \in {"fok", "post_only"}
        \/ b = 12 /\ o.trigger \in {"price", "twap_custom"}
        \/ b = 13 /\ TimeTriggered(o)
  BY DEF HasBit
<1>3. order_type_bits(Options(o)) = TypeBits(o.type)
  <2>1. \A k : k \in order_type_bits(Options(o)) <=> k \in 0..1 /\ HasBit(o, 9 + k)
    <3>1. 9 \in 0..127 /\ 2 \in 1..64 /\ 9 + 2 <= 128 /\ 2 - 1 = 1
      OBVIOUS
    <3> QED BY <3>1, FieldBits DEF order_type_bits
  <2>2. \A k : k \in order_type_bits(Options(o)) <=>
           \/ k = 0 /\ o.type \in {"ioc", "post_only"}
           \/ k = 1 /\ o.type \in {"fok", "post_only"}
    BY <1>2, <2>1
  <2>3. \A k : k \in TypeBits(o.type) <=>
           \/ k = 0 /\ o.type \in {"ioc", "post_only"}
           \/ k = 1 /\ o.type \in {"fok", "post_only"}
    BY <1>1 DEF TypeBits, OrderTypes
  <2> QED BY <2>2, <2>3
<1>4. trigger_type_bits(Options(o)) = KindBits(o.trigger)
  <2>1. \A k : k \in trigger_type_bits(Options(o)) <=> k \in 0..1 /\ HasBit(o, 12 + k)
    <3>1. 12 \in 0..127 /\ 2 \in 1..64 /\ 12 + 2 <= 128 /\ 2 - 1 = 1
      OBVIOUS
    <3> QED BY <3>1, FieldBits DEF trigger_type_bits
  <2>2. \A k : k \in trigger_type_bits(Options(o)) <=>
           \/ k = 0 /\ o.trigger \in {"price", "twap_custom"}
           \/ k = 1 /\ TimeTriggered(o)
    BY <1>2, <2>1
  <2>3. \A k : k \in KindBits(o.trigger) <=>
           \/ k = 0 /\ o.trigger \in {"price", "twap_custom"}
           \/ k = 1 /\ TimeTriggered(o)
    BY <1>1 DEF KindBits, Triggers, TimeTriggered
  <2> QED BY <2>2, <2>3
<1>5. /\ reduce_only(Options(o)) <=> o.reduce_only
      /\ is_isolated(Options(o)) <=> o.isolated
      /\ is_twap(Options(o)) <=> TimeTriggered(o)
  <2>1. /\ 11 \in Options(o) <=> o.reduce_only
        /\ 8 \in Options(o) <=> o.isolated
        /\ 13 \in Options(o) <=> TimeTriggered(o)
    BY <1>2, OptionBits
  <2> QED BY <1>1, <2>1 DEF reduce_only, is_isolated, is_twap
<1>6. version(Options(o)) = {}
  <2>1. \A k : k \in version(Options(o)) <=> k \in 0..7 /\ HasBit(o, 0 + k)
    <3>1. 0 \in 0..127 /\ 8 \in 1..64 /\ 0 + 8 <= 128 /\ 8 - 1 = 7
      OBVIOUS
    <3> QED BY <3>1, FieldBits DEF version
  <2>2. \A k \in 0..7 : ~ HasBit(o, 0 + k)
    BY <1>2
  <2> QED BY <2>1, <2>2
<1>7. reserved_bits(Options(o)) = {}
  <2>1. \A k : k \in reserved_bits(Options(o)) <=> k \in 0..23 /\ HasBit(o, 14 + k)
    <3>1. 14 \in 0..127 /\ 24 \in 1..64 /\ 14 + 24 <= 128 /\ 24 - 1 = 23
      OBVIOUS
    <3> QED BY <3>1, FieldBits DEF reserved_bits
  <2>2. \A k \in 0..23 : ~ HasBit(o, 14 + k)
    BY <1>2
  <2> QED BY <2>1, <2>2
<1> QED BY <1>3, <1>4, <1>5, <1>6, <1>7, Zenon

(* An appendix reads, field by field, what it was begun with and what the  *)
(* options say.                                                            *)
LEMMA FieldsJoin ==
    ASSUME NEW o
    PROVE  /\ order_type_bits(Appendix(o)) = order_type_bits(Start(o)) \cup order_type_bits(Options(o))
           /\ trigger_type_bits(Appendix(o)) = trigger_type_bits(Start(o)) \cup trigger_type_bits(Options(o))
           /\ reduce_only(Appendix(o)) <=> reduce_only(Start(o)) \/ reduce_only(Options(o))
           /\ is_isolated(Appendix(o)) <=> is_isolated(Start(o)) \/ is_isolated(Options(o))
           /\ is_twap(Appendix(o)) <=> is_twap(Start(o)) \/ is_twap(Options(o))
           /\ version(Appendix(o)) = version(Start(o)) \cup version(Options(o))
           /\ reserved_bits(Appendix(o)) = reserved_bits(Start(o)) \cup reserved_bits(Options(o))
           /\ builder_fee(Appendix(o)) = builder_fee(Start(o)) \cup builder_fee(Options(o))
           /\ builder_id(Appendix(o)) = builder_id(Start(o)) \cup builder_id(Options(o))
           /\ isolated_margin(Appendix(o)) = isolated_margin(Start(o)) \cup isolated_margin(Options(o))
           /\ twap_times(Appendix(o)) = twap_times(Start(o)) \cup twap_times(Options(o))
           /\ twap_slippage(Appendix(o)) = twap_slippage(Start(o)) \cup twap_slippage(Options(o))
<1>1. \A b : b \in Appendix(o) <=> b \in Start(o) \/ b \in Options(o)
  BY Zenon DEF Appendix
<1>2. \A at, width : Field(Appendix(o), at, width) = Field(Start(o), at, width) \cup Field(Options(o), at, width)
  BY <1>1, Zenon DEF Field
<1>3. /\ reduce_only(Appendix(o)) <=> reduce_only(Start(o)) \/ reduce_only(Options(o))
      /\ is_isolated(Appendix(o)) <=> is_isolated(Start(o)) \/ is_isolated(Options(o))
      /\ is_twap(Appendix(o)) <=> is_twap(Start(o)) \/ is_twap(Options(o))
  BY <1>1, Zenon DEF reduce_only, is_isolated, is_twap
<1> QED BY <1>2, <1>3, Zenon DEF order_type_bits, trigger_type_bits, version, reserved_bits, builder_fee,
                          builder_id, isolated_margin, twap_times, twap_slippage

(* Without a starting appendix an order begins with its version.           *)
LEMMA VersionOnly ==
    ASSUME NEW o, o.start = {}
    PROVE  version(Start(o)) = BitsOf(OrderVersion) /\ reserved_bits(Start(o)) = {}
<1>1. Start(o) = Shifted(OrderVersion, 0)
  BY Zenon DEF Start
<1>2. \A k \in 0..127 : Bit(OrderVersion, k) <=> k = 0
  BY SmallBits DEF OrderVersion
<1>3. \A b \in 0..127 : b \in Start(o) <=> b = 0
  <2> TAKE b \in 0..127
  <2>1. b \in Shifted(OrderVersion, 0) <=> b >= 0 /\ Bit(OrderVersion, b - 0)
    BY ShiftedBits
  <2> QED BY <1>1, <1>2, <2>1
<1>4. version(Start(o)) = BitsOf(OrderVersion)
  <2>1. \A k : k \in version(Start(o)) <=> k \in 0..7 /\ 0 + k \in Start(o)
    BY DEF version, Field
  <2>2. \A k : k \in version(Start(o)) <=> k = 0
    BY <1>3, <2>1
  <2>3. \A k : k \in BitsOf(OrderVersion) <=> k = 0
    BY <1>2 DEF BitsOf
  <2> QED BY <2>2, <2>3
<1>5. reserved_bits(Start(o)) = {}
  <2>1. \A k : k \in reserved_bits(Start(o)) <=> k \in 0..23 /\ 14 + k \in Start(o)
    BY DEF reserved_bits, Field
  <2>2. \A k \in 0..23 : 14 + k \notin Start(o)
    BY <1>3
  <2> QED BY <2>1, <2>2
<1> QED BY <1>4, <1>5

(* So no number of an order disturbs the fields that control it.           *)
LEMMA ControlBits ==
    ASSUME NEW o \in Orders, Buildable(o)
    PROVE  ControlBitsKept(o)
BY OptionControls, FieldsJoin, VersionOnly, Zenon DEF ControlBitsKept

(* A number fits its field exactly when its bits do.                       *)
LEMMA FitsField ==
    ASSUME NEW n \in Number, NEW w \in 1..31
    PROVE  n < Power[w] <=> \A k \in 0..127 : Bit(n, k) => k < w
<1>1. n < Power[w] <=> \A k \in w..30 : ~ Bit(n, k)
  BY BitsBelow
<1>2. \A k \in Nat : k > 30 => ~ Bit(n, k)
  BY BitPower
<1> QED BY <1>1, <1>2

(* The limits of the builder's fields.                                     *)
LEMMA FieldLimits ==
    ASSUME NEW o \in Orders, Buildable(o)
    PROVE  InRange(o) <=> /\ \A k \in 0..127 : Bit(o.fee, k) => k < 10
                          /\ \A k \in 0..127 : Bit(o.builder, k) => k < 16
                          /\ o.isolated => o.margin >= 0
<1>1. o.fee \in Number /\ o.builder \in Number
  BY OrderOptions
<1>2. 10 \in 1..31 /\ 16 \in 1..31 /\ 10 \in 0..31 /\ 16 \in 0..31
  OBVIOUS
<1>3. Power[10] = 2^10 /\ Power[16] = 2^16
  BY <1>2, PowerOf, Zenon
<1>4. o.fee < Power[10] <=> \A k \in 0..127 : Bit(o.fee, k) => k < 10
  BY <1>1, <1>2, FitsField
<1>5. o.builder < Power[16] <=> \A k \in 0..127 : Bit(o.builder, k) => k < 16
  BY <1>1, <1>2, FitsField
<1> QED BY <1>3, <1>4, <1>5, Zenon DEF InRange

(* A field reads a number's bits when the options have, in that field, the *)
(* bits of the number, and the number has no other.                        *)
Reads(o, at, width, n) == \A k \in 0..127 : Bit(n, k) <=> k < width /\ HasBit(o, at + k)

(* So a field is a number's bits exactly when Reads says so.               *)
LEMMA FieldReads ==
    ASSUME NEW o \in Orders, NEW n, NEW at \in 0..127, NEW width \in 1..64, at + width <= 128
    PROVE  Field(Options(o), at, width) = BitsOf(n) <=> Reads(o, at, width, n)
<1>1. \A k : k \in Field(Options(o), at, width) <=> k \in 0..(width - 1) /\ HasBit(o, at + k)
  BY FieldBits
<1>2. \A k : k \in BitsOf(n) <=> k \in 0..127 /\ Bit(n, k)
  BY Zenon DEF BitsOf
<1>3. \A k : k \in 0..(width - 1) <=> k \in 0..127 /\ k < width
  OBVIOUS
<1>4. Field(Options(o), at, width) = BitsOf(n) <=>
        \A k : k \in Field(Options(o), at, width) <=> k \in BitsOf(n)
  BY Zenon
<1> QED BY <1>1, <1>2, <1>3, <1>4, Zenon DEF Reads

(* The five numbers' fields.                                               *)
LEMMA NumberFields ==
    ASSUME NEW o \in Orders, NEW n
    PROVE  /\ builder_fee(Options(o)) = BitsOf(n) <=> Reads(o, 38, 10, n)
           /\ builder_id(Options(o)) = BitsOf(n) <=> Reads(o, 48, 16, n)
           /\ isolated_margin(Options(o)) = BitsOf(n) <=> Reads(o, 64, 64, n)
           /\ twap_times(Options(o)) = BitsOf(n) <=> Reads(o, 96, 32, n)
           /\ twap_slippage(Options(o)) = BitsOf(n) <=> Reads(o, 64, 32, n)
<1> DEFINE R(at, width) == Field(Options(o), at, width) = BitsOf(n) <=> Reads(o, at, width, n)
<1>1. ASSUME NEW at \in 0..127, NEW width \in 1..64, at + width <= 128 PROVE R(at, width)
  BY <1>1, FieldReads
<1> HIDE DEF R
<1>2. R(38, 10)
  <2>1. 38 \in 0..127 /\ 10 \in 1..64 /\ 38 + 10 <= 128
    OBVIOUS
  <2> QED BY <1>1, <2>1, Zenon
<1>3. R(48, 16)
  <2>1. 48 \in 0..127 /\ 16 \in 1..64 /\ 48 + 16 <= 128
    OBVIOUS
  <2> QED BY <1>1, <2>1, Zenon
<1>4. R(64, 64)
  <2>1. 64 \in 0..127 /\ 64 \in 1..64 /\ 64 + 64 <= 128
    OBVIOUS
  <2> QED BY <1>1, <2>1, Zenon
<1>5. R(96, 32)
  <2>1. 96 \in 0..127 /\ 32 \in 1..64 /\ 96 + 32 <= 128
    OBVIOUS
  <2> QED BY <1>1, <2>1, Zenon
<1>6. R(64, 32)
  <2>1. 64 \in 0..127 /\ 32 \in 1..64 /\ 64 + 32 <= 128
    OBVIOUS
  <2> QED BY <1>1, <2>1, Zenon
<1> QED BY <1>2, <1>3, <1>4, <1>5, <1>6, Zenon
        DEF R, builder_fee, builder_id, isolated_margin, twap_times, twap_slippage

(* An order that is read back has numbers that fit their fields, and began *)
(* with nothing that contradicts its options.                              *)
LEMMA OnlyInRange ==
    ASSUME NEW o \in Orders, Buildable(o), ReadsBack(o)
    PROVE  InRange(o) /\ StartAgrees(o)
<1>1. builder_fee(Appendix(o)) = BitsOf(o.fee) /\ builder_id(Appendix(o)) = BitsOf(o.builder)
  BY DEF ReadsBack
<1>2. \A k \in 0..127 : Bit(o.fee, k) => k < 10
  BY <1>1 DEF builder_fee, Field, BitsOf
<1>3. \A k \in 0..127 : Bit(o.builder, k) => k < 16
  BY <1>1 DEF builder_id, Field, BitsOf
<1>4. ASSUME o.isolated PROVE o.margin >= 0
  <2>1. isolated_margin(Appendix(o)) = BitsOf(o.margin)
    BY <1>4 DEF ReadsBack
  <2>2. \A k \in 0..127 : Bit(o.margin, k) => k < 64
    BY <2>1 DEF isolated_margin, Field, BitsOf
  <2>3. ~ Bit(o.margin, 64)
    BY <2>2
  <2> QED BY <2>3, OrderOptions DEF Bit
<1>5. InRange(o)
  BY <1>2, <1>3, <1>4, FieldLimits, Zenon
<1>r. /\ order_type_bits(Appendix(o)) = TypeBits(o.type)
      /\ trigger_type_bits(Appendix(o)) = KindBits(o.trigger)
      /\ reduce_only(Appendix(o)) <=> o.reduce_only
      /\ is_isolated(Appendix(o)) <=> o.isolated
      /\ o.isolated => isolated_margin(Appendix(o)) = BitsOf(o.margin)
      /\ TimeTriggered(o) => twap_times(Appendix(o)) = BitsOf(o.times) /\ twap_slippage(Appendix(o)) = BitsOf(o.slippage)
  BY Zenon DEF ReadsBack
<1>6. /\ order_type_bits(Start(o)) \subseteq TypeBits(o.type)
      /\ trigger_type_bits(Start(o)) \subseteq KindBits(o.trigger)
      /\ reduce_only(Start(o)) => o.reduce_only
      /\ is_isolated(Start(o)) => o.isolated
  BY FieldsJoin, <1>r
<1>7. builder_fee(Start(o)) \subseteq BitsOf(o.fee) /\ builder_id(Start(o)) \subseteq BitsOf(o.builder)
  BY <1>1, FieldsJoin
<1>8. o.isolated => isolated_margin(Start(o)) \subseteq BitsOf(o.margin)
  BY FieldsJoin, <1>r
<1>9. TimeTriggered(o) => /\ twap_times(Start(o)) \subseteq BitsOf(o.times)
                         /\ twap_slippage(Start(o)) \subseteq BitsOf(o.slippage)
  BY FieldsJoin, <1>r
<1> QED BY <1>5, <1>6, <1>7, <1>8, <1>9, Zenon DEF StartAgrees

(* Numbers that fit their fields are read back from the options' bits.     *)
LEMMA NumbersRead ==
    ASSUME NEW o \in Orders, Buildable(o), InRange(o)
    PROVE  /\ builder_fee(Options(o)) = BitsOf(o.fee) /\ builder_id(Options(o)) = BitsOf(o.builder)
           /\ o.isolated => isolated_margin(Options(o)) = BitsOf(o.margin)
           /\ TimeTriggered(o) => /\ twap_times(Options(o)) = BitsOf(o.times)
                                  /\ twap_slippage(Options(o)) = BitsOf(o.slippage)
<1>1. /\ \A k \in 0..127 : Bit(o.fee, k) => k < 10
      /\ \A k \in 0..127 : Bit(o.builder, k) => k < 16
      /\ o.isolated => o.margin >= 0
      /\ ~ (TimeTriggered(o) /\ o.isolated)
  BY FieldLimits, OrderOptions, Zenon
<1>2. \A k \in 0..127 : Bit(o.times, k) \/ Bit(o.slippage, k) => k < 32
  <2>1. \A k \in Nat : k > 30 => ~ Bit(o.times, k) /\ ~ Bit(o.slippage, k)
    BY BitPower, OrderOptions
  <2> QED BY <2>1
<1>3. ASSUME o.isolated PROVE \A k \in 0..127 : Bit(o.margin, k) => k < 64
  <2>1. o.margin \in Number
    BY <1>1, <1>3, OrderOptions, Zenon
  <2>2. \A k \in Nat : k > 30 => ~ Bit(o.margin, k)
    BY <2>1, BitPower
  <2> QED BY <2>2
<1>4. builder_fee(Options(o)) = BitsOf(o.fee)
  <2>1. \A k \in 0..9 : HasBit(o, 38 + k) <=> Bit(o.fee, k)
    <3> TAKE k \in 0..9
    <3>1. 38 + k - 38 = k /\ 38 + k >= 38 /\ 38 + k < 48
      OBVIOUS
    <3> QED BY <3>1 DEF HasBit
  <2>2. \A k \in 0..127 : k < 10 <=> k \in 0..9
    OBVIOUS
  <2>3. \A k \in 0..127 : Bit(o.fee, k) <=> k < 10 /\ HasBit(o, 38 + k)
    BY <1>1, <2>1, <2>2
  <2> QED BY <2>3, NumberFields, Zenon DEF Reads
<1>5. builder_id(Options(o)) = BitsOf(o.builder)
  <2>1. \A k \in 0..15 : HasBit(o, 48 + k) <=> Bit(o.builder, k)
    <3> TAKE k \in 0..15
    <3>1. 48 + k - 48 = k /\ 48 + k >= 48 /\ 48 + k < 64 /\ 48 + k - 38 \in 10..25 /\ 48 + k >= 38
      OBVIOUS
    <3>2. ~ Bit(o.fee, 48 + k - 38)
      BY <1>1, <3>1
    <3> QED BY <3>1, <3>2 DEF HasBit
  <2>2. \A k \in 0..127 : k < 16 <=> k \in 0..15
    OBVIOUS
  <2>3. \A k \in 0..127 : Bit(o.builder, k) <=> k < 16 /\ HasBit(o, 48 + k)
    BY <1>1, <2>1, <2>2
  <2> QED BY <2>3, NumberFields, Zenon DEF Reads
<1>6. \A k \in 0..63 : HasBit(o, 64 + k) <=>
         \/ o.isolated /\ Bit(o.margin, k)
         \/ TimeTriggered(o) /\ Bit(o.slippage, k)
         \/ k >= 32 /\ TimeTriggered(o) /\ Bit(o.times, k - 32)
  <2> TAKE k \in 0..63
  <2>1. /\ 64 + k - 64 = k /\ 64 + k >= 64 /\ 64 + k - 96 = k - 32 /\ (64 + k >= 96 <=> k >= 32)
        /\ 64 + k - 48 \in 16..127 /\ 64 + k - 38 \in 26..127
    OBVIOUS
  <2>2. ~ Bit(o.builder, 64 + k - 48) /\ ~ Bit(o.fee, 64 + k - 38)
    BY <1>1, <2>1
  <2> QED BY <2>1, <2>2 DEF HasBit
<1>7. ASSUME o.isolated PROVE isolated_margin(Options(o)) = BitsOf(o.margin)
  <2>1. \A k \in 0..63 : HasBit(o, 64 + k) <=> Bit(o.margin, k)
    BY <1>1, <1>6, <1>7
  <2>2. \A k \in 0..127 : k < 64 <=> k \in 0..63
    OBVIOUS
  <2>3. \A k \in 0..127 : Bit(o.margin, k) <=> k < 64 /\ HasBit(o, 64 + k)
    BY <1>3, <1>7, <2>1, <2>2
  <2> QED BY <2>3, NumberFields, Zenon DEF Reads
<1>8. ASSUME TimeTriggered(o) PROVE twap_slippage(Options(o)) = BitsOf(o.slippage)
  <2>1. \A k \in 0..31 : HasBit(o, 64 + k) <=> Bit(o.slippage, k)
    BY <1>1, <1>6, <1>8
  <2>2. \A k \in 0..127 : k < 32 <=> k \in 0..31
    OBVIOUS
  <2>3. \A k \in 0..127 : Bit(o.slippage, k) <=> k < 32 /\ HasBit(o, 64 + k)
    BY <1>2, <2>1, <2>2
  <2> QED BY <2>3, NumberFields, Zenon DEF Reads
<1>9. ASSUME TimeTriggered(o) PROVE twap_times(Options(o)) = BitsOf(o.times)
  <2>1. \A k \in 0..31 : HasBit(o, 96 + k) <=> Bit(o.times, k)
    <3> TAKE k \in 0..31
    <3>1. /\ 32 + k \in 0..63 /\ 64 + (32 + k) = 96 + k /\ (32 + k) - 32 = k
          /\ 32 + k >= 32 /\ 32 + k \in 0..127 /\ ~ (32 + k < 32)
      OBVIOUS
    <3>2. ~ Bit(o.slippage, 32 + k)
      BY <1>2, <3>1
    <3> QED BY <1>1, <1>6, <1>9, <3>1, <3>2
  <2>2. \A k \in 0..127 : k < 32 <=> k \in 0..31
    OBVIOUS
  <2>3. \A k \in 0..127 : Bit(o.times, k) <=> k < 32 /\ HasBit(o, 96 + k)
    BY <1>2, <2>1, <2>2
  <2> QED BY <2>3, NumberFields, Zenon DEF Reads
<1> QED BY <1>4, <1>5, <1>7, <1>8, <1>9, Zenon

(* And from the whole appendix, if it began with nothing that contradicts  *)
(* the options.                                                            *)
LEMMA InRangeReadsBack ==
    ASSUME NEW o \in Orders, Buildable(o), InRange(o), StartAgrees(o)
    PROVE  ReadsBack(o)
<1>j. /\ order_type_bits(Appendix(o)) = order_type_bits(Start(o)) \cup order_type_bits(Options(o))
      /\ trigger_type_bits(Appendix(o)) = trigger_type_bits(Start(o)) \cup trigger_type_bits(Options(o))
      /\ reduce_only(Appendix(o)) <=> reduce_only(Start(o)) \/ reduce_only(Options(o))
      /\ is_isolated(Appendix(o)) <=> is_isolated(Start(o)) \/ is_isolated(Options(o))
      /\ builder_fee(Appendix(o)) = builder_fee(Start(o)) \cup builder_fee(Options(o))
      /\ builder_id(Appendix(o)) = builder_id(Start(o)) \cup builder_id(Options(o))
      /\ isolated_margin(Appendix(o)) = isolated_margin(Start(o)) \cup isolated_margin(Options(o))
      /\ twap_times(Appendix(o)) = twap_times(Start(o)) \cup twap_times(Options(o))
      /\ twap_slippage(Appendix(o)) = twap_slippage(Start(o)) \cup twap_slippage(Options(o))
  BY FieldsJoin
<1>a. /\ order_type_bits(Start(o)) \subseteq TypeBits(o.type)
      /\ trigger_type_bits(Start(o)) \subseteq KindBits(o.trigger)
      /\ reduce_only(Start(o)) => o.reduce_only
      /\ is_isolated(Start(o)) => o.isolated
      /\ builder_fee(Start(o)) \subseteq BitsOf(o.fee) /\ builder_id(Start(o)) \subseteq BitsOf(o.builder)
      /\ o.isolated => isolated_margin(Start(o)) \subseteq BitsOf(o.margin)
      /\ TimeTriggered(o) => /\ twap_times(Start(o)) \subseteq BitsOf(o.times)
                             /\ twap_slippage(Start(o)) \subseteq BitsOf(o.slippage)
  BY Zenon DEF StartAgrees
<1>1. /\ order_type_bits(Appendix(o)) = TypeBits(o.type)
      /\ trigger_type_bits(Appendix(o)) = KindBits(o.trigger)
      /\ reduce_only(Appendix(o)) <=> o.reduce_only
      /\ is_isolated(Appendix(o)) <=> o.isolated
  BY <1>j, <1>a, OptionControls
<1>2. builder_fee(Appendix(o)) = BitsOf(o.fee) /\ builder_id(Appendix(o)) = BitsOf(o.builder)
  BY <1>j, <1>a, NumbersRead
<1>3. o.isolated => isolated_margin(Appendix(o)) = BitsOf(o.margin)
  BY <1>j, <1>a, NumbersRead
<1>4. TimeTriggered(o) => /\ twap_times(Appendix(o)) = BitsOf(o.times)
                         /\ twap_slippage(Appendix(o)) = BitsOf(o.slippage)
  BY <1>j, <1>a, NumbersRead
<1> QED BY <1>1, <1>2, <1>3, <1>4, Zenon DEF ReadsBack

-----------------------------------------------------------------------------
(* Products and their order.                                               *)
LEMMA Grows ==
    ASSUME NEW a \in Nat, NEW b \in Nat, NEW c \in Nat
    PROVE  /\ a * b \in Nat
           /\ a <= b => a * c <= b * c
           /\ a < b /\ c > 0 => a * c < b * c
           /\ c > 0 => a <= a * c
<1>1. a * b \in Nat
  BY SMT
<1>2. a <= b => a * c <= b * c
  BY SMT
<1>3. a < b /\ c > 0 => a * c < b * c
  BY SMT
<1>4. c > 0 => a <= a * c
  BY SMT
<1> QED BY <1>1, <1>2, <1>3, <1>4

(* A quotient and a remainder determine the number and are determined by   *)
(* it.                                                                     *)
LEMMA Divided ==
    ASSUME NEW n \in Nat, NEW p \in Nat \ {0}
    PROVE  n \div p \in Nat /\ n % p \in 0..(p - 1) /\ n = (n \div p) * p + (n % p)
BY SMT

(* And they are determined by the number.                                  *)
LEMMA Quotient ==
    ASSUME NEW p \in Nat \ {0}, NEW q \in Nat, NEW r \in Nat, r < p
    PROVE  (q * p + r) \div p = q /\ (q * p + r) % p = r
BY SMT

(* Whole multiples of the divisor leave a quotient.                        *)
LEMMA QuotientOfSum ==
    ASSUME NEW p \in Nat \ {0}, NEW q \in Nat, NEW n \in Nat
    PROVE  (q * p + n) \div p = q + (n \div p) /\ n \div p \in Nat
<1> DEFINE t == n \div p
           r == n % p
<1>1. t \in Nat /\ r \in Nat /\ r < p /\ n = t * p + r
  BY Divided
<1> HIDE DEF t, r
<1>2. q * p + n = (q + t) * p + r
  BY <1>1, SMT
<1>3. q + t \in Nat
  BY <1>1
<1>4. ((q + t) * p + r) \div p = q + t
  BY <1>1, <1>3, Quotient
<1> QED BY <1>1, <1>2, <1>4 DEF t

(* A quotient is the greatest number whose product with the divisor does   *)
(* not exceed the dividend.                                                *)
LEMMA QuotientBound ==
    ASSUME NEW p \in Nat \ {0}, NEW n \in Nat, NEW m \in Nat
    PROVE  /\ n \div p <= m - 1 => n < m * p
           /\ n < m * p => n \div p < m
           /\ m * p <= n => m <= n \div p
<1> DEFINE t == n \div p
           r == n % p
<1>1. t \in Nat /\ r \in Nat /\ r < p /\ n = t * p + r
  BY Divided
<1> HIDE DEF t, r
<1>2. t <= m - 1 => n < m * p
  BY <1>1, SMT
<1>3. n < m * p => t < m
  BY <1>1, SMT
<1>4. m * p <= n => m <= t
  BY <1>1, SMT
<1> QED BY <1>2, <1>3, <1>4 DEF t

(* The scale and the range.                                                *)
LEMMA Scale ==
    /\ One \in Nat \ {0} /\ Half \in Nat /\ One * One \in Nat /\ One * One < Half /\ One <= One * One
    /\ 2^Width = 2 * Half
    /\ IMax = Half - 1 /\ IMin = -Half
    /\ \A n : Fits(n) <=> n \in Int /\ -Half <= n /\ n < Half
<1>1. One \in Nat \ {0} /\ One * One < Half
  BY FixedPointAssumption, PowersAssumption
<1>2. Half \in Nat /\ 2^Width = 2 * Half
  <2>1. Width \in 0..Width /\ Width - 1 \in 0..Width /\ Width > 0
    BY FixedPointAssumption
  <2> QED BY <2>1, PowersAssumption, Zenon DEF Half
<1>3. One * One \in Nat /\ One <= One * One
  BY <1>1, Grows
<1>4. \A n : Fits(n) <=> n \in Int /\ -Half <= n /\ n < Half
  BY <1>2 DEF Fits, IMax, IMin
<1> QED BY <1>1, <1>2, <1>3, <1>4 DEF IMax, IMin

(* A number that fits is what its low bits stand for.                      *)
LEMMA SignedFits ==
    ASSUME NEW n, Fits(n)
    PROVE  Signed(n) = n
<1> DEFINE M == 2 * Half
           m == n % M
<1>1. n \in Int /\ -Half <= n /\ n < Half /\ Half \in Nat \ {0} /\ M \in Nat \ {0}
  BY Scale
<1>2. CASE n >= 0
  <2>1. m = n
    BY <1>1, <1>2
  <2> QED BY <1>1, <2>1, Scale DEF Signed
<1>3. CASE n < 0
  <2>1. m = n + M
    BY <1>1, <1>3
  <2> QED BY <1>1, <1>3, <2>1, Scale DEF Signed
<1> QED BY <1>1, <1>2, <1>3

(* The sign of a product and a quotient is that of its operands.           *)
LEMMA SignedQuotient ==
    ASSUME NEW x \in Int, NEW y \in Int, NEW p \in Nat \ {0}
    PROVE  /\ Mag(x) \in Nat /\ Mag(p) = p
           /\ Sign(x, y) \in {-1, 1}
           /\ Mag(x * y) = Mag(x) * Mag(y)
           /\ Quot(x * y, p) = Sign(x, y) * ((Mag(x) * Mag(y)) \div p)
<1>1. /\ Mag(x) \in Nat /\ Mag(y) \in Nat /\ Mag(p) = p
      /\ Sign(x, y) \in {-1, 1}
  BY DEF Mag, Sign
<1>2. x * y \in Int /\ Mag(x * y) = Mag(x) * Mag(y)
  <2>1. CASE x >= 0 /\ y >= 0
    <3>1. x * y \in Nat
      BY <2>1, Grows
    <3> QED BY <2>1, <3>1 DEF Mag
  <2>2. CASE x < 0 /\ y >= 0
    <3>1. (-x) * y \in Nat /\ x * y = -((-x) * y)
      BY <2>2, SMT
    <3> QED BY <2>2, <3>1 DEF Mag
  <2>3. CASE x >= 0 /\ y < 0
    <3>1. x * (-y) \in Nat /\ x * y = -(x * (-y))
      BY <2>3, SMT
    <3> QED BY <2>3, <3>1 DEF Mag
  <2>4. CASE x < 0 /\ y < 0
    <3>1. (-x) * (-y) \in Nat /\ x * y = (-x) * (-y)
      BY <2>4, SMT
    <3> QED BY <2>4, <3>1 DEF Mag
  <2> QED BY <2>1, <2>2, <2>3, <2>4
<1>3. Quot(x * y, p) = Sign(x * y, p) * ((Mag(x) * Mag(y)) \div p)
  BY <1>1, <1>2 DEF Quot
<1>4. CASE x = 0 \/ y = 0
  <2>1. Mag(x) * Mag(y) = 0 /\ Sign(x * y, p) \in {-1, 1}
    BY <1>4, SMT DEF Mag, Sign
  <2>2. 0 \div p = 0
    BY SMT
  <2> QED BY <1>1, <1>2, <1>3, <2>1, <2>2
<1>5. CASE x # 0 /\ y # 0
  <2>1. x * y < 0 <=> (x < 0) # (y < 0)
    <3>1. CASE x < 0 /\ y < 0
      BY <3>1, SMT
    <3>2. CASE x < 0 /\ y > 0
      BY <3>2, SMT
    <3>3. CASE x > 0 /\ y < 0
      BY <3>3, SMT
    <3>4. CASE x > 0 /\ y > 0
      BY <3>4, SMT
    <3> QED BY <1>5, <3>1, <3>2, <3>3, <3>4
  <2>2. Sign(x * y, p) = Sign(x, y)
    BY <2>1 DEF Sign
  <2> QED BY <1>1, <1>2, <1>3, <2>2, Zenon
<1> QED BY <1>1, <1>2, <1>4, <1>5

(* A quotient that fits is made by steps that fit.                         *)
LEMMA MulStepsExact ==
    ASSUME NEW a \in Nat, NEW b \in Nat, a <= b
    PROVE  /\ DOMAIN MulSteps(a, b) = 1..Len(MulSteps(a, b)) /\ Len(MulSteps(a, b)) \in 1..5
           /\ Result(MulSteps(a, b)) = (a * b) \div One
           /\ (a * b) \div One <= Half =>
                \A k \in DOMAIN MulSteps(a, b) : MulSteps(a, b)[k] < 2 * Half
<1> DEFINE c == b \div One
           d == b % One
           e == a \div One
           f == a % One
           O == One
<1>1. O \in Nat \ {0} /\ O * O < Half /\ O * O \in Nat /\ Half \in Nat
  BY Scale
<1>2. /\ c \in Nat /\ d \in Nat /\ d < O /\ b = c * O + d
      /\ e \in Nat /\ f \in Nat /\ f < O /\ a = e * O + f
  BY <1>1, Divided
<1>3. MulSteps(a, b) =
         IF b < O THEN <<a * b, (a * b) \div O>>
         ELSE IF a < O THEN <<a * c, a * d, a * c + ((a * d) \div O)>>
         ELSE <<e * c * O, e * d, f * c, f * d, e * c * O + e * d + f * c + ((f * d) \div O)>>
  BY DEF MulSteps
<1>4. CASE b < O
  <2> DEFINE u == a * b
             w == u \div O
  <2>1. MulSteps(a, b) = <<u, w>>
    BY <1>3, <1>4
  <2>2. u \in Nat /\ u < Half
    <3>1. a * b \in Nat
      BY Grows
    <3>2. a * b <= O * b /\ O * b = b * O /\ b * O <= O * O
      BY <1>1, <1>4, Grows, SMT
    <3> QED BY <1>1, <3>1, <3>2
  <2>3. w = (a * b) \div One /\ w \in Nat
    BY <1>1, <2>2, Divided
  <2> HIDE DEF u, w
  <2>4. /\ DOMAIN MulSteps(a, b) = 1..Len(MulSteps(a, b)) /\ Len(MulSteps(a, b)) = 2
        /\ MulSteps(a, b)[1] = u /\ MulSteps(a, b)[2] = w
    BY <2>1
  <2>5. \A k \in 1..2 : k = 1 \/ k = 2
    OBVIOUS
  <2> QED BY ONLY <1>1, <2>2, <2>3, <2>4, <2>5 DEF Result
<1>5. CASE b >= O /\ a < O
  <2> DEFINE u == a * c
             v == a * d
             w == v \div O
  <2>1. MulSteps(a, b) = <<u, v, u + w>>
    BY <1>1, <1>3, <1>5
  <2> HIDE DEF c, d
  <2>2. u \in Nat /\ v \in Nat
    BY <1>2, Grows
  <2>3. v < Half
    <3>1. a * d <= O * d /\ O * d = d * O /\ d * O <= O * O
      BY <1>1, <1>2, <1>5, Grows, SMT
    <3> QED BY <1>1, <1>2, <2>2, <3>1
  <2>4. a * b = u * O + v
    BY <1>1, <1>2, SMT
  <2> HIDE DEF O, u, v
  <2>5. (a * b) \div O = u + (v \div O) /\ v \div O \in Nat
    <3>1. (u * O + v) \div O = u + (v \div O) /\ v \div O \in Nat
      BY ONLY <1>1, <2>2, QuotientOfSum
    <3> QED BY <2>4, <3>1, Zenon
  <2>6. (a * b) \div One = u + w /\ w \in Nat
    BY <2>5 DEF O
  <2> HIDE DEF w
  <2>7. /\ DOMAIN MulSteps(a, b) = 1..Len(MulSteps(a, b)) /\ Len(MulSteps(a, b)) = 3
        /\ MulSteps(a, b)[1] = u /\ MulSteps(a, b)[2] = v /\ MulSteps(a, b)[3] = u + w
    BY <2>1
  <2>8. \A k \in 1..3 : k = 1 \/ k = 2 \/ k = 3
    OBVIOUS
  <2> QED BY ONLY <1>1, <2>2, <2>3, <2>6, <2>7, <2>8 DEF Result
<1>6. CASE b >= O /\ a >= O
  <2> DEFINE u == e * c * O
             v == e * d
             w == f * c
             z == f * d
             y == z \div O
             t == u + v + w
  <2>1. MulSteps(a, b) = <<u, v, w, z, t + y>>
    BY <1>1, <1>3, <1>6
  <2> HIDE DEF c, d, e, f
  <2>2. u \in Nat /\ v \in Nat /\ w \in Nat /\ z \in Nat
    BY <1>1, <1>2, Grows
  <2>3. z < Half
    <3>1. f * d <= O * d /\ O * d = d * O /\ d * O <= O * O
      BY <1>1, <1>2, Grows, SMT
    <3> QED BY <1>1, <1>2, <2>2, <3>1
  <2>4. a * b = t * O + z
    <3>1. a * b = (e * O + f) * (c * O + d)
      BY <1>2
    <3>2. (e * O + f) * (c * O + d) = (e * c * O + e * d + f * c) * O + f * d
      BY <1>1, <1>2, SMT
    <3> QED BY <3>1, <3>2
  <2> HIDE DEF O, u, v, w, z
  <2>5. t \in Nat /\ t = u + v + w
    BY <2>2
  <2> HIDE DEF t
  <2>6. (a * b) \div O = t + (z \div O) /\ z \div O \in Nat
    <3>1. (t * O + z) \div O = t + (z \div O) /\ z \div O \in Nat
      BY ONLY <1>1, <2>2, <2>5, QuotientOfSum
    <3> QED BY <2>4, <3>1, Zenon
  <2>7. (a * b) \div One = t + y /\ y \in Nat
    BY <2>6 DEF O
  <2> HIDE DEF y
  <2>8. /\ DOMAIN MulSteps(a, b) = 1..Len(MulSteps(a, b)) /\ Len(MulSteps(a, b)) = 5
        /\ MulSteps(a, b)[1] = u /\ MulSteps(a, b)[2] = v /\ MulSteps(a, b)[3] = w
        /\ MulSteps(a, b)[4] = z /\ MulSteps(a, b)[5] = t + y
    BY <2>1
  <2>9. \A k \in 1..5 : k = 1 \/ k = 2 \/ k = 3 \/ k = 4 \/ k = 5
    OBVIOUS
  <2> QED BY ONLY <1>1, <2>2, <2>3, <2>5, <2>7, <2>8, <2>9 DEF Result
<1> QED BY <1>1, <1>4, <1>5, <1>6

(* mul_x18 is exact wherever the exact product fits.                       *)
LEMMA MulIsExact ==
    ASSUME NEW x \in Int, NEW y \in Int
    PROVE  MulExact(x, y)
<1> DEFINE a == IF Mag(x) <= Mag(y) THEN Mag(x) ELSE Mag(y)
           b == IF Mag(x) <= Mag(y) THEN Mag(y) ELSE Mag(x)
           S == MulSteps(a, b)
           q == (a * b) \div One
           s == Sign(x, y)
<1>1. Mag(x) \in Nat /\ Mag(y) \in Nat
  BY Scale, SignedQuotient
<1>2. /\ a \in Nat /\ b \in Nat /\ a <= b
      /\ MulStepsOf(x, y) = S
      /\ a * b = Mag(x) * Mag(y)
  <2>1. CASE Mag(x) <= Mag(y)
    BY <1>1, <2>1 DEF MulStepsOf
  <2>2. CASE ~ (Mag(x) <= Mag(y))
    <3>1. Mag(y) * Mag(x) = Mag(x) * Mag(y)
      BY <1>1, SMT
    <3> QED BY <1>1, <2>2, <3>1 DEF MulStepsOf
  <2> QED BY <2>1, <2>2
<1> HIDE DEF a, b
<1>3. a * b \in Nat /\ q \in Nat
  BY <1>2, Grows, Scale, Divided
<1>4. s \in {-1, 1} /\ Quot(x * y, One) = s * q
  <2>1. One \in Nat \ {0}
    BY Scale, Zenon
  <2>2. s \in {-1, 1} /\ Quot(x * y, One) = s * ((Mag(x) * Mag(y)) \div One)
    BY <2>1, SignedQuotient, Zenon
  <2> QED BY <1>2, <2>2, Zenon
<1>5. Result(S) = q /\ (q <= Half => \A k \in DOMAIN S : S[k] < 2 * Half)
  BY <1>2, MulStepsExact
<1> HIDE DEF S, q, s
<1>6. ASSUME Fits(s * q)
      PROVE  Signed(s * q) = s * q /\ \A k \in DOMAIN S : S[k] < 2^Width
  <2>1. q <= Half
    BY <1>3, <1>4, <1>6, Scale
  <2> QED BY <1>5, <1>6, <2>1, Scale, SignedFits, Zenon
<1>7. mul_x18(x, y) = Signed(s * q)
  BY <1>2, <1>5, Zenon DEF mul_x18, s
<1> QED BY <1>2, <1>4, <1>6, <1>7, Zenon DEF MulExact

(* The same of div_x18.                                                    *)
LEMMA DivStepsExact ==
    ASSUME NEW a \in Nat, NEW b \in Nat \ {0}, (a * One) \div b <= Half
    PROVE  /\ Result(DivSteps(a, b)) = (a * One) \div b
           /\ \A k \in DOMAIN DivSteps(a, b) : DivSteps(a, b)[k] < 2 * Half
<1> DEFINE O == One
           t == a \div b
           r == a % b
           u == t * O
           v == r * O
           w == v \div b
<1>1. O \in Nat \ {0} /\ O * O < Half /\ O * O \in Nat /\ O <= O * O /\ Half \in Nat /\ 2^Width = 2 * Half
  BY Scale
<1>2. DivSteps(a, b) = IF r <= O THEN <<v, u + w>> ELSE <<u + Unsigned(w)>>
  BY DEF DivSteps
<1>3. t \in Nat /\ r \in Nat /\ r < b /\ a = t * b + r
  <2>1. t \in Nat /\ r \in 0..(b - 1) /\ a = t * b + r
    BY Divided, Zenon
  <2> HIDE DEF t, r
  <2> QED BY <2>1
<1> HIDE DEF t, r
<1>4. u \in Nat /\ v \in Nat
  BY <1>1, <1>3, Grows
<1>5. a * O = u * b + v
  BY <1>1, <1>3, SMT
<1>6. v < O * b /\ O * b \in Nat
  <2>1. r * O < b * O
    BY <1>1, <1>3, SMT
  <2>2. b * O = O * b /\ O * b \in Nat
    BY <1>1, SMT
  <2> QED BY <2>1, <2>2
<1>7. r <= O => v < Half
  BY <1>1, <1>3, <1>4, Grows
<1> HIDE DEF O, u, v
<1>8. (a * O) \div b = u + w /\ w \in Nat
  <2>1. (u * b + v) \div b = u + (v \div b) /\ v \div b \in Nat
    BY ONLY <1>4, QuotientOfSum
  <2> QED BY <1>5, <2>1, Zenon
<1>9. w < O
  BY <1>1, <1>4, <1>6, QuotientBound
<1> HIDE DEF w
<1>10. Unsigned(w) = w
  <2>1. w < 2 * Half
    BY <1>1, <1>8, <1>9
  <2>2. w % (2 * Half) = w
    BY <1>1, <1>8, <2>1, SMT
  <2> QED BY <1>1, <2>2, Zenon DEF Unsigned
<1>11. u + w <= Half /\ (a * One) \div b = u + w
  BY <1>8 DEF O
<1>12. CASE r <= O
  <2>1. /\ DOMAIN DivSteps(a, b) = 1..2 /\ Len(DivSteps(a, b)) = 2
        /\ DivSteps(a, b)[1] = v /\ DivSteps(a, b)[2] = u + w
    BY <1>2, <1>12
  <2>2. \A k \in 1..2 : k = 1 \/ k = 2
    OBVIOUS
  <2> QED BY ONLY <1>1, <1>4, <1>7, <1>8, <1>11, <1>12, <2>1, <2>2 DEF Result
<1>13. CASE ~ (r <= O)
  <2>1. DivSteps(a, b) = <<u + w>>
    BY <1>2, <1>10, <1>13
  <2>2. /\ DOMAIN DivSteps(a, b) = 1..1 /\ Len(DivSteps(a, b)) = 1
        /\ DivSteps(a, b)[1] = u + w
    BY <2>1
  <2>3. \A k \in 1..1 : k = 1
    OBVIOUS
  <2> QED BY ONLY <1>1, <1>4, <1>8, <1>11, <2>2, <2>3 DEF Result
<1> QED BY <1>12, <1>13

(* div_x18 is exact wherever the exact quotient fits.                      *)
LEMMA DivIsExact ==
    ASSUME NEW x \in Int, NEW y \in Int
    PROVE  DivExact(x, y)
<1> SUFFICES ASSUME y # 0, Fits(Quot(x * One, y))
             PROVE  /\ div_x18(x, y) = Quot(x * One, y)
                    /\ \A k \in DOMAIN DivStepsOf(x, y) : DivStepsOf(x, y)[k] < 2^Width
  BY Zenon DEF DivExact
<1> DEFINE a == Mag(x)
           b == Mag(y)
           S == DivSteps(a, b)
           q == (a * One) \div b
           s == Sign(x, y)
<1>1. One \in Nat \ {0} /\ Half \in Nat
  BY Scale
<1>2. a \in Nat /\ b \in Nat \ {0} /\ s \in {-1, 1}
  BY DEF Mag, Sign
<1>3. q \in Nat
  <2>1. a * One \in Nat
    BY <1>1, <1>2, Grows
  <2> QED BY <1>2, <2>1, Divided
<1>4. Quot(x * One, y) = s * q
  <2>1. Mag(x * One) = a * One
    BY <1>1, SignedQuotient
  <2>2. Sign(x * One, y) = s
    <3>1. x < 0 <=> x * One < 0
      <4>1. CASE x >= 0
        BY <1>1, <4>1, Grows
      <4>2. CASE x < 0
        <5>1. -x \in Nat /\ -x > 0 /\ x * One = -((-x) * One)
          BY <1>1, <4>2, SMT
        <5>2. -x <= (-x) * One
          BY <1>1, <5>1, Grows
        <5>3. (-x) * One \in Nat
          BY <1>1, <5>1, Grows
        <5> QED BY <4>2, <5>1, <5>2, <5>3
      <4> QED BY <4>1, <4>2
    <3> QED BY <3>1 DEF Sign
  <2> QED BY <2>1, <2>2, Zenon DEF Quot
<1>5. q <= Half
  <2> HIDE DEF q, s
  <2>1. Fits(s * q)
    BY <1>4, Zenon
  <2> QED BY <1>2, <1>3, <2>1, Scale
<1>6. Result(S) = q /\ \A k \in DOMAIN S : S[k] < 2 * Half
  BY <1>2, <1>5, DivStepsExact
<1>7. DivStepsOf(x, y) = S
  BY DEF DivStepsOf
<1>8. div_x18(x, y) = Signed(s * q)
  BY <1>6, <1>7, Zenon DEF div_x18
<1> QED BY <1>4, <1>6, <1>7, <1>8, Scale, SignedFits, Zenon

(* What is received of an amount: its fee is what mul_x18 cuts off, and no *)
(* more than the rest of a division more than the rate says.               *)
LEMMA ReceivedFee ==
    ASSUME NEW amount \in Nat, amount < Half, NEW rate \in 0..(One - 1)
    PROVE  LET fee == calc_fee(amount, rate, 0)
           IN  fee >= 0 /\ fee * One - amount * rate \in 0..(One - 1)
<1> DEFINE keep == One - rate
           n == amount * keep
           q == n \div One
           r == n % One
<1>1. One \in Nat \ {0} /\ Half \in Nat /\ keep \in Nat \ {0} /\ keep <= One /\ rate \in Nat
  BY Scale
<1>2. n \in Nat /\ n <= amount * One
  <2>1. keep * amount <= One * amount /\ keep * amount = amount * keep /\ One * amount = amount * One
    BY <1>1, Grows, SMT
  <2> QED BY <1>1, <2>1, Grows
<1>3. q \in Nat /\ r \in 0..(One - 1) /\ n = q * One + r
  BY <1>1, <1>2, Divided, Zenon
<1>4. q <= amount
  <2>1. amount + 1 \in Nat /\ (amount + 1) * One = amount * One + One
    BY <1>1, SMT
  <2>2. n < (amount + 1) * One
    BY <1>1, <1>2, <2>1, Grows
  <2>3. q < amount + 1
    BY <1>1, <1>2, <2>1, <2>2, QuotientBound
  <2> QED BY <1>3, <2>3
<1>5. amount * One - amount * rate = n
  BY <1>1, SMT
<1>6. mul_x18(amount, keep) = q
  <2>1. Sign(amount, keep) = 1 /\ Mag(amount) = amount /\ Mag(keep) = keep
    BY <1>1 DEF Sign, Mag
  <2>2. Quot(amount * keep, One) = 1 * q
    <3>1. amount \in Int /\ keep \in Int
      BY <1>1
    <3>2. Quot(amount * keep, One) = Sign(amount, keep) * ((Mag(amount) * Mag(keep)) \div One)
      BY <1>1, <3>1, SignedQuotient, Zenon
    <3> QED BY <2>1, <3>2, Zenon
  <2> HIDE DEF q
  <2>3. Fits(q) /\ 1 * q = q
    BY <1>1, <1>3, <1>4, Scale
  <2>4. MulExact(amount, keep)
    BY <1>1, MulIsExact
  <2> QED BY <2>2, <2>3, <2>4, Zenon DEF MulExact
<1> DEFINE fee == calc_fee(amount, rate, 0)
<1>7. fee = amount - q
  <2>1. fee = Saturated(amount - Saturated(q - 0))
    BY <1>6 DEF calc_fee, NewAmount
  <2> HIDE DEF fee, q
  <2>2. Saturated(q - 0) = q
    BY <1>1, <1>3, <1>4, Scale DEF Saturated
  <2>3. Saturated(amount - q) = amount - q
    BY <1>1, <1>3, <1>4, Scale DEF Saturated
  <2> QED BY <2>1, <2>2, <2>3, Zenon
<1>8. (amount - q) * One = amount * One - q * One
  <2> HIDE DEF q
  <2> QED BY <1>1, <1>3, SMT
<1>9. fee >= 0
  <2> HIDE DEF fee, q
  <2> QED BY <1>3, <1>4, <1>7
<1>10. fee * One - amount * rate = r
  <2> DEFINE x == amount * One
             y == amount * rate
             z == q * One
  <2>1. x \in Int /\ y \in Int /\ z \in Int
    <3> HIDE DEF q
    <3> QED BY <1>1, <1>3, SMT
  <2>2. x - y = n /\ n = z + r /\ fee * One = x - z
    BY <1>3, <1>5, <1>7, <1>8, Zenon
  <2> HIDE DEF x, y, z, fee, n, q, r
  <2>3. fee * One - y = r
    BY <1>2, <1>3, <2>1, <2>2
  <2> QED BY <2>3 DEF y
<1> QED BY <1>3, <1>9, <1>10, Zenon

(* What is paid: an amount that, less its fee, covers what was asked.      *)
LEMMA PaidFee ==
    ASSUME NEW amount \in Int, amount < 0, -Half < amount, NEW rate \in 0..(One - 1),
           Fits(Quot(amount * One, One - rate))
    PROVE  LET fee  == calc_fee(amount, rate, 0)
               paid == fee - amount
           IN  /\ fee >= 0
               /\ paid * (One - rate) <= -amount * One
               /\ -amount * One < (paid + 1) * (One - rate)
<1> DEFINE keep == One - rate
           m == -amount
           n == m * One
           q == n \div keep
<1>1. /\ One \in Nat \ {0} /\ Half \in Nat /\ keep \in Nat \ {0} /\ keep <= One
      /\ m \in Nat \ {0} /\ m < Half /\ amount = -m
  BY Scale
<1>2. n \in Nat /\ m * keep <= n
  <2>1. keep * m <= One * m /\ keep * m = m * keep /\ One * m = m * One
    BY <1>1, Grows, SMT
  <2> QED BY <1>1, <2>1, Grows
<1>3. q \in Nat /\ n % keep \in 0..(keep - 1) /\ n = q * keep + (n % keep)
  BY <1>1, <1>2, Divided, Zenon
<1>4. m <= q
  BY <1>1, <1>2, QuotientBound
<1>5. Quot(amount * One, keep) = (-1) * q
  <2>1. Mag(amount) = m /\ Mag(One) = One /\ Sign(amount, One) = -1
    BY <1>1 DEF Mag, Sign
  <2>2. amount \in Int /\ One \in Int
    BY <1>1
  <2>3. Quot(amount * One, keep) = Sign(amount, One) * ((Mag(amount) * Mag(One)) \div keep)
    BY <1>1, <2>2, SignedQuotient, Zenon
  <2> QED BY <2>1, <2>3, Zenon
<1>6. q <= Half /\ (-1) * q = -q
  <2> HIDE DEF q
  <2>1. Fits((-1) * q)
    BY <1>5, Zenon
  <2> QED BY <1>1, <1>3, <2>1, Scale
<1>7. div_x18(amount, keep) = -q
  <2>1. DivExact(amount, keep)
    BY <1>1, DivIsExact
  <2>2. keep # 0
    BY <1>1
  <2> QED BY <1>5, <1>6, <2>1, <2>2, Zenon DEF DivExact
<1> DEFINE fee == calc_fee(amount, rate, 0)
<1>8. fee = q - m
  <2>1. fee = Saturated(amount - Saturated(-q - 0))
    BY <1>7 DEF calc_fee, NewAmount
  <2> HIDE DEF fee, q, m
  <2>2. Saturated(-q - 0) = -q
    BY <1>1, <1>3, <1>6, Scale DEF Saturated
  <2>3. amount - (-q) = q - m
    BY <1>1, <1>3
  <2>4. Saturated(q - m) = q - m
    BY <1>1, <1>3, <1>4, <1>6, Scale DEF Saturated
  <2> QED BY <2>1, <2>2, <2>3, <2>4, Zenon
<1>9. fee >= 0 /\ fee - amount = q
  <2> HIDE DEF fee, q, m
  <2> QED BY <1>1, <1>3, <1>4, <1>8
<1>10. q * keep <= n /\ n < (q + 1) * keep
  <2> DEFINE r == n % keep
             z == q * keep
  <2> HIDE DEF q, n, r, keep
  <2>1. z \in Nat /\ (q + 1) * keep = z + keep
    BY <1>1, <1>3, Grows, SMT
  <2>2. n = z + r /\ r \in Nat /\ r < keep
    BY <1>1, <1>3 DEF r
  <2> HIDE DEF z
  <2>3. z <= n /\ n < z + keep
    BY <1>1, <2>1, <2>2
  <2> QED BY <2>1, <2>3 DEF z
<1>11. -amount * One = n
  <2>1. (-m) * One = -(m * One)
    BY <1>1, SMT
  <2>2. -(-(m * One)) = m * One
    BY <1>2
  <2> QED BY <1>1, <2>1, <2>2, Zenon
<1> QED BY <1>9, <1>10, <1>11, Zenon

(* calc_fee's fee is sound for every amount and every rate.                *)
LEMMA FeeIsSound ==
    ASSUME NEW x \in -IMax..IMax, NEW y \in -IMax..IMax
    PROVE  FeeSound(x, y)
<1>1. x \in Int /\ -Half < x /\ x < Half
  BY Scale
<1>2. CASE x >= 0
  BY <1>1, <1>2, ReceivedFee DEF FeeSound
<1>3. CASE x < 0
  <2>1. ~ (x >= 0)
    BY <1>1, <1>3
  <2> QED BY <1>1, <1>3, <2>1, PaidFee, Zenon DEF FeeSound
<1> QED BY <1>1, <1>2, <1>3

(* A magnitude's nearest multiple, when it is near.                        *)
LEMMA NearestFacts ==
    ASSUME NEW v \in Nat
    PROVE  /\ RoundIncrement \in Nat \ {0} /\ RoundThreshold \in Nat \ {0}
           /\ 2 * RoundThreshold <= RoundIncrement
           /\ Nearest(v) \in Nat /\ Mag(Nearest(v) - v) < RoundThreshold
           /\ \/ Nearest(v) % RoundIncrement = 0
              \/ /\ Nearest(v) = v
                 /\ RoundThreshold <= v % RoundIncrement
                 /\ v % RoundIncrement <= RoundIncrement - RoundThreshold
<1> DEFINE I == RoundIncrement
           T == RoundThreshold
           m == v % I
           q == v \div I
<1>1. I \in Nat \ {0} /\ T \in Nat \ {0} /\ 2 * T <= I
  <2>1. I \in Nat /\ T \in 1..(I \div 2)
    BY FixedPointAssumption, Zenon
  <2> HIDE DEF I, T
  <2> QED BY <2>1
<1>2. q \in Nat /\ m \in 0..(I - 1) /\ v = q * I + m
  BY <1>1, Divided, Zenon
<1>3. Nearest(v) = IF m < T THEN v - m ELSE IF m > I - T THEN v + (I - m) ELSE v
  BY DEF Nearest
<1> HIDE DEF m, q, I, T
<1>4. q * I \in Nat /\ (q + 1) * I = q * I + I /\ (q * I) % I = 0 /\ ((q + 1) * I) % I = 0
  <2>1. q * I \in Nat /\ (q + 1) * I = q * I + I /\ q * I + 0 = q * I /\ (q + 1) * I + 0 = (q + 1) * I
    BY <1>1, <1>2, SMT
  <2>2. 0 \in Nat /\ 0 < I /\ q + 1 \in Nat
    BY <1>1, <1>2
  <2>3. (q * I + 0) % I = 0
    BY <1>1, <1>2, <2>2, Quotient, Zenon
  <2>4. ((q + 1) * I + 0) % I = 0
    BY <1>1, <2>2, Quotient, Zenon
  <2> QED BY <2>1, <2>3, <2>4, Zenon
<1> DEFINE z == q * I
           y == (q + 1) * I
<1>5. z \in Nat /\ y = z + I /\ z % I = 0 /\ y % I = 0 /\ v = z + m
  BY <1>2, <1>4, Zenon
<1> HIDE DEF z, y
<1>6. \/ Nearest(v) = z /\ m < T
      \/ Nearest(v) = y /\ m > I - T
      \/ Nearest(v) = v /\ T <= m /\ m <= I - T
  BY <1>1, <1>2, <1>3, <1>5
<1>7. Nearest(v) \in Nat /\ Mag(Nearest(v) - v) < T
  BY <1>1, <1>2, <1>5, <1>6 DEF Mag
<1>8. Nearest(v) % I = 0 \/ (Nearest(v) = v /\ T <= m /\ m <= I - T)
  BY <1>5, <1>6, Zenon
<1> QED BY <1>1, <1>7, <1>8, Zenon DEF I, T, m

(* The remainder of a division is zero where the magnitude's is.           *)
LEMMA ZeroRem ==
    ASSUME NEW n \in Int, NEW p \in Nat \ {0}
    PROVE  Rem(n, p) = 0 <=> Mag(n) % p = 0
<1> DEFINE q == Mag(n) \div p
           r == Mag(n) % p
<1>1. Mag(n) \in Nat /\ Mag(p) = p
  BY DEF Mag
<1>2. q \in Nat /\ r \in 0..(p - 1) /\ Mag(n) = q * p + r
  BY <1>1, Divided, Zenon
<1>3. Quot(n, p) = Sign(n, p) * q /\ (n < 0 => Sign(n, p) = -1) /\ (n >= 0 => Sign(n, p) = 1)
  BY <1>1 DEF Quot, Sign
<1> HIDE DEF q, r
<1>4. CASE n >= 0
  <2>1. Quot(n, p) = q /\ n = p * q + r
    BY <1>2, <1>3, <1>4, SMT DEF Mag
  <2>2. p * q \in Nat
    BY <1>2, Grows
  <2> DEFINE z == p * q
  <2>3. Rem(n, p) = n - z /\ n = z + r /\ z \in Nat
    BY <2>1, <2>2 DEF Rem
  <2> HIDE DEF z
  <2> QED BY <1>2, <2>3 DEF r
<1>5. CASE n < 0
  <2>1. Quot(n, p) = -q /\ -n = p * q + r /\ p * (-q) = -(p * q)
    BY <1>2, <1>3, <1>5, SMT DEF Mag
  <2>2. p * q \in Nat
    BY <1>2, Grows
  <2> DEFINE z == p * q
  <2>3. Rem(n, p) = n - (-z) /\ -n = z + r /\ z \in Nat
    BY <2>1, <2>2 DEF Rem
  <2> HIDE DEF z
  <2> QED BY <1>2, <2>3 DEF r
<1> QED BY <1>4, <1>5

(* spot_round moves a value of either sign by less than the threshold, and *)
(* onto a multiple that is near.                                           *)
LEMMA RoundIsSound ==
    ASSUME NEW v \in Int
    PROVE  RoundSound(v)
<1> DEFINE u == Mag(v)
           w == Nearest(u)
           I == RoundIncrement
           T == RoundThreshold
<1>1. u \in Nat /\ (v >= 0 => v = u) /\ (v < 0 => v = -u)
  BY DEF Mag
<1>2. /\ I \in Nat \ {0} /\ T \in Nat \ {0} /\ 2 * T <= I
      /\ w \in Nat /\ Mag(w - u) < T
      /\ \/ w % I = 0
         \/ w = u /\ T <= u % I /\ u % I <= I - T
  BY <1>1, NearestFacts, Zenon
<1>3. Nearest(0) = 0
  <2>1. 0 % I = 0 /\ 0 < T
    BY <1>2
  <2> QED BY <1>2, <2>1 DEF Nearest
<1>4. spot_round(v) = (IF v < 0 THEN -w ELSE w) /\ spot_round(-v) = (IF v > 0 THEN -w ELSE w)
  <2>1. spot_round(v) = IF v < 0 THEN -w ELSE w
    <3>1. CASE v < 0
      BY <3>1 DEF spot_round
    <3>2. CASE v >= 0
      BY <1>1, <3>2 DEF spot_round
    <3> QED BY <3>1, <3>2
  <2>2. spot_round(-v) = IF v > 0 THEN -w ELSE w
    <3>1. Mag(-v) = u
      BY DEF Mag
    <3>2. CASE v > 0
      BY <3>1, <3>2 DEF spot_round
    <3>3. CASE v <= 0
      <4>1. -v = u /\ ~ (-v < 0) /\ ~ (v > 0)
        BY <1>1, <3>3
      <4> QED BY <4>1, Zenon DEF spot_round
    <3> QED BY <3>2, <3>3
  <2> QED BY <2>1, <2>2, Zenon
<1>5. v = 0 => w = 0
  BY <1>1, <1>3
<1> HIDE DEF w
<1>6. spot_round(-v) = -spot_round(v)
  BY <1>2, <1>4, <1>5
<1>7. Mag(spot_round(v) - v) < T
  <2>1. spot_round(v) - v = w - u \/ spot_round(v) - v = -(w - u)
    BY <1>1, <1>2, <1>4
  <2>2. Mag(-(w - u)) = Mag(w - u)
    BY <1>1, <1>2 DEF Mag
  <2> QED BY <1>2, <2>1, <2>2, Zenon
<1>8. Mag(spot_round(v)) = w
  BY <1>2, <1>4 DEF Mag
<1>9. ASSUME w % I # 0, NEW d \in (1 - T)..(T - 1) PROVE Rem(v + d, I) # 0
  <2> DEFINE q == u \div I
             m == u % I
  <2>1. T <= m /\ m <= I - T
    BY <1>2, <1>9, Zenon
  <2>2. q \in Nat /\ m \in 0..(I - 1) /\ u = q * I + m
    BY <1>1, <1>2, Divided, Zenon
  <2> HIDE DEF u, m, I, T
  <2> DEFINE e == IF v < 0 THEN -d ELSE d
  <2>3. d \in Int /\ e \in (1 - T)..(T - 1) /\ e \in Int
    BY <1>2
  <2>4. q * I \in Nat
    BY <1>2, <2>2, Grows
  <2>5. m + e \in 1..(I - 1)
    BY <1>2, <2>1, <2>2, <2>3
  <2> HIDE DEF e, q
  <2>6. u + e = q * I + (m + e) /\ u + e > 0
    <3> DEFINE z == q * I
    <3>1. z \in Nat /\ u = z + m
      BY <2>2, <2>4
    <3> HIDE DEF z
    <3> QED BY <1>2, <2>2, <2>3, <2>5, <3>1 DEF z
  <2>7. Mag(v + d) = u + e
    <3>1. e = IF v < 0 THEN -d ELSE d
      BY DEF e
    <3>2. CASE v < 0
      <4>1. v + d = -(u + e) /\ v + d < 0 /\ -(v + d) = u + e
        BY <1>1, <2>3, <2>6, <3>1, <3>2
      <4> QED BY <4>1, Zenon DEF Mag
    <3>3. CASE v >= 0
      <4>1. v + d = u + e
        BY <1>1, <2>3, <3>1, <3>3
      <4> QED BY <2>6, <4>1 DEF Mag
    <3> QED BY <3>2, <3>3
  <2>8. (q * I + (m + e)) % I = m + e
    <3> DEFINE r == m + e
    <3>1. r \in Nat /\ r < I
      BY <1>2, <2>5
    <3> HIDE DEF r
    <3>2. (q * I + r) % I = r
      BY <1>2, <2>2, <3>1, Quotient, Zenon
    <3> QED BY <3>2 DEF r
  <2>9. Mag(v + d) % I # 0
    BY <1>2, <2>5, <2>6, <2>7, <2>8
  <2>10. v + d \in Int
    BY <2>3
  <2> QED BY <1>2, <2>9, <2>10, ZeroRem, Zenon DEF I
<1>10. w % I = 0 => Rem(spot_round(v), I) = 0
  <2>1. spot_round(v) \in Int
    BY <1>2, <1>4
  <2> QED BY <1>2, <1>8, <2>1, ZeroRem, Zenon
<1> QED BY <1>6, <1>7, <1>9, <1>10, Zenon DEF RoundSound

-----------------------------------------------------------------------------
(* The square root.                                                        *)

Square(r) == (r * r) \div One

(* The square in fixed point, and its order.                               *)
LEMMA Squares ==
    ASSUME NEW r \in Nat
    PROVE  /\ try_mul_x18(r, r) = Square(r) /\ Square(r) \in Nat
           /\ \A q \in 0..r : Square(q) <= Square(r)
<1>1. One \in Nat \ {0}
  BY Scale, Zenon
<1>2. r * r \in Nat
  BY Grows
<1>3. try_mul_x18(r, r) = Square(r)
  <2>1. Sign(r, r) = 1 /\ Mag(r) = r /\ r \in Int
    BY DEF Sign, Mag
  <2>2. Quot(r * r, One) = Sign(r, r) * ((Mag(r) * Mag(r)) \div One)
    BY <1>1, <2>1, SignedQuotient, Zenon
  <2>3. (r * r) \div One \in Nat
    BY <1>1, <1>2, Divided, Zenon
  <2>4. \A n \in Nat : 1 * n = n
    OBVIOUS
  <2> QED BY <2>1, <2>2, <2>3, <2>4, Zenon DEF try_mul_x18, Square
<1>4. Square(r) \in Nat
  BY <1>1, <1>2, Divided, Zenon DEF Square
<1>5. ASSUME NEW q \in 0..r PROVE Square(q) <= Square(r)
  <2>1. q \in Nat /\ q <= r
    OBVIOUS
  <2>2. q * q <= r * r /\ q * q \in Nat
    <3>1. q * q <= r * q /\ r * q = q * r /\ q * r <= r * r
      BY <2>1, Grows, SMT
    <3> QED BY <1>2, <2>1, <3>1, Grows
  <2> DEFINE n == q * q
             m == r * r
             t == n \div One
  <2>3. t \in Nat /\ n % One \in 0..(One - 1) /\ n = t * One + (n % One)
    BY <1>1, <2>2, Divided, Zenon
  <2>4. t * One <= m
    <3> DEFINE z == t * One
               e == n % One
    <3>1. z \in Nat /\ e \in 0..(One - 1) /\ n = z + e /\ n <= m /\ m \in Nat
      <4>1. t * One \in Nat
        <5> HIDE DEF t
        <5> QED BY <1>1, <2>3, Grows
      <4> QED BY <1>2, <2>2, <2>3, <4>1, Zenon
    <3> HIDE DEF z, e, n, m
    <3>2. z <= m
      BY <1>1, <3>1
    <3> QED BY <3>2 DEF z
  <2>5. t <= m \div One
    <3> HIDE DEF t, m
    <3> QED BY <1>1, <1>2, <2>3, <2>4, QuotientBound DEF m
  <2> QED BY <2>5 DEF Square
<1> QED BY <1>3, <1>4, <1>5

(* What one turn of the search leaves: a smaller part of the same range.   *)
Ranges(top) == (0..(top + 1)) \X (-1..top)
Gap(b) == IF b[1] >= b[2] THEN 0 ELSE b[2] - b[1]
Turn(x, g, b) == IF b[1] >= b[2] THEN b[1] ELSE g[Narrowed(x, b[1], b[2])]

Halving(x, b, c) ==
    \E mid \in Nat : \/ try_mul_x18(mid, mid) < x /\ c[1] = mid + 1 /\ c[2] = b[2]
                     \/ ~ (try_mul_x18(mid, mid) < x) /\ c[1] = b[1] /\ c[2] = mid

(* A turn leaves one of the two halves, with a smaller gap.                *)
LEMMA NarrowedFacts ==
    ASSUME NEW x, NEW top \in Nat, NEW b \in Ranges(top), b[1] < b[2],
           NEW c, c = Narrowed(x, b[1], b[2])
    PROVE  /\ c \in Ranges(top) /\ Gap(c) \in Nat /\ Gap(b) \in Nat /\ Gap(c) < Gap(b)
           /\ c[1] \in Nat /\ c[2] \in Nat /\ c[1] <= c[2]
           /\ Halving(x, b, c)
<1> DEFINE lo == b[1]
           hi == b[2]
           mid == (lo + hi) \div 2
<1>1. lo \in 0..(top + 1) /\ hi \in -1..top /\ lo < hi
  BY DEF Ranges
<1>2. c = IF try_mul_x18(mid, mid) < x THEN <<mid + 1, hi>> ELSE <<lo, mid>>
  BY Zenon DEF Narrowed
<1> HIDE DEF lo, hi
<1>3. mid \in Nat /\ lo <= mid /\ mid < hi
  BY <1>1
<1> HIDE DEF mid
<1>4. Gap(b) = hi - lo
  BY <1>1 DEF Gap, lo, hi
<1>5. CASE try_mul_x18(mid, mid) < x
  <2>1. c = <<mid + 1, hi>> /\ c[1] = mid + 1 /\ c[2] = hi
    BY <1>2, <1>5
  <2>2. Gap(c) \in Nat /\ Gap(c) <= hi - (mid + 1)
    BY <1>1, <1>3, <2>1 DEF Gap
  <2>3. c \in Ranges(top)
    BY <1>1, <1>3, <2>1 DEF Ranges
  <2> QED BY <1>1, <1>3, <1>4, <1>5, <2>1, <2>2, <2>3 DEF lo, hi, Halving
<1>6. CASE ~ (try_mul_x18(mid, mid) < x)
  <2>1. c = <<lo, mid>> /\ c[1] = lo /\ c[2] = mid
    BY <1>2, <1>6
  <2>2. Gap(c) \in Nat /\ Gap(c) <= mid - lo
    BY <1>1, <1>3, <2>1 DEF Gap
  <2>3. c \in Ranges(top)
    BY <1>1, <1>3, <2>1 DEF Ranges
  <2> QED BY <1>1, <1>3, <1>4, <1>6, <2>1, <2>2, <2>3 DEF lo, hi, Halving
<1> QED BY <1>5, <1>6

(* The search ends for every range: its function exists.                   *)
LEMMA SearchExists ==
    ASSUME NEW x, NEW top \in Nat
    PROVE  \E g : g = [b \in Ranges(top) |-> Turn(x, g, b)]
<1> DEFINE D == Ranges(top)
           S == {n \in Nat : \E g : \A b \in D : Gap(b) <= n => g[b] = Turn(x, g, b)}
<1>1. 0 \in S
  <2> DEFINE g == [b \in D |-> b[1]]
  <2>1. ASSUME NEW b \in D, Gap(b) <= 0 PROVE g[b] = Turn(x, g, b)
    <3>1. b[1] \in Int /\ b[2] \in Int
      BY DEF Ranges
    <3>2. b[1] >= b[2]
      BY <2>1, <3>1 DEF Gap
    <3> QED BY <3>2, Zenon DEF Turn
  <2> HIDE DEF g
  <2> QED BY <2>1
<1>2. ASSUME NEW n \in Nat, n \in S PROVE n + 1 \in S
  <2>1. PICK g : \A b \in D : Gap(b) <= n => g[b] = Turn(x, g, b)
    BY <1>2
  <2> DEFINE h == [b \in D |-> Turn(x, g, b)]
  <2>2. ASSUME NEW b \in D, Gap(b) <= n + 1 PROVE h[b] = Turn(x, h, b)
    <3>1. h[b] = Turn(x, g, b)
      BY Zenon
    <3>2. CASE b[1] >= b[2]
      BY <3>1, <3>2, Zenon DEF Turn
    <3>3. CASE ~ (b[1] >= b[2])
      <4> DEFINE c == Narrowed(x, b[1], b[2])
      <4>1. b[1] < b[2]
        BY <3>3 DEF Ranges
      <4>2. c \in D /\ Gap(c) \in Nat /\ Gap(b) \in Nat /\ Gap(c) < Gap(b)
        BY <4>1, NarrowedFacts, Zenon
      <4> HIDE DEF c
      <4>3. Gap(c) <= n
        BY <2>2, <4>2
      <4>4. g[c] = Turn(x, g, c) /\ h[c] = Turn(x, g, c)
        BY <2>1, <4>2, <4>3, Zenon
      <4>5. Turn(x, g, b) = g[c] /\ Turn(x, h, b) = h[c]
        BY <3>3, Zenon DEF Turn, c
      <4> QED BY <3>1, <4>4, <4>5, Zenon
    <3> QED BY <3>2, <3>3
  <2>3. n + 1 \in Nat
    OBVIOUS
  <2> HIDE DEF h
  <2> QED BY <2>2, <2>3
<1>3. top + 1 \in S
  <2> HIDE DEF S
  <2> QED BY <1>1, <1>2, EveryNatural
<1>4. PICK g : \A b \in D : Gap(b) <= top + 1 => g[b] = Turn(x, g, b)
  BY <1>3
<1>5. \A b \in D : Gap(b) <= top + 1
  BY DEF Ranges, Gap
<1> DEFINE h == [b \in D |-> g[b]]
<1>6. ASSUME NEW b \in D PROVE h[b] = Turn(x, h, b)
  <2>1. h[b] = g[b] /\ g[b] = Turn(x, g, b)
    BY <1>4, <1>5, Zenon
  <2>2. CASE b[1] >= b[2]
    BY <2>1, <2>2, Zenon DEF Turn
  <2>3. CASE ~ (b[1] >= b[2])
    <3> DEFINE c == Narrowed(x, b[1], b[2])
    <3>1. b[1] < b[2]
      BY <2>3 DEF Ranges
    <3>2. c \in D
      BY <3>1, NarrowedFacts, Zenon
    <3>3. Turn(x, g, b) = g[c] /\ Turn(x, h, b) = h[c]
      BY <2>3, Zenon DEF Turn
    <3>4. h[c] = g[c]
      BY <3>2, Zenon
    <3> QED BY <2>1, <3>3, <3>4, Zenon
  <2> QED BY <2>2, <2>3
<1>7. h = [b \in D |-> Turn(x, h, b)]
  <2>1. h = [b \in D |-> h[b]]
    BY Zenon
  <2> HIDE DEF h
  <2>2. [b \in D |-> h[b]] = [b \in D |-> Turn(x, h, b)]
    BY <1>6, Zenon
  <2> QED BY <2>1, <2>2, Zenon
<1> HIDE DEF h
<1> QED BY <1>7

IsRoot(x, r) == /\ r \in Nat /\ try_mul_x18(r, r) >= x
                /\ \A q \in 0..(r - 1) : try_mul_x18(q, q) < x

(* The range a turn starts with has the root, and so has the one it leaves.*)
Encloses(x, b) == /\ b[1] <= b[2] /\ try_mul_x18(b[2], b[2]) >= x
                  /\ \A q \in 0..(b[1] - 1) : try_mul_x18(q, q) < x

(* A search that starts with an enclosing range returns the root.          *)
LEMMA SearchFinds ==
    ASSUME NEW x \in Nat, NEW top \in Nat, NEW g, g = [b \in Ranges(top) |-> Turn(x, g, b)],
           NEW b \in Ranges(top), Encloses(x, b)
    PROVE  IsRoot(x, g[b])
<1> DEFINE D == Ranges(top)
           S == {n \in Nat : \A a \in D : Gap(a) <= n /\ Encloses(x, a) => IsRoot(x, g[a])}
<1>1. \A a \in D : g[a] = Turn(x, g, a)
  BY Zenon
<1>2. \A a \in D : a[1] \in Nat /\ a[2] \in Int /\ Gap(a) <= top + 1
  BY DEF Ranges, Gap
<1>3. ASSUME NEW a \in D, a[1] >= a[2], Encloses(x, a) PROVE IsRoot(x, g[a])
  <2>1. a[1] = a[2]
    BY <1>2, <1>3 DEF Encloses
  <2>2. g[a] = a[1]
    BY <1>1, <1>3, Zenon DEF Turn
  <2> QED BY <1>2, <1>3, <2>1, <2>2, Zenon DEF Encloses, IsRoot
<1>4. 0 \in S
  <2>1. ASSUME NEW a \in D, Gap(a) <= 0 PROVE a[1] >= a[2]
    BY <1>2, <2>1 DEF Gap
  <2> QED BY <1>3, <2>1
<1>5. ASSUME NEW n \in Nat, n \in S PROVE n + 1 \in S
  <2>1. ASSUME NEW a \in D, Gap(a) <= n + 1, Encloses(x, a), ~ (a[1] >= a[2]) PROVE IsRoot(x, g[a])
    <3> DEFINE c == Narrowed(x, a[1], a[2])
    <3>1. a[1] < a[2]
      BY <1>2, <2>1
    <3>2. /\ c \in D /\ Gap(c) \in Nat /\ Gap(a) \in Nat /\ Gap(c) < Gap(a)
          /\ c[1] \in Nat /\ c[2] \in Nat /\ c[1] <= c[2]
          /\ Halving(x, a, c)
      BY <3>1, NarrowedFacts, Zenon
    <3>3. g[a] = g[c]
      BY <1>1, <2>1, Zenon DEF Turn
    <3> HIDE DEF c
    <3>4. PICK mid \in Nat : \/ try_mul_x18(mid, mid) < x /\ c[1] = mid + 1 /\ c[2] = a[2]
                             \/ ~ (try_mul_x18(mid, mid) < x) /\ c[1] = a[1] /\ c[2] = mid
      BY <3>2, Zenon DEF Halving
    <3>5. Encloses(x, c)
      <4>1. CASE try_mul_x18(mid, mid) < x /\ c[1] = mid + 1 /\ c[2] = a[2]
        <5>1. ASSUME NEW q \in 0..(c[1] - 1) PROVE try_mul_x18(q, q) < x
          <6>1. q \in 0..mid /\ q \in Nat
            BY <4>1
          <6>2. Square(q) <= Square(mid) /\ Square(q) \in Nat /\ Square(mid) \in Nat
            BY <6>1, Squares
          <6>3. try_mul_x18(q, q) = Square(q) /\ try_mul_x18(mid, mid) = Square(mid)
            BY <6>1, Squares
          <6> QED BY <4>1, <6>2, <6>3
        <5> QED BY <2>1, <3>2, <4>1, <5>1, Zenon DEF Encloses
      <4>2. CASE ~ (try_mul_x18(mid, mid) < x) /\ c[1] = a[1] /\ c[2] = mid
        <5>1. try_mul_x18(mid, mid) >= x
          BY <4>2, Squares
        <5> QED BY <2>1, <3>2, <4>2, <5>1, Zenon DEF Encloses
      <4> QED BY <3>4, <4>1, <4>2
    <3>6. Gap(c) <= n
      BY <2>1, <3>2
    <3> QED BY <1>5, <3>2, <3>3, <3>5, <3>6
  <2> QED BY <1>3, <2>1
<1>6. top + 1 \in S
  <2> HIDE DEF S
  <2> QED BY <1>4, <1>5, EveryNatural
<1> QED BY <1>2, <1>6

Double == [k \in 0..Width |-> 2^k]

(* The powers up to the width: they are positive, rise, and the last is    *)
(* twice Half.                                                             *)
LEMMA DoubleFacts ==
    /\ Width \in Nat \ {0}
    /\ \A k \in 0..Width : Double[k] = 2^k /\ Double[k] \in Nat \ {0}
    /\ Double[0] = 1 /\ Double[Width] = 2 * Half
    /\ \A k \in 0..Width : k > 0 => Double[k] = 2 * Double[k - 1]
    /\ \A w \in 0..Width : \A k \in w..Width : Double[w] <= Double[k]
<1>1. \A k \in 0..Width : Double[k] = 2^k
  BY Zenon DEF Double
<1>2. Width \in Nat \ {0} /\ 0 \in 0..Width /\ Width \in 0..Width
  BY FixedPointAssumption
<1>3. \A k \in 0..Width : 2^k \in Nat \ {0} /\ (k > 0 => 2^k = 2 * 2^(k - 1))
  BY PowersAssumption, Zenon
<1>4. \A k \in 0..Width : Double[k] \in Nat \ {0}
  BY <1>1, <1>3, Zenon
<1>5. ASSUME NEW k \in 0..Width, k > 0 PROVE Double[k] = 2 * Double[k - 1]
  <2>1. k - 1 \in 0..Width
    BY <1>2, <1>5
  <2> QED BY <1>1, <1>3, <1>5, <2>1, Zenon
<1>6. Double[0] = 1
  <2>1. 2^0 = 1
    OBVIOUS
  <2> QED BY <1>1, <1>2, <2>1, Zenon
<1>7. Double[Width] = 2 * Half
  BY <1>1, <1>2, Scale, Zenon
<1>8. \A w \in 0..Width : \A k \in w..Width : Double[w] <= Double[k]
  <2> HIDE DEF Double
  <2>1. Width \in Nat
    BY <1>2
  <2> QED BY <1>4, <1>5, <2>1, DoublingRises
<1> QED BY <1>1, <1>2, <1>4, <1>5, <1>6, <1>7, <1>8, Zenon

(* The first loop of the square root ends with a power of two whose square *)
(* reaches the number, and half of it does not.                            *)
LEMMA CeilingFacts ==
    ASSUME NEW x \in 0..IMax
    PROVE  \E k \in 0..Width :
              /\ SqrtCeiling(x) = Double[k] /\ Double[k] \in Nat \ {0}
              /\ Square(Double[k]) >= x
              /\ k > 0 => /\ Double[k - 1] \in Nat /\ Double[k] = 2 * Double[k - 1]
                          /\ Square(Double[k - 1]) < x
<1> DEFINE K == {k \in 0..Width : Square(Double[k]) >= x}
<1>1. x \in Nat /\ x < Half /\ Half \in Nat
  BY Scale
<1>2. Width \in K
  <2> DEFINE H == 2 * Half
  <2>1. One \in Nat \ {0} /\ H \in Nat /\ One <= H /\ x <= H
    BY <1>1, Scale
  <2>2. Double[Width] = H /\ Width \in 0..Width
    BY DoubleFacts
  <2> HIDE DEF H
  <2>3. H * One <= H * H
    <3>1. One * H <= H * H /\ One * H = H * One
      BY <2>1, Grows, SMT
    <3> QED BY <3>1
  <2>4. H * H \in Nat
    BY <2>1, Grows
  <2>5. H <= (H * H) \div One
    BY <2>1, <2>3, <2>4, QuotientBound
  <2>6. Square(H) >= x
    <3>1. Square(H) \in Nat /\ H <= Square(H)
      BY <2>1, <2>5, Squares DEF Square
    <3> QED BY <1>1, <2>1, <3>1
  <2> QED BY <2>2, <2>6
<1>3. PICK k \in K : \A n \in K : k <= n
  <2>1. K \subseteq Nat /\ K # {}
    BY <1>2, DoubleFacts
  <2> HIDE DEF K
  <2> QED BY <2>1, LeastNatural
<1>4. k \in 0..Width /\ Double[k] \in Nat \ {0} /\ Square(Double[k]) >= x
  BY <1>3, DoubleFacts
<1> DEFINE h == Double[k]
<1>5. \A j \in 0..Width : Double[j] < h => Square(Double[j]) < x
  <2> SUFFICES ASSUME NEW j \in 0..Width, Double[j] < h PROVE Square(Double[j]) < x
    OBVIOUS
  <2>1. j < k
    <3>1. ASSUME k <= j PROVE FALSE
      <4>1. j \in k..Width
        BY <1>4, <3>1, DoubleFacts
      <4>2. Double[k] <= Double[j] /\ Double[k] \in Nat /\ Double[j] \in Nat
        BY <1>4, <4>1, DoubleFacts
      <4> QED BY <4>2
    <3> QED BY <1>4, <3>1, DoubleFacts
  <2>2. j \notin K
    BY <1>3, <1>4, <2>1, DoubleFacts
  <2>3. Square(Double[j]) \in Nat
    BY DoubleFacts, Squares
  <2> QED BY <1>1, <2>2, <2>3
<1> DEFINE Ceiling(c) == /\ try_mul_x18(c, c) >= x
                         /\ \A j \in 0..Width : 2^j < c => try_mul_x18(2^j, 2^j) < x
<1>6. \A c \in Nat : try_mul_x18(c, c) = Square(c)
  BY Squares
<1>7. \A j \in 0..Width : 2^j = Double[j] /\ Double[j] \in Nat
  BY DoubleFacts
<1>8. ASSUME NEW c \in Nat
      PROVE  Ceiling(c) <=> Square(c) >= x /\ \A j \in 0..Width : Double[j] < c => Square(Double[j]) < x
  BY <1>6, <1>7, Zenon
<1>9. h \in {2^j : j \in 0..Width} /\ Ceiling(h)
  <2>1. h \in Nat
    BY <1>4
  <2> QED BY <1>4, <1>5, <1>7, <1>8, <2>1, Zenon
<1>10. ASSUME NEW c \in {2^j : j \in 0..Width}, Ceiling(c) PROVE c = h
  <2>1. PICK j \in 0..Width : c = Double[j]
    BY <1>7, Zenon
  <2>2. c \in Nat /\ h \in Nat
    BY <1>4, <1>7, <2>1
  <2>3. Square(c) >= x /\ \A i \in 0..Width : Double[i] < c => Square(Double[i]) < x
    BY <1>8, <1>10, <2>2, Zenon
  <2>4. Square(c) \in Nat /\ Square(h) \in Nat
    BY <2>2, Squares
  <2>5. ~ (c < h)
    BY <1>1, <1>5, <2>1, <2>3, <2>4
  <2>6. ~ (h < c)
    BY <1>1, <1>4, <2>3, <2>4
  <2> QED BY <2>2, <2>5, <2>6
<1>11. SqrtCeiling(x) = h
  <2>1. SqrtCeiling(x) = CHOOSE c \in {2^j : j \in 0..Width} : Ceiling(c)
    BY Zenon DEF SqrtCeiling
  <2> HIDE DEF Ceiling, h
  <2> QED BY <1>9, <1>10, <2>1
<1>12. ASSUME k > 0
       PROVE  Double[k - 1] \in Nat /\ Double[k] = 2 * Double[k - 1] /\ Square(Double[k - 1]) < x
  <2>1. k - 1 \in 0..Width
    BY <1>4, <1>12, DoubleFacts
  <2>2. Double[k] = 2 * Double[k - 1] /\ Double[k - 1] \in Nat \ {0}
    BY <1>4, <1>12, <2>1, DoubleFacts
  <2>3. Double[k - 1] < h
    BY <2>2
  <2> QED BY <1>5, <2>1, <2>2, <2>3
<1> QED BY <1>4, <1>11, <1>12, Zenon

(* try_sqrt_x18's search begins with a range that has the root.            *)
LEMMA SqrtIsLeast ==
    ASSUME NEW x \in 0..IMax
    PROVE  SqrtLeast(x)
<1>1. x \in Nat /\ x < Half /\ Half \in Nat /\ One \in Nat \ {0} /\ One < Half /\ IMax = Half - 1
  BY Scale
<1> DEFINE top == SqrtCeiling(x)
           b == <<top \div 2, top>>
<1>2. PICK k \in 0..Width :
              /\ top = Double[k] /\ Double[k] \in Nat \ {0}
              /\ Square(Double[k]) >= x
              /\ k > 0 => /\ Double[k - 1] \in Nat /\ Double[k] = 2 * Double[k - 1]
                          /\ Square(Double[k - 1]) < x
  BY CeilingFacts
<1> HIDE DEF top
<1>3. /\ top \in Nat \ {0} /\ Square(top) >= x
      /\ top = 1 \/ (Square(top \div 2) < x /\ top = 2 * (top \div 2) /\ top \div 2 \in Nat)
  <2>1. CASE k = 0
    BY <1>2, <2>1, DoubleFacts
  <2>2. CASE k > 0
    <3>1. top \div 2 = Double[k - 1]
      BY <1>2, <2>2
    <3> QED BY <1>2, <2>2, <3>1, Zenon
  <2> QED BY <2>1, <2>2, DoubleFacts
<1> DEFINE half == top \div 2
<1>4. half \in Nat /\ half <= top /\ b = <<half, top>> /\ (top = 1 => half = 0)
  BY <1>3
<1>5. Square(half) \in Nat /\ Square(top) \in Nat /\ try_mul_x18(top, top) = Square(top)
  BY <1>3, <1>4, Squares
<1> HIDE DEF half
<1>6. b \in Ranges(top) /\ b[1] = half /\ b[2] = top
  BY <1>3, <1>4 DEF Ranges
<1> HIDE DEF b
<1>7. Encloses(x, b)
  <2>1. ASSUME NEW q \in 0..(half - 1) PROVE try_mul_x18(q, q) < x
    <3>1. q \in Nat /\ q \in 0..half /\ half # 0
      BY <1>4
    <3>2. Square(q) <= Square(half) /\ Square(q) \in Nat /\ try_mul_x18(q, q) = Square(q)
      BY <1>4, <3>1, Squares
    <3>3. Square(half) < x
      BY <1>3, <1>4, <3>1, Zenon DEF half
    <3> QED BY <1>1, <1>5, <3>2, <3>3
  <2>2. b[1] <= b[2] /\ try_mul_x18(b[2], b[2]) >= x
    BY <1>3, <1>4, <1>5, <1>6, Zenon
  <2> QED BY <1>6, <2>1, <2>2, Zenon DEF Encloses
<1> DEFINE g == CHOOSE f : f = [a \in Ranges(top) |-> Turn(x, f, a)]
<1>8. g = [a \in Ranges(top) |-> Turn(x, g, a)]
  <2>1. top \in Nat
    BY <1>3
  <2>2. \E f : f = [a \in Ranges(top) |-> Turn(x, f, a)]
    BY <2>1, SearchExists, Zenon
  <2> QED BY <2>2, Zenon
<1>9. try_sqrt_x18(x) = g[b]
  BY Zenon DEF try_sqrt_x18, Ranges, Turn, top, b
<1> HIDE DEF g
<1>10. IsRoot(x, g[b])
  <2>1. top \in Nat
    BY <1>3
  <2> QED BY <1>1, <1>6, <1>7, <1>8, <2>1, SearchFinds, Zenon
<1>11. x <= IMax \div 4 => Fits(try_mul_x18(top, top))
  <2> SUFFICES ASSUME x <= IMax \div 4 PROVE Fits(Square(top))
    BY <1>5
  <2>1. 4 * x <= IMax
    BY <1>1
  <2>2. CASE top = 1
    <3>1. 1 * 1 = 1 /\ 1 \div One <= 1
      <4>1. 1 < 2 * One /\ 2 \in Nat /\ 1 \in Nat
        BY <1>1
      <4>2. 1 \div One < 2 /\ 1 \div One \in Nat
        BY <1>1, <4>1, QuotientBound, Divided
      <4> QED BY <4>2
    <3>2. Square(top) <= 1
      BY <2>2, <3>1, Zenon DEF Square
    <3> QED BY <1>1, <1>5, <3>2, Scale
  <2>3. CASE top # 1
    <3>1. Square(half) < x /\ top = 2 * half
      BY <1>3, <2>3 DEF half
    <3> DEFINE n == half * half
               m == top * top
    <3>2. n \in Nat /\ m \in Nat /\ m = 4 * n
      BY <1>3, <1>4, <3>1, Grows, SMT
    <3>3. n < x * One
      <4>1. n \div One <= x - 1
        BY <1>1, <1>5, <3>1 DEF Square
      <4> HIDE DEF n, m
      <4> QED BY <1>1, <3>2, <4>1, QuotientBound
    <3> HIDE DEF n, m
    <3>4. m < (4 * x) * One
      <4> DEFINE z == x * One
      <4>1. (4 * x) * One = 4 * z /\ z \in Nat
        BY <1>1, SMT
      <4> HIDE DEF z
      <4>2. n < z
        BY <3>3 DEF z
      <4> QED BY <3>2, <4>1, <4>2
    <3>5. m \div One < 4 * x
      <4>1. 4 * x \in Nat
        BY <1>1
      <4> QED BY <1>1, <3>2, <3>4, <4>1, QuotientBound
    <3>6. Square(top) < 4 * x
      BY <3>5 DEF Square, m
    <3> QED BY <1>1, <1>5, <2>1, <3>6, Scale
  <2> QED BY <2>2, <2>3
<1> QED BY <1>9, <1>10, <1>11, Zenon DEF SqrtLeast, IsRoot, top

-----------------------------------------------------------------------------
(* The text of a number.                                                   *)

(* Powers of ten multiply as their exponents add.                          *)
LEMMA TensMultiply ==
    ASSUME NEW N \in Nat, NEW P, P[0] = 1, \A k \in 1..N : P[k] = 10 * P[k - 1]
    PROVE  /\ \A k \in 0..N : P[k] \in Nat \ {0}
           /\ \A i \in 0..N : \A j \in 0..(N - i) : P[i + j] = P[i] * P[j]
<1> DEFINE S == {k \in Nat : k <= N => P[k] \in Nat \ {0}}
<1>1. 0 \in S
  OBVIOUS
<1>2. ASSUME NEW k \in Nat, k \in S PROVE k + 1 \in S
  <2> SUFFICES ASSUME k + 1 <= N PROVE P[k + 1] \in Nat \ {0}
    OBVIOUS
  <2>1. k + 1 \in 1..N /\ (k + 1) - 1 = k /\ k <= N
    OBVIOUS
  <2>2. P[k + 1] = 10 * P[k] /\ P[k] \in Nat \ {0}
    BY <1>2, <2>1
  <2> QED BY <2>2
<1>3. \A k \in 0..N : P[k] \in Nat \ {0}
  <2>1. \A k \in Nat : k \in S
    <3> HIDE DEF S
    <3> QED BY <1>1, <1>2, EveryNatural
  <2> QED BY <2>1
<1>4. ASSUME NEW i \in 0..N PROVE \A j \in 0..(N - i) : P[i + j] = P[i] * P[j]
  <2> DEFINE R == {j \in Nat : i + j <= N => P[i + j] = P[i] * P[j]}
  <2>1. 0 \in R
    <3>1. P[i] \in Nat /\ i + 0 = i
      BY <1>3
    <3> QED BY <3>1, SMT
  <2>2. ASSUME NEW j \in Nat, j \in R PROVE j + 1 \in R
    <3> SUFFICES ASSUME i + j + 1 <= N PROVE P[i + (j + 1)] = P[i] * P[j + 1]
      OBVIOUS
    <3> DEFINE m == i + j
    <3>1. /\ m \in 0..N /\ m + 1 \in 1..N /\ (m + 1) - 1 = m /\ i + (j + 1) = m + 1
          /\ j \in 0..N /\ j + 1 \in 1..N /\ (j + 1) - 1 = j /\ m <= N
      OBVIOUS
    <3>2. P[m + 1] = 10 * P[m] /\ P[j + 1] = 10 * P[j] /\ P[m] = P[i] * P[j]
      BY <2>2, <3>1
    <3>3. P[i] \in Nat /\ P[j] \in Nat
      BY <1>3, <3>1
    <3>4. 10 * (P[i] * P[j]) = P[i] * (10 * P[j])
      <4> DEFINE a == P[i]
                 c == P[j]
      <4> HIDE DEF a, c
      <4>1. a \in Nat /\ c \in Nat
        BY <3>3 DEF a, c
      <4>2. 10 * (a * c) = a * (10 * c)
        BY <4>1, SMT
      <4> QED BY <4>2 DEF a, c
    <3> QED BY <3>1, <3>2, <3>4, Zenon
  <2>3. \A j \in Nat : j \in R
    <3> HIDE DEF R
    <3> QED BY <2>1, <2>2, EveryNatural
  <2> QED BY <2>3
<1> QED BY <1>3, <1>4

(* The number of a sequence of digits: the recursion has a solution, and   *)
(* every solution has the same values.                                     *)
Next10(s, g, k) == IF k = 0 THEN 0 ELSE 10 * g[k - 1] + s[k]

(* A sequence has such values up to any place.                             *)
LEMMA ValueExists ==
    ASSUME NEW s, NEW n \in Nat
    PROVE  \E g : g = [k \in 0..n |-> Next10(s, g, k)]
<1> DEFINE D == 0..n
           S == {m \in Nat : \E g : \A k \in D : k <= m => g[k] = Next10(s, g, k)}
<1>1. 0 \in S
  <2> DEFINE g == [k \in D |-> 0]
  <2>1. ASSUME NEW k \in D, k <= 0 PROVE g[k] = Next10(s, g, k)
    BY <2>1 DEF Next10
  <2> HIDE DEF g
  <2> QED BY <2>1
<1>2. ASSUME NEW m \in Nat, m \in S PROVE m + 1 \in S
  <2>1. PICK g : \A k \in D : k <= m => g[k] = Next10(s, g, k)
    BY <1>2
  <2> DEFINE h == [k \in D |-> Next10(s, g, k)]
  <2>2. ASSUME NEW k \in D, k <= m + 1 PROVE h[k] = Next10(s, h, k)
    <3>1. h[k] = Next10(s, g, k)
      BY Zenon
    <3>2. CASE k = 0
      BY <3>1, <3>2, Zenon DEF Next10
    <3>3. CASE k # 0
      <4>1. k - 1 \in D /\ k - 1 <= m
        BY <2>2, <3>3
      <4>2. g[k - 1] = Next10(s, g, k - 1) /\ h[k - 1] = Next10(s, g, k - 1)
        BY <2>1, <4>1, Zenon
      <4> HIDE DEF h
      <4> QED BY <3>1, <3>3, <4>2, Zenon DEF Next10
    <3> QED BY <3>2, <3>3
  <2>3. m + 1 \in Nat
    OBVIOUS
  <2> HIDE DEF h
  <2> QED BY <2>2, <2>3
<1>3. n \in S
  <2> HIDE DEF S
  <2> QED BY <1>1, <1>2, EveryNatural
<1>4. PICK g : \A k \in D : k <= n => g[k] = Next10(s, g, k)
  BY <1>3
<1> DEFINE h == [k \in D |-> g[k]]
<1>5. ASSUME NEW k \in D PROVE h[k] = Next10(s, h, k)
  <2>1. h[k] = g[k] /\ g[k] = Next10(s, g, k)
    BY <1>4
  <2>2. CASE k = 0
    BY <2>1, <2>2, Zenon DEF Next10
  <2>3. CASE k # 0
    <3>1. k - 1 \in D
      BY <2>3
    <3>2. h[k - 1] = g[k - 1]
      BY <3>1, Zenon
    <3> HIDE DEF h
    <3> QED BY <2>1, <2>3, <3>2, Zenon DEF Next10
  <2> QED BY <2>2, <2>3
<1>6. h = [k \in D |-> Next10(s, h, k)]
  <2>1. h = [k \in D |-> h[k]]
    BY Zenon
  <2> HIDE DEF h
  <2>2. [k \in D |-> h[k]] = [k \in D |-> Next10(s, h, k)]
    BY <1>5, Zenon
  <2> QED BY <2>1, <2>2, Zenon
<1> HIDE DEF h
<1> QED BY <1>6

Value(s) == CHOOSE g : g = [k \in 0..Len(s) |-> Next10(s, g, k)]

(* The values of a sequence of digits; the last is the number.             *)
LEMMA ValueFacts ==
    ASSUME NEW s \in Seq(0..9)
    PROVE  /\ Len(s) \in Nat /\ Digitized(s) = Value(s)[Len(s)]
           /\ Value(s)[0] = 0
           /\ \A k \in 1..Len(s) : Value(s)[k] = 10 * Value(s)[k - 1] + s[k] /\ s[k] \in 0..9
           /\ \A k \in 0..Len(s) : Value(s)[k] \in Nat
<1> DEFINE v == Value(s)
           n == Len(s)
<1>1. n \in Nat
  OBVIOUS
<1>2. Digitized(s) = v[n]
  BY Zenon DEF Digitized, Value, Next10
<1>3. v = [k \in 0..n |-> Next10(s, v, k)]
  <2>1. \E g : g = [k \in 0..n |-> Next10(s, g, k)]
    BY <1>1, ValueExists, Zenon
  <2> QED BY <2>1, Zenon DEF Value
<1> HIDE DEF v
<1>4. \A k \in 0..n : v[k] = Next10(s, v, k)
  BY <1>3, Zenon
<1>5. v[0] = 0
  <2>1. 0 \in 0..n
    BY <1>1
  <2> QED BY <1>4, <2>1, Zenon DEF Next10
<1>6. ASSUME NEW k \in 1..n PROVE v[k] = 10 * v[k - 1] + s[k] /\ s[k] \in 0..9
  <2>1. k \in 0..n /\ k # 0 /\ s[k] \in 0..9
    OBVIOUS
  <2> QED BY <1>4, <2>1, Zenon DEF Next10
<1> HIDE DEF n
<1> DEFINE S == {k \in Nat : k <= n => v[k] \in Nat}
<1>7. 0 \in S
  BY <1>5
<1>8. ASSUME NEW k \in Nat, k \in S PROVE k + 1 \in S
  <2> SUFFICES ASSUME k + 1 <= n PROVE v[k + 1] \in Nat
    OBVIOUS
  <2>1. k + 1 \in 1..n /\ (k + 1) - 1 = k /\ k <= n
    BY <1>1
  <2>2. v[k + 1] = 10 * v[k] + s[k + 1] /\ s[k + 1] \in 0..9 /\ v[k] \in Nat
    BY <1>1, <1>6, <1>8, <2>1
  <2> DEFINE b == v[k]
             c == s[k + 1]
  <2>3. v[k + 1] = 10 * b + c /\ c \in 0..9 /\ b \in Nat
    BY <2>2
  <2> HIDE DEF b, c
  <2>4. 10 * b + c \in Nat
    BY <2>3
  <2> QED BY <2>3, <2>4, Zenon
<1>9. \A k \in 0..n : v[k] \in Nat
  <2>1. \A k \in Nat : k \in S
    <3> HIDE DEF S
    <3> QED BY <1>7, <1>8, EveryNatural
  <2> QED BY <1>1, <2>1
<1> QED BY <1>1, <1>2, <1>5, <1>6, <1>9 DEF v, n

(* The first digits are what is left when the others are cut off.          *)
LEMMA ValueCut ==
    ASSUME NEW s \in Seq(0..9), NEW N \in Nat, Len(s) <= N,
           NEW P, P[0] = 1, \A k \in 1..N : P[k] = 10 * P[k - 1],
           NEW i \in 0..Len(s), NEW j \in 0..(Len(s) - i)
    PROVE  Value(s)[i + j] - Value(s)[i] * P[j] \in 0..(P[j] - 1)
<1> DEFINE v == Value(s)
           n == Len(s)
<1>1. n \in Nat /\ \A k \in 0..n : v[k] \in Nat
  BY ValueFacts
<1>2. \A k \in 1..n : v[k] = 10 * v[k - 1] + s[k] /\ s[k] \in 0..9
  BY ValueFacts
<1>3. \A k \in 0..N : P[k] \in Nat \ {0}
  BY TensMultiply
<1> HIDE DEF v, n
<1> DEFINE S == {m \in Nat : i + m <= n => v[i + m] - v[i] * P[m] \in 0..(P[m] - 1)}
<1>4. 0 \in S
  <2>1. v[i] \in Nat /\ i + 0 = i
    BY <1>1 DEF n
  <2> DEFINE a == v[i]
  <2>2. a - a * 1 = 0
    <3> HIDE DEF a
    <3>1. a \in Nat
      BY <2>1 DEF a
    <3> QED BY <3>1, SMT
  <2> QED BY <2>1, <2>2
<1>5. ASSUME NEW m \in Nat, m \in S PROVE m + 1 \in S
  <2> SUFFICES ASSUME i + (m + 1) <= n
               PROVE  v[i + (m + 1)] - v[i] * P[m + 1] \in 0..(P[m + 1] - 1)
    OBVIOUS
  <2> DEFINE k == i + m
             a == v[i]
             b == v[k]
             p == P[m]
             c == s[k + 1]
  <2>1. /\ k + 1 \in 1..n /\ (k + 1) - 1 = k /\ k \in 0..n /\ i + (m + 1) = k + 1 /\ k <= n
        /\ m \in 0..N /\ m + 1 \in 1..N /\ (m + 1) - 1 = m /\ i \in 0..n
    BY <1>1 DEF n
  <2>2. v[k + 1] = 10 * b + c /\ c \in 0..9 /\ a \in Nat /\ b \in Nat
    BY <1>1, <1>2, <2>1
  <2>3. P[m + 1] = 10 * p /\ p \in Nat \ {0}
    BY <1>3, <2>1
  <2>4. b - a * p \in 0..(p - 1)
    BY <1>5, <2>1
  <2> HIDE DEF a, b, p, c, k
  <2> DEFINE z == a * p
  <2>5. a * (10 * p) = 10 * z /\ z \in Nat
    BY <2>2, <2>3, SMT
  <2> HIDE DEF z
  <2>6. b - z \in 0..(p - 1)
    BY <2>4 DEF z
  <2>7. (10 * b + c) - 10 * z \in 0..(10 * p - 1)
    BY <2>2, <2>3, <2>5, <2>6
  <2> QED BY <2>1, <2>2, <2>3, <2>5, <2>7, Zenon DEF a
<1>6. \A m \in Nat : m \in S
  <2> HIDE DEF S
  <2> QED BY <1>4, <1>5, EveryNatural
<1>7. j \in Nat /\ i + j <= n
  BY <1>1 DEF n
<1> QED BY <1>6, <1>7 DEF v

(* The number of the first digits is the value at their end.               *)
LEMMA ValuePrefix ==
    ASSUME NEW s \in Seq(0..9), NEW d \in 0..Len(s)
    PROVE  Digitized(SubSeq(s, 1, d)) = Value(s)[d]
<1> DEFINE u == SubSeq(s, 1, d)
<1>1. u \in Seq(0..9) /\ Len(u) = d /\ \A k \in 1..d : u[k] = s[k]
  OBVIOUS
<1> HIDE DEF u
<1>2. d \in Nat /\ d <= Len(s) /\ Len(s) \in Nat
  OBVIOUS
<1>3. /\ Digitized(u) = Value(u)[d] /\ Value(u)[0] = 0 /\ Value(s)[0] = 0
      /\ \A k \in 1..d : Value(u)[k] = 10 * Value(u)[k - 1] + u[k]
      /\ \A k \in 1..Len(s) : Value(s)[k] = 10 * Value(s)[k - 1] + s[k]
  BY <1>1, ValueFacts
<1> DEFINE S == {k \in Nat : k <= d => Value(u)[k] = Value(s)[k]}
<1>4. 0 \in S
  BY <1>3
<1>5. ASSUME NEW k \in Nat, k \in S PROVE k + 1 \in S
  <2> SUFFICES ASSUME k + 1 <= d PROVE Value(u)[k + 1] = Value(s)[k + 1]
    OBVIOUS
  <2>1. k + 1 \in 1..d /\ k + 1 \in 1..Len(s) /\ (k + 1) - 1 = k /\ k <= d
    BY <1>2
  <2>2. Value(u)[k] = Value(s)[k]
    BY <1>5, <2>1
  <2>3. Value(u)[k + 1] = 10 * Value(u)[k] + u[k + 1] /\ u[k + 1] = s[k + 1]
    BY <1>1, <1>3, <2>1
  <2>4. Value(s)[k + 1] = 10 * Value(s)[k] + s[k + 1]
    BY <1>3, <2>1
  <2> QED BY <2>2, <2>3, <2>4, Zenon
<1>6. \A k \in Nat : k \in S
  <2> HIDE DEF S
  <2> QED BY <1>4, <1>5, EveryNatural
<1> QED BY <1>2, <1>3, <1>6 DEF u

(* Cutting a number that was scaled up: the whole multiples come out, and  *)
(* what is less than the divisor falls away.                               *)
LEMMA Descaled ==
    ASSUME NEW p \in Nat \ {0}, NEW q \in Nat, NEW r \in Nat, r < p, NEW n, n = q * p + r
    PROVE  n \in Nat /\ n \div p = q
<1>1. q * p \in Nat
  BY Grows
<1>2. (q * p + r) \div p = q
  BY Quotient
<1>3. q * p + r \in Nat
  <2> DEFINE z == q * p
  <2> HIDE DEF z
  <2>1. z \in Nat
    BY <1>1 DEF z
  <2>2. z + r \in Nat
    BY <2>1
  <2> QED BY <2>2 DEF z
<1> QED BY <1>2, <1>3, Zenon

(* A fraction's digits are zeros added or digits cut: in both cases the    *)
(* scaled number, cut, is the whole's multiple and the fraction.           *)
LEMMA ScaledText ==
    ASSUME NEW W \in Nat, NEW s \in Seq(0..9),
           \A k \in 1..(Digits + Len(s)) : 10^k = 10 * 10^(k - 1)
    PROVE  /\ Fraction(s) \in Nat
           /\ Quot(W * 10^(Digits + Len(s)) + Digitized(s) * One, 10^Len(s)) = W * One + Fraction(s)
<1> DEFINE n == Len(s)
           d == Digits
           N == d + n
           P == [k \in 0..N |-> 10^k]
           v == Value(s)
<1>1. n \in Nat /\ d \in Nat /\ N \in Nat
  BY FixedPointAssumption
<1>2. \A k \in 0..N : P[k] = 10^k
  BY Zenon
<1>3. P[0] = 1 /\ \A k \in 1..N : P[k] = 10 * P[k - 1]
  <2>1. 10^0 = 1
    OBVIOUS
  <2>2. 0 \in 0..N
    BY <1>1
  <2>3. \A k \in 1..N : k \in 0..N /\ k - 1 \in 0..N
    BY <1>1
  <2>4. \A k \in 1..N : 10^k = 10 * 10^(k - 1)
    OBVIOUS
  <2> HIDE DEF P
  <2> QED BY <1>2, <2>1, <2>2, <2>3, <2>4, Zenon
<1> HIDE DEF P
<1>4. /\ \A k \in 0..N : P[k] \in Nat \ {0}
      /\ \A i \in 0..N : \A j \in 0..(N - i) : P[i + j] = P[i] * P[j]
  BY <1>1, <1>3, TensMultiply
<1>5. Digitized(s) = v[n] /\ \A k \in 0..n : v[k] \in Nat
  BY ValueFacts
<1>6. ASSUME NEW i \in 0..n, NEW j \in 0..(n - i) PROVE v[i + j] - v[i] * P[j] \in 0..(P[j] - 1)
  <2>1. n <= N
    BY <1>1
  <2> HIDE DEF N
  <2> QED BY <1>1, <1>3, <2>1, ValueCut
<1> HIDE DEF v
<1>7. /\ P[N] = 10^(Digits + Len(s)) /\ P[d] = One /\ P[n] = 10^Len(s)
      /\ P[N] = P[d] * P[n] /\ P[d] \in Nat \ {0} /\ P[n] \in Nat \ {0}
  <2>1. N \in 0..N /\ d \in 0..N /\ n \in 0..N /\ n \in 0..(N - d)
    BY <1>1
  <2>2. P[d + n] = P[d] * P[n]
    BY <1>4, <2>1, Zenon
  <2> QED BY <1>2, <1>4, <2>1, <2>2, Zenon DEF One
<1> DEFINE A == P[d]
           B == P[n]
           V == v[n]
           Q == Quot(W * P[N] + V * A, B)
<1>8. Q = Quot(W * 10^(Digits + Len(s)) + Digitized(s) * One, 10^Len(s))
  BY <1>5, <1>7, Zenon
<1>9. V \in Nat
  BY <1>1, <1>5
<1>10. ASSUME NEW F \in Nat, NEW r \in Nat, r < B, V * A = F * B + r
       PROVE  Q = W * One + F
  <2> DEFINE x == W * P[N] + V * A
             q == W * A + F
  <2>1. x = q * B + r
    <3> HIDE DEF A, B, V
    <3>1. A \in Nat \ {0} /\ B \in Nat \ {0} /\ P[N] = A * B
      BY <1>7 DEF A, B
    <3>2. W * (A * B) = (W * A) * B
      BY <3>1, SMT
    <3> DEFINE y == W * A
    <3>3. y \in Nat
      BY <3>1, Grows
    <3>4. W * P[N] = y * B
      BY <3>1, <3>2, Zenon
    <3> HIDE DEF y
    <3>5. (y + F) * B = y * B + F * B
      BY <3>1, <3>3, SMT
    <3> DEFINE g == y * B
               h == F * B
    <3>6. g \in Nat /\ h \in Nat
      BY <3>1, <3>3, Grows
    <3>7. x = g + (h + r) /\ (y + F) * B = g + h
      BY <1>10, <3>4, <3>5, Zenon
    <3> HIDE DEF g, h, x
    <3>8. x = (g + h) + r
      BY <3>6, <3>7
    <3> QED BY <3>7, <3>8, Zenon DEF y
  <2>2. q \in Nat
    <3> HIDE DEF A
    <3>1. W * A \in Nat
      BY <1>7, Grows DEF A
    <3> QED BY <3>1
  <2>3. x \in Nat /\ x \div B = q
    <3> HIDE DEF x, q
    <3> QED BY <1>7, <1>10, <2>1, <2>2, Descaled
  <2>4. Q = x \div B
    <3>1. B \in Nat \ {0}
      BY <1>7
    <3> HIDE DEF x, B
    <3>4. x \in Nat /\ x \div B \in Nat
      BY <2>2, <2>3, Zenon
    <3>5. ~ (x < 0) /\ ~ (B < 0)
      BY <3>1, <3>4
    <3>6. Mag(x) = x /\ Mag(B) = B
      BY <3>5 DEF Mag
    <3>2. Mag(x) = x /\ Mag(B) = B /\ Sign(x, B) = 1
      BY <3>1, <3>4, <3>6 DEF Sign
    <3>3. 1 * (x \div B) = x \div B
      BY <3>4
    <3> QED BY <3>2, <3>3, Zenon DEF Quot, x, B
  <2> QED BY <1>7, <2>3, <2>4, Zenon
<1>11. CASE n <= d
  <2> DEFINE C == P[d - n]
  <2>1. A = C * B /\ C \in Nat \ {0} /\ C = 10^(Digits - Len(s))
    <3>1. d - n \in 0..N /\ n \in 0..(N - (d - n)) /\ (d - n) + n = d
      BY <1>1, <1>11
    <3>2. P[(d - n) + n] = P[d - n] * P[n]
      BY <1>4, <3>1, Zenon
    <3> QED BY <1>2, <1>4, <3>1, <3>2, Zenon
  <2> DEFINE F == V * C
  <2>2. Fraction(s) = F
    BY <1>5, <1>11, <2>1, Zenon DEF Fraction
  <2>3. F \in Nat
    <3> HIDE DEF V, C
    <3> QED BY <1>9, <2>1, Grows
  <2>4. V * A = F * B + 0 /\ 0 \in Nat /\ 0 < B
    <3>1. B \in Nat \ {0}
      BY <1>7
    <3> HIDE DEF V, C, B
    <3>2. V * (C * B) = (V * C) * B /\ (V * C) * B \in Nat
      BY <1>9, <2>1, <3>1, SMT
    <3> DEFINE z == (V * C) * B
    <3>3. V * A = z /\ z \in Nat
      BY <2>1, <3>2, Zenon
    <3>4. z = z + 0
      <4> HIDE DEF z
      <4> QED BY <3>3
    <3> QED BY <3>1, <3>3, <3>4
  <2> HIDE DEF F, Q
  <2>5. Q = W * One + F
    BY <1>10, <2>3, <2>4, Zenon
  <2> QED BY <1>8, <2>2, <2>3, <2>5, Zenon DEF Q
<1>12. CASE n > d
  <2> DEFINE C == P[n - d]
             F == v[d]
             e == V - F * C
  <2>1. B = A * C /\ C \in Nat \ {0}
    <3>1. d \in 0..N /\ n - d \in 0..(N - d) /\ n - d \in 0..N /\ d + (n - d) = n
      BY <1>1, <1>12
    <3>2. P[d + (n - d)] = P[d] * P[n - d]
      BY <1>4, <3>1, Zenon
    <3> QED BY <1>4, <3>1, <3>2, Zenon
  <2>2. e \in 0..(C - 1)
    <3>1. d \in 0..n /\ n - d \in 0..(n - d) /\ d + (n - d) = n
      BY <1>1, <1>12
    <3>2. v[d + (n - d)] - v[d] * P[n - d] \in 0..(P[n - d] - 1)
      BY <1>6, <3>1, Zenon
    <3> QED BY <3>1, <3>2, Zenon
  <2>3. F \in Nat /\ Fraction(s) = F
    <3>1. d \in 0..n /\ ~ (Len(s) <= Digits) /\ d \in 0..Len(s)
      BY <1>1, <1>12
    <3>2. Digitized(SubSeq(s, 1, d)) = Value(s)[d]
      BY <3>1, ValuePrefix, Zenon
    <3> QED BY <1>5, <3>1, <3>2, Zenon DEF Fraction, v
  <2> DEFINE r == e * A
  <2>4. r \in Nat /\ r < B /\ V * A = F * B + r
    <3>1. A \in Nat \ {0}
      BY <1>7
    <3> HIDE DEF A, C, F, V
    <3> DEFINE z == F * C
    <3>2. z \in Nat /\ e = V - z
      BY <2>1, <2>3, Grows
    <3> HIDE DEF z, e
    <3>3. e \in Nat /\ e < C /\ V = z + e
      BY <1>9, <2>1, <2>2, <3>2
    <3>4. r \in Nat /\ r < C * A /\ C * A = A * C
      BY <2>1, <3>1, <3>3, Grows, SMT
    <3>5. V * A = z * A + e * A
      BY <3>1, <3>2, <3>3, SMT
    <3>6. z * A = F * (A * C)
      <4>1. (F * C) * A = F * (A * C)
        BY <2>1, <2>3, <3>1, SMT
      <4> QED BY <4>1 DEF z
    <3> QED BY <2>1, <3>4, <3>5, <3>6, Zenon
  <2> HIDE DEF F, Q, r
  <2>5. Q = W * One + F
    BY <1>10, <2>3, <2>4, Zenon
  <2> QED BY <1>8, <2>3, <2>5, Zenon DEF Q
<1> QED BY <1>1, <1>11, <1>12

(* str_to_x18 is the number, cut, but for a fraction of a negative number. *)
LEMMA StrIsExact ==
    ASSUME NEW t \in Texts
    PROVE  StrExact(t)
<1> DEFINE W == t.whole
           F == Fraction(t.fraction)
           z == W * One
           scaled == Quot(W * 10^(Digits + Len(t.fraction)) + Digitized(t.fraction) * One, 10^Len(t.fraction))
<1>1. /\ W \in Nat /\ t.negative \in BOOLEAN /\ t.fraction \in Seq(0..9)
      /\ \A k \in 1..(Digits + Len(t.fraction)) : 10^k = 10 * 10^(k - 1)
  BY TextsAssumption, Zenon
<1>2. F \in Nat /\ scaled = z + F
  BY <1>1, ScaledText, Zenon
<1>3. z \in Nat /\ (-W) * One = -z
  BY <1>1, Scale, Grows, SMT
<1>4. str_to_x18(t) = IF t.negative THEN -z + F ELSE z + F
  <2>1. CASE t.negative
    BY <1>3, <2>1, Zenon DEF str_to_x18
  <2>2. CASE ~ t.negative
    BY <2>2, Zenon DEF str_to_x18
  <2> QED BY <2>1, <2>2
<1> HIDE DEF z, F, scaled
<1>5. (str_to_x18(t) = IF t.negative THEN -scaled ELSE scaled) <=> (~ t.negative \/ F = 0)
  <2>1. CASE t.negative
    <3>1. -z + F = -(z + F) <=> F = 0
      BY <1>2, <1>3
    <3> QED BY <1>2, <1>4, <2>1, <3>1, Zenon
  <2>2. CASE ~ t.negative
    BY <1>2, <1>4, <2>2, Zenon
  <2> QED BY <2>1, <2>2
<1> QED BY <1>5, Zenon DEF StrExact, scaled, F

-----------------------------------------------------------------------------
(* The invariant: what is computed is one of the inputs, and an order is   *)
(* one that can be built.                                                  *)
InputInv ==
    /\ input.of = "order" => input.order \in Orders /\ Buildable(input.order)
    /\ input.of = "pair"  => <<input.x, input.y>> \in Pairs
    /\ input.of = "text"  => input.text \in Texts

(* Every step keeps the invariant.                                         *)
LEMMA InputKept ==
    /\ Init => InputInv
    /\ InputInv /\ [Next]_input => InputInv'
<1>1. Init => InputInv
  BY DEF Init, NoInput, InputInv
<1>2. ASSUME InputInv, [Next]_input PROVE InputInv'
  <2>1. CASE UNCHANGED input
    BY <1>2, <2>1 DEF InputInv
  <2>2. CASE OrderBuilt
    <3>1. PICK o \in Orders : Buildable(o) /\ input' = [of |-> "order", order |-> o]
      BY <2>2 DEF OrderBuilt
    <3>2. input'.order = o /\ input'.of # "pair" /\ input'.of # "text"
      BY <3>1
    <3> QED BY <3>1, <3>2, Zenon DEF InputInv
  <2>3. CASE Computed
    <3>1. PICK p \in Pairs : input' = [of |-> "pair", x |-> p[1], y |-> p[2]]
      BY <2>3 DEF Computed
    <3>2. input'.x = p[1] /\ input'.y = p[2] /\ input'.of # "order" /\ input'.of # "text"
      BY <3>1
    <3>3. <<p[1], p[2]>> \in Pairs
      <4>1. p \in (-IMax..IMax) \X (-IMax..IMax)
        BY PairsAssumption, Zenon
      <4>2. p = <<p[1], p[2]>>
        BY <4>1
      <4> QED BY <4>2, Zenon
    <3> QED BY <3>2, <3>3, Zenon DEF InputInv
  <2>4. CASE Parsed
    <3>1. PICK t \in Texts : input' = [of |-> "text", text |-> t]
      BY <2>4 DEF Parsed
    <3>2. input'.text = t /\ input'.of # "order" /\ input'.of # "pair"
      BY <3>1
    <3> QED BY <3>1, <3>2, Zenon DEF InputInv
  <2> QED BY <1>2, <2>1, <2>2, <2>3, <2>4 DEF Next
<1> QED BY <1>1, <1>2

(* The two numbers of a pair are in the range.                             *)
LEMMA PairFits ==
    InputInv /\ input.of = "pair" => input.x \in -IMax..IMax /\ input.y \in -IMax..IMax
<1>1. <<input.x, input.y>> \in Pairs => <<input.x, input.y>> \in (-IMax..IMax) \X (-IMax..IMax)
  BY PairsAssumption, Zenon
<1>2. <<input.x, input.y>> \in (-IMax..IMax) \X (-IMax..IMax)
         => input.x \in -IMax..IMax /\ input.y \in -IMax..IMax
  OBVIOUS
<1> QED BY <1>1, <1>2, Zenon DEF InputInv

(***************************************************************************)
(* Every order that can be built is read back with the type, the trigger,  *)
(* the options and the numbers it was built with exactly when its numbers  *)
(* fit their fields and the caller's starting appendix does not contradict *)
(* the options; what controls it never depends on its numbers.  That is    *)
(* order_inner's packing and the unpacking of Order's accessors and the    *)
(* execution gateway, for any starting appendix, and any numbers below the *)
(* bound of Bit.                                                           *)
(***************************************************************************)
THEOREM AppendixIsReadBack == Spec => []AppendixReadsBack
<1>1. InputInv => AppendixReadsBack
  BY ControlBits, OnlyInRange, InRangeReadsBack, Zenon DEF InputInv, AppendixReadsBack
<1> QED BY <1>1, InputKept, PTL DEF Spec

(***************************************************************************)
(* The SDK's fixed-point arithmetic is exact for every scale and width of  *)
(* integer with One^2 in the range: mul_x18 and div_x18 return the exact   *)
(* result cut towards zero wherever it fits, with no product overflowing   *)
(* on the way; try_sqrt_x18 returns the least root; spot_round moves a     *)
(* value by less than the threshold and onto the multiple that is near;    *)
(* and str_to_x18 is the number, cut, but for a negative fraction.         *)
(***************************************************************************)
THEOREM FixedPointIsExact == Spec => []FixedPointExact
<1>1. InputInv => FixedPointExact
  <2> SUFFICES ASSUME InputInv PROVE FixedPointExact
    OBVIOUS
  <2>1. ASSUME input.of = "pair"
        PROVE  /\ MulExact(input.x, input.y) /\ DivExact(input.x, input.y)
               /\ SqrtLeast(input.x) /\ RoundSound(input.x)
    <3>1. input.x \in -IMax..IMax /\ input.y \in -IMax..IMax
      BY <2>1, PairFits, Zenon
    <3>2. input.x \in Int /\ input.y \in Int
      BY <3>1
    <3>3. SqrtLeast(input.x)
      <4>1. CASE input.x >= 0
        <5>1. IMax \in Int
          BY Scale
        <5>2. input.x \in 0..IMax
          BY <3>1, <4>1, <5>1
        <5> QED BY <5>2, SqrtIsLeast
      <4>2. CASE ~ (input.x >= 0)
        BY <4>2, Zenon DEF SqrtLeast
      <4> QED BY <4>1, <4>2
    <3> QED BY <3>2, <3>3, MulIsExact, DivIsExact, RoundIsSound, Zenon
  <2>2. ASSUME input.of = "text" PROVE StrExact(input.text)
    BY <2>2, StrIsExact, Zenon DEF InputInv
  <2> QED BY <2>1, <2>2, Zenon DEF FixedPointExact
<1> QED BY <1>1, InputKept, PTL DEF Spec

(***************************************************************************)
(* FeeCalculator's fee is never negative and never more than one unit off, *)
(* for every amount and every rate below one: what is received is cut      *)
(* down, and what is paid, less its fee, covers at most the amount.        *)
(***************************************************************************)
THEOREM FeesAreSound == Spec => []FeesSound
<1>1. InputInv => FeesSound
  BY PairFits, FeeIsSound, Zenon DEF FeesSound
<1> QED BY <1>1, InputKept, PTL DEF Spec

=============================================================================
