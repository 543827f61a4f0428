----------------------------- MODULE FixedPoint -----------------------------
(***************************************************************************)
(* The SDK's fixed-point arithmetic (nado_utils/math.rs) and the fee       *)
(* calculator that is built on it (builders/utils/fee_calculator.rs).      *)
(* ONE_X18 is 10^18 and an i128 has 128 bits; here One is 10^Digits and an *)
(* integer has Width bits, with One^2 below 2^(Width-1) as it is in the    *)
(* code.  Overflow is what a release build makes of it: the low bits.      *)
(* PowersAssumption is arithmetic, stated for the provers, which know      *)
(* nothing of a power.                                                     *)
(***************************************************************************)
EXTENDS Integers, Sequences

CONSTANTS Digits, Width,
          RoundIncrement, RoundThreshold   \* ROUND_INCREMENT, ROUND_THRESHOLD

One  == 10^Digits
Half == 2^(Width - 1)

ASSUME FixedPointAssumption ==
    /\ Digits \in Nat \ {0} /\ Width \in Nat \ {0} /\ RoundIncrement \in Nat
    /\ One * One < Half
    /\ RoundThreshold \in 1..(RoundIncrement \div 2)

ASSUME PowersAssumption ==
    /\ One \in Nat \ {0}
    /\ \A k \in 0..Width : 2^k \in Nat \ {0} /\ (k > 0 => 2^k = 2 * 2^(k - 1))

IMax == Half - 1
IMin == -Half
Fits(n) == n \in IMin..IMax

(* `as i128', and what a product or a sum leaves                           *)
Signed(n) == LET m == n % 2^Width IN IF m > IMax THEN m - 2^Width ELSE m
Unsigned(n) == n % 2^Width

Mag(n) == IF n < 0 THEN -n ELSE n
Sign(x, y) == IF (x < 0) = (y < 0) THEN 1 ELSE -1

(* Division and remainder of machine integers, towards zero.               *)
Quot(n, d) == Sign(n, d) * (Mag(n) \div Mag(d))
Rem(n, d)  == n - d * Quot(n, d)

-----------------------------------------------------------------------------
(* mul_x18 of magnitudes a <= b: the products it makes, the result last.   *)
MulSteps(a, b) ==
    LET c == b \div One  d == b % One  e == a \div One  f == a % One
    IN  IF b < One THEN <<a * b, (a * b) \div One>>
        ELSE IF a < One THEN <<a * c, a * d, a * c + (a * d) \div One>>
        ELSE <<e * c * One, e * d, f * c, f * d, e * c * One + e * d + f * c + (f * d) \div One>>

MulStepsOf(x, y) ==
    IF Mag(x) <= Mag(y) THEN MulSteps(Mag(x), Mag(y)) ELSE MulSteps(Mag(y), Mag(x))

Result(steps) == steps[Len(steps)]

mul_x18(x, y) == Signed(Sign(x, y) * Result(MulStepsOf(x, y)))

(* Slip: the rest is always multiplied in 128 bits.                        *)
SlipDivSteps(a, b) ==
    LET whole == (a \div b) * One
        rest  == a % b
    IN  <<rest * One, whole + Unsigned(rest * One) \div b>>

(* div_x18 of magnitudes: the products made in Width bits, the result last;*)
(* a rest above One is multiplied in a U256.                               *)
DivSteps(a, b) ==
    LET whole == (a \div b) * One
        rest  == a % b
    IN  IF rest <= One THEN <<rest * One, whole + (rest * One) \div b>>
        ELSE <<whole + Unsigned((rest * One) \div b)>>

DivStepsOf(x, y) == DivSteps(Mag(x), Mag(y))

div_x18(x, y) == Signed(Sign(x, y) * Result(DivStepsOf(x, y)))

try_mul_x18(x, y) == Quot(x * y, One)

(* try_sqrt_x18's first loop: hi is doubled from 1 while its square is     *)
(* below x.                                                                *)
SqrtCeiling(x) ==
    CHOOSE h \in {2^k : k \in 0..Width} :
        /\ try_mul_x18(h, h) >= x
        /\ \A k \in 0..Width : 2^k < h => try_mul_x18(2^k, 2^k) < x

(* One turn of its binary search.                                          *)
Narrowed(x, lo, hi) ==
    LET mid == (lo + hi) \div 2
    IN  IF try_mul_x18(mid, mid) < x THEN <<mid + 1, hi>> ELSE <<lo, mid>>

try_sqrt_x18(x) ==
    LET top == SqrtCeiling(x)
        search[b \in (0..(top + 1)) \X (-1..top)] ==
            IF b[1] >= b[2] THEN b[1] ELSE search[Narrowed(x, b[1], b[2])]
    IN  search[<<top \div 2, top>>]

(* spot_round of a magnitude                                               *)
Nearest(v) ==
    LET m == v % RoundIncrement
    IN  IF m < RoundThreshold THEN v - m
        ELSE IF m > RoundIncrement - RoundThreshold THEN v + (RoundIncrement - m) ELSE v

spot_round(v) == IF v < 0 THEN -Nearest(Mag(v)) ELSE Nearest(v)

(* The number that a sequence of decimal digits stands for.                *)
Digitized(s) ==
    LET value[k \in 0..Len(s)] == IF k = 0 THEN 0 ELSE 10 * value[k - 1] + s[k] IN value[Len(s)]

(* The fraction's digits, filled up with zeros or cut at Digits.           *)
Fraction(s) ==
    IF Len(s) <= Digits THEN Digitized(s) * 10^(Digits - Len(s))
    ELSE Digitized(SubSeq(s, 1, Digits))

(* str_to_x18 of the text of a number, [negative, whole, fraction]         *)
str_to_x18(text) ==
    (IF text.negative THEN -text.whole ELSE text.whole) * One + Fraction(text.fraction)

(* Slip: a negative amount is multiplied by the keep rate too.             *)
SlipNewAmount(amount, keep) == mul_x18(amount, keep)

(* What is left of an amount: less is received, more is paid.              *)
NewAmount(amount, keep) == IF amount < 0 THEN div_x18(amount, keep) ELSE mul_x18(amount, keep)

Saturated(n) == IF n > IMax THEN IMax ELSE IF n < IMin THEN IMin ELSE n

(* calc_fee_inner; sequencer is 0 unless the taker pays the sequencer.     *)
calc_fee(amount, rate, sequencer) ==
    Saturated(amount - Saturated(NewAmount(amount, One - rate) - sequencer))

-----------------------------------------------------------------------------
(* Whenever the exact product, cut towards zero, fits, it is what mul_x18  *)
(* returns, and no product made on the way overflows: that is what its     *)
(* three cases are for.                                                    *)
MulExact(x, y) ==
    LET exact == Quot(x * y, One)
        steps == MulStepsOf(x, y)
    IN  Fits(exact) => /\ mul_x18(x, y) = exact
                       /\ \A k \in DOMAIN steps : steps[k] < 2^Width

(* The same of div_x18, for every divisor but zero.                        *)
DivExact(x, y) ==
    LET exact == Quot(x * One, y)
        steps == DivStepsOf(x, y)
    IN  y # 0 /\ Fits(exact) => /\ div_x18(x, y) = exact
                                /\ \A k \in DOMAIN steps : steps[k] < 2^Width

(* try_sqrt_x18 returns the least root whose square, cut, reaches x, and   *)
(* up to a quarter of the range nothing on the way overflows.              *)
SqrtLeast(x) ==
    x >= 0 => LET r == try_sqrt_x18(x) IN
        /\ try_mul_x18(r, r) >= x
        /\ \A q \in 0..(r - 1) : try_mul_x18(q, q) < x
        /\ x <= IMax \div 4 => Fits(try_mul_x18(SqrtCeiling(x), SqrtCeiling(x)))

(* spot_round moves a value by less than the threshold, the same way on    *)
(* both sides of zero, and onto the multiple if one is that near.          *)
RoundSound(v) ==
    /\ Mag(spot_round(v) - v) < RoundThreshold
    /\ spot_round(-v) = -spot_round(v)
    /\ (\E d \in (1 - RoundThreshold)..(RoundThreshold - 1) : Rem(v + d, RoundIncrement) = 0)
          => Rem(spot_round(v), RoundIncrement) = 0

(* str_to_x18 is the number, cut towards zero, exactly if it is not        *)
(* negative or has no fraction: the fraction of a negative number is       *)
(* added to it instead of subtracted.                                      *)
StrExact(text) ==
    LET scaled == Quot(text.whole * 10^(Digits + Len(text.fraction)) + Digitized(text.fraction) * One,
                       10^Len(text.fraction))
    IN  (str_to_x18(text) = IF text.negative THEN -scaled ELSE scaled)
            <=> (~text.negative \/ Fraction(text.fraction) = 0)

(* A fee is never negative and never more than one unit off: what is       *)
(* received is cut down, and what is paid, less its fee, covers at most    *)
(* the amount.                                                             *)
FeeSound(amount, rate) ==
    LET keep == One - rate
        fee  == calc_fee(amount, rate, 0)
        paid == fee - amount
    IN  (rate \in 0..(One - 1) /\ Fits(Quot(amount * One, keep))) =>
            /\ fee >= 0
            /\ amount >= 0 => fee * One - amount * rate \in 0..(One - 1)
            /\ amount < 0 => paid * keep <= -amount * One /\ -amount * One < (paid + 1) * keep
=============================================================================
