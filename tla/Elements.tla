------------------------------ MODULE Elements ------------------------------
(***************************************************************************)
(* The element arithmetic of the reference interpreter                     *)
(* (reference/Element.cpp and Types.cpp).                                  *)
(*                                                                         *)
(* An element value is a sequence of numbers: one for a boolean (0 or 1),  *)
(* an integer or a float, two for a complex number, and none when the code *)
(* would call report_fatal_error.  Integers wrap at their width (a width   *)
(* of 31 bits or more is never exceeded by the data of the instances).     *)
(* Floats are exact integers, with NaN for every value that is not finite; *)
(* the functions of the C library are the constant Libm.                   *)
(***************************************************************************)
EXTENDS TypeInference

\* Libm(fn, args): what <cmath> or <complex> returns for the elements args.
CONSTANT Libm(_, _)

Fatal == << >>
NaN == 1000003

isSupportedBooleanType(et) == et.k = "i" /\ et.w = 1
isSupportedUnsignedIntegerType(et) == et.k = "ui" /\ et.w \in {2, 4, 8, 16, 32, 64}
isSupportedSignedIntegerType(et) == et.k = "i" /\ et.w \in {2, 4, 8, 16, 32, 64}
isSupportedIntegerType(et) ==
    isSupportedUnsignedIntegerType(et) \/ isSupportedSignedIntegerType(et)
isSupportedFloatType(et) == et.k = "f" /\ et.w \in {4, 6, 8, 16, 32, 64}
isSupportedComplexType(et) == et.k = "c" /\ et.w \in {32, 64}
numBits(et) == IF isSupportedComplexType(et) THEN 2 * et.w ELSE et.w

-----------------------------------------------------------------------------
(* APInt: the bit pattern of a value, and the value of a bit pattern.      *)

Pattern(w, n) == IF w >= 31 THEN n ELSE n % 2^w
IntegerOf(et, bits) ==
    LET p == Pattern(et.w, bits)
    IN  IF et.k = "ui" \/ et.w = 1 \/ et.w >= 31 \/ p < 2^(et.w - 1) THEN p ELSE p - 2^et.w
Bit(n, k) == (n \div 2^k) % 2
OfBits(w, BitAt(_)) == MapThenSumSet(LAMBDA k : BitAt(k) * 2^k, 0..(w - 1))
getSExtValue(et, x) == IntegerOf(I(et.w), x[1])
B(b) == <<IF b THEN 1 ELSE 0>>

\* APFloat: which pattern stands for which value does not matter here.
bitcastToAPInt(et, n) == Pattern(et.w, n)
APFloatOf(et, bits) == IntegerOf(I(et.w), bits)
FPMantissaWidth(et) == IF et.w = 8 THEN 4 ELSE IF et.w = 16 THEN 11 ELSE 24

toBits(et, x) ==
    IF isSupportedComplexType(et)
    THEN bitcastToAPInt(F(et.w), x[2]) * 2^et.w + bitcastToAPInt(F(et.w), x[1])
    ELSE IF isSupportedFloatType(et) THEN bitcastToAPInt(et, x[1])
    ELSE Pattern(et.w, x[1])

fromBits(et, bits) ==
    CASE isSupportedBooleanType(et) -> B(bits # 0)
      [] isSupportedIntegerType(et) -> <<IntegerOf(et, bits)>>
      [] isSupportedFloatType(et) -> <<APFloatOf(et, bits)>>
      [] isSupportedComplexType(et) ->
            <<APFloatOf(F(et.w), bits % 2^et.w), APFloatOf(F(et.w), bits \div 2^et.w)>>
      [] OTHER -> Fatal

-----------------------------------------------------------------------------
(* map and mapWithUpcastToDouble: the function of the kind of the element. *)

NoInt(a, b) == Fatal
map2(et, x, y, IntegerFn(_, _), BoolFn(_, _), FloatFn(_, _), ComplexFn(_, _)) ==
    CASE Fatal \in {x, y} -> Fatal
      [] isSupportedIntegerType(et) -> 
            LET r == IntegerFn(x[1], y[1]) IN IF r = Fatal THEN r ELSE <<IntegerOf(et, r[1])>>
      [] isSupportedBooleanType(et) -> BoolFn(x[1], y[1])
      [] isSupportedFloatType(et) -> IF NaN \in {x[1], y[1]} THEN <<NaN>> ELSE FloatFn(x[1], y[1])
      [] isSupportedComplexType(et) -> ComplexFn(x, y)
      [] OTHER -> Fatal

map1(et, x, IntegerFn(_), BoolFn(_), FloatFn(_), ComplexFn(_)) ==
    map2(et, x, x, LAMBDA a, b : IntegerFn(a), LAMBDA a, b : BoolFn(a),
         LAMBDA a, b : FloatFn(a), LAMBDA a, b : ComplexFn(a))

mapWithUpcastToDouble(et, fn, args) ==
    IF (\E i \in DOMAIN args : args[i] = Fatal)
          \/ ~ (isSupportedFloatType(et) \/ isSupportedComplexType(et))
    THEN Fatal
    ELSE Libm(fn, args)

Bitwise2(et, x, y, BitFn(_, _)) ==
    LET OnBits(a, b) == <<OfBits(et.w, LAMBDA k : BitFn(Bit(Pattern(et.w, a), k),
                                                        Bit(Pattern(et.w, b), k)))>>
    IN  map2(et, x, y, OnBits, LAMBDA a, b : <<BitFn(a, b)>>, NoInt, NoInt)

Max2(a, b) == IF a >= b THEN a ELSE b
Min2(a, b) == IF a <= b THEN a ELSE b
and(et, x, y) == Bitwise2(et, x, y, Min2)
or(et, x, y) == Bitwise2(et, x, y, Max2)
xor(et, x, y) == Bitwise2(et, x, y, LAMBDA a, b : (a + b) % 2)
not(et, x) == map1(et, x, LAMBDA a : <<-a - 1>>, LAMBDA a : <<1 - a>>,
                   LAMBDA a : Fatal, LAMBDA a : Fatal)

add(et, x, y) == map2(et, x, y, LAMBDA a, b : <<a + b>>, LAMBDA a, b : <<Max2(a, b)>>,
                      LAMBDA a, b : <<a + b>>, LAMBDA a, b : <<a[1] + b[1], a[2] + b[2]>>)
subtract(et, x, y) == map2(et, x, y, LAMBDA a, b : <<a - b>>, NoInt,
                           LAMBDA a, b : <<a - b>>, LAMBDA a, b : <<a[1] - b[1], a[2] - b[2]>>)
multiply(et, x, y) ==
    map2(et, x, y, LAMBDA a, b : <<a * b>>, LAMBDA a, b : <<Min2(a, b)>>,
         LAMBDA a, b : <<a * b>>,
         LAMBDA a, b : <<a[1] * b[1] - a[2] * b[2], a[1] * b[2] + a[2] * b[1]>>)
negate(et, x) == map1(et, x, LAMBDA a : <<-a>>, LAMBDA a : Fatal, LAMBDA a : <<-a>>,
                      LAMBDA a : <<-a[1], -a[2]>>)

\* Integer division truncates; by zero it is an assertion of APInt.
Abs(n) == IF n < 0 THEN -n ELSE n
Quotient(a, b) == LET q == Abs(a) \div Abs(b) IN IF (a < 0) = (b < 0) THEN q ELSE -q
\* A float quotient is exact, or what the library makes of it.
FloatQuotient(a, b) ==
    IF b = 0 THEN <<NaN>>
    ELSE IF a % Abs(b) = 0 THEN <<Quotient(a, b)>> ELSE Libm("div", <<<<a>>, <<b>>>>)
divide(et, x, y) ==
    map2(et, x, y, LAMBDA a, b : IF b = 0 THEN Fatal ELSE <<Quotient(a, b)>>, NoInt,
         FloatQuotient,
         LAMBDA a, b : IF b[2] = 0 THEN FloatQuotient(a[1], b[1]) \o FloatQuotient(a[2], b[1])
                       ELSE Libm("div", <<a, b>>))
rem(et, x, y) ==
    map2(et, x, y, LAMBDA a, b : IF b = 0 THEN Fatal ELSE <<a - b * Quotient(a, b)>>, NoInt,
         LAMBDA a, b : IF b = 0 THEN <<NaN>> ELSE <<a - b * Quotient(a, b)>>, NoInt)

Larger(a, b) == IF a[1] = b[1] THEN a[2] > b[2] ELSE a[1] > b[1]
maximum(et, x, y) == map2(et, x, y, LAMBDA a, b : <<Max2(a, b)>>, LAMBDA a, b : <<Max2(a, b)>>,
                      LAMBDA a, b : <<Max2(a, b)>>,
                      LAMBDA a, b : IF Larger(a, b) THEN a ELSE b)
minimum(et, x, y) == map2(et, x, y, LAMBDA a, b : <<Min2(a, b)>>, LAMBDA a, b : <<Min2(a, b)>>,
                      LAMBDA a, b : <<Min2(a, b)>>,
                      LAMBDA a, b : IF Larger(b, a) THEN a ELSE b)

-----------------------------------------------------------------------------
(* Comparisons give a boolean; a comparison with NaN is false.             *)

Ordered(et, x, y) == ~ (et.k = "f" /\ NaN \in {x[1], y[1]})
EQ(et, x, y) == IF Fatal \in {x, y} THEN Fatal ELSE B(Ordered(et, x, y) /\ x = y)
LT(et, x, y) == IF Fatal \in {x, y} \/ et.k = "c" THEN Fatal
                ELSE B(Ordered(et, x, y) /\ x[1] < y[1])
GT(et, x, y) == IF Fatal \in {x, y} \/ et.k = "c" THEN Fatal
                ELSE B(Ordered(et, x, y) /\ x[1] > y[1])
logicalOr(x, y) == IF Fatal \in {x, y} THEN Fatal ELSE B(x = <<1>> \/ y = <<1>>)
NE(et, x, y) == LET eq == EQ(et, x, y) IN IF eq = Fatal THEN eq ELSE B(eq = <<0>>)
LE(et, x, y) == logicalOr(LT(et, x, y), EQ(et, x, y))
GE(et, x, y) == logicalOr(GT(et, x, y), EQ(et, x, y))

-----------------------------------------------------------------------------
(* Conversions.                                                            *)

convertInteger(to, n) ==
    CASE isSupportedBooleanType(to) -> B(n # 0)
      [] isSupportedIntegerType(to) -> <<IntegerOf(to, n)>>
      [] isSupportedFloatType(to) -> <<n>>
      [] isSupportedComplexType(to) -> <<n, 0>>
      [] OTHER -> Fatal

\* convertToInteger saturates; NaN becomes 0.
convertFloat(to, n) ==
    LET lo == IF to.k = "ui" THEN 0 ELSE -(2^(to.w - 1))
        hi == IF to.k = "ui" THEN 2^to.w - 1 ELSE 2^(to.w - 1) - 1
    IN  IF ~ isSupportedIntegerType(to) THEN convertInteger(to, n)
        ELSE IF n = NaN THEN <<0>>
        ELSE IF to.w >= 31 THEN <<IF to.k = "ui" THEN Max2(n, 0) ELSE n>>
        ELSE <<Max2(lo, Min2(hi, n))>>

convertComplex(to, x) ==
    IF isSupportedComplexType(to) THEN x ELSE convertFloat(to, x[1])

convert(to, et, x) ==
    CASE x = Fatal -> Fatal
      [] isSupportedBooleanType(et) \/ isSupportedIntegerType(et) -> convertInteger(to, x[1])
      [] isSupportedFloatType(et) -> convertFloat(to, x[1])
      [] isSupportedComplexType(et) -> convertComplex(to, x)
      [] OTHER -> Fatal

getZeroValueOfType(et) == convertInteger(et, 0)

bitcastConvertOneToOne(to, et, x) ==
    IF x = Fatal \/ numBits(to) # numBits(et) THEN Fatal ELSE fromBits(to, toBits(et, x))

bitcastConvertOneToMany(to, et, x) ==
    [i \in 1..(numBits(et) \div numBits(to)) |->
        IF x = Fatal \/ numBits(et) % numBits(to) # 0 THEN Fatal
        ELSE fromBits(to, (toBits(et, x) \div 2^((i - 1) * numBits(to))) % 2^numBits(to))]

bitcastConvertManyToOne(to, et, xs) ==
    IF (\E i \in DOMAIN xs : xs[i] = Fatal) \/ numBits(to) % numBits(et) # 0 THEN Fatal
    ELSE fromBits(to, FoldRight(LAMBDA x, bits : bits * 2^numBits(et) + toBits(et, x), xs, 0))

-----------------------------------------------------------------------------
(* Functions of one element.                                               *)

complex(x, y) == x \o y
real(et, x) == IF et.k = "f" THEN x ELSE SubSeq(x, 1, 1)
imag(et, x) == IF et.k = "f" THEN <<0>> ELSE SubSeq(x, 2, 2)
isFinite(et, x) == IF x = Fatal \/ et.k # "f" THEN Fatal ELSE B(x[1] # NaN)
abs(et, x) == IF et.k = "c" /\ x # Fatal THEN real(et, Libm("abs", <<x>>))
              ELSE map1(et, x, LAMBDA a : <<Abs(a)>>, LAMBDA a : Fatal, LAMBDA a : <<Abs(a)>>,
                        LAMBDA a : Fatal)
\* ceil, floor and the roundings leave exact integers alone.
roundToIntegral(et, x) == IF et.k = "f" THEN x ELSE Fatal
logistic(et, x) ==
    LET one == convertFloat(et, 1)
    IN  divide(et, one, add(et, one, mapWithUpcastToDouble(et, "exponential", <<negate(et, x)>>)))
atan2(et, y, x) ==
    LET i == <<0, 1>>
        Sq(e) == multiply(et, e, e)
        Fn(fn, e) == mapWithUpcastToDouble(et, fn, <<e>>)
    IN  IF et.k # "c" THEN mapWithUpcastToDouble(et, "atan2", <<y, x>>)
        ELSE IF Fatal \in {x, y} THEN Fatal
        ELSE multiply(et, negate(et, i),
                      Fn("log", divide(et, add(et, x, multiply(et, i, y)),
                                       Fn("sqrt", add(et, Sq(x), Sq(y))))))

popcnt(et, x) ==
    IF x = Fatal THEN x
    ELSE convertInteger(et, MapThenSumSet(LAMBDA k : Bit(Pattern(et.w, x[1]), k), 0..(et.w - 1)))
countLeadingZeros(et, x) ==
    LET p == Pattern(et.w, x[1])
    IN  CHOOSE n \in 0..et.w : /\ n < et.w => Bit(p, et.w - 1 - n) = 1
                               /\ \A k \in (et.w - n)..(et.w - 1) : Bit(p, k) = 0

sign(et, x) ==
    LET Sgn(n) == IF n < 0 THEN -1 ELSE IF n = 0 THEN 0 ELSE 1
    IN  map1(et, x, LAMBDA a : <<Sgn(IntegerOf(I(et.w), a))>>, LAMBDA a : Fatal,
             LAMBDA a : <<Sgn(a)>>,
             LAMBDA a : IF NaN \in {a[1], a[2]} THEN <<NaN, NaN>>
                        ELSE IF a = <<0, 0>> THEN a
                        ELSE divide(et, a, convertFloat(et, abs(et, a)[1])))

\* Square and multiply over the bits of the exponent.
integerPower(et, base, exponent) ==
    LET bits == [k \in 1..Min2(et.w, 30) |-> Bit(exponent, k - 1)]
        Step(acc, bit) == <<IF bit = 1 THEN IntegerOf(et, acc[1] * acc[2]) ELSE acc[1],
                            IntegerOf(et, acc[2] * acc[2])>>
    IN  FoldLeft(Step, <<1, base>>, bits)[1]
power(et, x, y) ==
    CASE Fatal \in {x, y} -> Fatal
      [] isSupportedIntegerType(et) ->
            IF et.k = "i" /\ y[1] < 0 /\ Abs(x[1]) # 1
            THEN <<0>>
            ELSE <<integerPower(et, x[1], Pattern(et.w, Abs(y[1])))>>
      [] OTHER -> mapWithUpcastToDouble(et, "power", <<x, y>>)

\* A shift by the width or more gives zero, or the sign.
Shift(et, x, y, ShiftBy(_, _)) ==
    IF Fatal \in {x, y} THEN Fatal
    ELSE <<IntegerOf(et, ShiftBy(x[1], Min2(Pattern(et.w, y[1]), et.w)))>>
shiftLeft(et, x, y) == Shift(et, x, y, LAMBDA a, n : a * 2^n)
shiftRightLogical(et, x, y) == Shift(et, x, y, LAMBDA a, n : Pattern(et.w, a) \div 2^n)
shiftRightArithmetic(et, x, y) == Shift(et, x, y, LAMBDA a, n : IntegerOf(I(et.w), a) \div 2^n)

\* The rounding of a bit pattern to fewer exponent and mantissa bits.
reducePrecisionBits(bits, width, srcMantissaBits, exponentBits, mantissaBits) ==
    LET drop == srcMantissaBits - mantissaBits
        mask == 2^drop
        rounded == IF drop <= 0 THEN bits
                   ELSE ((bits + Bit(bits, drop) + (mask \div 2 - 1)) \div mask) * mask
        srcExponentBits == width - srcMantissaBits - 1
        bias == 2^(srcExponentBits - 1) - 1
        reducedBias == 2^(exponentBits - 1) - 1
        exponent == (rounded \div 2^srcMantissaBits) % 2^srcExponentBits
        signBit == Bit(rounded, width - 1) * 2^(width - 1)
    IN  IF exponentBits >= srcExponentBits THEN rounded
        ELSE IF exponent <= bias - reducedBias THEN signBit
        ELSE IF exponent > bias + reducedBias
        THEN signBit + (2^srcExponentBits - 1) * 2^srcMantissaBits
        ELSE rounded
reducePrecision(et, x, exponentBits, mantissaBits) ==
    IF x = Fatal \/ x = <<NaN>> THEN x
    ELSE <<APFloatOf(et, reducePrecisionBits(bitcastToAPInt(et, x[1]), et.w,
                                             FPMantissaWidth(et) - 1, exponentBits, mantissaBits))>>
============================================================================
