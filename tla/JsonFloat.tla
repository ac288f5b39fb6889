------------------------------ MODULE JsonFloat ------------------------------
(***************************************************************************)
(* The digits that ArduinoJson writes for a number: decomposeFloat(), with *)
(* normalize(), and TextFormatter.  A floating-point value is its decimal  *)
(* digits and a power of ten, and the products with the binary powers of   *)
(* ten are taken as exact.  The thresholds are powers of ten; a double is  *)
(* written with DoublePlaces decimals, a float with FloatPlaces.           *)
(***************************************************************************)
EXTENDS Integers, Sequences

CONSTANTS
    DoublePlaces, FloatPlaces,
    Positive, Negative,      \* exponents of the two thresholds; Negative below 0
    MaxIndex,                \* the last of the binary powers of ten
    Digit, MaxDigits,        \* bound: the digits of a value, and their number
    Lowest, Highest,         \* bound: the powers of ten
    IntegerBits              \* the bits of JsonInteger

FormatAssumption ==
    /\ FloatPlaces \in Nat /\ DoublePlaces \in Nat /\ FloatPlaces <= DoublePlaces
    /\ Digit \subseteq 0 .. 9
    /\ Positive <= FloatPlaces + 1  \* the integer digits leave no negative places

VARIABLES
    value,        \* digits m, power x, and whether it is a double
    integer       \* a JsonInteger

vars == <<value, integer>>

Pow10(n) == 10^n

\* value >= 10^k; small numbers have far less digits than the powers differ.
AtLeast(v, k) ==
    v.m > 0 /\ (v.x >= k \/ (k - v.x <= MaxDigits /\ v.m >= Pow10(k - v.x)))

Is(v, k) == AtLeast(v, k) /\ ~ AtLeast([v EXCEPT !.m = @ - 1], k)

Times10(v, k) == [v EXCEPT !.x = @ + k]

Down(v, k) == AtLeast(v, k)

Up(v, k) == ~ AtLeast(v, 1 - k)

\* The loops of normalize(): 10^4, 10^2 and 10^1 are taken out one after another,
\* or put in.
Scaled(v, Taken(_, _), sign) ==
    LET step[i \in 0 .. MaxIndex + 1] ==
          IF i = 0 THEN [v |-> v, e |-> 0]
          ELSE LET s == step[i - 1]
                   k == 2^(MaxIndex + 1 - i)
               IN IF Taken(s.v, k) THEN [v |-> Times10(s.v, - sign * k), e |-> s.e + sign * k]
                  ELSE s
    IN step[MaxIndex + 1]

normalize(v) ==
    CASE AtLeast(v, Positive) -> Scaled(v, Down, 1)
      [] v.m > 0 /\ (~ AtLeast(v, Negative) \/ Is(v, Negative)) -> Scaled(v, Up, -1)
      [] OTHER -> [v |-> v, e |-> 0]

Integral(v) == IF v.x >= 0 THEN v.m * Pow10(v.x) ELSE v.m \div Pow10(- v.x)

\* The digits behind the point, as a numerator over Unit.
Unit(v) == IF v.x >= 0 THEN 1 ELSE Pow10(- v.x)
Fraction(v) == IF v.x >= 0 THEN 0 ELSE v.m % Pow10(- v.x)

NumDigits(n) == CHOOSE d \in 1 .. 10 : n < Pow10(d) /\ (d = 1 \/ n >= Pow10(d - 1))

\* Decimals that round up to a whole go into the integral part, and from there
\* into the exponent.
Carry(i, d, max, e) ==
    IF d < max THEN [integral |-> i, decimal |-> d, exponent |-> e]
    ELSE IF e # 0 /\ i + 1 >= 10 THEN [integral |-> 1, decimal |-> 0, exponent |-> e + 1]
    ELSE [integral |-> i + 1, decimal |-> 0, exponent |-> e]

TrailingZeros(d, places) ==
    CHOOSE n \in 0 .. places : /\ d % Pow10(n) = 0
                               /\ n = places \/ d % Pow10(n + 1) # 0

\* The parts of the normalized n: integer digits are taken off the decimal places.
Decomposed(n, decimalPlaces) ==
    LET whole == Integral(n.v)
        reductions == NumDigits(whole) - 1
        max == IF reductions > decimalPlaces THEN 0 ELSE Pow10(decimalPlaces - reductions)
        places == decimalPlaces - reductions
        remainder == Fraction(n.v) * max
        round == IF 2 * (remainder % Unit(n.v)) >= Unit(n.v) THEN 1 ELSE 0
        c == Carry(whole, remainder \div Unit(n.v) + round, max, n.e)
        z == IF places <= 0 THEN 0 ELSE TrailingZeros(c.decimal, places)
    IN [integral |-> c.integral, decimal |-> c.decimal \div Pow10(z),
        exponent |-> c.exponent, decimalPlaces |-> places - z]

decomposeFloat(v, decimalPlaces) == Decomposed(normalize(v), decimalPlaces)
-----------------------------------------------------------------------------
\* The text is a sequence of digits and of these three characters.
Point == 10
Power == 11
Minus == 12

Digits(n) == [i \in 1 .. NumDigits(n) |-> (n \div Pow10(NumDigits(n) - i)) % 10]

\* unsigned_type(~value) + 1
UnsignedOf(n) == (2^IntegerBits + (- n - 1) + 1) % 2^IntegerBits

writeInteger(n) == IF n < 0 THEN <<Minus>> \o Digits(UnsignedOf(n)) ELSE Digits(n)

writeDecimals(d, width) == <<Point>> \o [i \in 1 .. width |-> (d \div Pow10(width - i)) % 10]

writeParts(p) ==
    writeInteger(p.integral)
      \o (IF p.decimalPlaces # 0 THEN writeDecimals(p.decimal, p.decimalPlaces) ELSE << >>)
      \o (IF p.exponent # 0 THEN <<Power>> \o writeInteger(p.exponent) ELSE << >>)

writeFloat(v) ==
    writeParts(decomposeFloat(v, IF v.double THEN DoublePlaces ELSE FloatPlaces))
-----------------------------------------------------------------------------
Init ==
    /\ value \in [m : {0}, x : {0}, double : BOOLEAN]
    /\ integer = 0

\* A digit more, or another power of ten.
Longer ==
    \E d \in Digit : value.m * 10 + d < Pow10(MaxDigits) /\ value.x = 0
                     /\ value' = [value EXCEPT !.m = @ * 10 + d]

Shift ==
    \E x \in Lowest .. Highest : value.m > 0 /\ value.x = 0 /\ value' = [value EXCEPT !.x = x]

Count == integer' \in - 2^(IntegerBits - 1) .. 2^(IntegerBits - 1) - 1 /\ value.m = 0

Next ==
    \/ integer = 0 /\ Longer /\ UNCHANGED integer
    \/ integer = 0 /\ Shift /\ UNCHANGED integer
    \/ Count /\ UNCHANGED value

Spec == Init /\ [][Next]_vars
-----------------------------------------------------------------------------
(* What a reader makes of the text: a number of units of 10^e.             *)
Where(s, c) == {i \in DOMAIN s : s[i] = c}
Before(s, c) == IF Where(s, c) = {} THEN Len(s) ELSE (CHOOSE i \in Where(s, c) : TRUE) - 1

Number(s) ==
    LET f[i \in 0 .. Len(s)] == IF i = 0 THEN 0 ELSE 10 * f[i - 1] + s[i] IN f[Len(s)]

SignedNumber(s) == IF s # << >> /\ s[1] = Minus THEN - Number(Tail(s)) ELSE Number(s)

Read(s) ==
    LET mantissa == SubSeq(s, 1, Before(s, Power))
        point == Before(mantissa, Point)
        decimals == SubSeq(mantissa, point + 2, Len(mantissa))
    IN [units |-> Number(SubSeq(mantissa, 1, point) \o decimals),
        width |-> Len(decimals),
        point |-> point,
        e |-> SignedNumber(SubSeq(s, Before(s, Power) + 2, Len(s)))]

Places == IF value.double THEN DoublePlaces ELSE FloatPlaces

\* The text is the value rounded to the digits that are asked for: it is off by
\* half of the last digit at most, counted from the first digit of the value.
NearestText ==
    \A r \in {Read(writeFloat(value))} :
        LET last == r.e - (Places - r.point + 1)      \* the power of the last digit
            low == IF r.e - r.width < last THEN r.e - r.width ELSE last
            base == IF value.x < low THEN value.x ELSE low
            error == r.units * Pow10(r.e - r.width - base) - value.m * Pow10(value.x - base)
        IN 2 * (IF error < 0 THEN - error ELSE error) <= Pow10(last - base)

\* No zero is written at the end of the decimals, and an exponent only behind a
\* single digit other than zero.
ShortestText ==
    \A s \in {writeFloat(value)} :
        /\ Read(s).width > 0 => s[Before(s, Power)] # 0
        /\ Read(s).e # 0 => Read(s).point = 1 /\ s[1] # 0

\* Every integer, the lowest as well, is read back from its text.
IntegersReadBack == SignedNumber(writeInteger(integer)) = integer
=============================================================================
