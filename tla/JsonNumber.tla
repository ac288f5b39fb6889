------------------------------ MODULE JsonNumber ------------------------------
(***************************************************************************)
(* parseNumber() of ArduinoJson: the text of a number becomes an integer,  *)
(* or a mantissa and a power of ten, by one pass over the characters.  The *)
(* widths are constants: MaxUint is the largest JsonUInt, MantissaMax and  *)
(* ExponentMax the largest of a double, and so on for a float.  The        *)
(* product of mantissa and power, make_float(), is taken as exact.         *)
(* The text is the state; it grows by a character at a time.               *)
(***************************************************************************)
EXTENDS Integers, Sequences, FiniteSets, TLC

CONSTANTS
  MaxUint,           \* 2^w - 1
  MantissaMax, ExponentMax,
  FloatMantissaMax, FloatExponentMax,
  Alphabet, MaxLength

VARIABLE text

Init == text = <<>>
Next == Len(text) < MaxLength /\ \E c \in Alphabet : text' = Append(text, c)
Spec == Init /\ [][Next]_text

----------------------------------------------------------------------------
Digit == "0" :> 0 @@ "1" :> 1 @@ "2" :> 2 @@ "3" :> 3 @@ "4" :> 4 @@
         "5" :> 5 @@ "6" :> 6 @@ "7" :> 7 @@ "8" :> 8 @@ "9" :> 9

isdigit(c) == c \in DOMAIN Digit

(* The characters of buffer_, with the NUL that ends it. *)
CharAt(s, p) == IF p \in DOMAIN s THEN s[p] ELSE "NUL"

Sign(c) == IF c \in {"+", "-"} THEN 1 ELSE 0

(* The end of the digits that begin at p. *)
RECURSIVE DigitsEnd(_, _)
DigitsEnd(s, p) == IF isdigit(CharAt(s, p)) THEN DigitsEnd(s, p + 1) ELSE p

Is(t, negative, m, x) == [type |-> t, negative |-> negative, mantissa |-> m, exponent |-> x]

Invalid == Is("Invalid", FALSE, 0, 0)

CanAdd(m, d) == m <= MaxUint - d

(* The first loop.  When the last digit does not fit the mantissa has been *)
(* multiplied for it, and the digit is still to be read.                   *)
RECURSIVE Mantissa(_, _, _)
Mantissa(s, p, m) ==
  IF ~isdigit(CharAt(s, p)) \/ m > MaxUint \div 10 THEN [m |-> m, p |-> p]
  ELSE IF ~CanAdd(10 * m, Digit[s[p]]) THEN [m |-> 10 * m, p |-> p]
  ELSE Mantissa(s, p + 1, 10 * m + Digit[s[p]])

RECURSIVE Reduced(_, _)
Reduced(m, x) ==
  IF m > MantissaMax THEN Reduced(m \div 10, x + 1) ELSE [m |-> m, x |-> x]

TakeDecimal(d, digit) ==
  IF d.m < MantissaMax \div 10 THEN [m |-> 10 * d.m + digit, x |-> d.x - 1] ELSE d

RECURSIVE Decimals(_, _, _)
Decimals(s, p, d) ==
  IF isdigit(CharAt(s, p)) THEN Decimals(s, p + 1, TakeDecimal(d, Digit[s[p]])) ELSE d

TooLarge(e, x) == e + x > ExponentMax

(* The exponent's digits from p, or "large" as soon as it cannot be held. *)
RECURSIVE Exponent(_, _, _, _)
Exponent(s, p, e, x) ==
  IF ~isdigit(CharAt(s, p)) THEN [large |-> FALSE, e |-> e, p |-> p]
  ELSE LET more == 10 * e + Digit[s[p]]
       IN IF TooLarge(more, x) THEN [large |-> TRUE, e |-> 0, p |-> p]
          ELSE Exponent(s, p + 1, more, x)

Scaled(negative, m, e) ==
  IF e < -FloatExponentMax \/ e > FloatExponentMax \/ m > FloatMantissaMax
  THEN Is("Double", negative, m, e) ELSE Is("Float", negative, m, e)

Ended(s, p) == p = Len(s) + 1

(* From the exponent on, for mantissa d.m and offset d.x. *)
Finish(s, p, negative, d) ==
  LET minus == CharAt(s, p + 1) = "-"
      e == IF CharAt(s, p) = "e" THEN Exponent(s, p + 1 + Sign(CharAt(s, p + 1)), 0, d.x)
           ELSE [large |-> FALSE, e |-> 0, p |-> p]
      exponent == IF CharAt(s, p) = "e" /\ minus THEN -e.e ELSE e.e
  IN CASE e.large /\ minus  -> Is("Zero", negative, 0, 0)
       [] e.large /\ ~minus -> Is("Infinity", negative, 0, 0)
       [] ~e.large /\ ~Ended(s, e.p) -> Invalid
       [] OTHER -> Scaled(negative, d.m, exponent + d.x)

FitsSigned(m) == m <= (MaxUint + 1) \div 2

parseNumber(s) ==
  LET negative == CharAt(s, 1) = "-"
      first == 1 + Sign(CharAt(s, 1))
      int == Mantissa(s, first, 0)
      end == DigitsEnd(s, int.p)
      d == [Reduced(int.m, 0) EXCEPT !.x = @ + end - int.p]
  IN CASE ~isdigit(CharAt(s, first)) /\ CharAt(s, first) # "." -> Invalid
       [] int.p = Len(s) + 1 /\ ~negative -> Is("Unsigned", FALSE, int.m, 0)
       [] int.p = Len(s) + 1 /\ negative /\ FitsSigned(int.m) ->
            Is("Signed", TRUE, (MaxUint + 1 - int.m) % (MaxUint + 1), 0)
       [] CharAt(s, end) = "." ->
            Finish(s, DigitsEnd(s, end + 1), negative, Decimals(s, end + 1, d))
       [] OTHER -> Finish(s, end, negative, d)

----------------------------------------------------------------------------
(* The reference: where the parts of a number lie, and n * 10^e.  Written  *)
(* from the form of a number, not from the passes above.                   *)

AllDigits(s) == \A i \in DOMAIN s : isdigit(s[i])

Value(s) ==
  LET v[i \in 0..Len(s)] == IF i = 0 THEN 0 ELSE 10 * v[i - 1] + Digit[s[i]] IN v[Len(s)]

(* The way to read s as [sign] digits [. digits] [e [sign] digits], if any: *)
(* d is the place of the dot, or of what follows the digits, and j the end  *)
(* of the decimals.                                                         *)
Readings(s) ==
  LET from == 1 + Sign(CharAt(s, 1))
      exponents(j) ==
        LET k == j + 1 + Sign(CharAt(s, j + 1))
            digits == SubSeq(s, k, Len(s))
        IN IF j = Len(s) + 1 THEN {0}
           ELSE IF s[j] = "e" /\ AllDigits(digits)
                THEN {IF CharAt(s, j + 1) = "-" THEN -Value(digits) ELSE Value(digits)}
                ELSE {}
      dots == {d \in from..(Len(s) + 1) : AllDigits(SubSeq(s, from, d - 1))}
      read(d, j) ==
        {[n |-> Value(SubSeq(s, from, d - 1) \o SubSeq(s, d + 1, j - 1)),
          e |-> x - (IF j = d THEN 0 ELSE j - 1 - d),
          whole |-> SubSeq(s, from, d - 1)] : x \in exponents(j)}
  IN UNION ({read(d, d) : d \in dots \ {from}} \cup
            UNION {{read(d, j) : j \in {i \in (d + 1)..(Len(s) + 1) : AllDigits(SubSeq(s, d + 1, i - 1))}}
                     : d \in {i \in dots : CharAt(s, i) = "."}})

Power(k) == 10 ^ k

(* a * 10^x <= b * 10^y, for a and b below 10^7. *)
AtMost(a, x, b, y) ==
  \/ a = 0
  \/ IF x >= y THEN x - y <= 6 /\ a * Power(x - y) <= b
     ELSE b # 0 /\ (y - x > 6 \/ a <= b * Power(y - x))

Below(a, x, b, y) == ~AtMost(b, y, a, x)

(* The mantissa is full before the last digit of a number just above       *)
(* MaxUint: the digit is then counted twice.                               *)
CountedTwice(digits) ==
  \E i \in DOMAIN digits : /\ Value(SubSeq(digits, 1, i - 1)) = MaxUint \div 10
                           /\ Value(SubSeq(digits, 1, i)) > MaxUint

(* Digits are dropped from the end, and that is all that is lost. *)
Close(r) ==
  LET v == parseNumber(text)
  IN v.type \in {"Float", "Double"} =>
       /\ AtMost(v.mantissa, v.exponent, r.n, r.e)
       /\ Below(r.n, r.e, v.mantissa + 1, v.exponent)

(* An integer that fits the integers is read as itself, whatever its sign  *)
(* and its leading zeros; one that does not is never wrapped.              *)
IntegersExact ==
  \A r \in Readings(text) :
    LET v == parseNumber(text)
        fits == IF text[1] = "-" THEN r.n <= (MaxUint + 1) \div 2 ELSE r.n <= MaxUint
    IN r.whole = SubSeq(text, 1 + Sign(text[1]), Len(text)) =>
         /\ fits <=> v.type \in {"Signed", "Unsigned"}
         /\ v.type = "Unsigned" => v.mantissa = r.n
         /\ v.type = "Signed" => (v.mantissa + r.n) % (MaxUint + 1) = 0

(* Every other number is the one that was written, but for the digits that *)
(* do not fit the mantissa.                                                *)
FloatsClose == \A r \in Readings(text) : CountedTwice(r.whole) \/ Close(r)

(* Infinity stands only for what is beyond the exponents, and zero for     *)
(* what is below them, unless whole digits had to be dropped.              *)
LimitsOnlyBeyond ==
  \A r \in Readings(text) :
    LET v == parseNumber(text)
    IN /\ v.type = "Infinity" => r.n = 0 \/ AtMost(1, ExponentMax, r.n, r.e)
       /\ v.type = "Zero" => \/ Value(r.whole) > MantissaMax
                             \/ Below(r.n, r.e, MantissaMax + 1, -ExponentMax)

(* What has the form of a number is one, and the rest is refused, but for  *)
(* what follows an exponent too large to be held.                          *)
AcceptsNumbers ==
  LET t == parseNumber(text).type
  IN t = "Invalid" <=> Readings(text) = {} /\ t \notin {"Zero", "Infinity"}
=============================================================================
