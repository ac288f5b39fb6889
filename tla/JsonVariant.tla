----------------------------- MODULE JsonVariant -----------------------------
(***************************************************************************)
(* The scalars of a JSON value: how set<T>() stores a number, what as<T>() *)
(* and is<T>() make of it (Converter, VariantData, convertNumber), and how *)
(* two values, or a value and one of C++, are compared (VariantCompare,    *)
(* arithmeticCompare).                                                     *)
(*                                                                         *)
(* The integers have a few bits instead of 16, 32 and 64, and a float and  *)
(* a double so many significant bits that they lie between the same        *)
(* widths. Floating-point values are counted in halves. A string that is   *)
(* converted stands for the number that parseNumber() finds in it; texts   *)
(* that are compared are sequences of characters, and arrays and objects   *)
(* hold small scalars.                                                     *)
(***************************************************************************)
EXTENDS Integers, Sequences, FiniteSets

CONSTANTS
    Narrow, Word, Long,      \* the bits of (u)int16, (u)int32 and (u)int64
    FloatBits, DoubleBits,   \* the significant bits of a float and a double
    MaxExponent,             \* bound: the largest exponent, counted from a half
    Char,                    \* numbers that stand for characters, in their order
    Item,                    \* the values of elements and members
    Key

WidthsAssumption ==
    /\ {Narrow, Word, Long, FloatBits, DoubleBits, MaxExponent} \subseteq Nat
    /\ 1 < Narrow /\ Narrow <= FloatBits /\ FloatBits < Word
    /\ Word <= DoubleBits /\ DoubleBits < Long /\ Long < MaxExponent

IntegerType == {"int16", "uint16", "int32", "uint32", "int64", "uint64"}
FloatType == {"float", "double"}

Signed(T) == T \in {"int16", "int32", "int64"}

\* The bits of T; a float takes the memory of an int32, a double of an int64.
Size(T) == CASE T \in {"int16", "uint16"} -> Narrow
             [] T \in {"int32", "uint32", "float"} -> Word
             [] T \in {"int64", "uint64", "double"} -> Long

Highest(T) == IF Signed(T) THEN 2^(Size(T) - 1) - 1 ELSE 2^Size(T) - 1
Lowest(T) == IF Signed(T) THEN - 2^(Size(T) - 1) ELSE 0

Significant(F) == IF F = "float" THEN FloatBits ELSE DoubleBits

NaN == 2^(MaxExponent + 2)
Infinity == 2^(MaxExponent + 1)
Undefined == 2^(MaxExponent + 3)

\* The floating-point values of P significant bits.
Finite(P) ==
    LET magnitudes == {m * 2^e : m \in 0 .. 2^P - 1, e \in 0 .. MaxExponent - P}
    IN magnitudes \cup {- m : m \in magnitudes}

Floats == [F \in FloatType |-> Finite(Significant(F)) \cup {Infinity, - Infinity, NaN}]

Magnitude(x) == IF x < 0 THEN - x ELSE x

\* To the nearest finite value, and of two the one whose last bit is zero.
Nearest(F, x) ==
    LET p == Significant(F)
        e == CHOOSE e \in 0 .. MaxExponent - p :
               /\ Magnitude(x) < 2^(p + e)
               /\ e > 0 => Magnitude(x) >= 2^(p + e - 1)
        bits == Magnitude(x) \div 2^e
        rest == 2 * (Magnitude(x) % 2^e)
        up == (rest > 2^e \/ (rest = 2^e /\ bits % 2 = 1)) /\ (bits + 1) * 2^e < 2^MaxExponent
        near == IF up THEN (bits + 1) * 2^e ELSE bits * 2^e
    IN IF x < 0 THEN - near ELSE near

\* A value of a double, or twice an integer, as a float or a double.
Rounded(F, x) == IF x \in {NaN, Infinity, - Infinity} THEN x ELSE Nearest(F, x)

Truncated(x) == IF x < 0 THEN - ((- x) \div 2) ELSE x \div 2
-----------------------------------------------------------------------------
\* Integers, by the overload for the widths and the signs.
canConvertInteger(T, in, v) ==
    CASE ~ Signed(in)                 -> Size(T) > Size(in) \/ v <= Highest(T)
      [] Signed(in) /\ Signed(T)      -> Size(T) >= Size(in) \/ v \in Lowest(T) .. Highest(T)
      [] Signed(in) /\ ~ Signed(T)    -> v >= 0 /\ (Size(T) >= Size(in) \/ v <= Highest(T))

\* The float of all one bits below the power of two that T cannot hold.
highest_for(F, T) ==
    LET p == Significant(F) IN 2 * (2^p - 1) * 2^(Size(T) - p - IF Signed(T) THEN 1 ELSE 0)

canConvertFloat(T, in, x) ==
    /\ x # NaN
    /\ x >= 2 * Lowest(T)
    /\ x <= IF Size(T) < Size(in) THEN 2 * Highest(T) ELSE highest_for(in, T)

canConvertNumber(T, in, v) ==
    IF in \in FloatType THEN canConvertFloat(T, in, v) ELSE canConvertInteger(T, in, v)

\* A cast to an integer type that cannot hold the value has no result.
Cast(T, in, v) ==
    LET i == IF in \in FloatType THEN Truncated(v) ELSE v
    IN IF i \in Lowest(T) .. Highest(T) THEN i ELSE Undefined

convertNumber(T, in, v) == IF canConvertNumber(T, in, v) THEN Cast(T, in, v) ELSE 0
-----------------------------------------------------------------------------
VARIABLES
    var,      \* type and value: the value of a string is what it parses to
    given,    \* history: the last set<T>(), and whether it said TRUE
    lhs, rhs  \* two values that are compared

vars == <<var, given>>

Null == [type |-> "null", val |-> 0]
NumberTypes == {"int32", "uint32", "int64", "uint64", "float", "double"}

\* What takes an extension, a slot of its own, may not be stored.
InSlot(v) == {v}
InExtension(v) == {v, Null}

setInteger(T, x) ==
    LET word == IF Signed(T) THEN "int32" ELSE "uint32"
        long == IF Signed(T) THEN "int64" ELSE "uint64"
    IN IF canConvertInteger(word, T, x) THEN InSlot([type |-> word, val |-> x])
       ELSE InExtension([type |-> long, val |-> x])

setFloat(T, x) ==
    IF T = "float" \/ (x # NaN /\ Rounded("float", x) = x)
      THEN InSlot([type |-> "float", val |-> x])
      ELSE InExtension([type |-> "double", val |-> x])

\* Converter<T>::toJson()
toJson(T, x) ==
    CASE T \in IntegerType -> setInteger(T, x)
      [] T \in FloatType   -> setFloat(T, x)
      [] T = "bool"        -> InSlot([type |-> "bool", val |-> x])
-----------------------------------------------------------------------------
\* The number of a string: a long integer, a float or a double, or none.
Parsed == {[type |-> "none", val |-> 0]}
            \cup [type : {"int64"}, val : Lowest("int64") .. Highest("int64")]
            \cup [type : {"uint64"}, val : Lowest("uint64") .. Highest("uint64")]
            \cup UNION {[type : {F}, val : Floats[F]] : F \in FloatType}

asIntegral(T, v) ==
    CASE v.type = "bool" -> v.val
      [] v.type \in NumberTypes -> convertNumber(T, v.type, v.val)
      [] v.type = "string" -> IF v.val.type = "none" THEN 0
                              ELSE convertNumber(T, v.val.type, v.val.val)
      [] OTHER -> 0

AsHalves(type, x) == IF type \in FloatType THEN x ELSE 2 * x

asFloat(F, v) ==
    CASE v.type \in NumberTypes \cup {"bool"} -> Rounded(F, AsHalves(v.type, v.val))
      [] v.type = "string" -> IF v.val.type = "none" THEN 0
                              ELSE Rounded(F, AsHalves(v.val.type, v.val.val))
      [] OTHER -> 0

asBoolean(v) ==
    CASE v.type \in NumberTypes \cup {"bool"} -> v.val # 0
      [] v.type = "null" -> FALSE
      [] OTHER -> TRUE

isInteger(T, v) == v.type \in NumberTypes \ FloatType /\ canConvertInteger(T, v.type, v.val)

isFloat(v) == v.type \in NumberTypes

\* variant | defaultValue
orDefault(T, v, default) == IF isInteger(T, v) THEN asIntegral(T, v) ELSE default

\* accept(): a small integer is visited as a long one.
visited(v) ==
    [type |-> CASE v.type = "int32" -> "int64" [] v.type = "uint32" -> "uint64" [] OTHER -> v.type,
     val |-> v.val]

\* copyVariant() sets what the visitor is given.
copyVariant(v) ==
    IF v.type \in {"null", "string"} THEN InSlot(v) ELSE toJson(visited(v).type, visited(v).val)
-----------------------------------------------------------------------------
Values(T) ==
    CASE T \in IntegerType -> Lowest(T) .. Highest(T)
      [] T \in FloatType   -> Floats[T]
      [] T = "bool"        -> {0, 1}

Types == IntegerType \cup FloatType \cup {"bool"}

NotGiven == [type |-> "none", val |-> 0, ok |-> FALSE]

Init == var = Null /\ given = NotGiven /\ lhs = Null /\ rhs = Null

\* set(): the value is cleared first.
set(T, x) ==
    /\ var' \in toJson(T, x)
    /\ given' = [type |-> T, val |-> x, ok |-> var' # Null]

\* The owner sets a string, or null.
setText ==
    /\ \/ \E n \in Parsed : var' = [type |-> "string", val |-> n]
       \/ var' = Null
    /\ given' = NotGiven

\* The value is replaced by a copy of itself in another place.
copy ==
    /\ var' \in copyVariant(var)
    /\ UNCHANGED given
    /\ var' # Null

Next ==
    /\ (\E T \in Types : \E x \in Values(T) : set(T, x)) \/ setText \/ copy
    /\ UNCHANGED <<lhs, rhs>>
-----------------------------------------------------------------------------
InRange(T, x) == x # NaN /\ 2 * Lowest(T) <= x /\ x <= 2 * Highest(T)

\* What was stored is read back the same, as the type it was given in and after
\* any number of copies (VariantData::setInteger, setFloat).
ReadsBack ==
    given.ok =>
      CASE given.type \in IntegerType -> asIntegral(given.type, var) = given.val
        [] given.type \in FloatType   -> asFloat(given.type, var) = given.val
        [] given.type = "bool"        -> asBoolean(var) = (given.val = 1)

\* A number is read as an integer type without its fraction when it lies in the
\* type's range, and as 0 otherwise: no read wraps round or is undefined.
NeverWraps ==
    \A T \in IntegerType :
      LET n == IF var.type = "string" THEN var.val ELSE var
      IN n.type \in NumberTypes =>
           asIntegral(T, var) = IF InRange(T, AsHalves(n.type, n.val))
                                  THEN Truncated(AsHalves(n.type, n.val)) ELSE 0

\* An integer is found under every integer type that can hold it, whichever it
\* was set with, and under no other; the default is then not used (operator|).
FoundWhereItFits ==
    given.ok /\ given.type \in IntegerType =>
      \A T \in IntegerType :
        orDefault(T, var, Undefined) =
          IF given.val \in Lowest(T) .. Highest(T) THEN given.val ELSE Undefined

\* A number is read as FALSE exactly when it is zero.
FalseMeansZero ==
    var.type \in NumberTypes => (asBoolean(var) <=> AsHalves(var.type, var.val) # 0)

\* A copy is the same value in the same representation (JsonVariantCopier).
CopyIsTheSame == [][given' = given /\ given.ok /\ var.type # "null" => var' = var]_vars
-----------------------------------------------------------------------------
Reverse(r) == CASE r = "less" -> "greater" [] r = "greater" -> "less" [] OTHER -> r

\* Two values of one type; a comparison with NaN is neither less nor greater.
Ordered(a, b) ==
    CASE NaN \in {a, b} -> "equal"
      [] a < b -> "less"
      [] a > b -> "greater"
      [] OTHER -> "equal"

CSize(T) == IF T = "bool" THEN 1 ELSE Size(T)
CSigned(T) == T # "bool" /\ Signed(T)

\* static_cast between integer types.
WrapTo(T, x) ==
    LET m == x % 2^Size(T) IN IF Signed(T) /\ m > Highest(T) THEN m - 2^Size(T) ELSE m

AsDouble(T, x) == Rounded("double", AsHalves(T, x))

\* An unsigned and a signed integer of one size.
SameSize(T, a, U, b) ==
    CASE CSigned(T) = CSigned(U)   -> Ordered(a, b)
      [] ~ CSigned(T) /\ CSigned(U) -> IF b < 0 THEN "greater" ELSE Ordered(a, WrapTo(T, b))
      [] CSigned(T) /\ ~ CSigned(U) -> IF a < 0 THEN "less" ELSE Ordered(WrapTo(U, a), b)

\* The narrower integer is cast to the wider type, whatever its sign; next to a
\* floating-point number both become doubles.
arithmeticCompare(T, a, U, b) ==
    CASE {T, U} \cap FloatType # {} -> Ordered(AsDouble(T, a), AsDouble(U, b))
      [] {T, U} \cap FloatType = {} /\ CSize(T) < CSize(U) -> Ordered(WrapTo(U, a), b)
      [] {T, U} \cap FloatType = {} /\ CSize(U) < CSize(T) -> Ordered(a, WrapTo(T, b))
      [] {T, U} \cap FloatType = {} /\ CSize(T) = CSize(U) -> SameSize(T, a, U, b)
-----------------------------------------------------------------------------
\* memcmp() and strcmp(): the first character that differs.
FirstDifference(s, t) ==
    LET n == IF Len(s) < Len(t) THEN Len(s) ELSE Len(t)
        differ == {i \in 1 .. n : s[i] # t[i]}
    IN IF differ = {} THEN "equal"
       ELSE LET i == CHOOSE i \in differ : \A j \in differ : i <= j IN Ordered(s[i], t[i])

stringCompare(s, t) ==
    IF FirstDifference(s, t) = "equal" THEN Ordered(Len(s), Len(t)) ELSE FirstDifference(s, t)

Arithmetic == NumberTypes \cup {"bool"}

Equal(b) == IF b THEN "equal" ELSE "differ"

\* Every member of o is in p, and p has as many.
SameMembers(o, p) ==
    /\ \A k \in DOMAIN o : k \in DOMAIN p /\ o[k] = p[k]
    /\ Cardinality(DOMAIN o) = Cardinality(DOMAIN p)

\* A comparer of the kind of c visits v: where v stands to c.
Comparer(c, v) ==
    CASE c.type \in Arithmetic /\ v.type \in Arithmetic ->
           arithmeticCompare(visited(v).type, v.val, visited(c).type, c.val)
      [] c.type = "text" /\ v.type = "text"     -> stringCompare(v.val, c.val)
      [] c.type = "raw" /\ v.type = "raw"       -> FirstDifference(v.val, c.val)
      [] c.type = "array" /\ v.type = "array"   -> Equal(c.val = v.val)
      [] c.type = "object" /\ v.type = "object" -> Equal(SameMembers(v.val, c.val))
      [] c.type = "null" /\ v.type = "null"     -> "equal"
      [] OTHER -> "differ"

\* compare(): the left value's type makes the comparer that visits the right one.
compare(l, r) == Reverse(Comparer(l, r))

\* compare() with a value of C++: the comparer has that type.
compareWith(l, T, x) ==
    IF l.type \in Arithmetic THEN arithmeticCompare(visited(l).type, l.val, T, x) ELSE "differ"

LessOrEqual(r) == r \in {"less", "equal"}
GreaterOrEqual(r) == r \in {"greater", "equal"}
-----------------------------------------------------------------------------
Texts == UNION {[1 .. n -> Char] : n \in 0 .. 2}

Collections ==
    [type : {"array"}, val : UNION {[1 .. n -> Item] : n \in 0 .. 2}]
        \cup [type : {"object"}, val : UNION {[ks -> Item] : ks \in SUBSET Key}]

\* The values of a document.
Document ==
    UNION {UNION {toJson(T, x) : x \in Values(T)} : T \in {"int64", "uint64", "double", "bool"}}
        \cup [type : {"text", "raw"}, val : Texts] \cup Collections

\* The left value is set first, then the right one.
assign ==
    /\ rhs = Null
    /\ \/ lhs' \in Document /\ UNCHANGED rhs
       \/ rhs' \in Document /\ UNCHANGED lhs
    /\ UNCHANGED vars
-----------------------------------------------------------------------------
Real(v) == AsHalves(v.type, v.val)
IsNumber(v) == v.type \in Arithmetic /\ v.val # NaN

\* Whatever the two are, a < b is b > a and a == b is b == a (VariantOperators).
Mirrored == compare(lhs, rhs) = Reverse(compare(rhs, lhs))

\* Two numbers are compared by value, whatever types hold them.  Only rounding
\* to a double may make an integer equal to a number beside it.
NumbersByValue ==
    IsNumber(lhs) /\ IsNumber(rhs) =>
      \/ compare(lhs, rhs) = Ordered(Real(lhs), Real(rhs))
      \/ /\ compare(lhs, rhs) = "equal"
         /\ {lhs.type, rhs.type} \cap FloatType # {}
         /\ Rounded("double", Real(lhs)) = Rounded("double", Real(rhs))

\* Values of different kinds are neither equal nor ordered; of the same kind, the
\* equal ones are the same, except that NaN equals every number and that a
\* serialized() text equals whatever it begins.
EqualMeansSame ==
    compare(lhs, rhs) = "equal" =>
      \/ lhs.type \in Arithmetic /\ rhs.type \in Arithmetic
      \/ lhs = rhs
      \/ /\ lhs.type = "raw" /\ rhs.type = "raw"
         /\ \/ Len(lhs.val) < Len(rhs.val) /\ SubSeq(rhs.val, 1, Len(lhs.val)) = lhs.val
            \/ Len(rhs.val) < Len(lhs.val) /\ SubSeq(lhs.val, 1, Len(rhs.val)) = rhs.val

\* A value compared with a number of C++ stands to it as its value does, when
\* that number is not a narrower negative one next to an unsigned value.
WithValue ==
    \A T \in IntegerType : \A x \in Values(T) :
      /\ lhs.type \in Arithmetic \ FloatType
      /\ ~ (lhs.type \in {"uint32", "uint64"} /\ x < 0 /\ Size(T) < Long)
      => compareWith(lhs, T, x) = Ordered(lhs.val, x)
=============================================================================
