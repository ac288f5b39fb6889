------------------------------- MODULE MsgPack -------------------------------
(***************************************************************************)
(* MessagePack as ArduinoJson reads and writes it. The bytes arrive one by *)
(* one; the deserializer, a recursive descent, is applied to what there    *)
(* is. A value is a tuple: its kind and its contents, and a filter is such *)
(* a value. Floats are of FloatBytes and DoubleBytes, in place of 4 and 8. *)
(***************************************************************************)
EXTENDS Integers, Sequences, SequencesExt

CONSTANTS
  Byte,          \* the bytes that the input is made of
  MaxLength,     \* bound on the input
  NestingLimit,
  IntBytes,      \* sizeof(JsonInteger)
  FloatBytes, DoubleBytes,
  MaxString      \* what the string buffer can hold

MsgPackAssumption ==
  /\ Byte \subseteq 0..255
  /\ {MaxLength, NestingLimit, MaxString} \subseteq Nat
  /\ {IntBytes, FloatBytes, DoubleBytes} \subseteq Nat \ {0}

VARIABLE input

Null == <<"null">>
Bool(b) == <<"bool", b>>
Num(n) == <<"int", n>>
Float(bytes) == <<"float", bytes>>
Str(bytes) == <<"str", bytes>>
Raw(bytes) == <<"raw", bytes>>
Arr(elements) == <<"array", elements>>
Obj(pairs) == <<"object", pairs>>

True == Bool(TRUE)
Star == <<42>>

(* Filter: true allows everything below, an array what its first element   *)
(* allows, an object what is named or starred in it.                       *)
member(object, key) ==
  LET n == SelectInSeq(object[2], LAMBDA pair : pair[1] = key)
  IN  IF n = 0 THEN Null ELSE object[2][n][2]

starred(filter) == IF filter[1] = "object" THEN member(filter, Star) ELSE Null

allow(filter)       == filter \notin {Null, Bool(FALSE)}
allowValue(filter)  == filter = True
allowArray(filter)  == filter = True \/ filter[1] = "array"
allowObject(filter) == filter = True \/ filter[1] = "object"

elementFilter(filter) ==
  CASE filter = True -> True
    [] filter[1] = "array" /\ filter[2] # <<>> -> filter[2][1]
    [] OTHER -> starred(filter)

memberFilter(filter, key) ==
  CASE filter = True -> True
    [] filter[1] = "object" /\ member(filter, key) # Null -> member(filter, key)
    [] OTHER -> starred(filter)

(* What a function returns: its error, where the reader is, and the value  *)
(* that it leaves; "skipped" is a value that the filter leaves out.        *)
Result(err, at, value) == [err |-> err, at |-> at, value |-> value]

Has(in, at, n) == at + n <= Len(in)
Bytes(in, at, n) == SubSeq(in, at + 1, at + n)
Number(bytes) == FoldLeft(LAMBDA n, b : 256 * n + b, 0, bytes)
Signed(n, bytes) == IF n < 128 * 256^(bytes - 1) THEN n ELSE n - 256^bytes

(* skipBytes(), and the reads into a buffer: value is made of the bytes. *)
read(in, at, n, value(_)) ==
  IF Has(in, at, n) THEN Result("Ok", at + n, value(Bytes(in, at, n)))
                    ELSE Result("Incomplete", Len(in), Null)

(* readInteger(): what does not fit stays null. *)
Integer(bytes, isSigned) ==
  LET n == IF isSigned THEN Signed(Number(bytes), Len(bytes)) ELSE Number(bytes)
      lo == IF isSigned THEN -128 * 256^(IntBytes - 1) ELSE 0
  IN  IF n >= lo /\ n - lo < 256^IntBytes THEN Num(n) ELSE Null

(* A double that is a float is kept as one. *)
Double(bytes) ==
  LET float == SubSeq(bytes, 1, FloatBytes)
  IN  IF \A n \in FloatBytes + 1..Len(bytes) : bytes[n] = 0 THEN Float(float) ELSE Float(bytes)

(* readString() and readRawString() need room for the whole of it first. *)
readText(in, at, n, head, value(_)) ==
  IF n + Len(head) > MaxString THEN Result("NoMemory", at, Null)
  ELSE read(in, at, n, value)

SizeBytes(code) ==
  CASE code \in {196, 199, 217} -> 1
    [] code \in {197, 200, 218, 220, 222} -> 2
    [] code \in {198, 201, 219, 221, 223} -> 4
    [] OTHER -> 0

FixedSize(code) ==
  CASE code \in 212..216 -> 2^(code - 212)
    [] code \in 128..159 -> code % 16
    [] code \in 160..191 -> code % 32
    [] OTHER -> 0

IsArray(code)  == code \in {220, 221} \cup 144..159
IsObject(code) == code \in {222, 223} \cup 128..143
IsString(code) == code \in 217..219 \cup 160..191
IsExtension(code) == code \in 199..201 \cup 212..216

(* readKey() *)
readKey(in, at) ==
  IF ~Has(in, at, 1) THEN Result("Incomplete", Len(in), <<>>)
  ELSE LET code == in[at + 1]
           w == IF IsString(code) THEN SizeBytes(code) ELSE 0
           n == IF w = 0 THEN FixedSize(code) ELSE Number(Bytes(in, at + 1, w))
       IN  IF ~IsString(code) THEN Result("Invalid", at + 1, <<>>)
           ELSE IF ~Has(in, at + 1, w) THEN Result("Incomplete", Len(in), <<>>)
           ELSE readText(in, at + 1 + w, n, <<>>, LAMBDA bytes : bytes)
-----------------------------------------------------------------------------
RECURSIVE parseVariant(_, _, _, _), readArray(_, _, _, _, _, _), readObject(_, _, _, _, _, _)

parseVariant(in, at, filter, limit) ==
  IF ~Has(in, at, 1) THEN Result("Incomplete", at, Null) ELSE
  LET code == in[at + 1]
      next == at + 1
      kept(v) == IF allowValue(filter) THEN v ELSE Null
      w == SizeBytes(code)
      head == SubSeq(in, at + 1, next + w)
      size == IF w = 0 THEN FixedSize(code) ELSE Number(Tail(head))
      n == IF IsExtension(code) THEN size + 1 ELSE size
      text(value(_), h) == IF allowValue(filter) THEN readText(in, next + w, n, h, value)
                           ELSE read(in, next + w, n, LAMBDA bytes : Null)
  IN CASE code \in 204..211 -> read(in, next, 2^(code % 4), LAMBDA b : kept(Integer(b, code >= 208)))
       [] code = 192 -> Result("Ok", next, Null)
       [] code = 193 -> Result("Invalid", next, Null)
       [] code \in {194, 195} -> Result("Ok", next, kept(Bool(code = 195)))
       [] code = 202 -> read(in, next, FloatBytes, LAMBDA b : kept(Float(b)))
       [] code = 203 -> read(in, next, DoubleBytes, LAMBDA b : kept(Double(b)))
       [] code \in 0..127 \cup 224..255 -> Result("Ok", next, kept(Num(Signed(code, 1))))
       [] OTHER ->
            IF ~Has(in, next, w) THEN Result("Incomplete", Len(in), Null)
            ELSE CASE IsArray(code)  -> readArray(in, next + w, size, filter, limit, <<>>)
                   [] IsObject(code) -> readObject(in, next + w, size, filter, limit, <<>>)
                   [] IsString(code) -> text(Str, <<>>)
                   [] OTHER -> text(LAMBDA b : Raw(head \o b), head)

(* The elements so far are in done; the limit is looked at by every call,  *)
(* which changes nothing after the first.                                  *)
readArray(in, at, n, filter, limit, done) ==
  LET f == elementFilter(filter)
      array == IF allowArray(filter) THEN Arr(done) ELSE Null
  IN  IF limit = 0 THEN Result("TooDeep", at, Null)
      ELSE IF n = 0 THEN Result("Ok", at, array)
      ELSE IF allow(f) /\ ~allowArray(filter) THEN Result("Assert", at, Null)
      ELSE LET r == parseVariant(in, at, f, limit - 1)
               now == IF allow(f) THEN Append(done, r.value) ELSE done
           IN  IF r.err = "Ok" THEN readArray(in, r.at, n - 1, filter, limit, now)
               ELSE [r EXCEPT !.value = IF allowArray(filter) THEN Arr(now) ELSE Null]

(* The member whose value gave r. *)
readMember(in, r, key, f, n, filter, limit, done) ==
  LET now == IF allow(f) THEN Append(done, <<key, r.value>>) ELSE done
  IN  IF r.err = "Ok" THEN readObject(in, r.at, n - 1, filter, limit, now)
      ELSE [r EXCEPT !.value = IF allowObject(filter) THEN Obj(now) ELSE Null]

readPair(in, k, f, n, filter, limit, done) ==
  IF k.err # "Ok" THEN [k EXCEPT !.value = IF allowObject(filter) THEN Obj(done) ELSE Null]
  ELSE readMember(in, parseVariant(in, k.at, f, limit - 1), k.value, f, n, filter, limit, done)

readKeyed(in, k, n, filter, limit, done) ==
  readPair(in, k, memberFilter(filter, k.value), n, filter, limit, done)

readObject(in, at, n, filter, limit, done) ==
  IF limit = 0 THEN Result("TooDeep", at, Null)
  ELSE IF n = 0 THEN Result("Ok", at, IF allowObject(filter) THEN Obj(done) ELSE Null)
  ELSE readKeyed(in, readKey(in, at), n, filter, limit, done)

(* parse(): without a single byte the input is empty, whatever else. *)
parse(in, filter) ==
  IF in = <<>> THEN Result("Empty", 0, Null) ELSE parseVariant(in, 0, filter, NestingLimit)

Init == input = <<>>
Receive == Len(input) < MaxLength /\ \E b \in Byte : input' = Append(input, b)
Next == Receive
Spec == Init /\ [][Next]_input
-----------------------------------------------------------------------------
(* The serializer: each visit() gives the bytes that it writes. *)
(* writeInteger(): w bytes, the highest first. *)
writeInteger(n, w) == [k \in 1..w |-> (n \div 256^(w - k)) % 256]

(* The code of the smallest size that holds n: of the codes for 1, 2 and   *)
(* 4 bytes, "short" when n is put into the code itself.                    *)
header(n, short, shortest, codes) ==
  IF n < shortest THEN <<short + n>>
  ELSE IF n < 256 /\ codes[1] # 0 THEN <<codes[1]>> \o writeInteger(n, 1)
  ELSE IF n < 65536 THEN <<codes[2]>> \o writeInteger(n, 2)
  ELSE <<codes[3]>> \o writeInteger(n, 4)

visitUInt(n) == header(n, 0, 128, <<204, 205, 206>>)

visitInt(n) ==
  CASE n > 0 -> visitUInt(n)
    [] n <= 0 /\ n >= -32 -> <<n % 256>>
    [] n < -32 /\ n >= -128 -> <<208>> \o writeInteger(n, 1)
    [] n < -128 /\ n >= -32768 -> <<209>> \o writeInteger(n, 2)
    [] OTHER -> <<210>> \o writeInteger(n, 4)

(* The numbers of the narrow floats: a float of one byte counts halves,    *)
(* from -64, so that the even ones are whole.                              *)
Whole(bytes) == Len(bytes) = FloatBytes /\ bytes[FloatBytes] % 2 = 0
WholeOf(bytes) == (Number(bytes) \div 2) - 64

(* visit() of a float: a whole number is written as an integer. *)
visitFloat(bytes) ==
  CASE Whole(bytes) -> visitInt(WholeOf(bytes))
    [] ~Whole(bytes) /\ Len(bytes) = FloatBytes -> <<202>> \o bytes
    [] OTHER -> <<203>> \o bytes

RECURSIVE visit(_)
visit(v) ==
  CASE v[1] = "null"  -> <<192>>
    [] v[1] = "bool"  -> IF v[2] THEN <<195>> ELSE <<194>>
    [] v[1] = "int"   -> visitInt(v[2])
    [] v[1] = "float" -> visitFloat(v[2])
    [] v[1] = "str"   -> header(Len(v[2]), 160, 32, <<217, 218, 219>>) \o v[2]
    [] v[1] = "raw"   -> v[2]
    [] v[1] = "array" ->
         FoldLeft(LAMBDA out, e : out \o visit(e), header(Len(v[2]), 144, 16, <<0, 220, 221>>), v[2])
    [] v[1] = "object" ->
         FoldLeft(LAMBDA out, p : out \o visit(Str(p[1])) \o visit(p[2]),
                  header(Len(v[2]), 128, 16, <<0, 222, 223>>), v[2])
-----------------------------------------------------------------------------
Key == <<1>>
Filters ==
  {Null, Arr(<<>>), Arr(<<True>>), Obj(<<<<Key, True>>>>),
   Arr(<<Arr(<<True>>)>>), Obj(<<<<Key, Arr(<<True>>)>>>>), Arr(<<Obj(<<<<Key, True>>>>)>>),
   Obj(<<<<Star, True>>>>), Obj(<<<<Star, Arr(<<True>>)>>>>),
   Obj(<<<<Key, Bool(FALSE)>>, <<Star, True>>>>),
   Obj(<<<<Key, True>>, <<Star, Bool(FALSE)>>>>), Arr(<<Obj(<<<<Star, True>>>>)>>)}

(* What a filter keeps of a value that was read without one. *)
RECURSIVE Kept(_, _)
Kept(v, filter) ==
  CASE filter = True -> v
    [] filter[1] = "array" /\ v[1] = "array" ->
         LET f == elementFilter(filter)
         IN  Arr(IF allow(f) THEN [n \in DOMAIN v[2] |-> Kept(v[2][n], f)] ELSE <<>>)
    [] filter[1] = "object" /\ v[1] = "object" ->
         LET allowed == SelectSeq(v[2], LAMBDA p : allow(memberFilter(filter, p[1])))
         IN  Obj([n \in DOMAIN allowed |->
                    <<allowed[n][1], Kept(allowed[n][2], memberFilter(filter, allowed[n][1]))>>])
    [] OTHER -> Null

(* An array with elements meets an object filter that stars something: the *)
(* reader takes the star for the filter of the elements, of an array that  *)
(* is not kept.                                                            *)
RECURSIVE Stumbles(_, _)
Stumbles(v, filter) ==
  CASE filter = True -> FALSE
    [] filter # True /\ v[1] = "array" /\ v[2] # <<>> ->
         \/ filter[1] = "object" /\ allow(starred(filter))
         \/ filter[1] = "array" /\ \E n \in DOMAIN v[2] : Stumbles(v[2][n], elementFilter(filter))
    [] filter # True /\ v[1] = "object" ->
         \E n \in DOMAIN v[2] : Stumbles(v[2][n][2], memberFilter(filter, v[2][n][1]))
    [] OTHER -> FALSE

(* The same with the whole numbers as integers. *)
RECURSIVE Numeric(_)
Numeric(v) ==
  CASE v[1] = "float" /\ Whole(v[2]) -> Num(WholeOf(v[2]))
    [] v[1] = "array" -> Arr([n \in DOMAIN v[2] |-> Numeric(v[2][n])])
    [] v[1] = "object" -> Obj([n \in DOMAIN v[2] |-> <<v[2][n][1], Numeric(v[2][n][2])>>])
    [] OTHER -> v
-----------------------------------------------------------------------------
(* A filter decides what is kept, and nothing else, but for one case: the  *)
(* same bytes are used up with the same result, and what is kept is what   *)
(* would have been read; but an array that meets a filter of an object with*)
(* an allowed "*" fails the assertion in readArray(), and where assertions *)
(* are off it writes through a null pointer.  That happens exactly then.   *)
FilterOnlyKeeps ==
  \A r \in {parse(input, True)} :
    r.err = "Ok" => \A filter \in Filters :
      IF Stumbles(r.value, filter)
      THEN parse(input, filter).err = "Assert"
      ELSE parse(input, filter) = Result("Ok", r.at, Kept(r.value, filter))

(* What was read is written such that the same is read from it.            *)
WritesWhatItRead ==
  \A r \in {parse(input, True)} :
    r.err = "Ok" => \A out \in {visit(r.value)} : \A again \in {parse(out, True)} :
      /\ again.err = "Ok" /\ again.at = Len(out)
      /\ Numeric(again.value) = Numeric(r.value)

(* A result stands when more bytes come: only an input that is too short   *)
(* is waited for, and an input that is complete is never called so.        *)
EndedStays ==
  \A r \in {parse(input, True)} :
    r.err \notin {"Empty", "Incomplete"} => parse(input', True) = r

ResultStands == [][EndedStays]_input
=============================================================================
