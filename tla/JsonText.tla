------------------------------ MODULE JsonText -------------------------------
(***************************************************************************)
(* deserializeJson() and serializeJson() of ArduinoJson. The reader takes  *)
(* one character after the other, never back: what it makes of a message,  *)
(* cut or whole, with a filter and a nesting limit. The message so far is  *)
(* the state; it grows by a character at a time. Memory is JsonMemory's    *)
(* and JsonCollections' business: here there is always enough. Comments,   *)
(* NaN and Infinity are switched off in Configuration.hpp; a code unit of  *)
(* \u is kept as its four digits. "NUL" is the end of the input, "PAST"    *)
(* whatever is read after it.                                              *)
(***************************************************************************)
EXTENDS Integers, Sequences, FiniteSets, SequencesExt, TLC

CONSTANTS
  Alphabet, MaxLength,
  Start,         \* what every message begins with
  NumberSize,    \* room in buffer_ (63)
  NestingLimit,
  NestingWidth,  \* values of the serializer's nesting_ (256)
  Filters        \* the filters that are tried

VARIABLE input

Init == input = Start
Next == Len(input) < MaxLength /\ \E c \in Alphabet : input' = Append(input, c)
Spec == Init /\ [][Next]_input

----------------------------------------------------------------------------
(* Values, and filters, which are values too. *)
Scalar(t, x) == [type |-> t, is |-> x, in |-> <<>>]
Null == Scalar("null", "null")
True == Scalar("boolean", "true")
False == Scalar("boolean", "false")
ArrayOf(l) == [type |-> "array", is |-> "", in |-> [i \in DOMAIN l |-> [key |-> <<>>, value |-> l[i]]]]
ObjectOf(l) == [type |-> "object", is |-> "", in |-> l]

(* JsonVariantConst::operator[] *)
Member(f, k) ==
  LET i == {j \in DOMAIN f.in : f.in[j].key = k}
  IN IF f.type = "object" /\ i # {} THEN f.in[CHOOSE j \in i : TRUE].value ELSE Null

allow(f) == f \notin {Null, False}
allowArray(f) == f = True \/ f.type = "array"
allowObject(f) == f = True \/ f.type = "object"
allowValue(f) == f = True

FilterOfMember(f, k) ==
  IF f = True THEN f
  ELSE IF Member(f, k) = Null THEN Member(f, <<"*">>) ELSE Member(f, k)

FilterOfElements(f) ==
  IF f = True THEN f
  ELSE IF f.type = "array" /\ f.in # <<>> THEN f.in[1].value ELSE Null

(* parseNumber(), with room enough for what these messages hold. *)
Number == INSTANCE JsonNumber WITH
  text <- input, MaxUint <- 9999, MantissaMax <- 9999, ExponentMax <- 99,
  FloatMantissaMax <- 9999, FloatExponentMax <- 99

IsNumber(t) == Number!parseNumber(t).type # "Invalid"

----------------------------------------------------------------------------
(* The latch: the character at place p of the message. *)
current(s, p) ==
  IF p <= Len(s) THEN s[p] ELSE IF p = Len(s) + 1 THEN "NUL" ELSE "PAST"

Digits == {"0", "1", "2", "3", "4", "5", "6", "7", "8", "9"}
canBeInNumber(c) == c \in Digits \cup {"+", "-", ".", "e"}
canBeInNonQuotedString(c) == c \in Digits \cup {"a", "b", "c", "d", "e", "f", "l", "n", "r", "s", "t", "u", "_"}
isQuote(c) == c \in {"\"", "'"}
IsSpace(c) == c \in {" ", "CRLF"}

(* decodeHex() takes what stands between 9 and A for digits as well. *)
IsHex(c) == c \in Digits \cup {"a", "b", "c", "d", "e", "f", ":"}

unescapeChar ==
  ("/" :> "/") @@ ("'" :> "'") @@ ("\"" :> "\"") @@ ("\\" :> "\\") @@
  [b |-> "BS", f |-> "FF", n |-> "LF", r |-> "CR", t |-> "TAB"]

(* What a function has made of the message: its error, the place it has    *)
(* reached and a value.                                                    *)
Result(e, p, v) == [err |-> e, at |-> p, val |-> v]
Ok(p, v) == Result("Ok", p, v)
Fails(e, p) == Result(e, p, Null)
Failed(r) == r.err # "Ok"

(* The first place from p on whose character is not one of those. *)
RECURSIVE While(_, _, _)
While(In(_), s, p) == IF In(current(s, p)) THEN While(In, s, p + 1) ELSE p

(* What follows r, unless that has failed.  foundSomething_: the message   *)
(* has more than spaces before the place reached.                          *)
skipSpaces(s, r) ==
  LET q == While(IsSpace, s, r.at)
  IN CASE Failed(r) -> Fails(r.err, r.at)
       [] ~Failed(r) /\ current(s, q) # "NUL" -> Ok(q, Null)
       [] OTHER -> Fails(IF While(IsSpace, s, 1) < q THEN "IncompleteInput" ELSE "EmptyInput", q)

(* An error unless the expected character is there. *)
Expect(s, r, c) ==
  IF Failed(r) THEN r
  ELSE IF current(s, r.at) = c THEN Ok(r.at + 1, Null) ELSE Fails("InvalidInput", r.at)

RECURSIVE skipKeyword(_, _, _)
skipKeyword(s, p, w) ==
  CASE w = <<>> -> Ok(p, Null)
    [] w # <<>> /\ current(s, p) = "NUL" -> Fails("IncompleteInput", p)
    [] w # <<>> /\ current(s, p) = Head(w) -> skipKeyword(s, p + 1, Tail(w))
    [] OTHER -> Fails("InvalidInput", p)

keyword == [t |-> <<"t", "r", "u", "e">>, f |-> <<"f", "a", "l", "s", "e">>,
            n |-> <<"n", "u", "l", "l">>]

RECURSIVE parseHex4(_, _, _)
parseHex4(s, p, n) ==
  CASE n = 0 -> Ok(p, Null)
    [] n > 0 /\ current(s, p) = "NUL" -> Fails("IncompleteInput", p)
    [] n > 0 /\ IsHex(current(s, p)) -> parseHex4(s, p + 1, n - 1)
    [] OTHER -> Fails("InvalidInput", p)

----------------------------------------------------------------------------
(* Strings, keys and numbers, read or skipped. *)

RECURSIVE parseQuoted(_, _, _, _)
parseQuoted(s, p, stop, l) ==
  LET c == current(s, p)
      d == current(s, p + 1)
      unit == parseHex4(s, p + 2, 4)
  IN CASE c = stop   -> Ok(p + 1, Scalar("string", l))
       [] c = "NUL"  -> Fails("IncompleteInput", p)
       [] c = "PAST" -> Fails("ReadPastEnd", p)
       [] c = "\\" /\ d = "NUL" -> Fails("IncompleteInput", p + 1)
       [] c = "\\" /\ d = "u" ->
            IF unit.err = "Ok" THEN parseQuoted(s, unit.at, stop, Append(l, "code unit"))
            ELSE unit
       [] c = "\\" /\ d \in DOMAIN unescapeChar ->
            parseQuoted(s, p + 2, stop, Append(l, unescapeChar[d]))
       [] c = "\\" /\ d \notin DOMAIN unescapeChar \cup {"NUL", "u"} ->
            Fails("InvalidInput", p + 1)
       [] OTHER -> parseQuoted(s, p + 1, stop, Append(l, c))

parseQuotedString(s, p) == parseQuoted(s, p + 1, current(s, p), <<>>)

parseNonQuotedString(s, p) ==
  LET q == While(canBeInNonQuotedString, s, p)
  IN IF q = p THEN Fails("InvalidInput", p) ELSE Ok(q, Scalar("string", SubSeq(s, p, q - 1)))

parseKey(s, p) ==
  IF isQuote(current(s, p)) THEN parseQuotedString(s, p) ELSE parseNonQuotedString(s, p)

AfterBackslash(s, p) == IF current(s, p) = "NUL" THEN p ELSE p + 1

RECURSIVE skipQuoted(_, _, _)
skipQuoted(s, p, stop) ==
  LET c == current(s, p)
  IN CASE c = stop   -> Ok(p + 1, Null)
       [] c = "NUL"  -> Fails("IncompleteInput", p)
       [] c = "PAST" -> Fails("ReadPastEnd", p)
       [] c = "\\"   -> skipQuoted(s, AfterBackslash(s, p + 1), stop)
       [] OTHER      -> skipQuoted(s, p + 1, stop)

skipQuotedString(s, p) == skipQuoted(s, p + 1, current(s, p))

skipKey(s, p) ==
  IF isQuote(current(s, p)) THEN skipQuotedString(s, p)
  ELSE Ok(While(canBeInNonQuotedString, s, p), Null)

(* A number longer than the buffer is cut, and what follows is not a comma. *)
parseNumericValue(s, p) ==
  LET end == While(canBeInNumber, s, p)
      q == IF end > p + NumberSize THEN p + NumberSize ELSE end
      t == SubSeq(s, p, q - 1)
  IN IF IsNumber(t) THEN Ok(q, Scalar("number", t)) ELSE Fails("InvalidInput", q)

skipNumericValue(s, p) == Ok(While(canBeInNumber, s, p), Null)

----------------------------------------------------------------------------
(* Values, read through a filter or skipped.  n is the nesting left.       *)
(* skipVariant(), skipArray() and skipObject() go the way of their         *)
(* counterparts with a filter that allows nothing inside, and leave no     *)
(* value.                                                                  *)

RECURSIVE parseVariant(_, _, _, _), Elements(_, _, _, _, _), Members(_, _, _, _, _)

(* Behind the bracket or brace at p. *)
Opened(s, p, n) == IF n = 0 THEN Fails("TooDeep", p) ELSE skipSpaces(s, Ok(p + 1, Null))

Valued(r, v) == [r EXCEPT !.val = v]
Allowed(r, allowed) == IF allowed THEN r ELSE Valued(r, Null)

(* The elements before v are l. *)
AfterElement(s, v, f, n, l) ==
  LET r == skipSpaces(s, v)
      more == IF allow(f) THEN Append(l, v.val) ELSE l
  IN CASE Failed(r) -> r
       [] ~Failed(r) /\ current(s, r.at) = "]" -> Ok(r.at + 1, ArrayOf(more))
       [] OTHER -> Elements(s, Expect(s, r, ","), f, n, more)

Elements(s, r, f, n, l) ==
  IF Failed(r) THEN r ELSE AfterElement(s, parseVariant(s, r.at, f, n), f, n, l)

(* Where it skips there is no look for an empty array: its end is skipped  *)
(* as a number of no characters.                                           *)
parseArray(s, p, f, n) ==
  LET r == IF allowArray(f) THEN Opened(s, p, n)
           ELSE IF n = 0 THEN Fails("TooDeep", p) ELSE Ok(p + 1, Null)
  IN IF ~Failed(r) /\ allowArray(f) /\ current(s, r.at) = "]" THEN Ok(r.at + 1, ArrayOf(<<>>))
     ELSE Elements(s, r, FilterOfElements(f), n - 1, <<>>)

(* A key that comes again replaces the value where it was. *)
WithMember(l, k, v) ==
  IF \E i \in DOMAIN l : l[i].key = k
  THEN [i \in DOMAIN l |-> IF l[i].key = k THEN [l[i] EXCEPT !.value = v] ELSE l[i]]
  ELSE Append(l, [key |-> k, value |-> v])

(* The members before the value v with the filter g are l. *)
AfterMember(s, v, key, g, f, n, l) ==
  LET r == skipSpaces(s, v)
      more == IF allow(g) THEN WithMember(l, key, v.val) ELSE l
  IN CASE Failed(r) -> r
       [] ~Failed(r) /\ current(s, r.at) = "}" -> Ok(r.at + 1, ObjectOf(more))
       [] OTHER -> Members(s, skipSpaces(s, Expect(s, r, ",")), f, n, more)

AfterKey(s, key, g, f, n, l) ==
  LET r == Expect(s, skipSpaces(s, key), ":")
  IN IF Failed(r) THEN r
     ELSE AfterMember(s, parseVariant(s, r.at, g, n), key.val.is, g, f, n, l)

MemberOf(s, key, f, n, l) == AfterKey(s, key, FilterOfMember(f, key.val.is), f, n, l)

Members(s, r, f, n, l) ==
  IF Failed(r) THEN r
  ELSE MemberOf(s, IF allowObject(f) THEN parseKey(s, r.at) ELSE skipKey(s, r.at), f, n, l)

parseObject(s, p, f, n) ==
  LET r == Opened(s, p, n)
  IN IF ~Failed(r) /\ current(s, r.at) = "}" THEN Ok(r.at + 1, ObjectOf(<<>>))
     ELSE Members(s, r, f, n - 1, <<>>)

Word(c) == CASE c = "t" -> True [] c = "f" -> False [] c = "n" -> Null

(* The value that begins at p. *)
ValueAt(s, p, f, n) ==
  LET c == current(s, p)
  IN CASE c = "[" -> Allowed(parseArray(s, p, f, n), allowArray(f))
       [] c = "{" -> Allowed(parseObject(s, p, f, n), allowObject(f))
       [] isQuote(c) -> IF allowValue(f) THEN parseQuotedString(s, p) ELSE skipQuotedString(s, p)
       [] c \in DOMAIN keyword ->
            Valued(skipKeyword(s, p, keyword[c]), IF allowValue(f) THEN Word(c) ELSE Null)
       [] OTHER -> IF allowValue(f) THEN parseNumericValue(s, p) ELSE skipNumericValue(s, p)

parseVariant(s, p, f, n) ==
  LET r == skipSpaces(s, Ok(p, Null))
  IN IF Failed(r) THEN r ELSE ValueAt(s, r.at, f, n)

\* Mutant: what follows a number is not looked at.
TrailingAllowed(s, r) == FALSE

\* Mutant: nothing may follow any value.
TrailingAlways(s, r) == current(s, r.at) # "NUL"

(* Only after a number is it known that there is something else. *)
Trailing(s, r) == r.val.type = "number" /\ current(s, r.at) # "NUL"

Ended(s, r) == IF r.err = "Ok" /\ Trailing(s, r) THEN Fails("InvalidInput", r.at) ELSE r

parse(s, f) == Ended(s, parseVariant(s, 1, f, NestingLimit))
-----------------------------------------------------------------------------
(* serializeJson() and serializeJsonPretty(): the text of a value that has *)
(* been read.  A number is written as the text it was read from: JsonFloat *)
(* has its digits.                                                         *)

Flat(texts) == FlattenSeq(texts)

(* escapeTable() without its first two entries, and from the other side. *)
escapeChar ==
  ("\"" :> "\"") @@ ("\\" :> "\\") @@
  [BS |-> "b", FF |-> "f", LF |-> "n", CR |-> "r", TAB |-> "t"]

writeChar(c) == IF c \in DOMAIN escapeChar THEN <<"\\", escapeChar[c]>> ELSE <<c>>

writeString(text) == <<"\"">> \o Flat([i \in DOMAIN text |-> writeChar(text[i])]) \o <<"\"">>

writeScalar(v) ==
  CASE v.type = "string" -> writeString(v.is)
    [] v.type = "number" -> v.is
    [] v = True  -> keyword.t
    [] v = False -> keyword.f
    [] v = Null  -> keyword.n

Separated(texts, separator) ==
  Flat([i \in DOMAIN texts |-> IF i = 1 THEN texts[i] ELSE separator \o texts[i]])

RECURSIVE visit(_)
visit(v) ==
  CASE v.type = "array" ->
         <<"[">> \o Separated([i \in DOMAIN v.in |-> visit(v.in[i].value)], <<",">>) \o <<"]">>
    [] v.type = "object" ->
         <<"{">> \o Separated([i \in DOMAIN v.in |-> writeString(v.in[i].key) \o <<":">>
                                                       \o visit(v.in[i].value)], <<",">>) \o <<"}">>
    [] OTHER -> writeScalar(v)

(* Two spaces for each level, up to the width of nesting_. *)
indent(nesting) == [i \in 1..(2 * (nesting % NestingWidth)) |-> " "]

RECURSIVE visitPretty(_, _)
visitPretty(v, nesting) ==
  LET line(text) == indent(nesting + 1) \o text
      inside(texts) == <<"CRLF">> \o Separated(texts, <<",", "CRLF">>) \o <<"CRLF">> \o indent(nesting)
  IN CASE v.type = "array" /\ v.in = <<>> -> <<"[", "]">>
       [] v.type = "object" /\ v.in = <<>> -> <<"{", "}">>
       [] v.type = "array" /\ v.in # <<>> ->
            <<"[">> \o inside([i \in DOMAIN v.in |-> line(visitPretty(v.in[i].value, nesting + 1))])
                    \o <<"]">>
       [] v.type = "object" /\ v.in # <<>> ->
            <<"{">> \o inside([i \in DOMAIN v.in |->
                                 line(writeString(v.in[i].key) \o <<":", " ">>
                                        \o visitPretty(v.in[i].value, nesting + 1))])
                    \o <<"}">>
       [] OTHER -> writeScalar(v)

(* StaticStringWriter: what a buffer of this size holds of the text. *)
IntoBuffer(text, size) == SubSeq(text, 1, IF Len(text) < size THEN Len(text) ELSE size)
-----------------------------------------------------------------------------
(* What deserializeJson() should make of a message: the grammar of the     *)
(* values it takes, by how a text is made of parts and not by how it is    *)
(* read, and what a filter leaves of a value.                              *)

(* The places k between i and j with the character c. *)
Places(s, i, j, c) == {k \in i..j : s[k] = c}

Words == {<<keyword[c], Word(c)>> : c \in DOMAIN keyword}

(* The ways to read the inside of a string in quotes q. *)
RECURSIVE Texts(_, _, _, _)
Texts(s, i, j, q) ==
  IF i > j THEN {<<>>}
  ELSE (IF s[i] \in {q, "\\"} THEN {} ELSE {<<s[i]>> \o t : t \in Texts(s, i + 1, j, q)})
       \cup (IF s[i] = "\\" /\ i < j /\ s[i + 1] \in DOMAIN unescapeChar
             THEN {<<unescapeChar[s[i + 1]]>> \o t : t \in Texts(s, i + 2, j, q)} ELSE {})
       \cup (IF s[i] = "\\" /\ i + 5 <= j /\ s[i + 1] = "u" /\ \A k \in i + 2..i + 5 : IsHex(s[k])
             THEN {<<"code unit">> \o t : t \in Texts(s, i + 6, j, q)} ELSE {})

Strings(s, i, j) ==
  IF i < j /\ isQuote(s[i]) /\ s[j] = s[i]
  THEN {Scalar("string", t) : t \in Texts(s, i + 1, j - 1, s[i])} ELSE {}

Keys(s, i, j) ==
  Strings(s, i, j) \cup
  (IF i <= j /\ \A k \in i..j : canBeInNonQuotedString(s[k])
   THEN {Scalar("string", SubSeq(s, i, j))} ELSE {})

(* The first and last character that is not a space. *)
From(s, i, j) == CHOOSE k \in i..(j + 1) : (k = j + 1 \/ ~IsSpace(s[k])) /\ \A l \in i..(k - 1) : IsSpace(s[l])
To(s, i, j) == CHOOSE k \in (i - 1)..j : (k = i - 1 \/ ~IsSpace(s[k])) /\ \A l \in (k + 1)..j : IsSpace(s[l])

RECURSIVE Values(_, _, _), Lists(_, _, _), Pairs(_, _, _)

Bare(s, i, j) ==
  {w[2] : w \in {x \in Words : x[1] = SubSeq(s, i, j)}}
  \cup Strings(s, i, j)
  \cup (IF j - i < NumberSize /\ IsNumber(SubSeq(s, i, j))
        THEN {Scalar("number", SubSeq(s, i, j))} ELSE {})
  \cup (IF i < j /\ s[i] = "[" /\ s[j] = "]"
        THEN {ArrayOf(l) : l \in Lists(s, i + 1, j - 1)} \cup
             {ArrayOf(<<>>) : e \in {x \in {0} : From(s, i + 1, j - 1) = j}}
        ELSE {})
  \cup (IF i < j /\ s[i] = "{" /\ s[j] = "}"
        THEN {ObjectOf(l) : l \in Pairs(s, i + 1, j - 1)} \cup
             {ObjectOf(<<>>) : e \in {x \in {0} : From(s, i + 1, j - 1) = j}}
        ELSE {})

Values(s, i, j) ==
  IF From(s, i, j) > j THEN {} ELSE Bare(s, From(s, i, j), To(s, i, j))

Lists(s, i, j) ==
  {<<v>> : v \in Values(s, i, j)} \cup
  UNION {{<<v>> \o l : v \in Values(s, i, k - 1), l \in Lists(s, k + 1, j)} : k \in Places(s, i, j, ",")}

Pair(s, i, j) ==
  UNION {{[key |-> k.is, value |-> v] : k \in Keys(s, From(s, i, c - 1), To(s, i, c - 1)),
                                         v \in Values(s, c + 1, j)} : c \in Places(s, i, j, ":")}

(* The last of the members with a key, at the place of the first. *)
Merged(p, l) ==
  LET again == {i \in DOMAIN l : l[i].key = p.key}
  IN IF again = {} THEN <<p>> \o l
     ELSE LET i == CHOOSE k \in again : TRUE IN <<l[i]>> \o RemoveAt(l, i)

Pairs(s, i, j) ==
  {<<p>> : p \in Pair(s, i, j)} \cup
  UNION {{Merged(p, l) : p \in Pair(s, i, k - 1), l \in Pairs(s, k + 1, j)} : k \in Places(s, i, j, ",")}

RECURSIVE Depth(_)
Depth(v) ==
  IF v.type \notin {"array", "object"} THEN 0
  ELSE 1 + (IF v.in = <<>> THEN 0
            ELSE LET d == {Depth(v.in[i].value) : i \in DOMAIN v.in}
                 IN CHOOSE x \in d : \A y \in d : y <= x)

(* The value a message begins with; a number must be all of it. *)
Accepted(s) ==
  UNION {{v \in Values(s, 1, k) : /\ Depth(v) <= NestingLimit
                                  /\ v.type = "number" => k = Len(s)}
         : k \in {i \in DOMAIN s : ~IsSpace(s[i])}}

(* What a filter leaves of a value. *)
RECURSIVE Projected(_, _)
Projected(v, f) ==
  CASE v.type = "array" ->
         IF ~allowArray(f) THEN Null
         ELSE IF ~allow(FilterOfElements(f)) THEN ArrayOf(<<>>)
         ELSE ArrayOf([i \in DOMAIN v.in |-> Projected(v.in[i].value, FilterOfElements(f))])
    [] v.type = "object" ->
         IF ~allowObject(f) THEN Null
         ELSE LET kept == SelectSeq(v.in, LAMBDA m : allow(FilterOfMember(f, m.key)))
              IN ObjectOf([i \in DOMAIN kept |->
                   [kept[i] EXCEPT !.value = Projected(@, FilterOfMember(f, kept[i].key))]])
    [] OTHER -> IF allowValue(f) THEN v ELSE Null

----------------------------------------------------------------------------
(* A message is accepted exactly when it begins with a value that is not   *)
(* nested too deep, and read as that value (JsonDeserializer::parse).      *)
ReadsTheValue ==
  \A r \in {parse(input, True)} :
    Accepted(input) = IF r.err = "Ok" THEN {r.val} ELSE {}

(* A filter takes nothing away from what is accepted, ends at the same     *)
(* character and leaves what it should, whatever is skipped; and nothing is *)
(* read after the end of the input.                                        *)
FiltersProject ==
  \A r \in {parse(input, True)} : \A f \in Filters : \A filtered \in {parse(input, f)} :
    /\ r.err = "Ok" => filtered = Ok(r.at, Projected(r.val, f))
    /\ "ReadPastEnd" \notin {r.err, filtered.err}

(* A message that was called incomplete can go on: some character gets the *)
(* reading further than it was, or to its end.                             *)
Further(r, s) == s.err # "InvalidInput" /\ (s.err = "Ok" \/ s.at > r.at)

IncompleteCanGoOn ==
  \A r \in {parse(input, True)} :
    r.err \in {"IncompleteInput", "EmptyInput"} =>
      \E c \in Alphabet : Further(r, parse(Append(input, c), True))

(* The verdict on what has been read does not change with what comes: a    *)
(* message cut anywhere is never accepted, and never more than it was.     *)
Settled(r, s) ==
  \/ r.err = "TooDeep"
  \/ r.err = "Ok" /\ r.val.type # "number"
  \/ r.err = "InvalidInput" /\ r.at <= Len(s)

SettledStays ==
  \A r \in {parse(input, True)} :
    Settled(r, input) => parse(input', True) = r

VerdictKept == [][SettledStays]_input
-----------------------------------------------------------------------------
(* Writing, and reading again. *)

Read ==
  {r.val : r \in {x \in {parse(input, True)} : x.err = "Ok"}}

(* The text without the spaces outside its strings. *)
RECURSIVE Squeezed(_, _, _)
Squeezed(s, p, quoted) ==
  IF p > Len(s) THEN <<>>
  ELSE CASE ~quoted /\ IsSpace(s[p]) -> Squeezed(s, p + 1, quoted)
         [] quoted /\ s[p] = "\\" -> <<s[p], s[p + 1]>> \o Squeezed(s, p + 2, quoted)
         [] OTHER -> <<s[p]>> \o Squeezed(s, p + 1, IF s[p] = "\"" THEN ~quoted ELSE quoted)
-----------------------------------------------------------------------------
(* serializeJson() writes what deserializeJson() reads as the same value,  *)
(* whatever characters are in its strings and keys, and a buffer that has  *)
(* just the room is enough; one that is too small is noticed by who reads  *)
(* it, but for a number on its own.                                        *)
TextReadsBack ==
  \A v \in Read : \A text \in {visit(v)} : \A size \in 0..Len(text) :
    \A r \in {parse(IntoBuffer(text, size), True)} :
      IF size = Len(text) THEN r.err = "Ok" /\ r.val = v
      ELSE v.type = "number" \/ r.err # "Ok"

(* serializeJsonPretty() differs in spaces between the values only, also   *)
(* where nesting_ has come round.                                          *)
PrettyIsTheSame ==
  \A v \in Read : \A pretty \in {visitPretty(v, 0)} :
    Squeezed(pretty, 1, FALSE) = visit(v) /\ parse(pretty, True).val = v
=============================================================================
