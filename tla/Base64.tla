------------------------------- MODULE Base64 -------------------------------
(***************************************************************************)
(* The base64 coder of libb64, which WebSockets uses for keys and for      *)
(* authorizations: base64_encode_block() may be given the text in pieces,  *)
(* base64_encode_blockend() adds what is left over, and                    *)
(* base64_decode_block() takes the code apart, in pieces again.  Characters*)
(* are their ASCII codes, and char is signed.                              *)
(***************************************************************************)
EXTENDS Integers, Sequences

CONSTANTS
  Byte,             \* bound: the bytes a text is made of
  MaxBytes,         \* bound: the length of a text
  MaxPiece,         \* bound: the length of a piece
  CHARS_PER_LINE,
  PastTable         \* the byte that lies behind the decoder's table

CodeAssumption ==
  /\ Byte \subseteq 0..255 /\ MaxBytes \in Nat /\ MaxPiece \in Nat
  /\ CHARS_PER_LINE \in Nat \ {0} /\ CHARS_PER_LINE % 4 = 0
  /\ PastTable \in -128..127

VARIABLES
  plain,        \* the text encoded so far
  state_in,     \* base64_encodestate
  code,         \* the characters written
  ended,        \* base64_encode_blockend() has been called
  read,         \* characters of the code given to the decoder
  decoder,      \* base64_decodestate
  text          \* what it has written

codeVars == <<plain, state_in, code, ended, read, decoder, text>>

NewLine == 10
Pad == 61

base64_init_encodestate == [step |-> "A", result |-> 0, stepcount |-> 0]

base64_init_decodestate == [step |-> "a", plainchar |-> 0]

CodeInit ==
  /\ plain = <<>> /\ state_in = base64_init_encodestate /\ code = <<>> /\ ended = FALSE
  /\ read = 0 /\ decoder = base64_init_decodestate /\ text = <<>>

base64_encode_value(v) ==
  CASE v > 63 -> Pad
    [] v = 63 -> 47
    [] v = 62 -> 43
    [] v \in 52..61 -> v - 4
    [] v \in 26..51 -> v + 71
    [] OTHER -> v + 65

(* -1 for what is no character of a code, -2 for the padding; for '{' the  *)
(* table is read one past its end.                                         *)
base64_decode_value(c) ==
  CASE c = 43 -> 62
    [] c = 47 -> 63
    [] c \in 48..57 -> c + 4
    [] c = Pad -> -2
    [] c \in 65..90 -> c - 65
    [] c \in 97..122 -> c - 71
    [] c = 123 -> PastTable
    [] OTHER -> -1

(* The bits of a byte that start a character, and those that end one. *)
High(b, n) == b \div (2 ^ (8 - n))
Low(b, n) == b % (2 ^ n)

----------------------------------------------------------------------------
\* Mutant: the bits that were left over are not taken up again.
JoinedAfresh(left, bits) == bits

Joined(left, bits) == left + bits

PerLine == CHARS_PER_LINE \div 4

Counted(stepcount) == IF stepcount + 1 = PerLine THEN 0 ELSE stepcount + 1

(* One byte: three of them become four characters. *)
ByteEncoded(e, b) ==
  LET s == e.state
      Written(s2, characters) == [state |-> s2, code |-> e.code \o characters]
  IN CASE s.step = "A" ->
            Written([s EXCEPT !.step = "B", !.result = Low(b, 2) * 16],
                    <<base64_encode_value(High(b, 6))>>)
       [] s.step = "B" ->
            Written([s EXCEPT !.step = "C", !.result = Low(b, 4) * 4],
                    <<base64_encode_value(Joined(s.result, High(b, 4)))>>)
       [] s.step = "C" ->
            Written([step |-> "A", result |-> Low(b, 6), stepcount |-> Counted(s.stepcount)],
                    <<base64_encode_value(Joined(s.result, High(b, 2))),
                      base64_encode_value(Low(b, 6))>>
                    \o (IF s.stepcount + 1 = PerLine THEN <<NewLine>> ELSE <<>>))

BytesEncoded(e, piece) ==
  LET made[i \in 0..Len(piece)] ==
        IF i = 0 THEN e ELSE ByteEncoded(made[i - 1], piece[i])
  IN made[Len(piece)]

base64_encode_block(piece) ==
  /\ ~ended
  /\ LET e == BytesEncoded([state |-> state_in, code |-> code], piece)
     IN state_in' = e.state /\ code' = e.code
  /\ plain' = plain \o piece
  /\ UNCHANGED <<ended, read, decoder, text>>

base64_encode_blockend ==
  /\ ~ended
  /\ code' = code \o
       (CASE state_in.step = "A" -> <<>>
          [] state_in.step = "B" -> <<base64_encode_value(state_in.result), Pad, Pad>>
          [] state_in.step = "C" -> <<base64_encode_value(state_in.result), Pad>>)
  /\ ended' = TRUE
  /\ UNCHANGED <<plain, state_in, read, decoder, text>>

(* What is no character of a code is passed over. *)
PassedOver(c) == base64_decode_value(c) < 0

(* One character: the byte in the making is completed and written, and the *)
(* rest of the bits begins the next one.                                   *)
CharacterDecoded(d, c) ==
  LET v == base64_decode_value(c)
      s == d.state
  IN CASE PassedOver(c) -> d
       [] ~PassedOver(c) /\ s.step = "a" -> [d EXCEPT !.state = [step |-> "b", plainchar |-> v * 4]]
       [] ~PassedOver(c) /\ s.step = "b" ->
            [state |-> [step |-> "c", plainchar |-> Low(v, 4) * 16],
             text |-> Append(d.text, s.plainchar + v \div 16)]
       [] ~PassedOver(c) /\ s.step = "c" ->
            [state |-> [step |-> "d", plainchar |-> Low(v, 2) * 64],
             text |-> Append(d.text, s.plainchar + v \div 4)]
       [] ~PassedOver(c) /\ s.step = "d" ->
            [state |-> [step |-> "a", plainchar |-> 0], text |-> Append(d.text, s.plainchar + v)]

CharactersDecoded(d, piece) ==
  LET made[i \in 0..Len(piece)] ==
        IF i = 0 THEN d ELSE CharacterDecoded(made[i - 1], piece[i])
  IN made[Len(piece)]

base64_decode_block(n) ==
  /\ ended /\ n \in 1..(Len(code) - read)
  /\ LET d == CharactersDecoded([state |-> decoder, text |-> text],
                                 SubSeq(code, read + 1, read + n))
     IN decoder' = d.state /\ text' = d.text
  /\ read' = read + n
  /\ UNCHANGED <<plain, state_in, code, ended>>

Pieces == UNION {[1..n -> Byte] : n \in 1..MaxPiece}

CodeNext ==
  \/ \E piece \in Pieces :
       Len(plain) + Len(piece) <= MaxBytes /\ base64_encode_block(piece)
  \/ base64_encode_blockend
  \/ \E n \in 1..MaxPiece : base64_decode_block(n)

CodeSpec == CodeInit /\ [][CodeNext]_codeVars

----------------------------------------------------------------------------
(* The sizes of WebSockets::base64_encode(): of its buffer (length * 1.6 + *)
(* 1, cut to an integer), and of the text and the zero that go into it.    *)

BufferSize(length) == (length * 16) \div 10 + 1

TextSize(length) == 4 * ((length + 2) \div 3) + length \div (3 * PerLine) + 1

----------------------------------------------------------------------------
(* The code by its definition: three bytes, or what there is of them, are  *)
(* a number of 24 bits, which is written in digits of six; what no byte    *)
(* has a part in is padded.                                                *)
ByteAt(s, j) == IF j <= Len(s) THEN s[j] ELSE 0

Triple(s, g) ==
  65536 * ByteAt(s, 3 * g + 1) + 256 * ByteAt(s, 3 * g + 2) + ByteAt(s, 3 * g + 3)

Sextet(s, i) == (Triple(s, i \div 4) \div <<262144, 4096, 64, 1>>[(i % 4) + 1]) % 64

Meant(s, i) == IF 6 * i < 8 * Len(s) THEN base64_encode_value(Sextet(s, i)) ELSE Pad

(* In lines, which end after the last byte of a full one.                  *)
CodeSize(s) == 4 * ((Len(s) + 2) \div 3) + Len(s) \div (3 * PerLine)

CodeOf(s) ==
  [k \in 1..CodeSize(s) |->
     IF k % (CHARS_PER_LINE + 1) = 0 THEN NewLine
     ELSE Meant(s, k - 1 - k \div (CHARS_PER_LINE + 1))]

(* However a text and its code are cut, the code is that of the whole, in  *)
(* full lines; decoding passes over line ends and padding and gives the    *)
(* text back; and the code with its zero fits the buffer, unless the text  *)
(* has one, two, four or seven bytes: the keys, for which it is used, have *)
(* 16 and 20 (base64_encode_block, base64_decode_block, base64_encode).    *)
CodesAgree ==
  /\ ended => code = CodeOf(plain)
  /\ text = SubSeq(plain, 1, Len(text))
  /\ ended /\ read = Len(code) => text = plain
  /\ ended => Len(code) + 1 = TextSize(Len(plain))
  /\ CHARS_PER_LINE >= 20 /\ Len(plain) \notin {1, 2, 4, 7} =>
       TextSize(Len(plain)) <= BufferSize(Len(plain))
=============================================================================
