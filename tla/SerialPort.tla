----------------------------- MODULE SerialPort ------------------------------
(***************************************************************************)
(* The line buffer between the roaster's serial port and its commands:     *)
(* serial/SerialPort.cpp, and what the handlers of Manager.cpp do to the   *)
(* buffer they are given (strtok() writes into it).                        *)
(*                                                                         *)
(* Bytes arrive at any time.  listen() copies them into comandoFromAtmega  *)
(* until a line ends, none is waiting or the buffer is full; then          *)
(* processEvent() runs the command the buffer begins with.  Nobody ever    *)
(* clears the buffer.                                                      *)
(***************************************************************************)
EXTENDS Integers, Sequences, FiniteSets

CONSTANTS
    Size,     \* size of comandoFromAtmega (50 in the code)
    Byte,     \* the bytes the roaster sends
    Nul,
    Eol,      \* '\n' and '\r'
    Comma,
    Keys,     \* the main commands, as sequences of bytes
    Fields,   \* how often the handler of a command calls strtok()
    MaxRx     \* size of the receive buffer of the serial driver

Matching(k, l) == \A j \in 1 .. Len(k) : j <= Len(l) => k[j] = l[j]

SerialAssumption ==
    /\ Size \in Nat \ {0, 1}
    /\ MaxRx \in Nat \ {0}
    /\ {Nul, Eol, Comma} \subseteq Byte
    /\ Nul # Eol /\ Comma \notin {Nul, Eol}
    /\ Keys \subseteq Seq(Byte \ {Nul, Eol})
    /\ Fields \in [Keys -> Nat]
    /\ \A k \in Keys :
         /\ Len(k) \in 1 .. Size - 1
         \* the handlers that tokenize belong to "S," and "IN,"
         /\ Fields[k] > 0 =>
              /\ Len(k) > 1 /\ k[Len(k)] = Comma
              /\ \A j \in 1 .. Len(k) - 1 : k[j] # Comma
    \* no command begins with another, so the order of the map is irrelevant
    /\ \A k, l \in Keys : Matching(k, l) => k = l

VARIABLES
    rx,        \* bytes received and not read
    buf,       \* comandoFromAtmega
    i,         \* where listen() writes next
    task,      \* the part of the iteration that is executing
    \* what an observer knows
    ended,     \* the last listen() saw the end of a line
    fresh      \* a byte was read since a command last ran

serialVars == <<rx, buf, i, task, ended, fresh>>

Index == 0 .. Size - 1

SerialTypeOK ==
    /\ rx \in Seq(Byte) /\ Len(rx) <= MaxRx
    /\ buf \in [Index -> Byte]
    /\ i \in Index
    /\ task \in {"listen", "processEvent"}
    /\ ended \in BOOLEAN
    /\ fresh \in BOOLEAN
-----------------------------------------------------------------------------
\* compare(): the buffer begins with the key.
Matches(b, k) == \A j \in 1 .. Len(k) : b[j - 1] = k[j]

\* The commas that end a token, in the string that the buffer holds.
TokenEnds(b) ==
    {p \in 1 .. Size - 1 : /\ b[p] = Comma /\ b[p - 1] # Comma
                           /\ \A q \in 0 .. p : b[q] # Nul}

\* Mutant: a tokenizer that leaves the string alone.
TokenizedCopy(b, n) == b

\* n calls of strtok() write NUL over the first n of them.
Tokenized(b, n) ==
    LET before(p) == {q \in TokenEnds(b) : q < p}
    IN  [p \in Index |->
           IF p \in TokenEnds(b) /\ Cardinality(before(p)) < n
             THEN Nul ELSE b[p]]
-----------------------------------------------------------------------------
SerialInit ==
    /\ rx = << >>
    /\ buf = [p \in Index |-> Nul]
    /\ i = 0
    /\ task = "listen"
    /\ ended = FALSE
    /\ fresh = FALSE

\* A byte arrives; it is lost when the driver's buffer is full.
Arrive(b) ==
    /\ rx' = IF Len(rx) < MaxRx THEN Append(rx, b) ELSE rx
    /\ UNCHANGED <<buf, i, task, ended, fresh>>

\* Mutant: an end of line that only stops the reading.
ReadEndUnwritten ==
    /\ task = "listen"
    /\ rx # << >> /\ Head(rx) \in {Nul, Eol}
    /\ rx' = Tail(rx)
    /\ task' = "processEvent"
    /\ ended' = TRUE
    /\ fresh' = TRUE
    /\ UNCHANGED <<buf, i>>

\* listen(): a NUL or an end of line terminates the command.
ReadEnd ==
    /\ task = "listen"
    /\ rx # << >> /\ Head(rx) \in {Nul, Eol}
    /\ rx' = Tail(rx)
    /\ buf' = [buf EXCEPT ![i] = Nul]
    /\ task' = "processEvent"
    /\ ended' = TRUE
    /\ fresh' = TRUE
    /\ UNCHANGED i

\* Only the terminator may be written behind the last but one byte.
Full == i > Size - 2

ReadByte ==
    /\ task = "listen"
    /\ rx # << >> /\ Head(rx) \notin {Nul, Eol}
    /\ ~Full
    /\ rx' = Tail(rx)
    /\ buf' = [buf EXCEPT ![i] = Head(rx)]
    /\ i' = i + 1
    /\ fresh' = TRUE
    /\ UNCHANGED <<task, ended>>

\* The byte that does not fit any more was read: it is lost, and the rest of
\* the line is left for the next listen(), which takes it for a new command.
ReadTooMany ==
    /\ task = "listen"
    /\ rx # << >> /\ Head(rx) \notin {Nul, Eol}
    /\ Full
    /\ rx' = Tail(rx)
    /\ task' = "processEvent"
    /\ fresh' = TRUE
    /\ UNCHANGED <<buf, i, ended>>

\* No byte is waiting: the command may be incomplete.
ReadNothing ==
    /\ task = "listen"
    /\ rx = << >>
    /\ task' = "processEvent"
    /\ UNCHANGED <<rx, buf, i, ended, fresh>>

\* processEvent() and the handler it calls.
Process ==
    /\ task = "processEvent"
    /\ \/ \E k \in Keys : /\ Matches(buf, k)
                          /\ buf' = Tokenized(buf, Fields[k])
                          /\ fresh' = FALSE
       \/ /\ \A k \in Keys : ~Matches(buf, k)
          /\ UNCHANGED <<buf, fresh>>
    /\ task' = "listen"
    /\ i' = 0
    /\ ended' = FALSE
    /\ UNCHANGED rx

SerialNext ==
    \/ \E b \in Byte : Arrive(b)
    \/ ReadEnd
    \/ ReadByte
    \/ ReadTooMany
    \/ ReadNothing
    \/ Process

SerialSpec == SerialInit /\ [][SerialNext]_serialVars
-----------------------------------------------------------------------------
\* Whatever arrives, however long a line is and wherever the reading stops,
\* the buffer holds a terminated string, so that the handlers' strtok() and
\* strcpy() stay inside it.
Terminated == buf[Size - 1] = Nul

\* A command that tokenizes the buffer (S, IN) is executed at most once for
\* the bytes that were read: strtok() has destroyed its own key, so the next
\* iterations do not start the access point and save the credentials again.
\* The other commands do run again in every iteration without new bytes.
TokenizedOnce ==
    \A k \in Keys :
        task = "processEvent" /\ Matches(buf, k) /\ Fields[k] > 0 => fresh

\* When a whole line was read, what earlier lines left behind it in the
\* buffer has no part in choosing the command.
LineDecides ==
    \A k \in Keys :
        task = "processEvent" /\ ended /\ Matches(buf, k) => Len(k) <= i
=============================================================================
