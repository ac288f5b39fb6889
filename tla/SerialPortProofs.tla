-------------------------- MODULE SerialPortProofs ---------------------------
(***************************************************************************)
(* Proofs about SerialPort, for every size of the buffers, every alphabet  *)
(* and every set of commands that SerialAssumption admits.                 *)
(***************************************************************************)
EXTENDS SerialPort, FiniteSetTheorems, TLAPS

-----------------------------------------------------------------------------
\* A key is shorter than the buffer and made of bytes that end no line.
LEMMA KeyFacts ==
  ASSUME SerialAssumption, NEW k \in Keys
  PROVE  /\ k \in Seq(Byte \ {Nul, Eol})
         /\ Len(k) \in 1 .. Size - 1
         /\ \A j \in 1 .. Len(k) : k[j] \in Byte \ {Nul, Eol} /\ j - 1 \in Index
<1>1. k \in Seq(Byte \ {Nul, Eol}) /\ Len(k) \in 1 .. Size - 1
  BY SerialAssumption DEF SerialAssumption
<1>2. QED
  BY <1>1, SerialAssumption DEF SerialAssumption, Index

\* strtok() only writes NUL.
LEMMA TokenizedFacts ==
  ASSUME SerialAssumption, NEW b \in [Index -> Byte], NEW n \in Nat
  PROVE  /\ Tokenized(b, n) \in [Index -> Byte]
         /\ \A p \in Index : Tokenized(b, n)[p] \in {b[p], Nul}
<1>1. Nul \in Byte
  BY SerialAssumption DEF SerialAssumption
<1>2. QED
  BY <1>1 DEF Tokenized

\* A command that matches after strtok() matched before.
LEMMA TokenizedMatches ==
  ASSUME SerialAssumption,
         NEW b \in [Index -> Byte], NEW n \in Nat, NEW k \in Keys,
         Matches(Tokenized(b, n), k)
  PROVE  Matches(b, k)
<1> SUFFICES ASSUME NEW j \in 1 .. Len(k)
             PROVE  b[j - 1] = k[j]
  BY DEF Matches
<1>1. j - 1 \in Index /\ k[j] # Nul
  BY KeyFacts
<1>2. Tokenized(b, n)[j - 1] = k[j]
  BY DEF Matches
<1>3. QED
  BY <1>1, <1>2, TokenizedFacts

\* Two commands never match the same buffer.
LEMMA OneMatch ==
  ASSUME SerialAssumption,
         NEW b, NEW k \in Keys, NEW l \in Keys, Matches(b, k), Matches(b, l)
  PROVE  k = l
<1>1. Len(l) \in Nat
  BY KeyFacts
<1>2. Matching(k, l)
  BY <1>1, KeyFacts DEF Matches, Matching
<1>3. QED
  BY <1>2, SerialAssumption DEF SerialAssumption

\* The first strtok() cuts the comma of the key itself.
LEMMA TokenizedCutsKey ==
  ASSUME SerialAssumption,
         NEW b \in [Index -> Byte], NEW k \in Keys, Matches(b, k),
         Fields[k] > 0
  PROVE  ~Matches(Tokenized(b, Fields[k]), k)
<1> DEFINE p == Len(k) - 1
<1>1. /\ Len(k) \in 2 .. Size - 1 /\ p \in 1 .. Size - 2 /\ p \in Index
      /\ k[Len(k)] = Comma
      /\ \A j \in 1 .. Len(k) - 1 : k[j] # Comma
  BY KeyFacts, SerialAssumption DEF SerialAssumption, Index
<1>2. \A q \in 0 .. p : q + 1 \in 1 .. Len(k) /\ b[q] = k[q + 1]
  BY <1>1 DEF Matches
<1>3. \A q \in 0 .. p : b[q] # Nul
  BY <1>2, KeyFacts
<1>4. \A q \in 0 .. p - 1 : b[q] # Comma
  BY <1>1, <1>2
<1>5. b[p] = Comma
  BY <1>1, <1>2
<1>6. p \in TokenEnds(b)
  <2>1. p \in 1 .. Size - 1 /\ p - 1 \in 0 .. p - 1
    BY <1>1, SerialAssumption DEF SerialAssumption
  <2>2. b[p - 1] # Comma
    BY <2>1, <1>4
  <2> HIDE DEF p
  <2>3. QED
    BY <2>1, <2>2, <1>3, <1>5 DEF TokenEnds
<1>7. {q \in TokenEnds(b) : q < p} = {}
  <2> SUFFICES ASSUME NEW q \in TokenEnds(b), q < p
               PROVE  FALSE
    OBVIOUS
  <2>1. q \in 1 .. Size - 1 /\ b[q] = Comma
    BY DEF TokenEnds
  <2>2. QED
    BY <1>1, <1>4, <2>1
<1>8. Cardinality({q \in TokenEnds(b) : q < p}) < Fields[k]
  <2>1. Fields[k] \in Nat
    BY SerialAssumption DEF SerialAssumption
  <2>2. QED
    BY <1>7, <2>1, FS_EmptySet
<1>9. Tokenized(b, Fields[k])[p] = Nul
  BY <1>1, <1>6, <1>8 DEF Tokenized
<1>10. k[p + 1] # Nul /\ p + 1 \in 1 .. Len(k)
  BY <1>1, KeyFacts
<1>11. QED
  BY <1>9, <1>10 DEF Matches

-----------------------------------------------------------------------------
\* The last byte of the buffer is never anything but NUL, a tokenized command
\* was cut, and within a line that ended the terminator is in its place.
SerialInv ==
    /\ SerialTypeOK
    /\ Terminated
    /\ ~fresh => \A k \in Keys : Matches(buf, k) => Fields[k] = 0
    /\ ended => task = "processEvent" /\ buf[i] = Nul

\* Every variable keeps its type and the invariant holds, for every size.
THEOREM SerialCorrect ==
  ASSUME SerialAssumption
  PROVE  SerialSpec => []SerialInv
<1> USE DEF SerialAssumption, Index
<1>1. SerialInit => SerialInv
  <2> SUFFICES ASSUME SerialInit
               PROVE  SerialInv
    OBVIOUS
  <2>1. SerialTypeOK /\ Terminated
    <3>1. 0 \in Index /\ Size - 1 \in Index /\ << >> \in Seq(Byte)
      OBVIOUS
    <3>2. Len(<< >>) = 0 /\ 0 <= MaxRx /\ [p \in Index |-> Nul] \in [Index -> Byte]
      OBVIOUS
    <3>3. QED
      BY <3>1, <3>2 DEF SerialInit, SerialTypeOK, Terminated
  <2>2. \A k \in Keys : ~Matches(buf, k)
    <3> SUFFICES ASSUME NEW k \in Keys, Matches(buf, k)
                 PROVE  FALSE
      OBVIOUS
    <3>1. 1 \in 1 .. Len(k) /\ k[1] # Nul /\ 1 - 1 \in Index
      BY KeyFacts
    <3>2. buf[1 - 1] = k[1]
      BY <3>1 DEF Matches
    <3>3. QED
      BY <3>1, <3>2 DEF SerialInit
  <2>3. QED
    BY <2>1, <2>2 DEF SerialInit, SerialInv
<1>2. ASSUME SerialInv, [SerialNext]_serialVars
      PROVE  SerialInv'
  <2> USE <1>2
  <2>0. SerialTypeOK /\ Terminated
    BY DEF SerialInv
  <2>1. ASSUME NEW b \in Byte, Arrive(b)
        PROVE  SerialInv'
    <3>1. rx' \in Seq(Byte) /\ Len(rx') <= MaxRx
      BY <2>0, <2>1 DEF Arrive, SerialTypeOK
    <3>2. QED
      BY <2>0, <2>1, <3>1 DEF Arrive, SerialInv, SerialTypeOK, Terminated, Matches
  <2>2. ASSUME rx # << >>
        PROVE  /\ Head(rx) \in Byte /\ Tail(rx) \in Seq(Byte)
               /\ Len(Tail(rx)) <= MaxRx
    BY <2>0, <2>2 DEF SerialTypeOK
  <2>3. CASE ReadEnd
    <3>1. rx' \in Seq(Byte) /\ Len(rx') <= MaxRx
      BY <2>2, <2>3 DEF ReadEnd
    <3>2. buf' \in [Index -> Byte] /\ buf'[i] = Nul /\ buf'[Size - 1] = Nul
      BY <2>0, <2>3 DEF ReadEnd, SerialTypeOK, Terminated
    <3>3. QED
      BY <2>0, <2>3, <3>1, <3>2 DEF ReadEnd, SerialInv, SerialTypeOK, Terminated
  <2>4. CASE ReadByte
    <3>1. Head(rx) \in Byte /\ rx' \in Seq(Byte) /\ Len(rx') <= MaxRx
      BY <2>2, <2>4 DEF ReadByte
    <3>2. i \in 0 .. Size - 2 /\ i' \in Index
      BY <2>0, <2>4 DEF ReadByte, Full, SerialTypeOK
    <3>3. buf' \in [Index -> Byte] /\ buf'[Size - 1] = Nul
      BY <2>0, <2>4, <3>1, <3>2 DEF ReadByte, SerialTypeOK, Terminated
    <3>4. QED
      BY <2>0, <2>4, <3>1, <3>2, <3>3
         DEF ReadByte, SerialInv, SerialTypeOK, Terminated
  <2>5. CASE ReadTooMany
    <3>1. rx' \in Seq(Byte) /\ Len(rx') <= MaxRx
      BY <2>2, <2>5 DEF ReadTooMany
    <3>2. QED
      BY <2>0, <2>5, <3>1 DEF ReadTooMany, SerialInv, SerialTypeOK, Terminated
  <2>6. CASE ReadNothing
    BY <2>0, <2>6 DEF ReadNothing, SerialInv, SerialTypeOK, Terminated, Matches
  <2>a. ASSUME Process
        PROVE  /\ rx' = rx /\ i' = 0 /\ i' \in Index /\ task' = "listen"
               /\ ~ended' /\ ended' \in BOOLEAN /\ fresh' \in BOOLEAN
    <3>1. /\ rx' = rx /\ i' = 0 /\ task' = "listen" /\ ended' = FALSE
          /\ fresh' = FALSE \/ fresh' = fresh
      BY <2>a DEF Process
    <3>2. 0 \in Index
      OBVIOUS
    <3>3. fresh \in BOOLEAN
      BY <2>0 DEF SerialTypeOK
    <3>4. QED
      BY <3>1, <3>2, <3>3
  <2>7. ASSUME NEW k \in Keys, Process, Matches(buf, k),
               buf' = Tokenized(buf, Fields[k]), ~fresh'
        PROVE  SerialInv'
    <3>1. buf \in [Index -> Byte] /\ Fields[k] \in Nat
      BY <2>0 DEF SerialTypeOK
    <3>2. buf' \in [Index -> Byte] /\ buf'[Size - 1] = Nul
      BY <2>0, <2>7, <3>1, TokenizedFacts DEF Terminated
    <3>3. ASSUME NEW l \in Keys, Matches(buf', l)
          PROVE  Fields[l] = 0
      <4>1. Matches(buf, l)
        BY <2>7, <3>1, <3>3, TokenizedMatches
      <4>2. l = k
        BY <2>7, <4>1, OneMatch
      <4>3. ~(Fields[k] > 0)
        BY <2>7, <3>1, <3>3, <4>2, TokenizedCutsKey
      <4>4. QED
        BY <3>1, <4>2, <4>3
    <3>4. \A l \in Keys : Matches(buf, l)' => Fields[l] = 0
      BY <3>3 DEF Matches
    <3>5. SerialTypeOK' /\ Terminated' /\ ~ended'
      BY <2>a, <2>0, <2>7, <3>2 DEF SerialTypeOK, Terminated
    <3>6. QED
      BY <3>4, <3>5 DEF SerialInv
  <2>8. ASSUME Process, UNCHANGED <<buf, fresh>>
        PROVE  SerialInv'
    <3>1. SerialTypeOK' /\ Terminated' /\ ~ended'
      BY <2>a, <2>0, <2>8 DEF SerialTypeOK, Terminated
    <3>2. \A l \in Keys : Matches(buf, l)' <=> Matches(buf, l)
      BY <2>8 DEF Matches
    <3>3. ~fresh' => \A l \in Keys : Matches(buf, l)' => Fields[l] = 0
      BY <2>8, <3>2 DEF SerialInv
    <3>4. QED
      BY <3>1, <3>3 DEF SerialInv
  <2>9. CASE UNCHANGED serialVars
    BY <2>0, <2>9 DEF serialVars, SerialInv, SerialTypeOK, Terminated, Matches
  <2>10. CASE Process
    BY <2>7, <2>8, <2>10 DEF Process
  <2>11. QED
    BY <2>1, <2>3, <2>4, <2>5, <2>6, <2>9, <2>10 DEF SerialNext
<1>3. QED
  BY <1>1, <1>2, PTL DEF SerialSpec

\* The handlers never read or write past the buffer, whatever arrives.
THEOREM AlwaysTerminated ==
  ASSUME SerialAssumption
  PROVE  SerialSpec => []Terminated
<1>1. SerialInv => Terminated
  BY DEF SerialInv
<1>2. QED
  BY <1>1, SerialCorrect, PTL

\* S and IN are executed once for the bytes that were read.
THEOREM TokenizedRunOnce ==
  ASSUME SerialAssumption
  PROVE  SerialSpec => []TokenizedOnce
<1>1. SerialInv => TokenizedOnce
  BY DEF SerialInv, TokenizedOnce
<1>2. QED
  BY <1>1, SerialCorrect, PTL

\* A line that ended is not mixed with what earlier lines left behind.
THEOREM LinesDecide ==
  ASSUME SerialAssumption
  PROVE  SerialSpec => []LineDecides
<1>1. SerialInv => LineDecides
  <2> SUFFICES ASSUME SerialInv, NEW k \in Keys, ended, Matches(buf, k),
                      ~(Len(k) <= i)
               PROVE  FALSE
    BY DEF LineDecides
  <2>1. i \in Index /\ buf[i] = Nul
    BY DEF SerialInv, SerialTypeOK
  <2>2. i + 1 \in 1 .. Len(k) /\ (i + 1) - 1 = i
    BY <2>1, KeyFacts DEF Index
  <2>3. buf[i] = k[i + 1]
    BY <2>2 DEF Matches
  <2>4. QED
    BY <2>1, <2>2, <2>3, KeyFacts
<1>2. QED
  BY <1>1, SerialCorrect, PTL
=============================================================================
