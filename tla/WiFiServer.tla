------------------------------ MODULE WiFiServer ------------------------------
(***************************************************************************)
(* WiFiServer: the listening socket, and the connection that hasClient()   *)
(* has accepted ahead of available().  Sockets are numbered in the order   *)
(* lwIP opens them; a connection waits in lwIP's queue until it is         *)
(* accepted.  The socket calls may fail.                                   *)
(*                                                                         *)
(* tidy is the use that WebSocketsServer makes of it: end() before every   *)
(* begin(), hasClient() only in between, and available() right after it.   *)
(***************************************************************************)
EXTENDS Integers, SequencesExt, TLAPS

CONSTANTS
    Connections,       \* bound: the connections that arrive
    Starts,            \* bound: the calls of begin() that open a socket
    Backlog            \* _max_clients

ServerAssumption ==
    Connections \in Nat /\ Starts \in Nat /\ Backlog \in Nat \ {0}

VARIABLES
    listening,         \* _listening
    sockfd,            \* the listening socket, a number of its own; -1 for none
    accepted,          \* _accepted_sockfd: a connection, or -1
    queue,             \* the connections that wait in lwIP
    arrived,           \* how many have arrived
    \* history
    starts,
    open,              \* the listening sockets that are open
    handed,            \* the connections available() has returned, in order
    dropped,           \* the connections it has lost to a failed setsockopt()
    gone,              \* the connections that waited when the server ended
    tidy               \* the calls have been tidy so far

vars == <<listening, sockfd, accepted, queue, arrived, starts, open, handed, dropped, gone, tidy>>

None == -1

Init ==
    /\ listening = FALSE /\ sockfd = None /\ accepted = None
    /\ queue = << >> /\ arrived = 0
    /\ starts = 0 /\ open = {} /\ handed = << >> /\ dropped = {} /\ gone = {}
    /\ tidy = TRUE

Arrives ==
    /\ listening /\ arrived < Connections /\ Len(queue) < Backlog
    /\ arrived' = arrived + 1
    /\ queue' = Append(queue, arrived')
    /\ UNCHANGED <<listening, sockfd, accepted, starts, open, handed, dropped, gone, tidy>>

forgetAccepted == accepted' = None

\* begin(): the socket is kept when bind() or listen() fails.
begin ==
    /\ ~ listening
    /\ tidy' = (tidy /\ sockfd = None)
    /\ starts < Starts
    /\ starts' = starts + 1
    /\ \/ sockfd' = None /\ UNCHANGED <<listening, accepted, open>>
       \/ /\ sockfd' = starts'
          /\ open' = open \cup {sockfd'}
          /\ \/ UNCHANGED <<listening, accepted>>
             \/ listening' = TRUE /\ forgetAccepted
    /\ UNCHANGED <<queue, arrived, handed, dropped, gone>>

\* hasClient() accepts a connection unless it holds one.
accept ==
    IF accepted = None /\ queue # << >>
      THEN accepted' = Head(queue) /\ queue' = Tail(queue)
      ELSE UNCHANGED <<accepted, queue>>

hasClient ==
    /\ tidy' = (tidy /\ listening)
    /\ accept
    /\ UNCHANGED <<listening, sockfd, arrived, starts, open, handed, dropped, gone>>

\* The connection available() takes: the one that hasClient() accepted, or the
\* first that waits.
NextClient ==
    IF accepted # None THEN accepted ELSE IF queue # << >> THEN Head(queue) ELSE None

takeAccepted == accepted' = None

\* available(): a connection whose options cannot be set is not returned, and
\* not closed.
available ==
    /\ listening
    /\ NextClient # None
    /\ takeAccepted
    /\ IF accepted # None THEN UNCHANGED queue ELSE queue' = Tail(queue)
    /\ \/ handed' = Append(handed, NextClient) /\ UNCHANGED dropped
       \/ dropped' = dropped \cup {NextClient} /\ UNCHANGED handed
    /\ UNCHANGED <<listening, sockfd, arrived, starts, open, gone, tidy>>

\* Mutant: the number of the socket is kept.
endKeep == open' = open /\ sockfd' = None

closeListening == open' = open \ {sockfd} /\ sockfd' = None

\* end(): the connections that lwIP holds are reset; accepted stays.
end ==
    /\ tidy' = (tidy /\ accepted = None)
    /\ sockfd # None
    /\ closeListening
    /\ listening' = FALSE
    /\ gone' = gone \cup ToSet(queue)
    /\ queue' = << >>
    /\ UNCHANGED <<accepted, arrived, starts, handed, dropped>>

Next == Arrives \/ begin \/ hasClient \/ available \/ end

\* The sketch, or WebSocketsServer::loop(), polls.
Spec == Init /\ [][Next]_vars
-----------------------------------------------------------------------------
Seen == ToSet(handed)
Waiting == ToSet(queue)

\* Connections are handed over in the order they arrived, each once, whether or
\* not hasClient() was asked before.
HandedInOrder ==
    \A i, j \in DOMAIN handed : i < j => handed[i] < handed[j]

\* A connection is never overlooked: it waits, is held, was handed over, or one
\* of its calls failed, or the server ended while it waited.
NothingOverlooked ==
    tidy => 1 .. arrived = Seen \cup Waiting \cup dropped \cup gone
                             \cup ({accepted} \ {None})

\* With end() before every begin() at most one listening socket is open, and
\* that is the one the server knows.
NoSocketLeft == tidy => open = {sockfd} \ {None}

\* A connection that arrives is handed over, unless a call fails, the server ends
\* first or the calls are not tidy.
Served == \A c \in 1 .. Connections :
    c \in Waiting ~> c \in Seen \cup dropped \cup gone \/ ~ tidy

\* The property WebSocketsServer relies on when it wraps what available()
\* returns right after hasClient() said yes: the held connection is only given
\* up by handing it over, or with the server.
HeldUntilTaken ==
    [][accepted # None /\ accepted' # accepted =>
          accepted \in Seen' \cup dropped' \/ ~ listening]_vars
-----------------------------------------------------------------------------
(* Proofs, for any number of connections, starts and waiting places. *)

ServerTypeOK ==
    /\ listening \in BOOLEAN
    /\ starts \in Nat /\ arrived \in Nat
    /\ sockfd \in Nat \cup {None}
    /\ accepted \in Nat \cup {None}
    /\ queue \in Seq(Nat) /\ handed \in Seq(Nat)

\* What increases along a sequence.
Rises(s) == \A i, j \in DOMAIN s : i < j => s[i] < s[j]

\* The connections handed over, the one that is held and those that wait come
\* in this order, and all have arrived.
Ordered ==
    /\ Rises(handed) /\ Rises(queue)
    /\ \A i \in DOMAIN handed, j \in DOMAIN queue : handed[i] < queue[j]
    /\ accepted # None => /\ \A i \in DOMAIN handed : handed[i] < accepted
                          /\ \A j \in DOMAIN queue : accepted < queue[j]
                          /\ accepted <= arrived
    /\ \A i \in DOMAIN handed : handed[i] <= arrived
    /\ \A j \in DOMAIN queue : queue[j] <= arrived

\* A server that was ended holds nothing.
EndedHoldsNothing == tidy /\ ~ listening => accepted = None

ServerInv ==
    /\ Ordered /\ EndedHoldsNothing /\ NothingOverlooked /\ NoSocketLeft

\* What a sequence holds after Append() and after Tail().
LEMMA AppendHolds ==
  ASSUME NEW s \in Seq(Nat), NEW n \in Nat
  PROVE  /\ Append(s, n) \in Seq(Nat)
         /\ DOMAIN s = 1 .. Len(s) /\ Len(s) \in Nat
         /\ DOMAIN Append(s, n) = 1 .. Len(s) + 1
         /\ \A i \in DOMAIN s : Append(s, n)[i] = s[i]
         /\ Append(s, n)[Len(s) + 1] = n
         /\ ToSet(Append(s, n)) = ToSet(s) \cup {n}
<1>1. /\ Append(s, n) \in Seq(Nat)
      /\ DOMAIN s = 1 .. Len(s) /\ Len(s) \in Nat
      /\ Len(Append(s, n)) = Len(s) + 1
      /\ DOMAIN Append(s, n) = 1 .. Len(Append(s, n))
      /\ \A i \in 1 .. Len(s) : Append(s, n)[i] = s[i]
      /\ Append(s, n)[Len(s) + 1] = n
  OBVIOUS
<1>2. ASSUME NEW x
      PROVE  x \in ToSet(Append(s, n)) <=> x \in ToSet(s) \cup {n}
  <2>1. \A i : i \in 1 .. Len(s) + 1 <=> i \in 1 .. Len(s) \/ i = Len(s) + 1
    BY <1>1
  <2> QED
    BY <1>1, <2>1 DEF ToSet
<1> QED
  BY <1>1, <1>2

LEMMA TailHolds ==
  ASSUME NEW s \in Seq(Nat), s # << >>
  PROVE  /\ Tail(s) \in Seq(Nat) /\ Head(s) \in Nat
         /\ DOMAIN s = 1 .. Len(s) /\ Len(s) \in Nat \ {0}
         /\ Head(s) = s[1]
         /\ DOMAIN Tail(s) = 1 .. Len(s) - 1
         /\ \A i \in DOMAIN Tail(s) : Tail(s)[i] = s[i + 1]
         /\ ToSet(s) = ToSet(Tail(s)) \cup {Head(s)}
<1>1. /\ Tail(s) \in Seq(Nat) /\ Head(s) \in Nat
      /\ DOMAIN s = 1 .. Len(s) /\ Len(s) \in Nat \ {0}
      /\ Head(s) = s[1]
      /\ Len(Tail(s)) = Len(s) - 1
      /\ DOMAIN Tail(s) = 1 .. Len(Tail(s))
      /\ \A i \in 1 .. Len(s) - 1 : Tail(s)[i] = s[i + 1]
  OBVIOUS
<1>2. ASSUME NEW i \in 1 .. Len(s)
      PROVE  s[i] \in ToSet(Tail(s)) \cup {Head(s)}
  <2>1. CASE i = 1
    BY <2>1, <1>1 DEF ToSet
  <2>2. CASE i # 1
    <3>1. PICK k : k = i - 1
      OBVIOUS
    <3>2. k \in 1 .. Len(s) - 1 /\ Tail(s)[k] = s[i]
      BY <1>1, <2>2, <3>1
    <3> QED
      BY <1>1, <3>2 DEF ToSet
  <2> QED
    BY <2>1, <2>2
<1>3. ASSUME NEW k \in 1 .. Len(s) - 1
      PROVE  Tail(s)[k] \in ToSet(s)
  BY <1>1 DEF ToSet
<1>4. Head(s) \in ToSet(s)
  BY <1>1 DEF ToSet
<1>5. ASSUME NEW x
      PROVE  x \in ToSet(s) <=> x \in ToSet(Tail(s)) \cup {Head(s)}
  <2>1. ASSUME x \in ToSet(s)
        PROVE  x \in ToSet(Tail(s)) \cup {Head(s)}
    <3>1. PICK i \in 1 .. Len(s) : x = s[i]
      BY <1>1, <2>1 DEF ToSet
    <3> QED
      BY <1>2, <3>1
  <2>2. ASSUME x \in ToSet(Tail(s))
        PROVE  x \in ToSet(s)
    <3>1. PICK k \in 1 .. Len(s) - 1 : x = Tail(s)[k]
      BY <1>1, <2>2 DEF ToSet
    <3> QED
      BY <1>3, <3>1
  <2> QED
    BY <1>4, <2>1, <2>2
<1> QED
  BY <1>1, <1>5

\* The order of a sequence is kept by Tail(), and by Append() of a greater
\* number.
LEMMA TailRises ==
  ASSUME NEW s \in Seq(Nat), s # << >>, Rises(s)
  PROVE  Rises(Tail(s)) /\ \A k \in DOMAIN Tail(s) : Head(s) < Tail(s)[k]
<1>1. ASSUME NEW k \in DOMAIN Tail(s)
      PROVE  /\ k \in Nat /\ k + 1 \in DOMAIN s /\ 1 \in DOMAIN s /\ 1 < k + 1
             /\ Tail(s)[k] = s[k + 1]
  BY TailHolds
<1>2. ASSUME NEW k \in DOMAIN Tail(s)
      PROVE  Head(s) < Tail(s)[k]
  <2>1. PICK m : m = k + 1
    OBVIOUS
  <2>2. s[1] < s[m]
    BY <1>1, <2>1 DEF Rises
  <2> QED
    BY <1>1, <2>1, <2>2, TailHolds
<1>3. ASSUME NEW i \in DOMAIN Tail(s), NEW j \in DOMAIN Tail(s), i < j
      PROVE  Tail(s)[i] < Tail(s)[j]
  <2>1. PICK m, n : m = i + 1 /\ n = j + 1
    OBVIOUS
  <2>2. m \in DOMAIN s /\ n \in DOMAIN s /\ m < n
    BY <1>1, <1>3, <2>1
  <2>3. s[m] < s[n]
    BY <2>2 DEF Rises
  <2> QED
    BY <1>1, <2>1, <2>3
<1> QED
  BY <1>2, <1>3 DEF Rises

LEMMA AppendRises ==
  ASSUME NEW s \in Seq(Nat), NEW n \in Nat, Rises(s),
         \A i \in DOMAIN s : s[i] < n
  PROVE  /\ Rises(Append(s, n))
         /\ \A i \in DOMAIN Append(s, n) : Append(s, n)[i] <= n
<1>1. ASSUME NEW i \in DOMAIN Append(s, n)
      PROVE  /\ i \in Nat /\ i <= Len(s) + 1 /\ Len(s) \in Nat
             /\ \/ i \in DOMAIN s /\ Append(s, n)[i] = s[i] /\ s[i] \in Nat
                \/ i = Len(s) + 1 /\ Append(s, n)[i] = n
  BY AppendHolds
<1>2. ASSUME NEW i \in DOMAIN Append(s, n)
      PROVE  Append(s, n)[i] <= n
  BY <1>1
<1>3. ASSUME NEW i \in DOMAIN Append(s, n), NEW j \in DOMAIN Append(s, n), i < j
      PROVE  Append(s, n)[i] < Append(s, n)[j]
  <2>1. i \in DOMAIN s /\ Append(s, n)[i] = s[i]
    BY <1>1, <1>3
  <2>2. CASE j \in DOMAIN s /\ Append(s, n)[j] = s[j]
    BY <1>3, <2>1, <2>2 DEF Rises
  <2>3. CASE Append(s, n)[j] = n
    BY <2>1, <2>3
  <2> QED
    BY <1>1, <2>2, <2>3
<1> QED
  BY <1>2, <1>3 DEF Rises

LEMMA ServerTypes ==
  ASSUME ServerAssumption
  PROVE  Spec => []ServerTypeOK
<1>1. ASSUME Init
      PROVE  ServerTypeOK
  <2>1. queue \in Seq(Nat) /\ handed \in Seq(Nat)
    BY <1>1 DEF Init
  <2>2. starts \in Nat /\ arrived \in Nat /\ listening \in BOOLEAN
    BY <1>1 DEF Init
  <2> QED
    BY <1>1, <2>1, <2>2 DEF Init, ServerTypeOK
<1>2. ASSUME ServerTypeOK, [Next]_vars
      PROVE  ServerTypeOK'
  <2> USE <1>2 DEF ServerTypeOK
  <2>1. CASE Arrives
    <3>1. arrived' \in Nat /\ queue' = Append(queue, arrived')
      BY <2>1 DEF Arrives
    <3>2. queue' \in Seq(Nat)
      BY <3>1, AppendHolds
    <3>3. UNCHANGED <<listening, sockfd, accepted, starts, handed>>
      BY <2>1 DEF Arrives
    <3>4. listening' \in BOOLEAN
      BY <3>3, Zenon
    <3> QED
      BY <3>1, <3>2, <3>3, <3>4, Zenon
  <2>2. CASE begin
    <3>1. /\ starts' \in Nat /\ sockfd' \in Nat \cup {None}
          /\ accepted' \in Nat \cup {None}
      BY <2>2 DEF begin, forgetAccepted
    <3>2. listening' = listening \/ listening' = TRUE
      BY <2>2 DEF begin
    <3>3. listening' \in BOOLEAN
      BY <3>2, Zenon
    <3>4. UNCHANGED <<queue, arrived, handed>>
      BY <2>2 DEF begin
    <3> QED
      BY <3>1, <3>3, <3>4, Zenon
  <2>3. CASE hasClient
    <3>1. accepted' \in Nat \cup {None} /\ queue' \in Seq(Nat)
      BY <2>3, TailHolds DEF hasClient, accept
    <3> QED
      BY <2>3, <3>1 DEF hasClient
  <2>4. CASE available
    <3>1. NextClient \in Nat
      BY <2>4, TailHolds DEF available, NextClient
    <3>3. queue' \in Seq(Nat)
      <4>1. CASE accepted # None
        BY <4>1, <2>4 DEF available
      <4>2. CASE accepted = None
        <5>1. queue # << >> /\ queue' = Tail(queue)
          BY <4>2, <2>4 DEF available, NextClient
        <5> QED
          BY <5>1, TailHolds
      <4> QED
        BY <4>1, <4>2
    <3>2. handed' \in Seq(Nat)
      <4>1. handed' \in {handed, Append(handed, NextClient)}
        BY <2>4 DEF available
      <4> QED
        BY <3>1, <4>1, AppendHolds, SMTT(30)
    <3>4. accepted' = None /\ UNCHANGED <<listening, sockfd, arrived, starts>>
      BY <2>4 DEF available, takeAccepted
    <3>5. listening' \in BOOLEAN
      BY <3>4, Zenon
    <3> QED
      BY <3>2, <3>3, <3>4, <3>5, Zenon
  <2>5. CASE end
    <3>1. queue' \in Seq(Nat)
      BY <2>5 DEF end
    <3>2. /\ listening' = FALSE /\ sockfd' = None
          /\ UNCHANGED <<accepted, arrived, starts, handed>>
      BY <2>5 DEF end, closeListening
    <3> QED
      BY <3>1, <3>2, Zenon
  <2>6. CASE UNCHANGED vars
    BY <2>6 DEF vars
  <2> QED
    BY <2>1, <2>2, <2>3, <2>4, <2>5, <2>6 DEF Next
<1> QED
  BY <1>1, <1>2, PTL DEF Spec

\* Every step keeps the order and the account.
LEMMA ServerStep ==
  ASSUME ServerTypeOK, ServerTypeOK', ServerInv, [Next]_vars
  PROVE  ServerInv'
<1> USE DEF ServerTypeOK
<1>0. /\ None \notin Nat
      /\ DOMAIN handed = 1 .. Len(handed) /\ Len(handed) \in Nat
      /\ DOMAIN queue = 1 .. Len(queue) /\ Len(queue) \in Nat
      /\ \A i \in DOMAIN handed : handed[i] \in Nat
      /\ \A j \in DOMAIN queue : queue[j] \in Nat
  BY DEF None
<1>7. /\ \A i \in DOMAIN handed' : handed'[i] \in Nat
       /\ \A j \in DOMAIN queue' : queue'[j] \in Nat
  BY SMTT(30)
<1>1. CASE Arrives
  <2>1. /\ listening /\ arrived' = arrived + 1
        /\ queue' = Append(queue, arrived')
        /\ UNCHANGED <<listening, sockfd, accepted, starts, open, handed, dropped, gone, tidy>>
    BY <1>1 DEF Arrives
  <2>2. Waiting' = Waiting \cup {arrived'}
    BY <2>1, AppendHolds, Zenon DEF Waiting
  <2>3. Ordered'
    <3>1. /\ DOMAIN queue = 1 .. Len(queue) /\ Len(queue) \in Nat
          /\ DOMAIN queue' = 1 .. Len(queue) + 1
          /\ \A i \in DOMAIN queue : queue'[i] = queue[i]
          /\ queue'[Len(queue) + 1] = arrived'
      BY <2>1, AppendHolds
    <3>2. /\ Rises(handed) /\ \A i \in DOMAIN handed : handed[i] < arrived'
      BY <2>1 DEF ServerInv, Ordered
    <3>3. \A j \in DOMAIN queue : queue[j] < arrived'
      BY <2>1 DEF ServerInv, Ordered
    <3> QED
      BY <2>1, <3>1, <3>2, <3>3, SMTT(30) DEF ServerInv, Ordered, Rises
  <2>4. 1 .. arrived' = (1 .. arrived) \cup {arrived'}
    BY <2>1
  <2> QED
    BY <2>1, <2>2, <2>3, <2>4
    DEF ServerInv, EndedHoldsNothing, NothingOverlooked, NoSocketLeft, Seen
<1>2. CASE begin
  <2>1. /\ ~ listening /\ (tidy' => tidy /\ sockfd = None)
        /\ accepted' \in {accepted, None}
        /\ UNCHANGED <<queue, arrived, handed, dropped, gone>>
    BY <1>2 DEF begin, forgetAccepted
  <2>2. EndedHoldsNothing'
    BY <2>1, <1>2 DEF ServerInv, EndedHoldsNothing, begin, forgetAccepted
  <2>3. tidy' => accepted' = accepted
    BY <2>1 DEF ServerInv, EndedHoldsNothing
  <2>4. NoSocketLeft'
    <3>1. tidy' => sockfd = None /\ open = {}
      BY <2>1 DEF ServerInv, NoSocketLeft
    <3>2. \/ sockfd' = None /\ open' = open
          \/ sockfd' \in Nat /\ open' = open \cup {sockfd'}
      BY <1>2 DEF begin
    <3> QED
      BY <1>0, <3>1, <3>2 DEF NoSocketLeft
  <2>5. Ordered'
    BY <2>1 DEF ServerInv, Ordered
  <2> QED
    BY <2>1, <2>2, <2>3, <2>4, <2>5
    DEF ServerInv, NothingOverlooked, Seen, Waiting
<1>3. CASE hasClient
  <2>1. /\ accept /\ (tidy' => tidy /\ listening)
        /\ UNCHANGED <<listening, sockfd, arrived, starts, open, handed, dropped, gone>>
    BY <1>3 DEF hasClient
  <2>2. CASE accepted = None /\ queue # << >>
    <3>1. accepted' = Head(queue) /\ queue' = Tail(queue)
      BY <2>1, <2>2 DEF accept
    <3>2. /\ accepted' \in Nat /\ 1 \in DOMAIN queue /\ accepted' = queue[1]
          /\ \A j \in DOMAIN queue' : j + 1 \in DOMAIN queue /\ queue'[j] = queue[j + 1]
          /\ Waiting = Waiting' \cup {accepted'}
      BY <3>1, <2>2, TailHolds DEF Waiting
    <3>4. Rises(queue') /\ \A j \in DOMAIN queue' : accepted' < queue'[j]
      BY <3>1, <2>2, TailRises DEF ServerInv, Ordered
    <3>3. Ordered'
      <4>1. /\ \A j \in DOMAIN queue' : queue'[j] <= arrived
            /\ \A i \in DOMAIN handed, j \in DOMAIN queue' : handed[i] < queue'[j]
        BY <3>2 DEF ServerInv, Ordered
      <4>2. /\ \A i \in DOMAIN handed : handed[i] < accepted'
            /\ accepted' <= arrived
        BY <3>2 DEF ServerInv, Ordered
      <4> QED
        BY <2>1, <3>4, <4>1, <4>2 DEF ServerInv, Ordered
    <3> QED
      BY <1>0, <2>1, <2>2, <3>2, <3>3
      DEF ServerInv, EndedHoldsNothing, NothingOverlooked, NoSocketLeft, Seen
  <2>3. CASE ~ (accepted = None /\ queue # << >>)
    <3>1. UNCHANGED <<accepted, queue>>
      BY <2>1, <2>3 DEF accept
    <3> QED
      BY <2>1, <3>1 DEF ServerInv, Ordered, EndedHoldsNothing,
                        NothingOverlooked, NoSocketLeft, Seen, Waiting
  <2> QED
    BY <2>2, <2>3
<1>4. CASE available
  <2> DEFINE c == NextClient
  <2>1. /\ listening /\ c # None /\ accepted' = None
        /\ UNCHANGED <<listening, sockfd, arrived, starts, open, gone, tidy>>
        /\ \/ handed' = Append(handed, c) /\ UNCHANGED dropped
           \/ dropped' = dropped \cup {c} /\ UNCHANGED handed
    BY <1>4 DEF available, takeAccepted
  <2>2. /\ c \in Nat /\ c <= arrived
        /\ \A i \in DOMAIN handed : handed[i] < c
        /\ \A j \in DOMAIN queue' : c < queue'[j]
        /\ Rises(queue')
        /\ \A j \in DOMAIN queue' : \E k \in DOMAIN queue : queue'[j] = queue[k]
        /\ Waiting \cup ({accepted} \ {None}) = Waiting' \cup {c}
    <3>1. CASE accepted # None
      BY <3>1, <1>4 DEF available, NextClient, ServerInv, Ordered, Rises, Waiting
    <3>2. CASE accepted = None
      <4>1. queue # << >> /\ c = Head(queue) /\ queue' = Tail(queue)
        BY <3>2, <1>4 DEF available, NextClient
      <4> HIDE DEF c
      <4>2. /\ c \in Nat /\ 1 \in DOMAIN queue /\ c = queue[1]
            /\ \A j \in DOMAIN queue' : j + 1 \in DOMAIN queue /\ queue'[j] = queue[j + 1]
            /\ Waiting = Waiting' \cup {c}
        BY <4>1, TailHolds, SMTT(30) DEF Waiting
      <4>3. Rises(queue') /\ \A j \in DOMAIN queue' : c < queue'[j]
        BY <4>1, TailRises DEF ServerInv, Ordered
      <4>4. c <= arrived /\ \A i \in DOMAIN handed : handed[i] < c
        BY <4>2 DEF ServerInv, Ordered
      <4>5. \A j \in DOMAIN queue' : \E k \in DOMAIN queue : queue'[j] = queue[k]
        BY <4>2
      <4> QED
        BY <3>2, <4>2, <4>3, <4>4, <4>5
    <3> QED
      BY <3>1, <3>2
  <2> HIDE DEF c
  <2>3. Seen' \cup dropped' = Seen \cup dropped \cup {c}
    <3>1. ToSet(Append(handed, c)) = ToSet(handed) \cup {c}
      BY <2>2, AppendHolds
    <3> QED
      BY <2>1, <3>1 DEF Seen
  <2>4. /\ Rises(handed')
        /\ \A i \in DOMAIN handed' : handed'[i] <= c
    <3>1. CASE handed' = Append(handed, c)
      BY <3>1, <2>2, AppendRises DEF ServerInv, Ordered
    <3>2. CASE handed' = handed
      BY <3>2, <2>2 DEF ServerInv, Ordered
    <3> QED
      BY <2>1, <3>1, <3>2
  <2>5. Ordered'
    <3>1. \A j \in DOMAIN queue' : queue'[j] <= arrived'
      BY <2>1, <2>2 DEF ServerInv, Ordered
    <3>2. \A i \in DOMAIN handed' : handed'[i] <= arrived'
      BY <1>7, <2>1, <2>2, <2>4
    <3>3. \A i \in DOMAIN handed', j \in DOMAIN queue' : handed'[i] < queue'[j]
      BY <1>7, <2>2, <2>4
    <3> QED
      BY <2>1, <2>2, <2>4, <3>1, <3>2, <3>3 DEF Ordered
  <2>6. NothingOverlooked'
    BY <2>1, <2>2, <2>3 DEF ServerInv, NothingOverlooked
  <2> QED
    BY <2>1, <2>5, <2>6 DEF ServerInv, EndedHoldsNothing, NoSocketLeft
<1>5. CASE end
  <2>1. /\ tidy' => tidy /\ accepted = None
        /\ open' = open \ {sockfd} /\ sockfd' = None
        /\ queue' = << >> /\ gone' = gone \cup Waiting
        /\ UNCHANGED <<accepted, arrived, starts, handed, dropped>>
    BY <1>5 DEF end, closeListening, Waiting
  <2>2. Waiting' = {}
    BY <2>1 DEF Waiting, ToSet
  <2>3. Ordered'
    BY <2>1 DEF ServerInv, Ordered, Rises
  <2> QED
    BY <2>1, <2>2, <2>3
    DEF ServerInv, EndedHoldsNothing, NothingOverlooked, NoSocketLeft, Seen
<1>6. CASE UNCHANGED vars
  BY <1>6 DEF vars, ServerInv, Ordered, EndedHoldsNothing,
              NothingOverlooked, NoSocketLeft, Seen, Waiting
<1> QED
  BY <1>1, <1>2, <1>3, <1>4, <1>5, <1>6 DEF Next

LEMMA ServerInvariant ==
  ASSUME ServerAssumption
  PROVE  Spec => []ServerInv
<1>1. Init => ServerInv
  BY DEF Init, ServerInv, Ordered, Rises, EndedHoldsNothing,
         NothingOverlooked, NoSocketLeft, Seen, Waiting, ToSet, None
<1>2. ServerTypeOK /\ ServerTypeOK' /\ ServerInv /\ [Next]_vars => ServerInv'
  BY ServerStep
<1> QED
  BY <1>1, <1>2, ServerTypes, PTL DEF Spec

\* available() returns the connections in the order they arrived, each once,
\* none is overlooked, and no listening socket is left behind.
THEOREM ConnectionsCorrect ==
  ASSUME ServerAssumption
  PROVE  Spec => [](HandedInOrder /\ NothingOverlooked /\ NoSocketLeft)
<1>1. ServerInv => HandedInOrder /\ NothingOverlooked /\ NoSocketLeft
  BY DEF ServerInv, Ordered, Rises, HandedInOrder
<1> QED
  BY <1>1, ServerInvariant, PTL

\* A connection that hasClient() has accepted is given up only by available(),
\* which returns it or has lost it to a failed call, or after end().
THEOREM HeldConnectionTaken ==
  ASSUME ServerAssumption
  PROVE  Spec => HeldUntilTaken
<1>1. ASSUME ServerTypeOK, [Next]_vars,
             accepted # None, accepted' # accepted, listening
      PROVE  accepted \in Seen' \cup dropped'
  <2>1. CASE available
    <3>1. NextClient = accepted
      BY <1>1 DEF NextClient
    <3>2. CASE handed' = Append(handed, accepted)
      <4>1. Seen' = Seen \cup {accepted}
        <5>1. handed \in Seq(Nat) /\ accepted \in Nat
          BY <1>1 DEF ServerTypeOK
        <5>2. ToSet(Append(handed, accepted)) = ToSet(handed) \cup {accepted}
          BY <5>1, AppendHolds
        <5> QED
          BY <3>2, <5>2, Zenon DEF Seen
      <4> QED
        BY <4>1
    <3>3. CASE dropped' = dropped \cup {accepted}
      BY <3>3
    <3> QED
      BY <2>1, <3>1, <3>2, <3>3 DEF available
  <2>2. CASE hasClient
    BY <2>2, <1>1 DEF hasClient, accept
  <2>3. CASE Arrives \/ begin \/ end \/ UNCHANGED vars
    BY <2>3, <1>1 DEF Arrives, begin, end, vars
  <2> QED
    BY <1>1, <2>1, <2>2, <2>3 DEF Next
<1>2. ServerTypeOK /\ [Next]_vars
        => [accepted # None /\ accepted' # accepted =>
              accepted \in Seen' \cup dropped' \/ ~ listening]_vars
  BY <1>1
<1> QED
  BY <1>2, ServerTypes, PTL DEF Spec, HeldUntilTaken
=============================================================================
