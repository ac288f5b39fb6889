----------------------------- MODULE WiFiClient -----------------------------
(***************************************************************************)
(* The TCP connections of one task: WiFiClient.cpp with its receive        *)
(* buffer.  The bytes a peer sends are numbered 1, 2, ...; lwIP puts them  *)
(* in the socket at any time, fillBuffer() takes them into the buffer and  *)
(* read() hands them out.  errno belongs to the task, not to a connection. *)
(* What lwIP does is an assumption: a recv() that has data says 0 or more  *)
(* and leaves errno as it was; one that has none sets it.                  *)
(***************************************************************************)
EXTENDS Integers, Sequences, FiniteSets, SequencesExt, FiniteSetsExt

CONSTANTS
  Clients,
  Size,          \* of the receive buffer (1436)
  FlushSize,     \* WIFI_CLIENT_FLUSH_BUFFER_SIZE (1024)
  MaxRetry,      \* WIFI_CLIENT_MAX_WRITE_RETRY (10)
  MaxBytes,      \* a peer sends no more in a connection
  MaxWrite,      \* the longest write()
  MaxErrors      \* what lwIP may refuse in all

ClientAssumption ==
  /\ Size \in Nat \ {0} /\ FlushSize \in Nat \ {0} /\ MaxRetry \in Nat \ {0}
  /\ MaxBytes \in Nat /\ MaxWrite \in Nat /\ MaxErrors \in Nat

VARIABLES
  errno,
  errnoOf,       \* the connection whose call has set errno last
  handle,        \* clientSocketHandle is set
  _connected,
  rx,            \* _buffer with _pos; its length is _fill
  peer,          \* what the other side has done
  sent, taken,   \* bytes that arrived, and that recv() took out of the socket
  got, flushed,  \* bytes handed out by read(), bytes thrown away by flush()
  flushing,      \* a of flush(), 0 outside of it
  writing,       \* the locals of write(); retry is 0 outside of it; cut tells that
                 \* select() has ended it
  wire,          \* bytes of this write() that lwIP took
  errors

rxVars == <<rx, taken, got>>
linkVars == <<peer, sent>>
writeVars == <<writing, wire>>
vars == <<errno, errnoOf, handle, _connected, rxVars, linkVars, flushed, flushing, writeVars, errors>>

NoBuffer == [has |-> FALSE, data |-> <<>>, pos |-> 0]
Idle == [retry |-> 0, next |-> 1, left |-> 0, result |-> 0, cut |-> FALSE]

(* A call of the connection c leaves errno. *)
Leaves(c, e) == errno' = e /\ errnoOf' = c

Init ==
  /\ errno = "none" /\ errnoOf \in Clients
  /\ handle = [c \in Clients |-> FALSE]
  /\ _connected = [c \in Clients |-> FALSE]
  /\ rx = [c \in Clients |-> NoBuffer]
  /\ peer = [c \in Clients |-> "open"]
  /\ sent = [c \in Clients |-> 0]
  /\ taken = [c \in Clients |-> 0]
  /\ got = [c \in Clients |-> <<>>]
  /\ flushed = [c \in Clients |-> {}]
  /\ flushing = [c \in Clients |-> 0]
  /\ writing = [c \in Clients |-> Idle]
  /\ wire = [c \in Clients |-> <<>>]
  /\ errors = 0

(* The task is in one call at a time. *)
Free == \A c \in Clients : flushing[c] = 0 /\ writing[c].retry = 0

----------------------------------------------------------------------------
(* WiFiClientRxBuffer, on a state b = [rx, taken] of it and the number n of *)
(* bytes that have arrived.                                                *)

r_available(b, n) == n - b.taken
Fill(b) == Len(b.rx.data)
Unread(b) == Fill(b) - b.rx.pos

Rewound(r) ==
  IF r.data # <<>> /\ r.pos = Len(r.data) THEN [r EXCEPT !.data = <<>>, !.pos = 0] ELSE r

fillBuffer(b, n) ==
  LET r == Rewound(b.rx)
      k == Min({Size - Len(r.data), r_available(b, n)})
  IN [rx |-> [has |-> TRUE, pos |-> r.pos,
              data |-> r.data \o [i \in 1 .. k |-> b.taken + i]],
      taken |-> b.taken + k]

(* What fillBuffer() returns. *)
Gained(b, f) == f.taken - b.taken

Take(b, k) == [b EXCEPT !.rx.pos = @ + k]
NextBytes(b, k) == SubSeq(b.rx.data, b.rx.pos + 1, b.rx.pos + k)

(* A turn of the loop of read(); one that gains nothing is the last.       *)
ReadTurn(t, n) ==
  LET f == fillBuffer(t.b, n)
      k == IF Gained(t.b, f) = 0 THEN 0 ELSE Min({Unread(f), t.left})
  IN IF t.left = 0 THEN t
     ELSE [b |-> Take(f, k), left |-> t.left - k, out |-> t.out \o NextBytes(f, k)]

(* Every turn but the last reads something, and turns after it nothing.    *)
ReadOn(b, n, left, out) ==
  LET turn[j \in 0 .. left] ==
        IF j = 0 THEN [b |-> b, left |-> left, out |-> out] ELSE ReadTurn(turn[j - 1], n)
  IN turn[left]

(* read() of the buffer: m bytes have arrived at its first look, n >= m at *)
(* the later ones.  <<>> stands for -1.                                    *)
readBuffer(b, m, n, len) ==
  LET s == IF Unread(b) = 0 THEN fillBuffer(b, m) ELSE b
      a == Unread(s)
      f == IF len > a /\ len - a <= Size - Fill(s) THEN fillBuffer(s, m) ELSE s
  IN IF a = 0 THEN [b |-> s, out |-> <<>>]
     ELSE IF len <= a \/ (len - a <= Size - Fill(s) /\ Gained(s, f) >= len - a)
       THEN [b |-> Take(f, len), out |-> NextBytes(f, len)]
     ELSE ReadOn(Take(f, a), n, len - a, NextBytes(f, a))

Buffer(c) == [rx |-> rx[c], taken |-> taken[c]]
availableBuffer(c) == Unread(Buffer(c)) + r_available(Buffer(c), sent[c])

----------------------------------------------------------------------------
(* Connections *)

Stopped(c) ==
  /\ handle' = [handle EXCEPT ![c] = FALSE]
  /\ _connected' = [_connected EXCEPT ![c] = FALSE]
  /\ rx' = [rx EXCEPT ![c] = NoBuffer]

stop(c) ==
  /\ Free /\ handle[c]
  /\ Stopped(c)
  /\ UNCHANGED <<errno, errnoOf, taken, got, linkVars, flushed, flushing, writeVars, errors>>

(* A socket of its own: the one before, if any, is closed with its buffer. *)
Opened(c) ==
  /\ handle' = [handle EXCEPT ![c] = TRUE]
  /\ _connected' = [_connected EXCEPT ![c] = TRUE]
  /\ rx' = [rx EXCEPT ![c] = NoBuffer]
  /\ peer' = [peer EXCEPT ![c] = "open"]
  /\ sent' = [sent EXCEPT ![c] = 0]
  /\ taken' = [taken EXCEPT ![c] = 0]
  /\ got' = [got EXCEPT ![c] = <<>>]
  /\ flushed' = [flushed EXCEPT ![c] = {}]

(* A connect() that fails closes its own socket only. *)
connect(c) ==
  /\ Free
  /\ Leaves(c, "EINPROGRESS")
  /\ \/ Opened(c)
     \/ UNCHANGED <<handle, _connected, rxVars, linkVars, flushed>>
  /\ UNCHANGED <<flushing, writeVars, errors>>

(* WiFiClient(fd) and operator=, then a look for more connections. *)
Accepted(c) ==
  /\ Free
  /\ Opened(c)
  /\ Leaves(c, "EWOULDBLOCK")
  /\ UNCHANGED <<flushing, writeVars, errors>>

----------------------------------------------------------------------------
(* Reading *)

read(c) ==
  /\ Free /\ handle[c]
  /\ \E len \in 1 .. MaxBytes, n \in sent[c] .. MaxBytes :
       LET r == readBuffer(Buffer(c), sent[c], n, len)
       IN /\ n > sent[c] => peer[c] = "open"
          /\ rx' = [rx EXCEPT ![c] = r.b.rx]
          /\ taken' = [taken EXCEPT ![c] = r.b.taken]
          /\ got' = [got EXCEPT ![c] = @ \o r.out]
          /\ sent' = [sent EXCEPT ![c] = n]
  /\ UNCHANGED <<errno, errnoOf, handle, _connected, peer, flushed, flushing, writeVars, errors>>

peek(c) ==
  /\ Free /\ handle[c]
  /\ \E b \in {IF Unread(Buffer(c)) = 0 THEN fillBuffer(Buffer(c), sent[c]) ELSE Buffer(c)} :
       rx' = [rx EXCEPT ![c] = b.rx] /\ taken' = [taken EXCEPT ![c] = b.taken]
  /\ UNCHANGED <<errno, errnoOf, handle, _connected, got, linkVars, flushed, flushing, writeVars, errors>>

(* available(), read() or peek() with failed(): no memory for the buffer,  *)
(* or the socket is gone.                                                  *)
FailedRead(c) ==
  /\ Free /\ handle[c]
  /\ peer[c] = "reset" \/ ~rx[c].has
  /\ errors < MaxErrors
  /\ errors' = errors + 1
  /\ Leaves(c, IF peer[c] = "reset" THEN "lost" ELSE "other")
  /\ Stopped(c)
  /\ UNCHANGED <<taken, got, linkVars, flushed, flushing, writeVars>>

flush(c) ==
  /\ Free /\ handle[c]
  /\ flushing' = [flushing EXCEPT ![c] = availableBuffer(c)]
  /\ UNCHANGED <<errno, errnoOf, handle, _connected, rxVars, linkVars, flushed, writeVars, errors>>

(* One turn of the loop of flush(): recv() from the socket, past the       *)
(* buffer.  At the end of the stream it says 0, and without data -1.       *)
FlushTurn(c) ==
  LET k == Min({flushing[c], FlushSize, sent[c] - taken[c]})
  IN
  /\ flushing[c] > 0
  /\ \/ /\ k > 0
        /\ flushing' = [flushing EXCEPT ![c] = @ - k]
        /\ taken' = [taken EXCEPT ![c] = @ + k]
        /\ flushed' = [flushed EXCEPT ![c] = @ \cup (taken[c] + 1 .. taken[c] + k)]
        /\ UNCHANGED <<errno, errnoOf, handle, _connected, rx>>
     \/ /\ k = 0 /\ peer[c] = "closed"
        /\ Leaves(c, "lost")
        /\ UNCHANGED <<flushing, taken, flushed, handle, _connected, rx>>
     \/ /\ k = 0 /\ peer[c] # "closed"
        /\ Leaves(c, IF peer[c] = "open" THEN "EWOULDBLOCK" ELSE "lost")
        /\ flushing' = [flushing EXCEPT ![c] = 0]
        /\ Stopped(c)
        /\ UNCHANGED <<taken, flushed>>
  /\ UNCHANGED <<got, linkVars, writeVars, errors>>

----------------------------------------------------------------------------
(* Writing *)

write(c) ==
  /\ Free /\ handle[c] /\ _connected[c]
  /\ \E n \in 1 .. MaxWrite :
       writing' = [writing EXCEPT ![c] = 
         [Idle EXCEPT !.retry = MaxRetry, !.left = n]]
  /\ wire' = [wire EXCEPT ![c] = <<>>]
  /\ UNCHANGED <<errno, errnoOf, handle, _connected, rxVars, linkVars, flushed, flushing, errors>>

AfterSend(w, k) ==
  [w EXCEPT !.next = @ + k, !.left = @ - k, !.result = @ + k,
            !.retry = IF w.left = k THEN 0 ELSE MaxRetry]

Send(c) ==
  /\ writing[c].retry > 0
  /\ \E k \in 1 .. writing[c].left :
       /\ wire' = [wire EXCEPT ![c] = @ \o [i \in 1 .. k |-> writing[c].next + i - 1]]
       /\ writing' = [writing EXCEPT ![c] = AfterSend(@, k)]
  /\ UNCHANGED <<errno, errnoOf, handle, _connected, rxVars, linkVars, flushed, flushing, errors>>

(* select() times out after a second, or send() takes nothing. *)
NotReady(c) ==
  /\ writing[c].retry > 0
  /\ writing' = [writing EXCEPT ![c].retry = @ - 1]
  /\ Leaves(c, "EWOULDBLOCK") \/ UNCHANGED <<errno, errnoOf>>
  /\ UNCHANGED <<handle, _connected, rxVars, linkVars, flushed, flushing, wire, errors>>

SendFails(c) ==
  /\ writing[c].retry > 0
  /\ peer[c] = "reset" \/ errors < MaxErrors
  /\ errors' = IF peer[c] = "reset" THEN errors ELSE errors + 1
  /\ Leaves(c, IF peer[c] = "reset" THEN "lost" ELSE "other")
  /\ writing' = [writing EXCEPT ![c].retry = 0]
  /\ Stopped(c)
  /\ UNCHANGED <<taken, got, linkVars, flushed, flushing, wire>>

(* select() fails: the answer is 0, whatever was sent, and nothing is closed. *)
SelectFails(c) ==
  /\ writing[c].retry > 0
  /\ errors < MaxErrors /\ errors' = errors + 1
  /\ Leaves(c, "other")
  /\ writing' = [writing EXCEPT ![c].retry = 0, ![c].result = 0, ![c].cut = TRUE]
  /\ UNCHANGED <<handle, _connected, rxVars, linkVars, flushed, flushing, wire>>

WriteTurn(c) == Send(c) \/ NotReady(c) \/ SendFails(c) \/ SelectFails(c)

----------------------------------------------------------------------------
(* connected(): whatever recv() returned, errno decides. *)

(* recv() of nothing: data that waits is no error, and errno stays. *)
RecvFails(c) == peer[c] = "reset" \/ sent[c] = taken[c]

connected(c) ==
  /\ Free /\ handle[c] /\ _connected[c]
  /\ IF RecvFails(c)
     THEN Leaves(c, IF peer[c] = "open" THEN "EWOULDBLOCK" ELSE "lost")
     ELSE UNCHANGED <<errno, errnoOf>>
  /\ _connected' = [_connected EXCEPT ![c] = errno' # "lost"]
  /\ UNCHANGED <<handle, rxVars, linkVars, flushed, flushing, writeVars, errors>>

----------------------------------------------------------------------------
(* The peer and the network *)

Arrive(c) ==
  /\ handle[c] /\ peer[c] = "open" /\ sent[c] < MaxBytes
  /\ sent' = [sent EXCEPT ![c] = @ + 1]
  /\ UNCHANGED <<errno, errnoOf, handle, _connected, rxVars, peer, flushed, flushing, writeVars, errors>>

PeerCloses(c) ==
  /\ handle[c] /\ peer[c] = "open"
  /\ peer' = [peer EXCEPT ![c] = "closed"]
  /\ UNCHANGED <<errno, errnoOf, handle, _connected, rxVars, sent, flushed, flushing, writeVars, errors>>

(* What the socket still held is gone. *)
PeerResets(c) ==
  /\ handle[c] /\ peer[c] = "open"
  /\ peer' = [peer EXCEPT ![c] = "reset"]
  /\ sent' = [sent EXCEPT ![c] = taken[c]]
  /\ UNCHANGED <<errno, errnoOf, handle, _connected, rxVars, flushed, flushing, writeVars, errors>>

Next ==
  \E c \in Clients :
    \/ connect(c) \/ Accepted(c) \/ stop(c) \/ connected(c)
    \/ read(c) \/ peek(c) \/ FailedRead(c)
    \/ flush(c) \/ FlushTurn(c)
    \/ write(c) \/ WriteTurn(c)
    \/ Arrive(c) \/ PeerCloses(c) \/ PeerResets(c)

Spec == Init /\ [][Next]_vars

----------------------------------------------------------------------------
(* Bytes are handed out in the order in which they came, none twice, and   *)
(* none is missing that was not thrown away: every byte taken from the     *)
(* socket was read, was flushed or waits in the buffer, whatever the       *)
(* lengths of the reads and however the buffer was filled.                 *)
ReadsTheStream ==
  \A c \in Clients :
    LET waiting == SubSeq(rx[c].data, rx[c].pos + 1, Len(rx[c].data))
        all == got[c] \o waiting
    IN handle[c] =>
         /\ \A i \in 1 .. Len(all) - 1 : all[i] < all[i + 1]
         /\ 1 .. taken[c] = ToSet(all) \cup flushed[c]

(* When available() says that there is something, a read of any length     *)
(* gives something: WebSockets::readCb() takes anything else as an error.  *)
AvailableIsReadable ==
  \A c \in Clients : handle[c] /\ availableBuffer(c) > 0 =>
    \A len \in 1 .. MaxBytes : readBuffer(Buffer(c), sent[c], sent[c], len).out # <<>>

(* What write() returns is what lwIP took, from the start of the data and  *)
(* without a gap, unless select() fails in the middle of it: then it is 0, *)
(* and WebSockets::write(), which goes on from what was returned, sends a  *)
(* part again.                                                             *)
WriteCountsSent ==
  \A c \in Clients :
    /\ writing[c].result = IF writing[c].cut THEN 0 ELSE Len(wire[c])
    /\ wire[c] = [i \in 1 .. Len(wire[c]) |-> i]

(* connected() loses a connection only if its peer has left, or on the     *)
(* errno that another connection of the task has left: what                *)
(* WebSocketsServer.cpp:628 calls "client lost" need not be.               *)
LosesOnlyLost ==
  \A c \in Clients : connected(c) /\ ~_connected'[c] => peer[c] # "open" \/ errnoOf # c

LostOnlyIfLost == [][LosesOnlyLost]_vars

(* A write ends, however little lwIP takes at a time. *)
WriteEnds == \A c \in Clients : writing[c].retry > 0 ~> writing[c].retry = 0
=============================================================================
