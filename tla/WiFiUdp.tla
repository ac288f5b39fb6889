------------------------------ MODULE WiFiUdp ------------------------------
(***************************************************************************)
(* WiFiUdp.cpp: one socket with a buffer for the datagram that is being    *)
(* built and one for the datagram that is being read.  remote_ip and       *)
(* remote_port are the same for both directions (here remote, an address). *)
(* A byte that the sketch writes is <<n, i>>: the i-th of its n-th packet. *)
(***************************************************************************)
EXTENDS Integers, Sequences, SequencesExt, FiniteSets, FiniteSetsExt

CONSTANTS
  Hosts, Group,     \* addresses; Group is the multicast address
  Limit,            \* bytes in a buffer (1460)
  MaxLength,        \* of what peers send and of what the sketch writes
  MaxQueue,         \* datagrams waiting in lwIP
  MaxPackets, MaxErrors

UdpAssumption == Limit \in Nat \ {0}

VARIABLES
  udp_server,       \* a socket is open
  multicast_ip,     \* Group is joined
  server_port,      \* begin() was called once
  remote,
  tx_buffer,        \* [has, bytes]
  rx_buffer,        \* [has, from, left]
  queue,            \* datagrams lwIP holds: [from, length]
  \* what an observer sees
  sockets, members, buffers,   \* open sockets, joined groups, buffers on the heap
  addressed,        \* where the packet being built was addressed
  parsed, lastFrom, \* a datagram was received since; the sender of the last one
  packets, written, \* packets begun, bytes written to the last
  onwire,           \* the datagram sent last: [to, due, bytes]
  errors

addresses == <<addressed, parsed, lastFrom>>
txVars == <<tx_buffer, packets, written, addresses, onwire>>
rxVars == <<rx_buffer, queue>>
sockVars == <<udp_server, multicast_ip, server_port, sockets, members>>
vars == <<txVars, rxVars, sockVars, remote, buffers, errors>>

Nowhere == "nowhere"
NoTx == [has |-> FALSE, bytes |-> <<>>]
EmptyTx == [has |-> TRUE, bytes |-> <<>>]
NoRx == [has |-> FALSE, from |-> Nowhere, left |-> 0]

Init ==
  /\ udp_server = FALSE /\ multicast_ip = FALSE /\ server_port = FALSE
  /\ remote = Nowhere
  /\ tx_buffer = NoTx /\ rx_buffer = NoRx
  /\ queue = <<>>
  /\ sockets = 0 /\ members = 0 /\ buffers = 0
  /\ addressed = Nowhere /\ parsed = FALSE /\ lastFrom = Nowhere
  /\ packets = 0 /\ written = 0
  /\ onwire = [to |-> Nowhere, due |-> Nowhere, bytes |-> <<>>]
  /\ errors = 0

Count(b) == IF b THEN 1 ELSE 0
Held == Count(tx_buffer.has) + Count(rx_buffer.has)

----------------------------------------------------------------------------
(* stop(), and then what begin() has opened, joined and allocated. *)
stopThen(open, joined, tx) ==
  /\ udp_server' = open
  /\ multicast_ip' = joined
  /\ sockets' = sockets - Count(udp_server) + Count(open)
  /\ members' = members - Count(udp_server /\ multicast_ip) + Count(joined)
  /\ tx_buffer' = IF tx THEN EmptyTx ELSE NoTx
  /\ rx_buffer' = NoRx
  /\ buffers' = buffers - Held + Count(tx)
  /\ queue' = <<>>

stop ==
  /\ stopThen(FALSE, FALSE, FALSE)
  /\ UNCHANGED <<server_port, remote, packets, written, addresses, onwire, errors>>

begin ==
  /\ stopThen(TRUE, FALSE, TRUE)
  /\ server_port' = TRUE
  /\ UNCHANGED <<remote, packets, written, addresses, onwire, errors>>

beginMulticast ==
  /\ stopThen(TRUE, TRUE, TRUE)
  /\ server_port' = TRUE
  /\ UNCHANGED <<remote, packets, written, addresses, onwire, errors>>

(* There is no socket, and the buffer stays; or an option, bind() or the   *)
(* joining fails: stop() again.                                            *)
BeginFails ==
  /\ errors < MaxErrors /\ errors' = errors + 1
  /\ \E tx \in BOOLEAN : stopThen(FALSE, FALSE, tx)
  /\ server_port' = TRUE
  /\ UNCHANGED <<remote, packets, written, addresses, onwire>>

----------------------------------------------------------------------------
(* Sending *)

(* beginPacket() for the address a, a socket of its own when there is none. *)
Begin(a) ==
  /\ packets < MaxPackets
  /\ remote' = a
  /\ a # Nowhere
  /\ tx_buffer' = EmptyTx
  /\ buffers' = buffers + Count(~tx_buffer.has)
  /\ udp_server' = TRUE
  /\ sockets' = sockets + Count(~udp_server)
  /\ packets' = packets + 1
  /\ written' = 0
  /\ addressed' = a
  /\ parsed' = FALSE /\ lastFrom' = Nowhere
  /\ UNCHANGED <<rxVars, multicast_ip, server_port, members, onwire, errors>>

beginPacketTo == \E h \in Hosts : Begin(h)

beginPacket == Begin(remote)

beginMulticastPacket == server_port /\ multicast_ip /\ Begin(Group)

Room(tx) == Len(tx.bytes) < Limit

Destination(tx) == remote

\* Where a piece of the packet is due now.
Due == IF parsed THEN lastFrom ELSE addressed

Sent(to, bytes) == [to |-> to, due |-> Due, bytes |-> bytes]

(* write(): a full buffer goes out first, wherever remote points now. *)
write ==
  /\ tx_buffer.has /\ packets > 0 /\ written < MaxLength
  /\ written' = written + 1
  /\ LET byte == <<packets, written + 1>>
     IN IF Room(tx_buffer)
        THEN tx_buffer' = [tx_buffer EXCEPT !.bytes = Append(@, byte)] /\ UNCHANGED onwire
        ELSE /\ onwire' = IF udp_server THEN Sent(Destination(tx_buffer), tx_buffer.bytes) ELSE onwire
             /\ tx_buffer' = [tx_buffer EXCEPT !.bytes = <<byte>>]
  /\ UNCHANGED <<rxVars, sockVars, remote, buffers, packets, addresses, errors>>

(* endPacket() leaves the buffer as it is: a second one sends it again. *)
endPacket ==
  /\ udp_server /\ remote # Nowhere
  /\ onwire' = Sent(remote, tx_buffer.bytes)
  /\ UNCHANGED <<tx_buffer, packets, written, addresses, rxVars, sockVars, remote, buffers, errors>>

----------------------------------------------------------------------------
(* Receiving *)

Arrive ==
  /\ udp_server /\ server_port /\ Len(queue) < MaxQueue
  /\ \E h \in Hosts, n \in 0 .. MaxLength : queue' = Append(queue, [from |-> h, length |-> n])
  /\ UNCHANGED <<txVars, rx_buffer, sockVars, remote, buffers, errors>>

NothingUnread == ~rx_buffer.has

Sender(d) == d.from

(* What does not fit is cut off; an empty datagram has no buffer. *)
parsePacket ==
  /\ NothingUnread /\ queue # <<>>
  /\ LET n == Min({Head(queue).length, Limit})
     IN /\ rx_buffer' = IF n > 0 THEN [has |-> TRUE, from |-> Head(queue).from, left |-> n] ELSE NoRx
        /\ buffers' = buffers + Count(n > 0)
  /\ remote' = Sender(Head(queue))
  /\ queue' = Tail(queue)
  /\ parsed' = TRUE /\ lastFrom' = Head(queue).from
  /\ UNCHANGED <<tx_buffer, packets, written, addressed, onwire, sockVars, errors>>

(* read() frees the buffer with its last byte, flush() at once. *)
read ==
  /\ rx_buffer.has
  /\ \E k \in 1 .. rx_buffer.left :
       IF k = rx_buffer.left
       THEN rx_buffer' = NoRx /\ buffers' = buffers - 1
       ELSE rx_buffer' = [rx_buffer EXCEPT !.left = @ - k] /\ UNCHANGED buffers
  /\ UNCHANGED <<txVars, queue, sockVars, remote, errors>>

Next ==
  \/ stop \/ begin \/ beginMulticast \/ BeginFails
  \/ beginPacketTo \/ beginPacket \/ beginMulticastPacket \/ write \/ endPacket
  \/ Arrive \/ parsePacket \/ read

Spec == Init /\ [][Next]_vars
----------------------------------------------------------------------------
(* Every socket, group and buffer that is open, joined or allocated is one *)
(* that the object knows of, whatever the order of begin, packets, errors  *)
(* and stop.                                                               *)
NothingLeaks ==
  /\ sockets = Count(udp_server)
  /\ members = Count(multicast_ip)
  /\ buffers = Held

(* A datagram has bytes of one packet only, without a gap, and no more     *)
(* than the limit: a long packet goes out in pieces.                       *)
PiecesOfOnePacket ==
  LET b == onwire.bytes
  IN /\ Len(b) <= Limit
     /\ \A i \in 1 .. Len(b) - 1 : b[i + 1] = <<b[i][1], b[i][2] + 1>>

(* A piece goes where its packet was addressed or, once a datagram was     *)
(* received since beginPacket(), to the sender of the last: the replies of *)
(* a sketch that goes on receiving while it writes go to somebody else.    *)
SentWhereDue == onwire.to = onwire.due

(* While a datagram is being read and no packet was begun since, remoteIP() *)
(* is its sender.                                                          *)
RemoteIsSender == rx_buffer.has /\ parsed => remote = rx_buffer.from
=============================================================================
