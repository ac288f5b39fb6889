------------------------------ MODULE Broadcast ------------------------------
(***************************************************************************)
(* What WebSocketsServer sends to many: broadcastTXT(), broadcastBIN() and *)
(* broadcastPing(), disconnect(), connectedClients(), the same calls for   *)
(* one client, and newClient().  Each walks over the slots; each may find  *)
(* a connection that is lost, cleans it up, and tells the application in   *)
(* the middle of its walk (WStype_DISCONNECTED); and the application may   *)
(* make any of these calls from there.  stack holds the calls under way.   *)
(***************************************************************************)
EXTENDS Integers, Sequences, SequencesExt

CONSTANTS
    MaxClients,       \* WEBSOCKETS_SERVER_CLIENT_MAX
    Nums,             \* bound: the nums that the application names
    MaxCalls,         \* bound: calls of the application outside of the handler
    MaxConnections    \* bound: connections that arrive

BroadcastAssumption ==
    /\ MaxClients \in Nat \ {0} /\ Nums \subseteq 0 .. MaxClients - 1
    /\ MaxCalls \in Nat /\ MaxConnections \in Nat

VARIABLES
    slots,        \* per slot: status, tcp, and its connection
    stack,        \* the calls under way, the innermost one last
    arrived,      \* connections so far
    \* history
    called,       \* calls so far, from the handler and from outside
    outside,      \* calls from outside of the handler
    got,          \* per connection, the messages it was sent, in order
    announced     \* per connection, how often its end was announced

vars == <<slots, stack, arrived, called, outside, got, announced>>

Slots == 0 .. MaxClients - 1
All == MaxClients               \* in the place of a num
Connections == 1 .. MaxConnections

Free == [status |-> "free", tcp |-> "none", conn |-> 0]

Requests == [op : {"send", "close"}, num : Nums \cup {All}]
              \cup [op : {"count"}, num : {All}] \cup [op : {"ask"}, num : Nums]

Frame(op, num, id) ==
    [op |-> op, id |-> id, ret |-> TRUE,
     from |-> IF num = All THEN 0 ELSE num,
     at |-> IF num = All THEN 0 ELSE num,
     last |-> IF num = All THEN MaxClients - 1 ELSE num]

Top == stack[Len(stack)]
Walking == stack # << >> /\ Top.at <= Top.last
Slot == slots[Top.at]
Idle == stack = << >>
Passed(f) == f.from .. f.at - 1

Init ==
    /\ slots = [i \in Slots |-> Free]
    /\ stack = << >> /\ arrived = 0
    /\ called = 0 /\ outside = 0
    /\ got = [c \in Connections |-> << >>]
    /\ announced = [c \in Connections |-> 0]

\* A call that begins inside of the calls on st.
Begun(st, r) ==
    /\ stack' = Append(st, Frame(r.op, r.num, called + 1))
    /\ called' = called + 1

Request ==
    /\ Idle /\ outside < MaxCalls
    /\ \E r \in Requests : Begun(stack, r)
    /\ outside' = outside + 1
    /\ UNCHANGED <<slots, arrived, got, announced>>

\* loop() hands a connection to newClient().
Arrive ==
    /\ Idle /\ arrived < MaxConnections
    /\ Begun(stack, [op |-> "new", num |-> All])
    /\ arrived' = arrived + 1
    /\ UNCHANGED <<slots, outside, got, announced>>

\* The handshake of a slot is over.
Upgraded ==
    /\ Idle
    /\ \E i \in Slots : /\ slots[i].status = "header" /\ slots[i].tcp = "up"
                        /\ slots' = [slots EXCEPT ![i].status = "connected"]
    /\ UNCHANGED <<stack, arrived, called, outside, got, announced>>

\* tcp->connected() turns false, at any time.
Lose ==
    /\ \E i \in Slots : slots[i].tcp = "up" /\ slots' = [slots EXCEPT ![i].tcp = "lost"]
    /\ UNCHANGED <<stack, arrived, called, outside, got, announced>>
-----------------------------------------------------------------------------
Advanced(ok) == [stack EXCEPT ![Len(stack)].at = @ + 1, ![Len(stack)].ret = @ /\ ok]

\* Mutant: the application is told before the slot is given up.
ForgottenAfter(i) == slots

Forgotten(i) == [slots EXCEPT ![i] = Free]

\* clientDisconnect(): the slot is given up, then the application is told; st are
\* the calls under way when its handler begins.
clientDisconnect(st) ==
    /\ slots' = Forgotten(Top.at)
    /\ announced' = [announced EXCEPT ![Slot.conn] = @ + 1]
    /\ \/ stack' = st /\ UNCHANGED called
       \/ \E r \in Requests : Begun(st, r)
    /\ UNCHANGED <<arrived, outside>>

\* connectedClients(), which pings here, looks at the status first.
Skipped ==
    \/ Slot.status = "free" /\ Top.op # "new"
    \/ Slot.status = "header" /\ Top.op = "count"

PassOver ==
    /\ Walking /\ Skipped
    /\ stack' = Advanced(TRUE)
    /\ UNCHANGED <<slots, arrived, called, outside, got, announced>>

\* clientIsConnected() finds a lost connection and cleans it up.  A newClient()
\* then takes this slot, the others go on to the next.
CleanUp ==
    /\ Walking /\ ~ Skipped
    /\ Slot.tcp = "lost"
    /\ clientDisconnect(IF Top.op = "new" THEN stack ELSE Advanced(TRUE))
    /\ UNCHANGED got

NotSent == FALSE

\* sendFrame(): nothing is sent before the handshake is over; and the write may
\* end early, or find the connection lost.
Send ==
    /\ Walking /\ ~ Skipped
    /\ Top.op \in {"send", "count"} /\ Slot.tcp = "up"
    /\ \/ /\ Slot.status = "connected"
          /\ got' = [got EXCEPT ![Slot.conn] = Append(@, Top.id)]
          /\ stack' = Advanced(TRUE)
       \/ UNCHANGED got /\ stack' = Advanced(NotSent)
    /\ UNCHANGED <<slots, arrived, called, outside, announced>>

\* disconnect(): a close frame, if the slot is so far, and the slot is given up.
Close ==
    /\ Walking /\ Top.op = "close" /\ Slot.tcp = "up"
    /\ clientDisconnect(Advanced(TRUE))
    /\ UNCHANGED got

\* A slot in use: newClient() tries the next, and clientIsConnected() says so.
InUse ==
    /\ Walking /\ Top.op \in {"new", "ask"} /\ Slot.tcp = "up"
    /\ stack' = Advanced(TRUE)
    /\ UNCHANGED <<slots, arrived, called, outside, got, announced>>

\* newClient(): the first free slot is taken.
Take ==
    /\ Walking /\ Top.op = "new" /\ Slot.status = "free"
    /\ slots' = [slots EXCEPT ![Top.at] = [status |-> "header", tcp |-> "up", conn |-> arrived]]
    /\ stack' = [stack EXCEPT ![Len(stack)].at = MaxClients]
    /\ UNCHANGED <<arrived, called, outside, got, announced>>

Return ==
    /\ stack # << >> /\ ~ Walking
    /\ stack' = SubSeq(stack, 1, Len(stack) - 1)
    /\ UNCHANGED <<slots, arrived, called, outside, got, announced>>

Step == PassOver \/ CleanUp \/ Send \/ Close \/ InUse \/ Take \/ Return

Next == Request \/ Arrive \/ Upgraded \/ Lose \/ Step

Spec == Init /\ [][Next]_vars
-----------------------------------------------------------------------------
\* However the handler calls back, each call within a call has cleaned up a slot:
\* the calls are nested no deeper than there are slots.
NestedPerSlot == Len(stack) <= MaxClients + 1

\* A send that has not failed so far has reached every connection whose slot it
\* has passed and that is still in the list, whatever was called in between.
TrueMeansSent ==
    \A k \in DOMAIN stack :
      LET f == stack[k] IN
        f.op = "send" /\ f.ret =>
          \A i \in Passed(f) : slots[i].status # "free" => Contains(got[slots[i].conn], f.id)

\* disconnect() leaves no connection behind it, not even one in its handshake, and
\* none comes back while it goes on.
ClosedBehind ==
    \A k \in DOMAIN stack :
      stack[k].op = "close" => \A i \in Passed(stack[k]) : slots[i].status = "free"

\* The end of a connection is announced once, when it has left its slot.
AnnouncedOnce ==
    \A c \in Connections :
      LET here == \E i \in Slots : slots[i].conn = c
      IN /\ announced[c] <= (IF here THEN 0 ELSE 1)
         /\ ~ here /\ got[c] # << >> => announced[c] = 1

\* What WebSocketsServer promises of its calls, whatever the handler calls.
BroadcastsAgree == NestedPerSlot /\ TrueMeansSent /\ ClosedBehind /\ AnnouncedOnce

\* Every call returns.
Returns == stack # << >> ~> Idle
=============================================================================
