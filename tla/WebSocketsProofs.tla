-------------------------- MODULE WebSocketsProofs ---------------------------
(***************************************************************************)
(* Proofs about Broadcast, PingPong, WebSocketsFrame, ServerHandshake and  *)
(* Base64.                                                                 *)
(***************************************************************************)
EXTENDS Broadcast, PingPong, WebSocketsFrame, ServerHandshake, Base64,
        FiniteSetTheorems, SequenceTheorems, WellFoundedInduction, TLAPS

-----------------------------------------------------------------------------
(* The calls to WebSocketsServer, for any number of slots, calls and       *)
(* connections.                                                            *)

SlotType == [status : {"free", "header", "connected"},
             tcp : {"none", "up", "lost"}, conn : Nat]
Call == [op : {"send", "close", "count", "ask", "new"}, id : Nat, ret : BOOLEAN,
         from : Slots, at : 0 .. MaxClients, last : Slots]

TypeInv ==
    /\ slots \in [Slots -> SlotType]
    /\ stack \in Seq(Call)
    /\ arrived \in 0 .. MaxConnections
    /\ called \in Nat
    /\ got \in [Connections -> Seq(Nat)]
    /\ announced \in [Connections -> Nat]

\* A slot is free, or has a connection of its own.
ListInv ==
    \A i \in Slots :
        IF slots[i].status = "free" THEN slots[i] = Free
        ELSE /\ slots[i].tcp # "none" /\ slots[i].conn \in 1 .. arrived
             /\ \A j \in Slots : slots[j].conn = slots[i].conn => i = j

\* Only loop(), which runs outside of all calls, accepts a connection; while it
\* looks for a slot the connection is in none.
CallsInv == \A k \in DOMAIN stack : stack[k].op = "new" => k = 1

Placing == stack # << >> /\ stack[1].op = "new" /\ stack[1].at <= stack[1].last

PlacingInv ==
    Placing => arrived \in Connections /\ \A i \in Slots : slots[i].conn # arrived

\* The calls on st are those under way, the innermost one perhaps a slot further.
Follows(st) ==
    /\ st \in Seq(Call) /\ Len(st) = Len(stack) /\ Len(stack) \in Nat \ {0}
    /\ \A k \in 1 .. Len(st) :
         /\ st[k].op = stack[k].op /\ st[k].last = stack[k].last
         /\ st[k].id = stack[k].id /\ st[k].from = stack[k].from
         /\ k # Len(st) => st[k] = stack[k]
    /\ st[Len(st)].at \in {Top.at, Top.at + 1}

\* A call moves on by one slot and changes nothing of the calls around it.
LEMMA AdvancedFacts ==
  ASSUME BroadcastAssumption, TypeInv, Walking, NEW ok \in BOOLEAN
  PROVE  Follows(Advanced(ok)) /\ Advanced(ok)[Len(stack)].at = Top.at + 1
<1> DEFINE n == Len(stack)
           f == [stack[n] EXCEPT !.at = @ + 1, !.ret = @ /\ ok]
<1>1. n \in Nat \ {0} /\ DOMAIN stack = 1 .. n /\ stack[n] \in Call
  BY DEF TypeInv, Walking
<1>2. /\ f.at = stack[n].at + 1 /\ f.op = stack[n].op /\ f.id = stack[n].id
      /\ f.from = stack[n].from /\ f.last = stack[n].last
  BY <1>1 DEF Call
<1>3. f \in Call
  <2>1. (stack[n].ret /\ ok) \in BOOLEAN /\ stack[n].at + 1 \in 0 .. MaxClients
    BY <1>1 DEF Call, Walking, Top, Slots, BroadcastAssumption
  <2>2. QED
    BY <1>1, <2>1, Zenon DEF Call
<1>4. Advanced(ok) = [stack EXCEPT ![n] = f]
  BY <1>1 DEF Advanced
<1> HIDE DEF f
<1>5. Advanced(ok) \in Seq(Call) /\ Len(Advanced(ok)) = n
  BY <1>1, <1>3, <1>4 DEF TypeInv
<1>6. \A k \in 1 .. n : Advanced(ok)[k] = IF k = n THEN f ELSE stack[k]
  BY <1>1, <1>4 DEF TypeInv
<1>7. \A k \in 1 .. n : LET s == Advanced(ok)
                         IN  /\ k # n => s[k] = stack[k]
                             /\ s[k].op = stack[k].op /\ s[k].id = stack[k].id
                             /\ s[k].from = stack[k].from
                             /\ s[k].last = stack[k].last
  BY <1>2, <1>6
<1>8. Advanced(ok)[n].at = stack[n].at + 1
  <2>1. n \in 1 .. n
    BY <1>1
  <2>2. QED
    BY <1>2, <1>6, <2>1, Zenon
<1> DEFINE s == Advanced(ok)
<1> HIDE DEF s
<1>9. Follows(s)
  BY <1>1, <1>5, <1>7, <1>8 DEF Follows, Top, s
<1>10. QED
  BY <1>8, <1>9 DEF s, Top

\* It has not failed if it had not before, and not at this slot.
LEMMA AdvancedTold ==
  ASSUME TypeInv, stack # << >>, NEW ok \in BOOLEAN
  PROVE  Advanced(ok)[Len(stack)].ret <=> stack[Len(stack)].ret /\ ok
<1> DEFINE n == Len(stack)
           f == [stack[n] EXCEPT !.at = @ + 1, !.ret = @ /\ ok]
<1>1. n \in DOMAIN stack /\ stack[n] \in Call
  BY DEF TypeInv
<1>2. f.ret <=> stack[n].ret /\ ok
  BY <1>1, Zenon DEF Call
<1>3. Advanced(ok) = [stack EXCEPT ![n] = f]
  BY <1>1 DEF Advanced
<1> HIDE DEF f
<1>4. Advanced(ok)[n] = f
  BY <1>1, <1>3, Zenon
<1>5. QED
  BY <1>2, <1>4, Zenon

\* What the application calls.
Asked == {"send", "close", "count", "ask"}

\* The calls on st, and perhaps one more of those in ops that has passed no slot.
Grown(st, ops) ==
    /\ stack' \in Seq(Call) /\ Len(stack') \in {Len(st), Len(st) + 1}
    /\ \A k \in 1 .. Len(st) : stack'[k] = st[k]
    /\ \A k \in 1 .. Len(stack') : k > Len(st) =>
         stack'[k].from = stack'[k].at /\ stack'[k].op \in ops

LEMMA RequestFacts ==
  ASSUME BroadcastAssumption, NEW r \in Requests
  PROVE  r.op \in Asked /\ r.num \in Slots \cup {All}
BY DEF Requests, BroadcastAssumption, Slots, All, Asked

LEMMA BegunFacts ==
  ASSUME BroadcastAssumption, TypeInv, NEW st \in Seq(Call), NEW r, Begun(st, r),
         r.op \in Asked \cup {"new"}, r.num \in Slots \cup {All}
  PROVE  Grown(st, {r.op}) /\ called' \in Nat
<1> DEFINE b == IF r.num = All THEN 0 ELSE r.num
           e == IF r.num = All THEN MaxClients - 1 ELSE r.num
           n == called + 1
           f == [op |-> r.op, id |-> n, ret |-> TRUE, from |-> b, at |-> b,
                 last |-> e]
<1>1. r.op \in {"send", "close", "count", "ask", "new"}
  BY DEF Asked
<1>2. /\ MaxClients - 1 \in Slots /\ Slots \subseteq Nat /\ 0 \in Slots
  BY DEF BroadcastAssumption, Slots
<1>3. b \in Slots /\ b \in 0 .. MaxClients /\ e \in Slots
  BY <1>1, <1>2 DEF Slots, BroadcastAssumption
<1>4. n \in Nat
  BY DEF TypeInv
<1>5. stack' = Append(st, f) /\ called' = n
  BY DEF Begun, Frame
<1> HIDE DEF b, e, n
<1>6. f \in Call
  BY <1>1, <1>3, <1>4, Zenon DEF Call
<1>7. f.op = r.op /\ f.from = f.at
  OBVIOUS
<1> HIDE DEF f
<1>8. /\ stack' \in Seq(Call) /\ Len(stack') = Len(st) + 1 /\ Len(st) \in Nat
      /\ \A k \in 1 .. Len(st) : stack'[k] = st[k]
      /\ stack'[Len(st) + 1] = f
  BY <1>5, <1>6
<1>9. \A k \in 1 .. Len(stack') : k > Len(st) => k = Len(st) + 1
  BY <1>8
<1>10. QED
  BY <1>1, <1>4, <1>5, <1>7, <1>8, <1>9 DEF Grown

\* clientDisconnect() frees the slot, and its handler may begin one call.
LEMMA DisconnectFacts ==
  ASSUME BroadcastAssumption, TypeInv, NEW st \in Seq(Call), clientDisconnect(st)
  PROVE  /\ slots' = [slots EXCEPT ![Top.at] = Free]
         /\ announced' = [announced EXCEPT ![Slot.conn] = @ + 1]
         /\ Grown(st, Asked) /\ called' \in Nat /\ arrived' = arrived
<1>1. stack' = st => Grown(st, Asked)
  BY DEF Grown
<1>2. ASSUME NEW r \in Requests, Begun(st, r)
      PROVE  Grown(st, Asked) /\ called' \in Nat
  <2>1. r.op \in Asked /\ Grown(st, {r.op}) /\ called' \in Nat
    BY <1>2, RequestFacts, BegunFacts
  <2>2. QED
    BY <2>1 DEF Grown
<1>3. QED
  BY <1>1, <1>2 DEF clientDisconnect, Forgotten, TypeInv

\* A call that returns leaves those around it.
LEMMA ReturnFacts ==
  ASSUME TypeInv, Return
  PROVE  /\ stack' \in Seq(Call) /\ Len(stack') = Len(stack) - 1
         /\ Len(stack) \in Nat \ {0} /\ DOMAIN stack = 1 .. Len(stack)
         /\ \A k \in 1 .. Len(stack') : stack'[k] = stack[k]
<1>1. stack \in Seq(Call) /\ Len(stack) \in Nat \ {0}
  BY DEF TypeInv, Return
<1>2. stack' = SubSeq(stack, 1, Len(stack) - 1)
  BY DEF Return
<1> DEFINE n == Len(stack) - 1
           s == SubSeq(stack, 1, n)
<1>3. n \in Nat /\ n \in Int /\ 1 \in Int /\ \A i \in 1 .. n : stack[i] \in Call
  BY <1>1
<1> HIDE DEF n
<1>4. Len(s) = n
  BY <1>1, <1>3
<1>5. \A i \in 1 .. n : s[i] = stack[i]
  BY <1>1, <1>3 DEF n
<1>6. s \in Seq(Call)
  BY <1>1, <1>3 DEF n
<1> HIDE DEF s
<1>7. stack' = s
  BY <1>2 DEF n, s
<1>8. QED
  BY <1>1, <1>4, <1>5, <1>6, <1>7 DEF n

\* The slot at which the innermost call stands.
LEMMA WalkingFacts ==
  ASSUME BroadcastAssumption, TypeInv, Walking
  PROVE  /\ Top \in Call /\ Top.at \in Slots /\ Slot \in SlotType
         /\ Len(stack) \in Nat \ {0} /\ DOMAIN stack = 1 .. Len(stack)
<1>1. Len(stack) \in Nat \ {0} /\ DOMAIN stack = 1 .. Len(stack) /\ Top \in Call
  BY DEF TypeInv, Walking, Top
<1>2. Top.at \in Nat /\ Top.last \in Slots
  BY <1>1 DEF Call
<1>3. Top.at \in Slots
  BY <1>2 DEF Walking, Slots, BroadcastAssumption
<1>4. QED
  BY <1>1, <1>3 DEF TypeInv, Slot

BaseInv == TypeInv /\ ListInv /\ CallsInv /\ PlacingInv

\* Every step at a slot but Take leaves the slot as it was or frees it.
LEMMA StepFacts ==
  ASSUME BroadcastAssumption, BaseInv, PassOver \/ CleanUp \/ Send \/ Close \/ InUse
  PROVE  /\ Walking /\ called' \in Nat /\ arrived' = arrived
         /\ slots' = slots \/ slots' = [slots EXCEPT ![Top.at] = Free]
         /\ \E st : Follows(st) /\ Grown(st, Asked)
<1> USE DEF BaseInv
<1>1. Walking /\ stack # << >>
  BY DEF PassOver, CleanUp, Send, Close, InUse, Walking
<1>2. Follows(stack)
  BY <1>1, WalkingFacts DEF Follows, TypeInv, Top
<1>3. ASSUME NEW ok \in BOOLEAN
      PROVE  Follows(Advanced(ok))
  BY <1>1, <1>3, AdvancedFacts
<1>4. ASSUME NEW st, Follows(st), stack' = st
      PROVE  Grown(st, Asked)
  BY <1>4 DEF Follows, Grown
<1>5. CASE PassOver \/ Send \/ InUse
  <2>1. PICK ok \in BOOLEAN : stack' = Advanced(ok)
    BY <1>5 DEF PassOver, Send, InUse, NotSent
  <2>2. slots' = slots /\ called' \in Nat /\ arrived' = arrived
    BY <1>5 DEF PassOver, Send, InUse, TypeInv
  <2>3. QED
    BY <1>1, <1>3, <1>4, <2>1, <2>2
<1>6. CASE CleanUp \/ Close
  <2>1. PICK st : Follows(st) /\ clientDisconnect(st)
    BY <1>2, <1>3, <1>6 DEF CleanUp, Close
  <2>2. QED
    BY <1>1, <2>1, DisconnectFacts DEF Follows
<1>7. QED
  BY <1>5, <1>6

\* A slot that is freed keeps the list in order.
LEMMA FreedFacts ==
  ASSUME TypeInv, ListInv, NEW i \in Slots, slots' = [slots EXCEPT ![i] = Free],
         arrived' = arrived
  PROVE  /\ slots' \in [Slots -> SlotType] /\ ListInv'
         /\ \A j \in Slots : slots'[j] = IF j = i THEN Free ELSE slots[j]
<1>1. Free \in SlotType /\ Free.conn = 0 /\ Free.status = "free"
  BY DEF Free, SlotType
<1>2. slots' \in [Slots -> SlotType]
  BY <1>1 DEF TypeInv
<1>3. \A j \in Slots : slots'[j] = IF j = i THEN Free ELSE slots[j]
  BY DEF TypeInv
<1>4. ListInv'
  BY <1>1, <1>3 DEF ListInv, TypeInv
<1>5. QED
  BY <1>2, <1>3, <1>4

\* So do the calls.
LEMMA CallsFacts ==
  ASSUME BaseInv, NEW st, Follows(st), Grown(st, Asked), arrived' = arrived,
         \A i \in Slots : slots'[i].conn \in {slots[i].conn, 0}
  PROVE  CallsInv' /\ PlacingInv' /\ (Placing' => Placing)
<1>1. /\ Len(st) \in Nat \ {0} /\ DOMAIN stack = 1 .. Len(st)
      /\ Len(stack') \in Nat /\ DOMAIN stack' = 1 .. Len(stack')
      /\ \A k \in 1 .. Len(st) : stack[k] \in Call
  BY DEF Follows, Grown, BaseInv, TypeInv
<1>2. \A k \in 1 .. Len(stack') : k > Len(st) => stack'[k].op # "new"
  BY DEF Grown, Asked
<1>3. \A k \in 1 .. Len(st) :
        /\ stack'[k].op = stack[k].op /\ stack'[k].last = stack[k].last
        /\ stack'[k].at \in {stack[k].at, stack[k].at + 1}
  <2>1. \A k \in 1 .. Len(st) : stack'[k] = st[k]
    BY DEF Grown
  <2>2. \A k \in 1 .. Len(st) : st[k].op = stack[k].op /\ st[k].last = stack[k].last
    BY DEF Follows
  <2>3. \A k \in 1 .. Len(st) : st[k].at \in {stack[k].at, stack[k].at + 1}
    <3>1. SUFFICES ASSUME NEW k \in 1 .. Len(st)
                   PROVE  st[k].at \in {stack[k].at, stack[k].at + 1}
      OBVIOUS
    <3>2. CASE k = Len(st)
      <4>1. st[k].at \in {stack[Len(stack)].at, stack[Len(stack)].at + 1}
        BY <3>2, Zenon DEF Follows, Top
      <4>2. Len(stack) = k
        BY <3>2, Zenon DEF Follows
      <4>3. QED
        BY <4>1, <4>2, Zenon
    <3>3. CASE k # Len(st)
      <4>1. st[k] = stack[k]
        BY <3>1, <3>3, Zenon DEF Follows
      <4>2. QED
        BY <4>1, Zenon
    <3>4. QED
      BY <3>2, <3>3, Zenon
  <2>4. QED
    BY <2>1, <2>2, <2>3, Zenon
<1>4. CallsInv'
  BY <1>1, <1>2, <1>3 DEF CallsInv, BaseInv
<1>5. Placing' => Placing
  <2>1. 1 \in 1 .. Len(st) /\ stack[1].at \in Nat /\ stack[1].last \in Int
    BY <1>1 DEF Call, Slots
  <2>2. QED
    BY <1>1, <1>3, <2>1 DEF Placing
<1>6. PlacingInv'
  BY <1>5 DEF PlacingInv, BaseInv, Connections
<1>7. QED
  BY <1>4, <1>5, <1>6

\* The history has its types.
LEMMA HistoryTypes ==
  ASSUME BroadcastAssumption, BaseInv, [Next]_vars
  PROVE  got' \in [Connections -> Seq(Nat)] /\ announced' \in [Connections -> Nat]
<1>0. got \in [Connections -> Seq(Nat)] /\ announced \in [Connections -> Nat]
  BY DEF BaseInv, TypeInv
<1>1. ASSUME Walking, Slot.tcp # "none" \/ Slot.status # "free"
      PROVE  Slot.conn \in Connections /\ Top.id \in Nat
  <2>1. Top \in Call /\ Top.at \in Slots /\ Slot = slots[Top.at]
    BY <1>1, WalkingFacts DEF BaseInv, Slot
  <2>2. Slot.status # "free"
    BY <1>1, <2>1 DEF BaseInv, ListInv, Free
  <2>3. Slot.conn \in 1 .. arrived /\ arrived \in 0 .. MaxConnections
    BY <2>1, <2>2 DEF BaseInv, ListInv, TypeInv
  <2>4. QED
    BY <2>1, <2>3 DEF Call, Connections, BroadcastAssumption
<1>2. CASE CleanUp \/ Close \/ Send
  <2>1. Walking /\ Slot.tcp # "none"
    BY <1>2 DEF CleanUp, Close, Send
  <2> DEFINE c == Slot.conn  n == Top.id
  <2>2. c \in Connections /\ n \in Nat
    BY <1>1, <2>1
  <2>3. /\ announced' = announced \/ announced' = [announced EXCEPT ![c] = @ + 1]
        /\ got' = got \/ got' = [got EXCEPT ![c] = Append(@, n)]
    BY <1>2 DEF CleanUp, Close, clientDisconnect, Send
  <2> HIDE DEF c, n
  <2>4. announced' \in [Connections -> Nat]
    <3>1. announced[c] + 1 \in Nat
      BY <1>0, <2>2
    <3>2. QED
      BY <1>0, <2>2, <2>3, <3>1
  <2>5. Append(got[c], n) \in Seq(Nat)
    BY <1>0, <2>2
  <2>6. got' \in [Connections -> Seq(Nat)]
    BY <1>0, <2>2, <2>3, <2>5
  <2>7. QED
    BY <2>4, <2>6
<1>3. CASE Request \/ Arrive \/ Upgraded \/ Lose \/ PassOver \/ InUse \/ Take
           \/ Return \/ UNCHANGED vars
  BY <1>0, <1>3 DEF Request, Arrive, Upgraded, Lose, PassOver, InUse, Take, Return, vars
<1>4. QED
  BY <1>2, <1>3 DEF Next, Step

\* The list and the calls stay in order.
LEMMA BaseStep ==
  ASSUME BroadcastAssumption, BaseInv, [Next]_vars
  PROVE  BaseInv'
<1>1. /\ slots \in [Slots -> SlotType] /\ stack \in Seq(Call)
      /\ arrived \in 0 .. MaxConnections /\ called \in Nat
      /\ ListInv /\ CallsInv /\ PlacingInv /\ TypeInv
  BY DEF BaseInv, TypeInv
<1>2. SUFFICES /\ slots' \in [Slots -> SlotType] /\ stack' \in Seq(Call)
               /\ arrived' \in 0 .. MaxConnections /\ called' \in Nat
               /\ ListInv' /\ CallsInv' /\ PlacingInv'
  BY HistoryTypes DEF BaseInv, TypeInv
<1>3. << >> \in Seq(Call) /\ Len(<< >>) = 0
  OBVIOUS
<1>4. CASE Request
  <2>1. PICK r \in Requests : stack = << >> /\ Begun(stack, r)
    BY <1>4 DEF Request, Idle
  <2>2. /\ r.op \in Asked /\ Grown(<< >>, {r.op}) /\ called' \in Nat
    BY <1>1, <1>3, <2>1, RequestFacts, BegunFacts
  <2>3. /\ stack' \in Seq(Call) /\ Len(stack') \in {0, 1}
        /\ \A k \in DOMAIN stack' : stack'[k].op # "new"
    BY <1>3, <2>2 DEF Grown, Asked
  <2>4. ~ Placing' /\ CallsInv'
    BY <2>3 DEF Placing, CallsInv
  <2>5. UNCHANGED <<slots, arrived>>
    BY <1>4 DEF Request
  <2>6. QED
    BY <1>1, <2>2, <2>3, <2>4, <2>5 DEF PlacingInv, ListInv
<1>5. CASE Arrive
  <2> DEFINE r == [op |-> "new", num |-> All]
  <2>1. /\ stack = << >> /\ Begun(stack, r) /\ UNCHANGED slots
        /\ arrived < MaxConnections /\ arrived' = arrived + 1
    BY <1>5 DEF Arrive, Idle
  <2>2. r.op = "new" /\ r.num \in Slots \cup {All}
    OBVIOUS
  <2> HIDE DEF r
  <2>3. Grown(<< >>, {"new"}) /\ called' \in Nat
    BY <1>1, <1>3, <2>1, <2>2, BegunFacts
  <2>4. stack' \in Seq(Call) /\ Len(stack') \in {0, 1}
    BY <1>3, <2>3 DEF Grown
  <2>5. CallsInv'
    BY <2>4 DEF CallsInv
  <2>6. arrived' \in 1 .. MaxConnections /\ arrived' > arrived
    BY <1>1, <2>1 DEF BroadcastAssumption
  <2>7. ListInv' /\ \A i \in Slots : slots'[i].conn # arrived'
    <3>1. Free.conn = 0
      BY DEF Free
    <3>2. QED
      BY <1>1, <2>1, <2>6, <3>1 DEF ListInv
  <2>8. QED
    BY <1>1, <2>1, <2>3, <2>4, <2>5, <2>6, <2>7 DEF PlacingInv, Connections
<1>6. CASE Upgraded \/ Lose
  <2>1. UNCHANGED <<stack, arrived, called>>
    BY <1>6 DEF Upgraded, Lose
  <2>2. PICK i \in Slots, s \in SlotType :
          /\ slots' = [slots EXCEPT ![i] = s]
          /\ slots[i].tcp = "up" /\ s.conn = slots[i].conn
          /\ s.tcp # "none"
          /\ \/ s.status = slots[i].status
             \/ slots[i].status = "header" /\ s.status = "connected"
    <3>1. CASE Upgraded
      <4>1. PICK i \in Slots : /\ slots[i].status = "header" /\ slots[i].tcp = "up"
                               /\ slots' = [slots EXCEPT ![i].status = "connected"]
        BY <3>1 DEF Upgraded
      <4> DEFINE s == [slots[i] EXCEPT !.status = "connected"]
      <4>2. /\ s \in SlotType /\ s.conn = slots[i].conn /\ s.tcp = slots[i].tcp
            /\ s.status = "connected"
        BY <1>1 DEF SlotType
      <4>3. slots' = [slots EXCEPT ![i] = s]
        BY <1>1, <4>1
      <4> HIDE DEF s
      <4>4. QED
        BY <4>1, <4>2, <4>3
    <3>2. CASE Lose
      <4>1. PICK i \in Slots : /\ slots[i].tcp = "up"
                               /\ slots' = [slots EXCEPT ![i].tcp = "lost"]
        BY <3>2 DEF Lose
      <4> DEFINE s == [slots[i] EXCEPT !.tcp = "lost"]
      <4>2. /\ s \in SlotType /\ s.conn = slots[i].conn /\ s.tcp = "lost"
            /\ s.status = slots[i].status
        BY <1>1 DEF SlotType
      <4>3. slots' = [slots EXCEPT ![i] = s] /\ s.tcp # "none"
        BY <1>1, <4>1, <4>2
      <4> HIDE DEF s
      <4>4. QED
        BY <4>1, <4>2, <4>3
    <3>3. QED
      BY <1>6, <3>1, <3>2
  <2>3. slots[i].status # "free" /\ s.status # "free"
    BY <1>1, <2>2 DEF ListInv, Free
  <2>4. /\ slots' \in [Slots -> SlotType]
        /\ \A j \in Slots : slots'[j] = IF j = i THEN s ELSE slots[j]
    BY <1>1, <2>2
  <2>5. ListInv'
    BY <1>1, <2>1, <2>2, <2>3, <2>4 DEF ListInv
  <2>6. CallsInv' /\ PlacingInv'
    BY <1>1, <2>1, <2>2, <2>4 DEF CallsInv, PlacingInv, Placing
  <2>7. QED
    BY <1>1, <2>1, <2>4, <2>5, <2>6
<1>7. CASE PassOver \/ CleanUp \/ Send \/ Close \/ InUse
  <2>1. /\ Walking /\ called' \in Nat /\ arrived' = arrived
        /\ slots' = slots \/ slots' = [slots EXCEPT ![Top.at] = Free]
    BY <1>7, StepFacts
  <2>2. PICK st : Follows(st) /\ Grown(st, Asked)
    BY <1>7, StepFacts
  <2>3. /\ slots' \in [Slots -> SlotType] /\ ListInv'
        /\ \A j \in Slots : slots'[j] \in {slots[j], Free}
    <3>1. CASE slots' = slots
      BY <1>1, <2>1, <3>1 DEF ListInv
    <3>2. CASE slots' = [slots EXCEPT ![Top.at] = Free]
      BY <1>1, <2>1, <3>2, WalkingFacts, FreedFacts
    <3>3. QED
      BY <2>1, <3>1, <3>2
  <2>4. CallsInv' /\ PlacingInv'
    BY <2>1, <2>2, <2>3, CallsFacts DEF Free
  <2>5. QED
    BY <1>1, <2>1, <2>2, <2>3, <2>4 DEF Grown
<1>8. CASE Take
  <2> DEFINE s == [status |-> "header", tcp |-> "up", conn |-> arrived]
             f == [Top EXCEPT !.at = MaxClients]
  <2>1. /\ Walking /\ Top.op = "new" /\ Slot.status = "free"
        /\ slots' = [slots EXCEPT ![Top.at] = s]
        /\ UNCHANGED <<arrived, called>>
    BY <1>8 DEF Take
  <2>2. /\ Top \in Call /\ Top.at \in Slots /\ Len(stack) = 1 /\ DOMAIN stack = {1}
    BY <1>1, <2>1, WalkingFacts DEF CallsInv, Top
  <2>3. Placing /\ arrived \in Connections /\ \A i \in Slots : slots[i].conn # arrived
    BY <1>1, <2>1, <2>2 DEF Placing, PlacingInv, Walking, Top
  <2>4. /\ s \in SlotType /\ s.conn = arrived /\ s.status = "header" /\ s.tcp = "up"
    BY <1>1 DEF SlotType
  <2> HIDE DEF s
  <2>5. /\ slots' \in [Slots -> SlotType]
        /\ \A j \in Slots : slots'[j] = IF j = Top.at THEN s ELSE slots[j]
    BY <1>1, <2>1, <2>4
  <2>6. ListInv'
    BY <1>1, <2>1, <2>3, <2>4, <2>5 DEF ListInv, Connections
  <2>7. f \in Call /\ f.op = "new" /\ f.at = MaxClients /\ f.last \in Slots
    BY <2>1, <2>2 DEF Call, BroadcastAssumption
  <2>8. stack' = [stack EXCEPT ![1] = f]
    BY <1>1, <1>8, <2>2 DEF Take, Top
  <2> HIDE DEF f
  <2>9. stack' \in Seq(Call) /\ Len(stack') = 1 /\ stack'[1] = f /\ DOMAIN stack' = {1}
    <3>1. DOMAIN stack' = {1} /\ stack'[1] = f
      BY <2>2, <2>8
    <3>2. Len(stack) \in Nat \ {0} /\ stack' = [stack EXCEPT ![Len(stack)] = f]
      BY <2>2, <2>8
    <3>3. stack' \in Seq(Call) /\ Len(stack') = Len(stack)
      BY <1>1, <2>7, <3>2
    <3>4. QED
      BY <3>1, <3>2, <3>3
  <2>10. ~ Placing' /\ CallsInv'
    BY <2>7, <2>9 DEF Placing, CallsInv, Slots, BroadcastAssumption
  <2>11. QED
    BY <1>1, <2>1, <2>5, <2>6, <2>9, <2>10 DEF PlacingInv
<1>9. CASE Return
  <2>1. UNCHANGED <<slots, arrived, called>>
    BY <1>9 DEF Return
  <2>2. /\ stack' \in Seq(Call) /\ Len(stack') = Len(stack) - 1
        /\ Len(stack) \in Nat \ {0} /\ DOMAIN stack = 1 .. Len(stack)
        /\ \A k \in 1 .. Len(stack') : stack'[k] = stack[k]
    BY <1>1, <1>9, ReturnFacts
  <2>3. CallsInv' /\ (Placing' => Placing)
    <3>1. CallsInv'
      BY <1>1, <2>2 DEF CallsInv
    <3>2. Placing' => 1 \in 1 .. Len(stack') /\ stack'[1] = stack[1] /\ stack # << >>
      BY <1>1, <2>2 DEF Placing
    <3>3. QED
      BY <3>1, <3>2 DEF Placing
  <2>4. QED
    BY <1>1, <2>1, <2>2, <2>3 DEF ListInv, PlacingInv
<1>10. CASE UNCHANGED vars
  BY <1>1, <1>10 DEF vars, ListInv, CallsInv, PlacingInv, Placing
<1>11. QED
  BY <1>4, <1>5, <1>6, <1>7, <1>8, <1>9, <1>10 DEF Next, Step

LEMMA BaseInit ==
  ASSUME BroadcastAssumption, Init
  PROVE  BaseInv
<1>1. /\ slots = [i \in Slots |-> Free] /\ stack = << >> /\ arrived = 0 /\ called = 0
      /\ got = [c \in Connections |-> << >>]
      /\ announced = [c \in Connections |-> 0]
  BY DEF Init
<1>2. Free \in SlotType /\ Free.status = "free"
  BY DEF Free, SlotType
<1>3. << >> \in Seq(Call) /\ << >> \in Seq(Nat) /\ DOMAIN << >> = {}
  OBVIOUS
<1>4. TypeInv
  BY <1>1, <1>2, <1>3 DEF TypeInv, BroadcastAssumption
<1>5. ListInv /\ CallsInv /\ PlacingInv
  BY <1>1, <1>2, <1>3 DEF ListInv, CallsInv, PlacingInv, Placing
<1>6. QED
  BY <1>4, <1>5 DEF BaseInv

\* A step at a slot that keeps all slots keeps the number of calls as well.
LEMMA KeptFacts ==
  ASSUME BroadcastAssumption, BaseInv, PassOver \/ Send \/ InUse
  PROVE  /\ UNCHANGED <<slots, announced, arrived>>
         /\ \E ok \in BOOLEAN : stack' = Advanced(ok)
         /\ Len(stack') = Len(stack)
<1>1. PICK ok \in BOOLEAN : stack' = Advanced(ok)
  BY DEF PassOver, Send, InUse, NotSent
<1>2. Walking /\ UNCHANGED <<slots, announced, arrived>>
  BY DEF PassOver, Send, InUse
<1>3. Follows(Advanced(ok))
  BY <1>2, AdvancedFacts DEF BaseInv
<1>4. QED
  BY <1>1, <1>2, <1>3 DEF Follows

\* A cleaned up slot was in use; one call more begins at the most.
LEMMA CleanedFacts ==
  ASSUME BroadcastAssumption, BaseInv, CleanUp \/ Close
  PROVE  /\ Top.at \in Slots /\ Slot.status # "free" /\ Slot.conn \in Connections
         /\ \A j \in Slots : slots'[j] = IF j = Top.at THEN Free ELSE slots[j]
         /\ announced' = [announced EXCEPT ![Slot.conn] = @ + 1]
         /\ got' = got /\ arrived' = arrived
         /\ Len(stack') \in {Len(stack), Len(stack) + 1}
<1>1. Walking /\ Slot.tcp # "none" /\ got' = got
  BY DEF CleanUp, Close
<1>2. Top.at \in Slots /\ Slot = slots[Top.at]
  BY <1>1, WalkingFacts DEF BaseInv, Slot
<1>3. Slot.status # "free"
  BY <1>1, <1>2 DEF BaseInv, ListInv, Free
<1>4. Slot.conn \in Connections
  BY <1>2, <1>3 DEF BaseInv, ListInv, TypeInv, Connections, BroadcastAssumption
<1>5. Follows(stack) /\ Follows(Advanced(TRUE))
  BY <1>1, WalkingFacts, AdvancedFacts DEF BaseInv, Follows, TypeInv, Top
<1>6. PICK st : Follows(st) /\ clientDisconnect(st)
  BY <1>5 DEF CleanUp, Close
<1>7. /\ slots' = [slots EXCEPT ![Top.at] = Free]
      /\ announced' = [announced EXCEPT ![Slot.conn] = @ + 1]
      /\ Grown(st, Asked) /\ arrived' = arrived
  BY <1>6, DisconnectFacts DEF BaseInv, Follows
<1>8. Len(stack') \in {Len(stack), Len(stack) + 1}
  BY <1>6, <1>7 DEF Follows, Grown
<1>9. QED
  BY <1>1, <1>2, <1>3, <1>4, <1>7, <1>8 DEF BaseInv, TypeInv

\* The slots that are in use; every call around the innermost one has freed one.
Used == {i \in Slots : slots[i].status # "free"}

DepthInv == stack # << >> => Len(stack) + Cardinality(Used) <= MaxClients + 1

LEMMA UsedFacts ==
  ASSUME BroadcastAssumption
  PROVE  /\ IsFiniteSet(Used) /\ Cardinality(Used) \in 0 .. MaxClients
         /\ Cardinality(Used') \in 0 .. MaxClients
<1>1. IsFiniteSet(Slots) /\ Cardinality(Slots) = MaxClients
  <2>1. 0 \in Int /\ MaxClients - 1 \in Int /\ 0 <= MaxClients - 1
    BY DEF BroadcastAssumption
  <2>2. QED
    BY <2>1, FS_Interval DEF Slots, BroadcastAssumption
<1>2. ASSUME NEW S \in SUBSET Slots
      PROVE  IsFiniteSet(S) /\ Cardinality(S) \in 0 .. MaxClients
  BY <1>1, FS_Subset, FS_CardinalityType DEF BroadcastAssumption
<1>3. Used \in SUBSET Slots /\ Used' \in SUBSET Slots
  BY DEF Used
<1>4. QED
  BY <1>2, <1>3

LEMMA DepthStep ==
  ASSUME BroadcastAssumption, BaseInv, DepthInv, [Next]_vars
  PROVE  DepthInv'
<1>1. /\ IsFiniteSet(Used) /\ Cardinality(Used) \in 0 .. MaxClients
      /\ Cardinality(Used') \in 0 .. MaxClients
      /\ MaxClients \in Nat /\ Len(stack) \in Nat
  BY UsedFacts DEF BroadcastAssumption, BaseInv, TypeInv
<1>2. ASSUME Len(stack') = 1
      PROVE  DepthInv'
  BY <1>1, <1>2 DEF DepthInv
<1>3. ASSUME stack # << >>, Used' = Used, Len(stack') \in 0 .. Len(stack)
      PROVE  DepthInv'
  BY <1>1, <1>3 DEF DepthInv
<1>4. CASE Request
  <2>1. PICK r \in Requests : stack = << >> /\ stack' = Append(stack, Frame(r.op, r.num, called + 1))
    BY <1>4 DEF Request, Idle, Begun
  <2>2. Len(stack') = 1
    BY <2>1
  <2>3. QED
    BY <1>2, <2>2
<1>5. CASE Arrive
  <2>1. stack = << >> /\ stack' = Append(stack, Frame("new", All, called + 1))
    BY <1>5 DEF Arrive, Idle, Begun
  <2>2. Len(stack') = 1
    BY <2>1
  <2>3. QED
    BY <1>2, <2>2
<1>6. CASE Upgraded
  BY <1>6 DEF Upgraded, Idle, DepthInv
<1>7. CASE Lose
  <2>1. stack' = stack
    BY <1>7 DEF Lose
  <2>2. \A i \in Slots : slots'[i].status = slots[i].status
    BY <1>7 DEF Lose, BaseInv, TypeInv, SlotType
  <2>3. QED
    BY <1>1, <2>1, <2>2 DEF DepthInv, Used
<1>8. CASE PassOver \/ Send \/ InUse
  <2>1. stack # << >>
    BY <1>8 DEF PassOver, Send, InUse, Walking
  <2>2. slots' = slots /\ Len(stack') = Len(stack)
    BY <1>8, KeptFacts
  <2>3. Used' = Used
    BY <2>2 DEF Used
  <2>4. QED
    BY <1>1, <1>3, <2>1, <2>2, <2>3
<1>9. CASE CleanUp \/ Close
  <2>1. /\ Top.at \in Used /\ stack # << >>
        /\ Len(stack') \in {Len(stack), Len(stack) + 1}
    BY <1>9, CleanedFacts DEF Slot, Used, CleanUp, Close, Walking
  <2>2. Used' = Used \ {Top.at}
    BY <1>9, CleanedFacts DEF Used, Free
  <2>3. Cardinality(Used') = Cardinality(Used) - 1
    BY <1>1, <2>1, <2>2, FS_RemoveElement
  <2>4. QED
    BY <1>1, <2>1, <2>3 DEF DepthInv
<1>10. CASE Take
  <2>1. Walking /\ Top.op = "new"
    BY <1>10 DEF Take
  <2>2. Len(stack) = 1
    BY <2>1, WalkingFacts DEF BaseInv, CallsInv, Top
  <2>3. Len(stack') = Len(stack)
    BY <1>10, <2>2 DEF Take, BaseInv, TypeInv
  <2>4. QED
    BY <1>2, <2>2, <2>3
<1>11. CASE Return
  <2>1. Used' = Used /\ stack # << >>
    BY <1>11 DEF Return, Used
  <2>2. Len(stack') \in 0 .. Len(stack)
    BY <1>11, ReturnFacts DEF BaseInv
  <2>3. QED
    BY <1>3, <2>1, <2>2
<1>12. CASE UNCHANGED vars
  BY <1>12 DEF vars, DepthInv, Used
<1>13. QED
  BY <1>4, <1>5, <1>6, <1>7, <1>8, <1>9, <1>10, <1>11, <1>12 DEF Next, Step

\* A message that a connection was sent stays one.
LEMMA SentStays ==
  ASSUME NEW s \in Seq(Nat), NEW e \in Nat, NEW x \in Nat
  PROVE  /\ Contains(s, e) => Contains(Append(s, x), e)
         /\ Contains(Append(s, x), x)
<1>1. /\ Append(s, x) \in Seq(Nat) /\ Len(Append(s, x)) = Len(s) + 1 /\ Len(s) \in Nat
      /\ \A i \in 1 .. Len(s) : Append(s, x)[i] = s[i]
      /\ Append(s, x)[Len(s) + 1] = x
  OBVIOUS
<1>2. QED
  BY <1>1 DEF Contains

LEMMA GotStays ==
  ASSUME BroadcastAssumption, BaseInv, [Next]_vars, NEW c \in Connections, NEW e \in Nat,
         Contains(got[c], e)
  PROVE  Contains(got'[c], e)
<1>1. CASE Send
  <2>1. Walking /\ Slot.tcp = "up"
    BY <1>1 DEF Send
  <2>2. Top.id \in Nat
    BY <2>1, WalkingFacts DEF BaseInv, Call
  <2>3. got[c] \in Seq(Nat)
    BY DEF BaseInv, TypeInv
  <2>4. Contains(Append(got[c], Top.id), e)
    BY <2>2, <2>3, SentStays
  <2>5. got' = got \/ got' = [got EXCEPT ![Slot.conn] = Append(@, Top.id)]
    BY <1>1 DEF Send
  <2>6. QED
    BY <2>4, <2>5 DEF BaseInv, TypeInv
<1>2. CASE ~ Send
  BY <1>2 DEF Next, Step, Request, Arrive, Upgraded, Lose, PassOver, CleanUp, Close, InUse,
              Take, Return, vars
<1>3. QED
  BY <1>1, <1>2

\* What the innermost call has done with its slot when it leaves it.
LEMMA LeftFacts ==
  ASSUME BroadcastAssumption, BaseInv, PassOver \/ CleanUp \/ Send \/ Close \/ InUse
  PROVE  /\ Top.op = "close" => slots'[Top.at].status = "free"
         /\ Top.op = "send" /\ stack'[Len(stack)].ret =>
              /\ Top.ret
              /\ slots'[Top.at].status # "free" => Contains(got'[Slot.conn], Top.id)
<1>1. Walking /\ Top.at \in Slots /\ Top \in Call /\ Slot = slots[Top.at]
      /\ Top = stack[Len(stack)] /\ Len(stack) \in Nat \ {0}
  <2>1. Walking
    BY DEF PassOver, CleanUp, Send, Close, InUse
  <2>2. QED
    BY <2>1, WalkingFacts DEF BaseInv, Slot, Top
<1>2. \A ok \in BOOLEAN : Advanced(ok)[Len(stack)].ret <=> (Top.ret /\ ok)
  BY <1>1, AdvancedTold DEF BaseInv, Walking
<1>3. CASE CleanUp \/ Close
  <2>1. slots'[Top.at].status = "free"
    BY <1>1, <1>3, CleanedFacts DEF Free
  <2>2. PICK st : clientDisconnect(st) /\ (Top.op # "new" => st = Advanced(TRUE))
    BY <1>3 DEF CleanUp, Close
  <2>3. Top.op = "send" => Follows(Advanced(TRUE))
    BY <1>1, AdvancedFacts DEF BaseInv
  <2>4. Top.op = "send" => stack'[Len(stack)] = Advanced(TRUE)[Len(stack)]
    <3>1. ASSUME Top.op = "send"
          PROVE  stack'[Len(stack)] = Advanced(TRUE)[Len(stack)]
      <4>1. st = Advanced(TRUE) /\ st \in Seq(Call) /\ Len(stack) \in 1 .. Len(st)
        <5>1. Top.op # "new"
          BY <3>1
        <5>2. st = Advanced(TRUE) /\ Follows(st)
          BY <2>2, <2>3, <3>1, <5>1, Zenon
        <5>3. Follows(st)
          BY <5>2
        <5>4. st \in Seq(Call) /\ Len(stack) \in 1 .. Len(st)
          BY <5>3 DEF Follows
        <5>5. QED
          BY <5>2, <5>4, Zenon
      <4>2. Grown(st, Asked)
        BY <2>2, <4>1, DisconnectFacts DEF BaseInv
      <4>3. QED
        BY <4>1, <4>2 DEF Grown
    <3>2. QED
      BY <3>1
  <2>5. Top.op = "send" /\ stack'[Len(stack)].ret => Top.ret
    BY <1>2, <2>4, Zenon
  <2>6. QED
    BY <2>1, <2>5, Zenon
<1>4. CASE PassOver
  <2>1. stack' = Advanced(TRUE) /\ slots' = slots
    BY <1>4 DEF PassOver
  <2>2. Top.op \in {"close", "send"} => slots'[Top.at].status = "free"
    BY <1>1, <1>4, <2>1 DEF PassOver, Skipped
  <2>3. stack'[Len(stack)].ret => Top.ret
    BY <1>2, <2>1, Zenon
  <2>4. QED
    BY <2>2, <2>3
<1>5. CASE Send
  <2>1. Top.op # "close" /\ Slot.tcp = "up"
    BY <1>5 DEF Send
  <2>2. CASE stack' = Advanced(NotSent)
    BY <1>2, <2>1, <2>2, Zenon DEF NotSent
  <2>3. CASE stack' = Advanced(TRUE) /\ got' = [got EXCEPT ![Slot.conn] = Append(@, Top.id)]
    <3>1. Slot.conn \in Connections
      BY <1>1, <2>1 DEF BaseInv, ListInv, TypeInv, Free, Connections, BroadcastAssumption
    <3>2. got[Slot.conn] \in Seq(Nat) /\ Top.id \in Nat
      BY <1>1, <3>1 DEF BaseInv, TypeInv, Call
    <3>3. got'[Slot.conn] = Append(got[Slot.conn], Top.id)
      BY <2>3, <3>1 DEF BaseInv, TypeInv
    <3>4. Contains(got'[Slot.conn], Top.id)
      BY <3>2, <3>3, SentStays
    <3>5. stack'[Len(stack)].ret => Top.ret
      BY <1>2, <2>3, Zenon
    <3>6. QED
      BY <2>1, <3>4, <3>5, Zenon
  <2>4. QED
    BY <1>5, <2>2, <2>3 DEF Send
<1>6. CASE InUse
  BY <1>6 DEF InUse
<1>7. QED
  BY <1>3, <1>4, <1>5, <1>6

\* Only a newClient() puts a connection into a slot.
LEMMA SlotsKept ==
  ASSUME BroadcastAssumption, BaseInv, [Next]_vars, ~ Take, NEW i \in Slots,
         slots'[i].status # "free"
  PROVE  slots[i].status # "free" /\ slots'[i].conn = slots[i].conn
<1>1. CASE PassOver \/ Send \/ InUse
  BY <1>1, KeptFacts
<1>2. CASE CleanUp \/ Close
  BY <1>2, CleanedFacts DEF Free
<1>3. CASE Upgraded
  <2>1. PICK j \in Slots : /\ slots[j].status = "header"
                           /\ slots' = [slots EXCEPT ![j].status = "connected"]
    BY <1>3 DEF Upgraded
  <2>2. QED
    BY <2>1 DEF BaseInv, TypeInv, SlotType
<1>4. CASE Lose
  BY <1>4 DEF Lose, BaseInv, TypeInv, SlotType
<1>5. CASE Request \/ Arrive \/ Return \/ UNCHANGED vars
  BY <1>5 DEF Request, Arrive, Return, vars
<1>6. QED
  BY <1>1, <1>2, <1>3, <1>4, <1>5 DEF Next, Step

\* The innermost call is at its slot, or has just left it.
Moved(f) ==
    /\ f.op = Top.op /\ f.id = Top.id /\ f.from = Top.from /\ f.at \in {Top.at, Top.at + 1}

\* What becomes of the calls in a step at a slot: those around the innermost one
\* stay as they are, and a new one has passed no slot.
LEMMA FrameFacts ==
  ASSUME BroadcastAssumption, BaseInv, PassOver \/ CleanUp \/ Send \/ Close \/ InUse,
         NEW k \in DOMAIN stack'
  PROVE  \/ k \in DOMAIN stack /\ stack'[k] = stack[k]
         \/ Passed(stack'[k]) = {}
         \/ k = Len(stack) /\ k \in DOMAIN stack /\ Moved(stack'[k])
<1>1. PICK st : Follows(st) /\ Grown(st, Asked)
  BY StepFacts
<1>2. /\ Len(st) = Len(stack) /\ Len(st) \in Nat \ {0} /\ DOMAIN stack = 1 .. Len(st)
      /\ k \in 1 .. Len(stack') /\ Len(stack') \in Nat
  BY <1>1 DEF Follows, Grown, BaseInv, TypeInv
<1>3. CASE k > Len(st)
  <2>1. stack'[k] \in Call /\ stack'[k].from = stack'[k].at
    BY <1>1, <1>2, <1>3 DEF Grown
  <2>2. stack'[k].at \in Int
    BY <2>1 DEF Call, BroadcastAssumption
  <2>3. QED
    BY <2>1, <2>2 DEF Passed
<1>4. CASE k \in 1 .. Len(st) /\ k # Len(st)
  BY <1>1, <1>2, <1>4 DEF Follows, Grown
<1>5. CASE k = Len(st)
  <2>1. stack'[k] = st[k] /\ k \in 1 .. Len(st)
    BY <1>1, <1>2, <1>5 DEF Grown
  <2>2. Moved(st[k])
    BY <1>1, <1>2, <1>5, <2>1 DEF Follows, Moved, Top
  <2>3. QED
    BY <1>2, <1>5, <2>1, <2>2
<1>6. QED
  BY <1>2, <1>3, <1>4, <1>5

\* All steps but one at a slot leave each call as it was, or begin one.
LEMMA OtherFrames ==
  ASSUME BroadcastAssumption, BaseInv,
         Request \/ Arrive \/ Upgraded \/ Lose \/ Return \/ UNCHANGED vars,
         NEW k \in DOMAIN stack'
  PROVE  \/ k \in DOMAIN stack /\ stack'[k] = stack[k]
         \/ Passed(stack'[k]) = {}
<1>1. CASE Upgraded \/ Lose \/ UNCHANGED vars
  BY <1>1 DEF Upgraded, Lose, vars
<1>2. CASE Return
  BY <1>2, ReturnFacts DEF BaseInv
<1>3. CASE Request \/ Arrive
  <2>1. << >> \in Seq(Call) /\ Len(<< >>) = 0
    OBVIOUS
  <2>2. PICK r : /\ stack = << >> /\ Begun(<< >>, r)
                 /\ r.op \in Asked \cup {"new"} /\ r.num \in Slots \cup {All}
    <3>1. CASE Request
      BY <3>1, RequestFacts DEF Request, Idle
    <3>2. CASE Arrive
      <4> DEFINE a == [op |-> "new", num |-> All]
      <4>1. stack = << >> /\ Begun(<< >>, a) /\ a.op = "new" /\ a.num = All
        BY <3>2 DEF Arrive, Idle
      <4> HIDE DEF a
      <4>2. QED
        BY <4>1
    <3>3. QED
      BY <1>3, <3>1, <3>2
  <2>3. Grown(<< >>, {r.op})
    BY <2>1, <2>2, BegunFacts DEF BaseInv
  <2>4. k \in 1 .. Len(stack') /\ k > 0 /\ stack' \in Seq(Call)
    BY <2>3 DEF Grown
  <2>5. stack'[k] \in Call /\ stack'[k].from = stack'[k].at
    BY <2>1, <2>3, <2>4 DEF Grown
  <2>6. stack'[k].at \in Int
    BY <2>5 DEF Call, BroadcastAssumption
  <2>7. QED
    BY <2>5, <2>6 DEF Passed
<1>4. QED
  BY <1>1, <1>2, <1>3

\* newClient() takes a slot outside of all other calls.
LEMMA TakeFacts ==
  ASSUME BroadcastAssumption, BaseInv, Take
  PROVE  /\ DOMAIN stack' = {1} /\ stack'[1].op = "new" /\ ~ Placing'
         /\ Placing /\ Top.at \in Slots /\ slots[Top.at] = Free
         /\ \A j \in Slots : j # Top.at => slots'[j] = slots[j]
         /\ slots'[Top.at].conn = arrived
         /\ UNCHANGED <<arrived, announced, got>>
<1>1. Walking /\ Top.op = "new" /\ Slot.status = "free"
      /\ UNCHANGED <<arrived, announced, got>>
  BY DEF Take
<1>2. Len(stack) = 1 /\ DOMAIN stack = {1} /\ stack[1] \in Call /\ Top = stack[1]
  BY <1>1, WalkingFacts DEF BaseInv, CallsInv, Top
<1>3. stack' = [stack EXCEPT ![1].at = MaxClients]
  BY <1>2 DEF Take
<1>4. DOMAIN stack' = {1} /\ stack'[1].op = "new" /\ ~ Placing'
  BY <1>1, <1>2, <1>3 DEF Call, Placing, Slots, BroadcastAssumption
<1>5. Placing /\ Top.at \in Slots /\ slots[Top.at] = Free
  BY <1>1, <1>2, WalkingFacts DEF Walking, Placing, Slot, BaseInv, ListInv
<1>6. /\ \A j \in Slots : j # Top.at => slots'[j] = slots[j]
      /\ slots'[Top.at].conn = arrived
  BY <1>5 DEF Take, BaseInv, TypeInv
<1>7. QED
  BY <1>1, <1>4, <1>5, <1>6

\* The slots that a call has passed, and the connections in them.
LEMMA PassedFacts ==
  ASSUME BroadcastAssumption, BaseInv, NEW k \in DOMAIN stack
  PROVE  /\ stack[k].id \in Nat
         /\ Passed(stack[k]) \subseteq Slots
         /\ \A f : Moved(f) /\ k = Len(stack) =>
              Passed(f) \subseteq Passed(stack[k]) \cup {Top.at}
<1>1. stack[k] \in Call
  BY DEF BaseInv, TypeInv
<1>2. stack[k].id \in Nat /\ stack[k].from \in 0 .. MaxClients - 1
      /\ stack[k].at \in 0 .. MaxClients
  BY <1>1 DEF Call, Slots
<1>3. Passed(stack[k]) \subseteq Slots
  BY <1>2 DEF Passed, Slots, BroadcastAssumption
<1>4. ASSUME NEW f, Moved(f), k = Len(stack)
      PROVE  Passed(f) \subseteq Passed(stack[k]) \cup {Top.at}
  BY <1>2, <1>4 DEF Moved, Passed, Top, BroadcastAssumption
<1>5. QED
  BY <1>2, <1>3, <1>4

LEMMA ConnectionFacts ==
  ASSUME BroadcastAssumption, BaseInv, NEW i \in Slots, slots[i].status # "free"
  PROVE  slots[i].conn \in Connections
BY DEF BaseInv, ListInv, TypeInv, Connections, BroadcastAssumption

LEMMA SentStep ==
  ASSUME BroadcastAssumption, BaseInv, TrueMeansSent, [Next]_vars
  PROVE  TrueMeansSent'
<1>1. SUFFICES ASSUME NEW k \in DOMAIN stack', stack'[k].op = "send", stack'[k].ret,
                      NEW i \in Passed(stack'[k]), slots'[i].status # "free"
               PROVE  Contains(got'[slots'[i].conn], stack'[k].id)
  BY DEF TrueMeansSent, Passed
<1>2. ~ Take
  BY <1>1, TakeFacts
<1>3. ASSUME k \in DOMAIN stack, stack[k].op = "send", stack[k].ret,
             stack[k].id = stack'[k].id, i \in Passed(stack[k])
      PROVE  Contains(got'[slots'[i].conn], stack'[k].id)
  <2>1. i \in Slots /\ stack[k].id \in Nat
    BY <1>3, PassedFacts
  <2>2. slots[i].status # "free" /\ slots'[i].conn = slots[i].conn
    BY <1>1, <1>2, <2>1, SlotsKept
  <2>3. Contains(got[slots[i].conn], stack[k].id)
    BY <1>3, <2>2 DEF TrueMeansSent
  <2>4. slots[i].conn \in Connections
    BY <2>1, <2>2, ConnectionFacts
  <2>5. QED
    BY <1>3, <2>1, <2>2, <2>3, <2>4, GotStays
<1>4. CASE Request \/ Arrive \/ Upgraded \/ Lose \/ Return \/ UNCHANGED vars
  <2>1. k \in DOMAIN stack /\ stack'[k] = stack[k]
    BY <1>1, <1>4, OtherFrames
  <2>2. QED
    BY <1>1, <1>3, <2>1
<1>5. CASE PassOver \/ CleanUp \/ Send \/ Close \/ InUse
  <2>1. CASE k \in DOMAIN stack /\ stack'[k] = stack[k]
    BY <1>1, <1>3, <2>1
  <2>2. CASE k = Len(stack) /\ k \in DOMAIN stack /\ Moved(stack'[k])
    <3>1. Top = stack[k] /\ Top.op = "send" /\ Top.id = stack'[k].id
      BY <1>1, <2>2 DEF Moved, Top
    <3>2. /\ Top.ret
          /\ slots'[Top.at].status # "free" => Contains(got'[Slot.conn], Top.id)
      BY <1>1, <1>5, <2>2, <3>1, LeftFacts
    <3>3. i \in Passed(stack[k]) \/ i = Top.at
      BY <1>1, <2>2, PassedFacts
    <3>4. CASE i \in Passed(stack[k])
      BY <1>3, <2>2, <3>1, <3>2, <3>4
    <3>5. CASE i = Top.at
      <4>1. i \in Slots
        BY <1>5, <3>5, WalkingFacts, StepFacts DEF BaseInv
      <4>2. slots'[i].conn = slots[i].conn /\ Slot = slots[i]
        BY <1>1, <1>2, <3>5, <4>1, SlotsKept DEF Slot
      <4>3. QED
        BY <1>1, <3>1, <3>2, <3>5, <4>2
    <3>6. QED
      BY <3>3, <3>4, <3>5
  <2>3. QED
    BY <1>1, <1>5, <2>1, <2>2, FrameFacts
<1>6. QED
  BY <1>2, <1>4, <1>5 DEF Next, Step

LEMMA ClosedStep ==
  ASSUME BroadcastAssumption, BaseInv, ClosedBehind, [Next]_vars
  PROVE  ClosedBehind'
<1>1. SUFFICES ASSUME NEW k \in DOMAIN stack', stack'[k].op = "close",
                      NEW i \in Passed(stack'[k]), slots'[i].status # "free"
               PROVE  FALSE
  BY DEF ClosedBehind, Passed
<1>2. ~ Take
  BY <1>1, TakeFacts
<1>3. ASSUME k \in DOMAIN stack, stack[k].op = "close", i \in Passed(stack[k])
      PROVE  FALSE
  <2>1. i \in Slots
    BY <1>3, PassedFacts
  <2>2. slots[i].status # "free"
    BY <1>1, <1>2, <2>1, SlotsKept
  <2>3. QED
    BY <1>3, <2>2 DEF ClosedBehind
<1>4. CASE Request \/ Arrive \/ Upgraded \/ Lose \/ Return \/ UNCHANGED vars
  BY <1>1, <1>3, <1>4, OtherFrames
<1>5. CASE PassOver \/ CleanUp \/ Send \/ Close \/ InUse
  <2>1. CASE k \in DOMAIN stack /\ stack'[k] = stack[k]
    BY <1>1, <1>3, <2>1
  <2>2. CASE k = Len(stack) /\ k \in DOMAIN stack /\ Moved(stack'[k])
    <3>1. stack[k].op = "close" /\ Top.op = "close"
      BY <1>1, <2>2 DEF Moved, Top
    <3>2. i \in Passed(stack[k]) \/ i = Top.at
      BY <1>1, <2>2, PassedFacts
    <3>3. QED
      BY <1>1, <1>3, <1>5, <2>2, <3>1, <3>2, LeftFacts
  <2>3. QED
    BY <1>1, <1>5, <2>1, <2>2, FrameFacts
<1>6. QED
  BY <1>2, <1>4, <1>5 DEF Next, Step

\* A connection that loop() has not accepted yet, or that newClient() holds.
Pending(c) == c > arrived \/ (Placing /\ c = arrived)

PendingInv == \A c \in Connections : Pending(c) => announced[c] = 0 /\ got[c] = << >>

InList(c) == \E i \in Slots : slots[i].conn = c

LEMMA PendingFacts ==
  ASSUME BroadcastAssumption, BaseInv, NEW c \in Connections, Pending(c)
  PROVE  ~ InList(c)
BY DEF BaseInv, ListInv, PlacingInv, TypeInv, Pending, InList, Free, Connections

\* The step of a connection that is not in the list leaves what is known of it.
LEMMA OutFacts ==
  ASSUME BroadcastAssumption, BaseInv, [Next]_vars, NEW c \in Connections, ~ InList(c)
  PROVE  announced'[c] = announced[c] /\ got'[c] = got[c]
<1>1. CASE CleanUp \/ Close
  BY <1>1, CleanedFacts DEF InList, Slot, BaseInv, TypeInv
<1>2. CASE Send
  <2>1. Top.at \in Slots /\ announced' = announced
    BY <1>2, WalkingFacts DEF Send, BaseInv
  <2>2. c # Slot.conn
    BY <2>1 DEF InList, Slot
  <2>3. got' = got \/ got' = [got EXCEPT ![Slot.conn] = Append(@, Top.id)]
    BY <1>2 DEF Send
  <2>4. QED
    BY <2>1, <2>2, <2>3 DEF BaseInv, TypeInv
<1>3. CASE ~ (CleanUp \/ Close \/ Send)
  BY <1>3 DEF Next, Step, Request, Arrive, Upgraded, Lose, PassOver, InUse, Take, Return,
              vars
<1>4. QED
  BY <1>1, <1>2, <1>3

LEMMA PendingBack ==
  ASSUME BroadcastAssumption, BaseInv, [Next]_vars, NEW c \in Connections, Pending(c)'
  PROVE  Pending(c)
<1>1. c \in Nat /\ arrived \in Nat
  BY DEF Connections, BaseInv, TypeInv
<1>2. CASE Arrive
  <2>1. arrived' = arrived + 1 /\ c >= arrived'
    BY <1>1, <1>2 DEF Arrive, Pending
  <2>2. QED
    BY <1>1, <2>1 DEF Pending
<1>3. ASSUME arrived' = arrived, Placing' => Placing
      PROVE  Pending(c)
  BY <1>3 DEF Pending
<1>4. CASE Request
  <2>1. PICK r \in Requests :
          stack = << >> /\ stack' = Append(stack, Frame(r.op, r.num, called + 1))
    BY <1>4 DEF Request, Idle, Begun
  <2>2. stack'[1].op = r.op /\ r.op # "new"
    BY <2>1, RequestFacts DEF Frame, Asked
  <2>3. QED
    BY <1>3, <1>4, <2>2 DEF Request, Placing
<1>5. CASE PassOver \/ CleanUp \/ Send \/ Close \/ InUse
  <2>1. PICK st : Follows(st) /\ Grown(st, Asked)
    BY <1>5, StepFacts
  <2>2. \A i \in Slots : slots'[i].conn \in {slots[i].conn, 0}
    BY <1>5, KeptFacts, CleanedFacts DEF Free
  <2>3. arrived' = arrived
    BY <1>5, StepFacts
  <2>4. QED
    BY <1>3, <2>1, <2>2, <2>3, CallsFacts
<1>6. CASE Take
  BY <1>3, <1>6, TakeFacts
<1>7. CASE Return
  <2>1. stack' # << >> => stack'[1] = stack[1] /\ stack # << >>
    BY <1>7, ReturnFacts DEF BaseInv
  <2>2. QED
    BY <1>3, <1>7, <2>1 DEF Return, Placing
<1>8. CASE Upgraded \/ Lose \/ UNCHANGED vars
  BY <1>3, <1>8 DEF Upgraded, Lose, vars, Placing
<1>9. QED
  BY <1>2, <1>4, <1>5, <1>6, <1>7, <1>8 DEF Next, Step

LEMMA PendingStep ==
  ASSUME BroadcastAssumption, BaseInv, PendingInv, [Next]_vars
  PROVE  PendingInv'
<1>1. Connections' = Connections
  BY DEF Connections
<1>2. SUFFICES ASSUME NEW c \in Connections, Pending(c)'
               PROVE  announced'[c] = 0 /\ got'[c] = << >>
  BY <1>1 DEF PendingInv
<1>3. Pending(c)
  BY <1>2, PendingBack
<1>4. QED
  BY <1>3, PendingFacts, OutFacts DEF PendingInv

\* A connection leaves the list when its slot is cleaned up, and it is announced.
LEMMA InFacts ==
  ASSUME BroadcastAssumption, BaseInv, [Next]_vars, NEW c \in Connections, InList(c)
  PROVE  \/ InList(c)' /\ announced'[c] = announced[c]
         \/ ~ InList(c)' /\ announced'[c] = announced[c] + 1
<1>1. PICK i \in Slots : slots[i].conn = c
  BY DEF InList
<1>2. c \in Nat \ {0} /\ c # Free.conn /\ slots[i].status # "free"
  BY <1>1 DEF Connections, Free, BaseInv, ListInv
<1>3. CASE CleanUp \/ Close
  <2>1. CASE i = Top.at
    <3>1. Slot.conn = c
      BY <1>1, <2>1 DEF Slot
    <3>2. announced'[c] = announced[c] + 1
      BY <1>3, <3>1, CleanedFacts DEF BaseInv, TypeInv
    <3>3. \A j \in Slots : slots[j].conn = c => j = Top.at
      BY <1>1, <1>2, <2>1 DEF BaseInv, ListInv
    <3>4. ~ InList(c)'
      BY <1>2, <1>3, <3>3, CleanedFacts DEF InList
    <3>5. QED
      BY <3>2, <3>4
  <2>2. CASE i # Top.at
    <3>1. Slot.conn # c
      BY <1>1, <1>2, <1>3, <2>2, CleanedFacts DEF Slot, BaseInv, ListInv
    <3>2. announced'[c] = announced[c]
      BY <1>3, <3>1, CleanedFacts DEF BaseInv, TypeInv
    <3>3. slots'[i].conn = c
      BY <1>1, <1>3, <2>2, CleanedFacts
    <3>4. QED
      BY <3>2, <3>3 DEF InList
  <2>3. QED
    BY <2>1, <2>2
<1>4. CASE Take
  <2>1. i # Top.at
    BY <1>1, <1>2, <1>4, TakeFacts
  <2>2. slots'[i].conn = c /\ announced' = announced
    BY <1>1, <1>4, <2>1, TakeFacts
  <2>3. QED
    BY <2>2 DEF InList
<1>5. CASE Upgraded \/ Lose
  <2>1. announced' = announced
    BY <1>5 DEF Upgraded, Lose
  <2>2. \A j \in Slots : slots'[j].conn = slots[j].conn
    <3>1. CASE Upgraded
      BY <3>1 DEF Upgraded, BaseInv, TypeInv, SlotType
    <3>2. CASE Lose
      BY <3>2 DEF Lose, BaseInv, TypeInv, SlotType
    <3>3. QED
      BY <1>5, <3>1, <3>2
  <2>3. QED
    BY <1>1, <2>1, <2>2 DEF InList
<1>6. CASE Request \/ Arrive \/ PassOver \/ Send \/ InUse \/ Return \/ UNCHANGED vars
  <2>1. slots' = slots /\ announced' = announced
    BY <1>6 DEF Request, Arrive, PassOver, Send, InUse, Return, vars
  <2>2. QED
    BY <2>1 DEF InList
<1>7. QED
  BY <1>3, <1>4, <1>5, <1>6 DEF Next, Step

LEMMA AnnouncedStep ==
  ASSUME BroadcastAssumption, BaseInv, PendingInv, AnnouncedOnce, [Next]_vars
  PROVE  AnnouncedOnce'
<1>1. BaseInv'
  BY BaseStep
<1>2. SUFFICES ASSUME NEW c \in Connections
               PROVE  /\ announced'[c] <= IF InList(c)' THEN 0 ELSE 1
                      /\ ~ InList(c)' /\ got'[c] # << >> => announced'[c] = 1
  BY DEF AnnouncedOnce, InList, Connections
<1>3. /\ announced[c] \in Nat
      /\ InList(c) => announced[c] = 0
      /\ ~ InList(c) => announced[c] <= 1 /\ (got[c] # << >> => announced[c] = 1)
  BY DEF AnnouncedOnce, InList, BaseInv, TypeInv
<1>4. CASE InList(c)
  BY <1>3, <1>4, InFacts
<1>5. CASE ~ InList(c) /\ ~ InList(c)'
  BY <1>3, <1>5, OutFacts
<1>6. CASE ~ InList(c) /\ InList(c)'
  <2>1. PICK i \in Slots : slots'[i].conn = c
    BY <1>6 DEF InList
  <2>2. slots'[i].status # "free"
    BY <1>1, <2>1 DEF BaseInv, ListInv, Free, Connections
  <2>3. Take
    BY <1>6, <2>1, <2>2, SlotsKept DEF InList
  <2>4. i = Top.at
    BY <1>6, <2>1, <2>3, TakeFacts DEF InList
  <2>5. Pending(c)
    BY <2>1, <2>3, <2>4, TakeFacts DEF Pending
  <2>6. announced'[c] = 0
    BY <2>3, <2>5, TakeFacts DEF PendingInv
  <2>7. QED
    BY <1>6, <2>6
<1>7. QED
  BY <1>4, <1>5, <1>6

AgreeInv == BaseInv /\ DepthInv /\ PendingInv /\ TrueMeansSent /\ ClosedBehind /\ AnnouncedOnce

LEMMA AgreeInit ==
  ASSUME BroadcastAssumption, Init
  PROVE  AgreeInv
<1>1. BaseInv
  BY BaseInit
<1>2. /\ stack = << >> /\ DOMAIN stack = {}
      /\ \A c \in Connections : announced[c] = 0 /\ got[c] = << >>
  BY DEF Init
<1>3. DepthInv /\ PendingInv /\ TrueMeansSent /\ ClosedBehind
  BY <1>2 DEF DepthInv, PendingInv, TrueMeansSent, ClosedBehind
<1>4. AnnouncedOnce
  BY <1>2 DEF AnnouncedOnce
<1>5. QED
  BY <1>1, <1>3, <1>4 DEF AgreeInv

\* Whatever the handler of WStype_DISCONNECTED calls, for any number of slots: the
\* calls of broadcastTXT(), disconnect(), newClient() and the rest are nested no deeper
\* than there are slots; one that returns true has sent to every client that is still
\* there; disconnect() leaves none behind; each end is announced once.
THEOREM BroadcastsCorrect ==
  ASSUME BroadcastAssumption
  PROVE  Spec => []BroadcastsAgree
<1>1. Init => AgreeInv
  BY AgreeInit
<1>2. AgreeInv /\ [Next]_vars => AgreeInv'
  BY BaseStep, DepthStep, PendingStep, SentStep, ClosedStep, AnnouncedStep DEF AgreeInv
<1>3. AgreeInv => BroadcastsAgree
  <2>1. SUFFICES ASSUME AgreeInv
                 PROVE  NestedPerSlot
    BY DEF AgreeInv, BroadcastsAgree
  <2>2. Len(stack) \in Nat /\ Cardinality(Used) \in Nat /\ MaxClients \in Nat
        /\ (stack = << >> => Len(stack) = 0)
    BY <2>1, UsedFacts DEF AgreeInv, BaseInv, TypeInv, BroadcastAssumption
  <2>3. QED
    BY <2>1, <2>2 DEF AgreeInv, DepthInv, NestedPerSlot
<1>4. QED
  BY <1>1, <1>2, <1>3, PTL DEF Spec
-----------------------------------------------------------------------------
(* The heartbeat, of the server and of the client, whatever its times.     *)

PingTypeOK ==
    /\ now \in Millis /\ lastPing \in Millis
    /\ status \in {"down", "header", "up"}
    /\ pongTimeoutCount \in 0 .. disconnectTimeoutCount
    /\ spent \in 0 .. MaxPeriod
    /\ asked \in Nat \cup {None}
    /\ silent \in Nat

HeartbeatConstants == WrapAssumption /\ HeartbeatAssumption

Since == Elapsed(now, lastPing)

\* What a turn of loop() has read, and what it makes of it.
Read == [lastPing |-> lastPing, got |-> pongReceived \/ pong,
         count |-> pongTimeoutCount, asked |-> asked]

Looks == Server \/ status = "up"

Due == Since > pingInterval /\ status = "up"

AfterTurn == IF Looks THEN TimedOut(Pinged(Read)) ELSE Read

Drops ==
    /\ AfterTurn.count > pongTimeoutCount
    /\ AfterTurn.count >= disconnectTimeoutCount

LEMMA TurnMeans ==
  ASSUME Turn
  PROVE  /\ status # "down" /\ spent > 0
         /\ lastPing' = AfterTurn.lastPing
         /\ pongReceived' = AfterTurn.got
         /\ pongTimeoutCount' = UpTo(disconnectTimeoutCount, AfterTurn.count)
         /\ status' = IF Drops THEN "down" ELSE status
         /\ asked' = IF Drops THEN None ELSE AfterTurn.asked
         /\ dropped' = CASE ~ Drops -> dropped
                         [] Drops /\ late -> "silent"
                         [] OTHER -> "answering"
         /\ pong' = FALSE /\ spent' = 0 /\ now' = now /\ (late' <=> late)
         /\ silent' = IF pong THEN 0 ELSE silent
<1>1. Read.count = pongTimeoutCount
  BY DEF Read
<1>2. now' = now /\ (late' <=> late)
  BY DEF Turn
<1>3. QED
  BY <1>1, <1>2, Zenon DEF Turn, AfterTurn, Looks, Drops, Read

\* Time passes for Since as for the clock, modulo its width.
LEMMA SinceFacts ==
  ASSUME HeartbeatConstants, PingTypeOK
  PROVE  /\ Since \in 0 .. Wrap - 1 /\ Elapsed(now, now) = 0
         /\ \A n \in 0 .. Wrap - 1 : Back(n) \in Millis /\ Elapsed(now, Back(n)) = n
BY DEF HeartbeatConstants, WrapAssumption, PingTypeOK, Since, Elapsed, Back, Millis

LEMMA AdvanceFacts ==
  ASSUME HeartbeatConstants, PingTypeOK, NEW d \in 1 .. MaxPeriod, Advance(d)
  PROVE  /\ now' \in Millis /\ Since' <= Since + d
         /\ Since + d < Wrap => Since' = Since + d
<1>1. d < Wrap /\ d \in Nat
  BY DEF HeartbeatConstants, HeartbeatAssumption, WrapAssumption
<1>2. QED
  BY <1>1 DEF HeartbeatConstants, WrapAssumption, PingTypeOK, Since, Elapsed, Tick, Millis,
              Advance

\* A turn sends a ping, finds the pong missing, or does neither.
LEMMA PingSent ==
  ASSUME HeartbeatConstants, PingTypeOK, Due
  PROVE  /\ AfterTurn.lastPing = now /\ AfterTurn.got = FALSE
         /\ AfterTurn.count = pongTimeoutCount
         /\ AfterTurn.asked = IF asked = None THEN 0 ELSE asked
<1> DEFINE p == Pinged(Read)
<1>1. Elapsed(now, Read.lastPing) > pingInterval /\ status = "up" /\ Looks
  BY DEF Due, Read, Since, Looks
<1>2. p = [[Read EXCEPT !.lastPing = now, !.asked = IF @ = None THEN 0 ELSE @]
             EXCEPT !.got = FALSE]
  BY <1>1, Zenon DEF Pinged, sendPing
<1>3. /\ p.lastPing = now /\ p.count = pongTimeoutCount
      /\ p.asked = IF asked = None THEN 0 ELSE asked
  BY <1>2 DEF Read
<1>4. p.got = FALSE
  BY <1>2, Zenon DEF Read
<1> HIDE DEF p
<1>5. ~ Missing(p)
  BY <1>3, SinceFacts DEF Missing, HeartbeatConstants, HeartbeatAssumption
<1>6. TimedOut(p) = p
  BY <1>4, <1>5, Zenon DEF TimedOut
<1>7. AfterTurn = p
  BY <1>1, <1>6, Zenon DEF AfterTurn, p
<1>8. QED
  BY <1>3, <1>4, <1>7, Zenon

LEMMA NothingDue ==
  ASSUME HeartbeatConstants, PingTypeOK, ~ Due
  PROVE  AfterTurn = IF Looks THEN TimedOut(Read) ELSE Read
<1>1. ~ (Elapsed(now, Read.lastPing) > pingInterval /\ status = "up")
  BY DEF Due, Read, Since
<1>2. Pinged(Read) = Read
  BY <1>1, Zenon DEF Pinged
<1>3. QED
  BY <1>2, Zenon DEF AfterTurn

LEMMA PongThere ==
  ASSUME HeartbeatConstants, PingTypeOK, ~ Due, pongReceived \/ pong \/ Since <= pongTimeout
                                                  \/ ~ Looks
  PROVE  /\ AfterTurn.lastPing = lastPing /\ AfterTurn.asked = asked
         /\ AfterTurn.got = (pongReceived \/ pong)
         /\ AfterTurn.count \in {0, pongTimeoutCount}
<1>1. /\ Read.lastPing = lastPing /\ Read.asked = asked /\ Read.count = pongTimeoutCount
  BY DEF Read
<1>2. Read.got = (pongReceived \/ pong)
  BY Zenon DEF Read
<1>3. CASE pongReceived \/ pong
  <2>1. TimedOut(Read) = [Read EXCEPT !.count = 0]
    BY <1>2, <1>3, Zenon DEF TimedOut
  <2>2. /\ TimedOut(Read).lastPing = lastPing /\ TimedOut(Read).asked = asked
        /\ TimedOut(Read).count = 0
    BY <2>1 DEF Read
  <2>3. TimedOut(Read).got = (pongReceived \/ pong)
    BY <2>1, Zenon DEF Read
  <2>4. QED
    BY <1>1, <1>2, <2>2, <2>3, NothingDue, Zenon
<1>4. CASE ~ (pongReceived \/ pong) /\ Since <= pongTimeout
  <2>1. ~ (Since > pongTimeout)
    BY <1>4, SinceFacts DEF HeartbeatConstants, HeartbeatAssumption, WrapAssumption
  <2>2. ~ Missing(Read)
    BY <1>1, <2>1, Zenon DEF Missing, Since
  <2>3. TimedOut(Read) = Read
    BY <1>2, <1>4, <2>2, Zenon DEF TimedOut
  <2>4. QED
    BY <1>1, <1>2, <2>3, NothingDue, Zenon
<1>5. CASE ~ Looks
  BY <1>1, <1>2, <1>5, NothingDue, Zenon
<1>6. QED
  BY <1>3, <1>4, <1>5, Zenon

LEMMA QuietCount ==
  ASSUME HeartbeatConstants, PingTypeOK, ~ Due, ~ pongReceived, ~ pong,
         Since <= pongTimeout \/ ~ Looks
  PROVE  AfterTurn.count = pongTimeoutCount
<1>1. Read.count = pongTimeoutCount /\ Read.lastPing = lastPing
  BY DEF Read
<1>2. ~ Read.got
  BY Zenon DEF Read
<1>3. Since <= pongTimeout => ~ Missing(Read)
  <2>1. Since <= pongTimeout => ~ (Since > pongTimeout)
    BY SinceFacts DEF HeartbeatConstants, HeartbeatAssumption, WrapAssumption
  <2>2. QED
    BY <1>1, <2>1, Zenon DEF Missing, Since
<1>4. Since <= pongTimeout => TimedOut(Read) = Read
  BY <1>2, <1>3, Zenon DEF TimedOut
<1>5. QED
  BY <1>1, <1>4, NothingDue, Zenon

LEMMA PongMissing ==
  ASSUME HeartbeatConstants, PingTypeOK, ~ Due, Looks, ~ (pongReceived \/ pong),
         Since > pongTimeout
  PROVE  /\ AfterTurn.lastPing = Back(pingInterval + Margin) /\ AfterTurn.got = FALSE
         /\ AfterTurn.count = pongTimeoutCount + 1 /\ AfterTurn.asked = asked
<1>1. Read.got = FALSE /\ Read.lastPing = lastPing
  BY Zenon DEF Read
<1>2. Missing(Read)
  BY <1>1, Zenon DEF Missing, Since
<1>3. TimedOut(Read) = [Read EXCEPT !.count = @ + 1, !.lastPing = Back(pingInterval + Margin)]
  BY <1>1, <1>2, Zenon DEF TimedOut
<1>4. AfterTurn = TimedOut(Read)
  BY NothingDue, Zenon
<1>5. /\ AfterTurn.lastPing = Back(pingInterval + Margin)
      /\ AfterTurn.count = pongTimeoutCount + 1 /\ AfterTurn.asked = asked
  BY <1>3, <1>4 DEF Read
<1>6. AfterTurn.got = FALSE
  BY <1>1, <1>3, <1>4, Zenon DEF Read
<1>7. QED
  BY <1>5, <1>6

\* The outcomes of a turn that keeps its connection, and of one that drops it.
Pinging ==
    /\ Due /\ lastPing' = now /\ ~ pongReceived' /\ status' = status
    /\ pongTimeoutCount' = pongTimeoutCount
    /\ asked' = (IF asked = None THEN 0 ELSE asked) /\ dropped' = dropped

Quiet ==
    /\ ~ Due /\ lastPing' = lastPing /\ (pongReceived' <=> pongReceived \/ pong)
    /\ status' = status /\ pongTimeoutCount' \in {0, pongTimeoutCount}
    /\ pongReceived \/ pong \/ pongTimeoutCount' = pongTimeoutCount
    /\ asked' = asked /\ dropped' = dropped
    /\ pongReceived \/ pong \/ Since <= pongTimeout \/ ~ Looks

Missed ==
    /\ ~ Due /\ ~ pongReceived /\ ~ pong /\ Looks /\ Since > pongTimeout
    /\ ~ pongReceived'

Kept ==
    /\ Missed /\ lastPing' = Back(pingInterval + Margin)
    /\ pongTimeoutCount' = pongTimeoutCount + 1
    /\ pongTimeoutCount' < disconnectTimeoutCount
    /\ status' = status /\ asked' = asked /\ dropped' = dropped

GivenUp ==
    /\ Missed /\ lastPing' = Back(pingInterval + Margin)
    /\ pongTimeoutCount' = disconnectTimeoutCount
    /\ status' = "down" /\ asked' = None
    /\ dropped' = IF late THEN "silent" ELSE "answering"

LEMMA TurnFacts ==
  ASSUME HeartbeatConstants, PingTypeOK, Turn
  PROVE  Pinging \/ Quiet \/ Kept \/ GivenUp
<1>1. /\ pongTimeoutCount \in Nat /\ pongTimeoutCount <= disconnectTimeoutCount
      /\ disconnectTimeoutCount \in Nat \ {0} /\ pongTimeout \in Nat /\ Since \in Nat
  BY SinceFacts DEF PingTypeOK, HeartbeatConstants, HeartbeatAssumption, WrapAssumption
<1>2. CASE Due
  <2>1. /\ AfterTurn.lastPing = now /\ AfterTurn.got = FALSE
        /\ AfterTurn.count = pongTimeoutCount
        /\ AfterTurn.asked = IF asked = None THEN 0 ELSE asked
    BY <1>2, PingSent
  <2>2. ~ Drops /\ UpTo(disconnectTimeoutCount, AfterTurn.count) = pongTimeoutCount
    BY <1>1, <2>1 DEF Drops, UpTo
  <2>3. ~ pongReceived'
    BY <2>1, TurnMeans, Zenon
  <2>4. /\ lastPing' = now /\ status' = status /\ pongTimeoutCount' = pongTimeoutCount
        /\ asked' = (IF asked = None THEN 0 ELSE asked) /\ dropped' = dropped
    BY <2>1, <2>2, TurnMeans, Zenon
  <2>5. QED
    BY <1>2, <2>3, <2>4, Zenon DEF Pinging
<1>3. CASE ~ Due /\ (pongReceived \/ pong \/ Since <= pongTimeout \/ ~ Looks)
  <2>1. /\ AfterTurn.lastPing = lastPing /\ AfterTurn.asked = asked
        /\ AfterTurn.got = (pongReceived \/ pong)
        /\ AfterTurn.count \in {0, pongTimeoutCount}
    BY <1>3, PongThere
  <2>2. /\ ~ Drops
        /\ UpTo(disconnectTimeoutCount, AfterTurn.count) \in {0, pongTimeoutCount}
    BY <1>1, <2>1 DEF Drops, UpTo
  <2>3. pongReceived' <=> pongReceived \/ pong
    BY <2>1, TurnMeans, Zenon
  <2>4. /\ lastPing' = lastPing /\ status' = status
        /\ pongTimeoutCount' \in {0, pongTimeoutCount}
        /\ asked' = asked /\ dropped' = dropped
    BY <2>1, <2>2, TurnMeans, Zenon
  <2>5. ASSUME ~ pongReceived, ~ pong
        PROVE  pongTimeoutCount' = pongTimeoutCount
    <3>1. AfterTurn.count = pongTimeoutCount
      BY <1>3, <2>5, QuietCount
    <3>2. UpTo(disconnectTimeoutCount, AfterTurn.count) = pongTimeoutCount
      BY <1>1, <3>1 DEF UpTo
    <3>3. QED
      BY <3>2, TurnMeans, Zenon
  <2>6. QED
    BY <1>3, <2>3, <2>4, <2>5, Zenon DEF Quiet
<1>4. CASE ~ Due /\ ~ (pongReceived \/ pong \/ Since <= pongTimeout \/ ~ Looks)
  <2>1. Since > pongTimeout
    BY <1>1, <1>4
  <2>2. /\ AfterTurn.lastPing = Back(pingInterval + Margin) /\ AfterTurn.got = FALSE
        /\ AfterTurn.count = pongTimeoutCount + 1 /\ AfterTurn.asked = asked
    BY <1>4, <2>1, PongMissing
  <2>3. ~ pongReceived'
    BY <2>2, TurnMeans, Zenon
  <2>4. Missed
    BY <1>4, <2>1, <2>3, Zenon DEF Missed
  <2>5. lastPing' = Back(pingInterval + Margin)
    BY <2>2, TurnMeans, Zenon
  <2>6. CASE pongTimeoutCount + 1 >= disconnectTimeoutCount
    <3>1. Drops /\ UpTo(disconnectTimeoutCount, AfterTurn.count) = disconnectTimeoutCount
      BY <1>1, <2>2, <2>6 DEF Drops, UpTo
    <3>2. /\ pongTimeoutCount' = disconnectTimeoutCount
          /\ status' = "down" /\ asked' = None
          /\ dropped' = IF late THEN "silent" ELSE "answering"
      BY <3>1, TurnMeans, Zenon
    <3>3. QED
      BY <2>4, <2>5, <3>2, Zenon DEF GivenUp
  <2>7. CASE ~ (pongTimeoutCount + 1 >= disconnectTimeoutCount)
    <3>1. /\ ~ Drops /\ UpTo(disconnectTimeoutCount, AfterTurn.count) = pongTimeoutCount + 1
          /\ pongTimeoutCount + 1 < disconnectTimeoutCount
      BY <1>1, <2>2, <2>7 DEF Drops, UpTo
    <3>2. /\ pongTimeoutCount' = pongTimeoutCount + 1
          /\ status' = status /\ asked' = asked /\ dropped' = dropped
      BY <2>2, <3>1, TurnMeans, Zenon
    <3>3. pongTimeoutCount' < disconnectTimeoutCount
      BY <3>1, <3>2
    <3>4. QED
      BY <2>4, <2>5, <3>2, <3>3, Zenon DEF Kept
  <2>8. QED
    BY <2>6, <2>7
<1>5. QED
  BY <1>2, <1>3, <1>4

LEMMA PingTypes ==
  ASSUME HeartbeatConstants, PingTypeOK, [PingNext]_pingVars
  PROVE  PingTypeOK'
<1>1. /\ MaxPeriod \in Nat \ {0} /\ disconnectTimeoutCount \in Nat \ {0}
      /\ Wrap \in Nat \ {0} /\ pingInterval + Margin \in 0 .. Wrap - 1 /\ 0 \in Millis
  BY DEF HeartbeatConstants, HeartbeatAssumption, WrapAssumption, Millis
<1>2. /\ now \in Millis /\ lastPing \in Millis /\ status \in {"down", "header", "up"}
      /\ pongTimeoutCount \in 0 .. disconnectTimeoutCount
      /\ spent \in 0 .. MaxPeriod /\ asked \in Nat \cup {None} /\ silent \in Nat
  BY DEF PingTypeOK
<1>3. CASE newClient
  BY <1>1, <1>2, <1>3 DEF newClient, PingTypeOK
<1>4. CASE handleHeader
  BY <1>1, <1>2, <1>4 DEF handleHeader, PingTypeOK
<1>5. CASE Answer
  BY <1>1, <1>2, <1>5 DEF Answer, PingTypeOK
<1>6. CASE Lost
  BY <1>1, <1>2, <1>6 DEF Lost, PingTypeOK
<1>7. CASE Turn
  <2>1. now' = now /\ spent' = 0 /\ silent' \in {0, silent}
    BY <1>7, TurnMeans
  <2>2. Back(pingInterval + Margin) \in Millis
    BY <1>1, SinceFacts
  <2>3. /\ lastPing' \in Millis /\ status' \in {"down", "header", "up"}
        /\ pongTimeoutCount' \in 0 .. disconnectTimeoutCount
        /\ asked' \in Nat \cup {None}
    <3>1. CASE Pinging
      BY <1>1, <1>2, <3>1 DEF Pinging
    <3>2. CASE Quiet
      BY <1>1, <1>2, <3>2 DEF Quiet
    <3>3. CASE Kept
      BY <1>1, <1>2, <2>2, <3>3 DEF Kept
    <3>4. CASE GivenUp
      BY <1>1, <1>2, <2>2, <3>4 DEF GivenUp
    <3>5. QED
      BY <1>7, <3>1, <3>2, <3>3, <3>4, TurnFacts
  <2>4. QED
    BY <1>1, <1>2, <2>1, <2>3 DEF PingTypeOK
<1>8. ASSUME NEW d \in 1 .. MaxPeriod, Advance(d)
      PROVE  PingTypeOK'
  <2>1. now' \in Millis
    BY <1>8, AdvanceFacts
  <2>2. spent' \in 0 .. MaxPeriod
    BY <1>1, <1>2, <1>8 DEF Advance
  <2>3. asked' \in Nat \cup {None}
    <3>1. AnswerTime \in Nat
      BY DEF HeartbeatConstants, HeartbeatAssumption
    <3>2. QED
      BY <1>1, <1>2, <1>8, <3>1 DEF Advance, UpTo, None
  <2>4. silent' \in Nat
    <3>1. /\ pingInterval \in Nat /\ pongTimeout + 2 * MaxPeriod \in Nat
      BY <1>1 DEF HeartbeatConstants, HeartbeatAssumption
    <3>2. disconnectTimeoutCount * (pongTimeout + 2 * MaxPeriod) \in Nat
      BY <1>1, <3>1
    <3>3. Bound + 1 \in Nat
      BY <1>1, <3>1, <3>2 DEF Bound
    <3>4. silent' = UpTo(Bound + 1, silent + d)
      BY <1>8 DEF Advance
    <3>5. QED
      BY <1>1, <1>2, <3>3, <3>4 DEF UpTo
  <2>5. UNCHANGED <<lastPing, status, pongTimeoutCount>>
    BY <1>8 DEF Advance
  <2>6. QED
    BY <1>2, <2>1, <2>2, <2>3, <2>4, <2>5 DEF PingTypeOK
<1>9. CASE UNCHANGED pingVars
  BY <1>2, <1>9 DEF pingVars, PingTypeOK
<1>10. QED
  BY <1>3, <1>4, <1>5, <1>6, <1>7, <1>8, <1>9 DEF PingNext

LEMMA PingStart ==
  ASSUME HeartbeatConstants, PingInit
  PROVE  PingTypeOK
BY DEF HeartbeatConstants, HeartbeatAssumption, WrapAssumption, PingInit, PingTypeOK, Millis

\* A peer may take its time for the upgrade and once more for the pong of the first
\* ping, which does not touch lastPing.
AnswersInTime == Server /\ 2 * AnswerTime <= pongTimeout

\* In the connection of a peer that has not been slow so far.
AnsweringInv ==
    /\ dropped # "answering"
    /\ status # "down" /\ ~ late =>
         /\ asked <= AnswerTime
         /\ status = "header" => asked # None /\ Since <= asked
         /\ status = "up" =>
              pongReceived \/ pong \/ (asked # None /\ Since <= asked + AnswerTime)

LEMMA AnsweringStep ==
  ASSUME HeartbeatConstants, AnswersInTime, PingTypeOK, AnsweringInv, [PingNext]_pingVars
  PROVE  AnsweringInv'
<1>1. /\ AnswerTime \in Nat /\ pongTimeout \in Nat /\ 2 * AnswerTime <= pongTimeout
      /\ Looks /\ Since \in Nat /\ Elapsed(now, now) = 0
  BY SinceFacts DEF HeartbeatConstants, HeartbeatAssumption, WrapAssumption, AnswersInTime, Looks
<1>2. asked \in Nat \cup {None} /\ None = -1 /\ status \in {"down", "header", "up"}
  BY DEF PingTypeOK, None
<1>3. CASE newClient
  <2>1. lastPing' = now /\ now' = now /\ asked' = 0 /\ status' = "header"
        /\ dropped' = "no"
    BY <1>3 DEF newClient, AnswersInTime
  <2>2. Since' = 0
    BY <1>1, <2>1 DEF Since
  <2>3. QED
    BY <1>1, <1>2, <2>1, <2>2 DEF AnsweringInv
<1>4. CASE handleHeader
  <2>1. /\ status = "header" /\ status' = "up" /\ asked' = 0 /\ late' = late
        /\ dropped' = dropped /\ Since' = Since
    BY <1>4 DEF handleHeader, AnswersInTime, Since
  <2>2. QED
    BY <1>1, <1>2, <2>1 DEF AnsweringInv
<1>5. CASE Answer
  <2>1. /\ status' = "up" /\ asked' = None /\ pong' /\ dropped' = dropped
    BY <1>5 DEF Answer
  <2>2. QED
    BY <1>1, <1>2, <2>1 DEF AnsweringInv
<1>6. CASE Lost
  BY <1>6 DEF Lost, AnsweringInv
<1>7. CASE Turn
  <2>1. now' = now /\ (late' <=> late) /\ ~ pong' /\ status # "down"
    BY <1>7, TurnMeans, Zenon
  <2>2. CASE Pinging
    <3>1. /\ lastPing' = now /\ status = "up" /\ status' = "up" /\ dropped' = dropped
          /\ asked' = IF asked = None THEN 0 ELSE asked
      BY <2>2 DEF Pinging, Due
    <3>2. Since' = 0
      BY <1>1, <2>1, <3>1 DEF Since
    <3>3. QED
      BY <1>1, <1>2, <2>1, <3>1, <3>2 DEF AnsweringInv
  <2>3. CASE Quiet
    <3>1. /\ Since' = Since /\ status' = status /\ dropped' = dropped /\ asked' = asked
      BY <2>1, <2>3 DEF Quiet, Since
    <3>2. pongReceived' <=> pongReceived \/ pong
      BY <2>3 DEF Quiet
    <3>3. QED
      BY <2>1, <3>1, <3>2 DEF AnsweringInv
  <2>4. CASE Missed
    <3>1. late
      BY <1>1, <1>2, <2>1, <2>4 DEF Missed, AnsweringInv
    <3>2. dropped' # "answering"
      <4>1. CASE Kept
        BY <4>1 DEF Kept, AnsweringInv
      <4>2. CASE GivenUp
        BY <3>1, <4>2 DEF GivenUp
      <4>3. CASE Pinging \/ Quiet
        BY <1>1, <2>4, <4>3 DEF Missed, Pinging, Quiet
      <4>4. QED
        BY <1>7, <4>1, <4>2, <4>3, TurnFacts
    <3>3. QED
      BY <2>1, <3>1, <3>2 DEF AnsweringInv
  <2>5. QED
    BY <1>7, <2>2, <2>3, <2>4, TurnFacts DEF Kept, GivenUp
<1>8. ASSUME NEW d \in 1 .. MaxPeriod, Advance(d)
      PROVE  AnsweringInv'
  <2>1. Since' <= Since + d /\ d \in Nat
    BY <1>8, AdvanceFacts
  <2>2. /\ UNCHANGED <<status, pongReceived, pong, dropped>>
        /\ asked' = IF asked = None THEN None ELSE UpTo(AnswerTime + 1, asked + d)
    BY <1>8 DEF Advance
  <2>3. late' <=> late \/ asked' > AnswerTime
    BY <1>8, Zenon DEF Advance
  <2>4. Since' \in Int
    BY <1>8, PingTypes DEF PingNext, Since, Elapsed, PingTypeOK, Millis,
                           HeartbeatConstants, WrapAssumption
  <2>5. QED
    BY <1>1, <1>2, <2>1, <2>2, <2>3, <2>4 DEF AnsweringInv, UpTo
<1>9. CASE UNCHANGED pingVars
  BY <1>9 DEF pingVars, AnsweringInv, Since
<1>10. QED
  BY <1>3, <1>4, <1>5, <1>6, <1>7, <1>8, <1>9 DEF PingNext

\* Were a ping due before the pong of the last one is missed, each ping would put
\* the time-out off.
TimeoutBeforePing == pongTimeout + MaxPeriod <= pingInterval

\* A missed pong and the turn that sends the next ping.
Miss == pongTimeout + 2 * MaxPeriod

Reach(m) == pingInterval + MaxPeriod + m * Miss

\* A pong was read, or the connection upgraded, since the last turn.
Fresh == silent <= spent

\* The last ping has its pong.
Resting ==
    pongReceived /\ silent <= Since + MaxPeriod /\ Since <= pingInterval + spent

\* A ping is without pong so far, the m before it without theirs.
Waiting(m) ==
    /\ ~ pongReceived /\ m <= pongTimeoutCount
    /\ silent <= Reach(m) + MaxPeriod + Since /\ Since <= pongTimeout + spent

\* The next turn sends a ping, as m have no pong.
Forced(m) ==
    /\ ~ pongReceived /\ m <= pongTimeoutCount
    /\ silent <= Reach(m) + spent /\ Since = pingInterval + Margin + spent

Misses == 0 .. disconnectTimeoutCount - 1

SilentInv ==
    status = "up" => Fresh \/ Resting \/ \E m \in Misses : Waiting(m) \/ Forced(m)

LEMMA ReachFacts ==
  ASSUME HeartbeatConstants
  PROVE  /\ Miss \in Nat /\ Miss >= 2 * MaxPeriod /\ Reach(0) = pingInterval + MaxPeriod
         /\ \A m \in Misses : /\ Reach(m) \in Nat /\ Reach(m + 1) = Reach(m) + Miss
                              /\ Reach(m) >= Reach(0) /\ Reach(m) + Miss <= Bound
<1>1. /\ Miss \in Nat /\ pingInterval \in Nat /\ MaxPeriod \in Nat
      /\ disconnectTimeoutCount \in Nat \ {0} /\ Miss >= 2 * MaxPeriod
  BY DEF HeartbeatConstants, HeartbeatAssumption, Miss
<1>2. Bound = pingInterval + MaxPeriod + disconnectTimeoutCount * Miss
  BY DEF Bound, Miss
<1> HIDE DEF Miss
<1>3. ASSUME NEW m \in Misses
      PROVE  /\ m * Miss \in Nat /\ (m + 1) * Miss = m * Miss + Miss
             /\ m * Miss + Miss <= disconnectTimeoutCount * Miss
  <2> DEFINE r == disconnectTimeoutCount - (m + 1)
  <2>1. m \in Nat /\ r \in Nat /\ disconnectTimeoutCount = (m + 1) + r
    BY <1>1, <1>3 DEF Misses
  <2> HIDE DEF r
  <2>2. m * Miss \in Nat /\ r * Miss \in Nat /\ (m + 1) * Miss = m * Miss + Miss
    BY <1>1, <2>1
  <2>3. disconnectTimeoutCount * Miss = (m + 1) * Miss + r * Miss
    BY <1>1, <2>1
  <2>4. QED
    BY <1>1, <2>2, <2>3
<1>4. 0 * Miss = 0
  BY <1>1
<1>5. QED
  BY <1>1, <1>2, <1>3, <1>4 DEF Reach

LEMMA SilentStep ==
  ASSUME HeartbeatConstants, TimeoutBeforePing, PingTypeOK, SilentInv, [PingNext]_pingVars
  PROVE  SilentInv'
<1>1. /\ pingInterval \in Nat /\ pongTimeout \in Nat /\ MaxPeriod \in Nat /\ Margin \in Nat
      /\ pongTimeout + MaxPeriod <= pingInterval /\ disconnectTimeoutCount \in Nat \ {0}
      /\ pingInterval + Margin + MaxPeriod < Wrap /\ pongTimeout + MaxPeriod < Wrap
      /\ Wrap \in Nat /\ pingInterval + Margin \in 0 .. Wrap - 1
  BY DEF HeartbeatConstants, HeartbeatAssumption, WrapAssumption, TimeoutBeforePing
<1>2. /\ Since \in 0 .. Wrap - 1 /\ Elapsed(now, now) = 0
      /\ Elapsed(now, Back(pingInterval + Margin)) = pingInterval + Margin
  BY <1>1, SinceFacts
<1>3. /\ spent \in 0 .. MaxPeriod /\ silent \in Nat
      /\ pongTimeoutCount \in 0 .. disconnectTimeoutCount
  BY DEF PingTypeOK
<1>4. /\ Miss \in Nat /\ Miss >= 2 * MaxPeriod /\ Reach(0) = pingInterval + MaxPeriod
      /\ \A m \in Misses : /\ Reach(m) \in Nat /\ Reach(m + 1) = Reach(m) + Miss
                           /\ Reach(m) >= Reach(0)
  BY ReachFacts
<1>5. 0 \in Misses /\ Miss = pongTimeout + 2 * MaxPeriod
  BY <1>1 DEF Misses, Miss
<1>6. CASE newClient \/ Lost
  BY <1>6 DEF newClient, Lost, SilentInv
<1>7. CASE handleHeader
  BY <1>3, <1>7 DEF handleHeader, SilentInv, Fresh
<1>8. CASE Answer
  <2>1. /\ status = "up" /\ silent' = silent /\ spent' = spent /\ Since' = Since
        /\ pongTimeoutCount' = pongTimeoutCount
    BY <1>8 DEF Answer, Since
  <2>2. pongReceived' <=> pongReceived
    BY <1>8 DEF Answer
  <2>3. QED
    BY <2>1, <2>2 DEF SilentInv, Fresh, Resting, Waiting, Forced, Reach
<1>9. CASE Turn
  <2>1. /\ status # "down" /\ spent > 0 /\ spent' = 0 /\ now' = now
        /\ silent' = IF pong THEN 0 ELSE silent
    BY <1>9, TurnMeans
  <2>2. CASE pong
    BY <2>1, <2>2 DEF SilentInv, Fresh
  <2>3. CASE ~ pong /\ status = "up"
    <3>1. silent' = silent
      BY <2>1, <2>3
    <3>2. CASE Pinging
      <4>1. /\ Since > pingInterval /\ ~ pongReceived' /\ Since' = 0
            /\ pongTimeoutCount' = pongTimeoutCount
        BY <1>2, <2>1, <3>2 DEF Pinging, Due, Since
      <4>2. CASE Fresh \/ Resting
        <5>1. Waiting(0)'
          BY <1>1, <1>2, <1>3, <1>4, <2>1, <3>1, <4>1, <4>2
             DEF Fresh, Resting, Waiting, Reach, Miss
        <5>2. QED
          BY <1>5, <5>1 DEF SilentInv, Misses
      <4>3. ASSUME NEW m \in Misses, Waiting(m) \/ Forced(m)
            PROVE  SilentInv'
        <5>1. m <= pongTimeoutCount /\ silent <= Reach(m) + spent
          BY <1>1, <1>2, <1>3, <4>1, <4>3 DEF Waiting, Forced
        <5>2. Waiting(m)'
          BY <1>1, <1>2, <1>3, <1>4, <2>1, <3>1, <4>1, <4>3, <5>1 DEF Waiting, Reach, Miss
        <5>3. QED
          BY <5>2 DEF SilentInv, Misses
      <4>4. QED
        BY <2>3, <4>2, <4>3 DEF SilentInv
    <3>3. CASE Quiet
      <4>1. /\ Since <= pingInterval /\ Since' = Since
            /\ pongReceived \/ Since <= pongTimeout
        BY <1>1, <1>2, <2>1, <2>3, <3>3 DEF Quiet, Due, Since, Looks
      <4>2. pongReceived' <=> pongReceived
        BY <2>3, <3>3 DEF Quiet
      <4>3. ~ pongReceived => pongTimeoutCount' = pongTimeoutCount
        BY <2>3, <3>3 DEF Quiet
      <4>4. CASE pongReceived
        <5>1. Resting'
          BY <1>1, <1>2, <1>3, <2>1, <3>1, <4>1, <4>2, <4>4, <2>3
             DEF SilentInv, Fresh, Resting, Waiting, Forced
        <5>2. QED
          BY <5>1 DEF SilentInv
      <4>5. CASE ~ pongReceived /\ Fresh
        <5>1. Waiting(0)'
          BY <1>1, <1>2, <1>3, <1>4, <2>1, <3>1, <4>1, <4>2, <4>3, <4>5
             DEF Fresh, Waiting, Reach, Miss
        <5>2. QED
          BY <1>5, <5>1 DEF SilentInv, Misses
      <4>6. ASSUME NEW m \in Misses, Waiting(m) \/ Forced(m)
            PROVE  SilentInv'
        <5>1. Waiting(m)
          BY <1>1, <1>3, <2>1, <4>1, <4>6 DEF Forced, Waiting
        <5>2. Waiting(m)'
          BY <1>1, <1>2, <1>3, <2>1, <3>1, <4>1, <4>2, <4>3, <5>1 DEF Waiting, Reach, Miss
        <5>3. QED
          BY <5>2 DEF SilentInv, Misses
      <4>7. QED
        BY <2>3, <4>4, <4>5, <4>6 DEF SilentInv, Resting
    <3>4. CASE Kept
      <4>1. /\ Since' = pingInterval + Margin /\ ~ pongReceived /\ ~ pongReceived'
            /\ pongTimeoutCount' = pongTimeoutCount + 1
            /\ pongTimeoutCount + 1 < disconnectTimeoutCount
            /\ Since > pongTimeout /\ Since <= pingInterval
        BY <1>1, <1>2, <2>1, <2>3, <3>4 DEF Kept, Missed, Due, Since
      <4>2. CASE Fresh
        <5>1. Forced(0)'
          BY <1>1, <1>2, <1>3, <1>4, <2>1, <3>1, <4>1, <4>2 DEF Fresh, Forced, Reach, Miss
        <5>2. QED
          BY <1>5, <5>1 DEF SilentInv, Misses
      <4>3. ASSUME NEW m \in Misses, Waiting(m) \/ Forced(m)
            PROVE  SilentInv'
        <5>1. Waiting(m)
          BY <1>1, <1>3, <2>1, <4>1, <4>3 DEF Forced, Waiting
        <5>2. m + 1 \in Misses /\ m + 1 <= pongTimeoutCount'
          BY <1>1, <1>3, <4>1, <4>3, <5>1 DEF Waiting, Misses
        <5>3. silent <= Reach(m + 1)
          BY <1>1, <1>2, <1>3, <1>4, <1>5, <4>3, <5>1 DEF Waiting
        <5>4. Forced(m + 1)'
          BY <1>1, <1>2, <1>3, <1>4, <2>1, <3>1, <4>1, <5>2, <5>3 DEF Forced, Reach, Miss
        <5>5. QED
          BY <5>2, <5>4 DEF SilentInv, Misses
      <4>4. QED
        BY <2>3, <4>1, <4>2, <4>3 DEF SilentInv, Resting
    <3>5. CASE GivenUp
      BY <3>5 DEF GivenUp, SilentInv
    <3>6. QED
      BY <1>9, <3>2, <3>3, <3>4, <3>5, TurnFacts
  <2>4. CASE status = "header"
    <3>1. status' # "up"
      BY <1>9, <2>4, TurnFacts DEF Pinging, Quiet, Kept, GivenUp
    <3>2. QED
      BY <3>1 DEF SilentInv
  <2>5. QED
    BY <2>1, <2>2, <2>3, <2>4 DEF PingTypeOK
<1>10. ASSUME NEW d \in 1 .. MaxPeriod, Advance(d)
       PROVE  SilentInv'
  <2>1. /\ d \in Nat /\ (Since + d < Wrap => Since' = Since + d)
    BY <1>10, AdvanceFacts
  <2>2. /\ spent' = spent + d /\ spent + d <= MaxPeriod
        /\ silent' = UpTo(Bound + 1, silent + d)
        /\ UNCHANGED <<status, pongTimeoutCount>>
    BY <1>10 DEF Advance
  <2>3. pongReceived' <=> pongReceived
    BY <1>10 DEF Advance
  <2>4. silent' <= silent + d /\ silent' \in Nat
    <3>1. Bound \in Nat
      BY <1>4, <1>5, ReachFacts DEF Bound, HeartbeatConstants, HeartbeatAssumption, Miss
    <3>2. QED
      BY <1>3, <2>1, <2>2, <3>1 DEF UpTo
  <2>5. Fresh => Fresh'
    BY <1>3, <2>1, <2>2, <2>4 DEF Fresh
  <2>6. Resting => Resting'
    BY <1>1, <1>2, <1>3, <2>1, <2>2, <2>3, <2>4 DEF Resting
  <2>7. \A m \in Misses : Waiting(m) => Waiting(m)'
    BY <1>1, <1>2, <1>3, <1>4, <2>1, <2>2, <2>3, <2>4 DEF Waiting, Reach, Miss
  <2>8. \A m \in Misses : Forced(m) => Forced(m)'
    BY <1>1, <1>2, <1>3, <1>4, <2>1, <2>2, <2>3, <2>4 DEF Forced, Reach, Miss
  <2>9. QED
    BY <2>2, <2>5, <2>6, <2>7, <2>8 DEF SilentInv, Misses
<1>11. CASE UNCHANGED pingVars
  BY <1>11 DEF pingVars, SilentInv, Fresh, Resting, Waiting, Forced, Since, Reach, Miss, Misses
<1>12. QED
  BY <1>6, <1>7, <1>8, <1>9, <1>10, <1>11 DEF PingNext

LEMMA SilentBounded ==
  ASSUME HeartbeatConstants, PingTypeOK, SilentInv
  PROVE  DropsSilentPeers
<1>1. /\ pingInterval \in Nat /\ pongTimeout \in Nat /\ MaxPeriod \in Nat
      /\ spent \in 0 .. MaxPeriod /\ silent \in Nat /\ Since \in Nat
      /\ disconnectTimeoutCount \in Nat \ {0} /\ 0 \in Misses
  BY SinceFacts DEF HeartbeatConstants, HeartbeatAssumption, WrapAssumption, PingTypeOK,
                    Misses
<1>2. /\ Miss \in Nat /\ Miss >= 2 * MaxPeriod /\ Reach(0) = pingInterval + MaxPeriod
      /\ \A m \in Misses : Reach(m) \in Nat /\ Reach(m) + Miss <= Bound
      /\ Bound \in Int /\ Reach(0) + Miss <= Bound
  <2>1. Bound \in Int
    BY <1>1, ReachFacts DEF Bound, Miss
  <2>2. QED
    BY <1>1, <2>1, ReachFacts
<1>3. Fresh \/ Resting => silent <= Bound
  BY <1>1, <1>2 DEF Fresh, Resting
<1>4. ASSUME NEW m \in Misses, Waiting(m) \/ Forced(m)
      PROVE  silent <= Bound
  BY <1>1, <1>2, <1>4 DEF Waiting, Forced, Miss
<1>5. QED
  BY <1>3, <1>4 DEF SilentInv, DropsSilentPeers

\* A peer that upgrades and answers every ping in time is never dropped by the
\* server's heartbeat, whatever connections its slot had before, and for any period,
\* time-out and width of the clock that leave it the time.
THEOREM AnsweringPeersKept ==
  ASSUME HeartbeatConstants, AnswersInTime
  PROVE  PingSpec => []KeepsAnsweringPeers
<1> DEFINE Inv == PingTypeOK /\ AnsweringInv
<1>1. PingInit => Inv
  BY PingStart DEF PingInit, AnsweringInv
<1>2. Inv /\ [PingNext]_pingVars => Inv'
  BY PingTypes, AnsweringStep
<1>3. Inv => KeepsAnsweringPeers
  BY DEF AnsweringInv, KeepsAnsweringPeers
<1>4. QED
  BY <1>1, <1>2, <1>3, PTL DEF PingSpec

\* A peer that falls silent is dropped within Bound, by the server and by the client,
\* although a miscounted pong of an earlier connection may be left in the slot.
THEOREM SilentPeersDropped ==
  ASSUME HeartbeatConstants, TimeoutBeforePing
  PROVE  PingSpec => []DropsSilentPeers
<1> DEFINE Inv == PingTypeOK /\ SilentInv
<1>1. PingInit => Inv
  BY PingStart DEF PingInit, SilentInv
<1>2. Inv /\ [PingNext]_pingVars => Inv'
  BY PingTypes, SilentStep
<1>3. Inv => DropsSilentPeers
  BY SilentBounded
<1>4. QED
  BY <1>1, <1>2, <1>3, PTL DEF PingSpec

-----------------------------------------------------------------------------
(* The frames, for any base, marker and sizes, any frames and keys.        *)

Bit == {0, 1}

LEMMA Divided ==
  ASSUME NEW a \in Nat, NEW b \in Nat \ {0}
  PROVE  a \div b \in Nat /\ a % b \in 0 .. b - 1 /\ a = (a \div b) * b + (a % b)
OBVIOUS

LEMMA QuotientBelow ==
  ASSUME NEW a \in Nat, NEW b \in Nat \ {0}, NEW c \in Nat, a < c * b
  PROVE  a \div b \in Nat /\ a \div b < c
<1> DEFINE q == a \div b
<1>1. q \in Nat /\ q * b <= a
  BY Divided
<1>2. SUFFICES ASSUME q >= c PROVE FALSE
  BY <1>1
<1>3. PICK d \in Nat : q = c + d
  <2>1. q - c \in Nat /\ q = c + (q - c)
    BY <1>1, <1>2
  <2>2. QED
    BY <2>1
<1>4. q * b = c * b + d * b /\ d * b >= 0
  <2> HIDE DEF q
  <2>1. QED
    BY <1>1, <1>3
<1> HIDE DEF q
<1>5. QED
  BY <1>1, <1>4

\* The digits of a, when it has two of them and when it has four.
Digits(a, b, d3, d2, d1, d0) ==
    /\ {d3, d2, d1, d0} \subseteq Nat
    /\ a < b * b => d1 * b + d0 = a
    /\ a < b * b * b * b => ((d3 * b + d2) * b + d1) * b + d0 = a

LEMMA DigitsOf ==
  ASSUME NEW a \in Nat, NEW b \in Nat \ {0}, NEW q1, NEW q2, NEW q3,
         q1 = a \div b, q2 = q1 \div b, q3 = q2 \div b
  PROVE  Digits(a, b, q3 % b, q2 % b, q1 % b, a % b)
<1>1. q1 \in Nat /\ a % b \in 0 .. b - 1 /\ a = q1 * b + (a % b)
  BY Divided
<1>2. q2 \in Nat /\ q1 % b \in 0 .. b - 1 /\ q1 = q2 * b + (q1 % b)
  BY <1>1, Divided
<1>3. q3 \in Nat /\ q2 % b \in 0 .. b - 1 /\ q2 = q3 * b + (q2 % b)
  BY <1>2, Divided
<1>4. q3 % b \in 0 .. b - 1
  BY <1>3, Divided
<1>5. \A q \in Nat : q < b => q % b = q
  OBVIOUS
<1>6. ASSUME a < b * b PROVE (q1 % b) * b + (a % b) = a
  <2>1. q1 < b
    BY <1>6, QuotientBelow
  <2>2. q1 % b = q1
    BY <1>1, <1>5, <2>1
  <2>3. QED
    BY <1>1, <2>2
<1>7. ASSUME a < b * b * b * b
      PROVE  (((q3 % b) * b + (q2 % b)) * b + (q1 % b)) * b + (a % b) = a
  <2>1. b * b \in Nat /\ b * b * b \in Nat
    OBVIOUS
  <2>2. q1 < b * b * b
    BY <1>7, <2>1, QuotientBelow
  <2>3. q2 < b * b
    BY <1>1, <2>1, <2>2, QuotientBelow
  <2>4. q3 < b
    BY <1>2, <2>3, QuotientBelow
  <2>5. q3 % b = q3
    BY <1>3, <1>5, <2>4
  <2>6. QED
    BY <1>1, <1>2, <1>3, <2>5
<1>8. QED
  BY <1>1, <1>2, <1>3, <1>4, <1>6, <1>7 DEF Digits

LEMMA Concat ==
  ASSUME NEW s \in Seq(Nat), NEW t \in Seq(Nat)
  PROVE  /\ s \o t \in Seq(Nat) /\ Len(s \o t) = Len(s) + Len(t)
         /\ \A i \in 1 .. Len(s) : (s \o t)[i] = s[i]
         /\ \A i \in 1 .. Len(t) : (s \o t)[Len(s) + i] = t[i]
<1>1. Len(s) \in Nat /\ Len(t) \in Nat
  BY LenProperties
<1>2. /\ s \o t \in Seq(Nat) /\ Len(s \o t) = Len(s) + Len(t)
      /\ \A i \in 1 .. Len(s) + Len(t) :
           (s \o t)[i] = IF i <= Len(s) THEN s[i] ELSE t[i - Len(s)]
  BY ConcatProperties, Zenon
<1>3. QED
  BY <1>1, <1>2

\* h consists of a, mid and key.
Parts(h, a, mid, key) ==
    /\ h \in Seq(Nat) /\ Len(h) = 1 + Len(mid) + Len(key) /\ h[1] = a
    /\ \A i \in 1 .. Len(mid) : h[1 + i] = mid[i]
    /\ \A i \in 1 .. Len(key) : h[1 + Len(mid) + i] = key[i]

LEMMA Joining ==
  ASSUME NEW a \in Nat, NEW mid \in Seq(Nat), NEW key \in Seq(Nat), NEW h,
         h = <<a>> \o mid \o key
  PROVE  Parts(h, a, mid, key)
<1>1. <<a>> \in Seq(Nat) /\ Len(<<a>>) = 1 /\ <<a>>[1] = a
  OBVIOUS
<1>2. Len(mid) \in Nat /\ Len(key) \in Nat
  BY LenProperties
<1>3. PICK g : g = <<a>> \o mid
  OBVIOUS
<1>4. /\ g \in Seq(Nat) /\ Len(g) = 1 + Len(mid)
      /\ \A i \in 1 .. 1 : g[i] = <<a>>[i]
      /\ \A i \in 1 .. Len(mid) : g[1 + i] = mid[i]
  BY <1>1, <1>3, Concat
<1>5. g[1] = a
  BY <1>1, <1>4
<1>6. h = g \o key
  BY <1>3
<1>7. /\ h \in Seq(Nat) /\ Len(h) = Len(g) + Len(key)
      /\ \A i \in 1 .. Len(g) : h[i] = g[i]
      /\ \A i \in 1 .. Len(key) : h[Len(g) + i] = key[i]
  <2>1. /\ g \o key \in Seq(Nat) /\ Len(g \o key) = Len(g) + Len(key)
        /\ \A i \in 1 .. Len(g) : (g \o key)[i] = g[i]
        /\ \A i \in 1 .. Len(key) : (g \o key)[Len(g) + i] = key[i]
    BY <1>4, Concat, Zenon
  <2>2. QED
    BY <1>6, <2>1, Zenon
<1>8. QED
  BY <1>2, <1>4, <1>5, <1>7 DEF Parts

LEMMA FrameTypes ==
  ASSUME FrameAssumption, NEW f \in Frames
  PROVE  /\ f.op \in 0 .. 15 /\ f.data \in Seq(Bit)
         /\ Len(f.data) \in Nat /\ Len(f.data) < Base * Base * Base * Base
<1>1. f \in [op : 0 .. 15, fin : BOOLEAN, data : Seq(Bit)]
  BY DEF FrameAssumption, Bit
<1>2. f.op \in 0 .. 15 /\ f.data \in Seq(Bit)
  BY <1>1
<1>3. Len(f.data) \in Nat
  BY <1>2, LenProperties
<1>4. Len(f.data) < Base * Base * Base * Base
  BY DEF FrameAssumption
<1>5. QED
  BY <1>2, <1>3, <1>4

LEMMA WholeFrame ==
  ASSUME FrameAssumption, NEW f \in Frames
  PROVE  f.fin \in BOOLEAN /\ f = [op |-> f.op, fin |-> f.fin, data |-> f.data]
<1>1. f \in [op : 0 .. 15, fin : BOOLEAN, data : Seq(Bit)]
  BY DEF FrameAssumption, Bit
<1>2. QED
  BY <1>1, Zenon

LEMMA Sizes ==
  ASSUME FrameAssumption
  PROVE  /\ Small \in Nat /\ MaskBit \in Nat /\ MaxData \in Nat /\ Base \in Nat \ {0}
         /\ Small + 1 < MaskBit /\ Small < Mid
BY DEF FrameAssumption

\* The second byte with and without the mask bit.
LEMMA SecondByte ==
  ASSUME FrameAssumption, NEW x \in Nat, x < MaskBit, NEW y \in {x, MaskBit + x}
  PROVE  y % MaskBit = x /\ (y >= MaskBit <=> y = MaskBit + x)
<1>1. MaskBit \in Nat \ {0}
  BY Sizes
<1>2. x % MaskBit = x
  BY <1>1
<1>3. (MaskBit + x) % MaskBit = x
  BY <1>1
<1>4. QED
  BY <1>1, <1>2, <1>3

LEMMA KeyFacts ==
  ASSUME FrameAssumption, NEW key \in MaskKeys
  PROVE  /\ key \in Seq(Nat) /\ Len(key) = IF key = << >> THEN 0 ELSE 4
         /\ \A i \in 1 .. Len(key) : key[i] \in Bit
<1>1. CASE key = << >>
  BY <1>1
<1>2. CASE key # << >>
  <2>1. key \in [1 .. 4 -> Bit]
    <3>1. MaskKeys \subseteq {<< >>} \cup [1 .. 4 -> Bit]
      BY DEF FrameAssumption, Bit
    <3>2. QED
      BY <1>2, <3>1
  <2>2. key \in Seq(Bit)
    <3>1. [1 .. 4 -> Bit] \in {[1 .. n -> Bit] : n \in Nat}
      OBVIOUS
    <3>2. key \in UNION {[1 .. n -> Bit] : n \in Nat}
      BY <2>1, <3>1
    <3>3. QED
      BY <3>2, SeqDef, Zenon
  <2>3. Len(key) = 4
    BY <2>1, <2>2, LenProperties
  <2>4. key \in Seq(Nat)
    BY <2>2, SeqMonotonic DEF Bit
  <2>5. QED
    BY <1>2, <2>1, <2>3, <2>4
<1>3. QED
  BY <1>1, <1>2

\* What the receiver makes of a header is what the sender put into it.
LEMMA HeaderFacts ==
  ASSUME FrameAssumption, NEW f \in Frames, NEW key \in MaskKeys,
         NEW h, h = createHeader(f, key)
  PROVE  /\ h \in Seq(Nat) /\ ExtLen(h) \in {0, 2, 8}
         /\ Len(h) = 2 + ExtLen(h) + Len(key)
         /\ MaskLen(h) = Len(key) /\ Length(h) = Len(f.data)
         /\ h[1] = (IF f.fin THEN 128 ELSE 0) + f.op
         /\ \A i \in 1 .. Len(key) : h[2 + ExtLen(h) + i] = key[i]
<1>1. PICK len \in Nat : len = Len(f.data)
  BY FrameTypes
<1>2. PICK a \in Nat : a = (IF f.fin THEN 128 ELSE 0) + f.op
  BY FrameTypes
<1>3. /\ key \in Seq(Nat) /\ Len(key) \in {0, 4}
      /\ key = << >> <=> Len(key) = 0
  BY KeyFacts
<1>4. PICK m \in Nat : m = IF key = << >> THEN 0 ELSE MaskBit
  BY Sizes
<1>5. m = IF Len(key) = 0 THEN 0 ELSE MaskBit
  BY <1>3, <1>4
<1>6. PICK q1, q2, q3 : q1 = len \div Base /\ q2 = q1 \div Base /\ q3 = q2 \div Base
  OBVIOUS
<1>7. PICK d3, d2, d1, d0 :
        d0 = len % Base /\ d1 = q1 % Base /\ d2 = q2 % Base /\ d3 = q3 % Base
  OBVIOUS
<1>8. /\ {d3, d2, d1, d0} \subseteq Nat
      /\ len < Base * Base => d1 * Base + d0 = len
      /\ ((d3 * Base + d2) * Base + d1) * Base + d0 = len
  <2>1. Digits(len, Base, d3, d2, d1, d0)
    BY <1>6, <1>7, DigitsOf, Sizes
  <2>2. len < Base * Base * Base * Base
    BY <1>1, FrameTypes
  <2>3. QED
    BY <2>1, <2>2 DEF Digits
<1>9. CASE len < Small
  <2>1. PICK t : t = <<m + len>>
    OBVIOUS
  <2>2. h = <<a>> \o t \o key
    BY <1>1, <1>2, <1>4, <1>9, <2>1 DEF createHeader
  <2>3. t \in Seq(Nat) /\ Len(t) = 1 /\ t[1] = m + len
    BY <2>1
  <2>4. /\ h \in Seq(Nat) /\ Len(h) = 1 + Len(t) + Len(key) /\ h[1] = a
        /\ \A i \in 1 .. Len(t) : h[1 + i] = t[i]
        /\ \A i \in 1 .. Len(key) : h[1 + Len(t) + i] = key[i]
    <3>1. Parts(h, a, t, key)
      BY <1>3, <2>2, <2>3, Joining
    <3>2. QED
      BY <3>1 DEF Parts
  <2>5. h[2] = m + len /\ \A i \in 1 .. Len(key) : h[2 + i] = key[i]
    BY <2>3, <2>4
  <2>6. h[2] % MaskBit = len /\ MaskLen(h) = Len(key)
    <3>1. len \in Nat /\ len < MaskBit /\ MaskBit \in Nat \ {0}
      BY <1>9, Sizes
    <3>2. h[2] = IF Len(key) = 0 THEN len ELSE MaskBit + (len)
      BY <1>5, <2>5, <3>1
    <3>3. h[2] % MaskBit = len /\ (h[2] >= MaskBit <=> Len(key) # 0)
      BY <3>1, <3>2, SecondByte
    <3>4. QED
      BY <1>3, <3>3 DEF MaskLen
  <2>7. ExtLen(h) = 0 /\ Length(h) = len
    BY <1>9, <2>6, Sizes DEF ExtLen, Length
  <2>8. QED
    BY <1>1, <1>2, <1>3, <2>3, <2>4, <2>5, <2>6, <2>7
<1>10. CASE ~ (len < Small) /\ len < Mid
  <2>1. PICK t : t = <<m + Small, d1, d0>>
    OBVIOUS
  <2>2. h = <<a>> \o t \o key
    BY <1>1, <1>2, <1>4, <1>6, <1>7, <1>10, <2>1 DEF createHeader
  <2>3. t \in Seq(Nat) /\ Len(t) = 3 /\ t[1] = m + Small /\ t[2] = d1 /\ t[3] = d0
    BY <1>8, <2>1, Sizes
  <2>4. /\ h \in Seq(Nat) /\ Len(h) = 1 + Len(t) + Len(key) /\ h[1] = a
        /\ \A i \in 1 .. Len(t) : h[1 + i] = t[i]
        /\ \A i \in 1 .. Len(key) : h[1 + Len(t) + i] = key[i]
    <3>1. Parts(h, a, t, key)
      BY <1>3, <2>2, <2>3, Joining
    <3>2. QED
      BY <3>1 DEF Parts
  <2>5. h[2] = m + Small /\ h[3] = d1 /\ h[4] = d0
    BY <2>3, <2>4
  <2>6. h[2] % MaskBit = Small /\ MaskLen(h) = Len(key)
    <3>1. Small \in Nat /\ Small < MaskBit /\ MaskBit \in Nat \ {0}
      BY Sizes
    <3>2. h[2] = IF Len(key) = 0 THEN Small ELSE MaskBit + (Small)
      BY <1>5, <2>5, <3>1
    <3>3. h[2] % MaskBit = Small /\ (h[2] >= MaskBit <=> Len(key) # 0)
      BY <3>1, <3>2, SecondByte
    <3>4. QED
      BY <1>3, <3>3 DEF MaskLen
  <2>7. ExtLen(h) = 2
    BY <2>6, Sizes DEF ExtLen
  <2>8. Length(h) = h[3] * Base + h[4]
    BY <2>7 DEF Length
  <2>9. len < Base * Base
    BY <1>10, Sizes DEF Mid
  <2>10. Length(h) = len
    BY <1>8, <2>5, <2>8, <2>9
  <2>11. \A i \in 1 .. Len(key) : h[4 + i] = key[i]
    BY <2>3, <2>4
  <2>12. QED
    BY <1>1, <1>2, <1>3, <2>3, <2>4, <2>6, <2>7, <2>10, <2>11
<1>11. CASE ~ (len < Small) /\ ~ (len < Mid)
  <2>1. PICK t : t = <<m + Small + 1, 0, 0, 0, 0, d3, d2, d1, d0>>
    OBVIOUS
  <2>2. h = <<a>> \o t \o key
    BY <1>1, <1>2, <1>4, <1>6, <1>7, <1>11, <2>1, ZenonT(60) DEF createHeader
  <2>3. /\ t \in Seq(Nat) /\ Len(t) = 9 /\ t[1] = m + Small + 1
        /\ t[2] = 0 /\ t[3] = 0 /\ t[4] = 0 /\ t[5] = 0
        /\ t[6] = d3 /\ t[7] = d2 /\ t[8] = d1 /\ t[9] = d0
    BY <1>8, <2>1, Sizes
  <2>4. /\ h \in Seq(Nat) /\ Len(h) = 1 + Len(t) + Len(key) /\ h[1] = a
        /\ \A i \in 1 .. Len(t) : h[1 + i] = t[i]
        /\ \A i \in 1 .. Len(key) : h[1 + Len(t) + i] = key[i]
    <3>1. Parts(h, a, t, key)
      BY <1>3, <2>2, <2>3, Joining
    <3>2. QED
      BY <3>1 DEF Parts
  <2>5. /\ h[2] = m + Small + 1 /\ h[3] = 0 /\ h[4] = 0 /\ h[5] = 0 /\ h[6] = 0
        /\ h[7] = d3 /\ h[8] = d2 /\ h[9] = d1 /\ h[10] = d0
    BY <2>3, <2>4
  <2>6. h[2] % MaskBit = Small + 1 /\ MaskLen(h) = Len(key)
    <3>1. Small + 1 \in Nat /\ Small + 1 < MaskBit /\ MaskBit \in Nat \ {0}
      BY Sizes
    <3>2. h[2] = IF Len(key) = 0 THEN Small + 1 ELSE MaskBit + (Small + 1)
      <4>1. Small \in Nat /\ MaskBit \in Nat
        BY Sizes
      <4>2. h[2] = m + Small + 1
        BY <2>5
      <4>3. QED
        BY <1>5, <4>1, <4>2
    <3>3. h[2] % MaskBit = Small + 1 /\ (h[2] >= MaskBit <=> Len(key) # 0)
      <4>1. PICK x, y : x = Small + 1 /\ y = h[2]
        OBVIOUS
      <4>2. x \in Nat /\ x < MaskBit /\ MaskBit \in Nat \ {0}
        BY <3>1, <4>1
      <4>3. y = IF Len(key) = 0 THEN x ELSE MaskBit + x
        BY <3>2, <4>1, Zenon
      <4>4. y \in {x, MaskBit + x} /\ (y = MaskBit + x <=> Len(key) # 0)
        BY <4>2, <4>3
      <4>5. y % MaskBit = x /\ (y >= MaskBit <=> y = MaskBit + x)
        BY <4>2, <4>4, SecondByte
      <4>6. QED
        BY <4>1, <4>4, <4>5, Zenon
    <3>4. QED
      BY <1>3, <3>3 DEF MaskLen
  <2>7. ExtLen(h) = 8
    BY <2>6, Sizes DEF ExtLen
  <2>8. Length(h) = ((h[7] * Base + h[8]) * Base + h[9]) * Base + h[10]
    <3>1. ~ \E i \in 3 .. 6 : h[i] # 0
      BY <2>5
    <3>2. QED
      BY <2>7, <3>1 DEF Length
  <2>9. Length(h) = len
    BY <1>8, <2>5, <2>8
  <2>10. \A i \in 1 .. Len(key) : h[10 + i] = key[i]
    BY <2>3, <2>4
  <2>11. QED
    BY <1>1, <1>2, <1>3, <2>3, <2>4, <2>6, <2>7, <2>9, <2>10
<1>12. QED
  BY <1>9, <1>10, <1>11

\* The first bytes of a header are read as those of the whole.
LEMMA PartRead ==
  ASSUME NEW h \in Seq(Nat), NEW g \in Seq(Nat), Len(g) <= Len(h), Len(g) >= 2,
         \A i \in 1 .. Len(g) : g[i] = h[i]
  PROVE  /\ g[1] = h[1] /\ ExtLen(g) = ExtLen(h) /\ MaskLen(g) = MaskLen(h)
         /\ Len(g) >= 2 + ExtLen(h) => Length(g) = Length(h)
<1>1. Len(g) \in Nat /\ Len(h) \in Nat
  BY LenProperties
<1>2. g[1] = h[1] /\ g[2] = h[2]
  BY <1>1
<1>3. ExtLen(g) = ExtLen(h) /\ MaskLen(g) = MaskLen(h)
  BY <1>2 DEF ExtLen, MaskLen
<1>4. ASSUME Len(g) >= 2 + ExtLen(h) PROVE Length(g) = Length(h)
  <2>1. CASE ExtLen(h) = 0
    BY <1>2, <1>3, <2>1 DEF Length
  <2>2. CASE ExtLen(h) = 2
    <3>1. g[3] = h[3] /\ g[4] = h[4]
      BY <1>1, <1>4, <2>2
    <3>2. QED
      BY <1>3, <2>2, <3>1 DEF Length
  <2>3. CASE ExtLen(h) = 8
    <3>1. \A i \in 1 .. 10 : i \in 1 .. Len(g)
      <4>1. Len(g) \in Nat /\ Len(g) >= 10
        BY <1>1, <1>4, <2>3
      <4>2. PICK n : n = Len(g)
        OBVIOUS
      <4>3. \A i \in 1 .. 10 : i \in 1 .. n
        BY <4>1, <4>2
      <4>4. QED
        BY <4>2, <4>3, Zenon
    <3>2. \A i \in 1 .. 10 : g[i] = h[i]
      BY <3>1
    <3>3. /\ g[3] = h[3] /\ g[4] = h[4] /\ g[5] = h[5] /\ g[6] = h[6]
          /\ g[7] = h[7] /\ g[8] = h[8] /\ g[9] = h[9] /\ g[10] = h[10]
      BY <3>2
    <3>4. ASSUME NEW s, ExtLen(s) = 8
          PROVE  Length(s) =
            IF s[3] # 0 \/ s[4] # 0 \/ s[5] # 0 \/ s[6] # 0 THEN MaxData + 1
            ELSE ((s[7] * Base + s[8]) * Base + s[9]) * Base + s[10]
      <4>1. \A i \in 3 .. 6 : i = 3 \/ i = 4 \/ i = 5 \/ i = 6
        OBVIOUS
      <4>2. QED
        BY <3>4, <4>1 DEF Length
    <3>5. QED
      BY <1>3, <2>3, <3>3, <3>4
  <2>4. ExtLen(h) \in {0, 2, 8}
    BY DEF ExtLen
  <2>5. QED
    BY <2>1, <2>2, <2>3, <2>4
<1>5. QED
  BY <1>2, <1>3, <1>4

\* s lies in bytes, behind the first from of them.
Holds(bytes, from, s) ==
    from + Len(s) <= Len(bytes) /\ \A i \in 1 .. Len(s) : bytes[from + i] = s[i]

\* s is the beginning of t.
StartOf(s, t) ==
    s \in Seq(Nat) /\ Len(s) <= Len(t) /\ \A i \in 1 .. Len(s) : s[i] = t[i]

LEMMA HoldsMore ==
  ASSUME NEW bytes \in Seq(Nat), NEW e \in Seq(Nat), NEW s \in Seq(Nat),
         NEW from \in Nat, Holds(bytes, from, s)
  PROVE  Holds(bytes \o e, from, s)
<1>1. Len(bytes) \in Nat /\ Len(e) \in Nat /\ Len(s) \in Nat
  BY LenProperties
<1>2. from + Len(s) <= Len(bytes) /\ \A i \in 1 .. Len(s) : bytes[from + i] = s[i]
  BY DEF Holds
<1>3. /\ Len(bytes \o e) = Len(bytes) + Len(e)
      /\ \A i \in 1 .. Len(bytes) : (bytes \o e)[i] = bytes[i]
  BY Concat
<1>4. \A i \in 1 .. Len(s) : from + i \in 1 .. Len(bytes)
  BY <1>1, <1>2
<1>5. QED
  BY <1>1, <1>2, <1>3, <1>4 DEF Holds

LEMMA HoldsJoined ==
  ASSUME NEW bytes \in Seq(Nat), NEW e \in Seq(Nat), NEW s \in Seq(Nat),
         NEW from \in Nat, Holds(bytes, from, s), from + Len(s) = Len(bytes)
  PROVE  /\ Holds(bytes \o e, from, s \o e)
         /\ from + Len(s \o e) = Len(bytes \o e)
<1>1. Len(bytes) \in Nat /\ Len(e) \in Nat /\ Len(s) \in Nat
  BY LenProperties
<1>2. PICK b, t : b = bytes \o e /\ t = s \o e
  OBVIOUS
<1>3. /\ Len(b) = Len(bytes) + Len(e)
      /\ \A i \in 1 .. Len(bytes) : b[i] = bytes[i]
      /\ \A i \in 1 .. Len(e) : b[Len(bytes) + i] = e[i]
  BY <1>2, Concat
<1>4. /\ Len(t) = Len(s) + Len(e)
      /\ \A i \in 1 .. Len(s) : t[i] = s[i]
      /\ \A i \in 1 .. Len(e) : t[Len(s) + i] = e[i]
  BY <1>2, Concat
<1>5. \A i \in 1 .. Len(s) : bytes[from + i] = s[i]
  BY DEF Holds
<1>6. ASSUME NEW i \in 1 .. Len(t) PROVE b[from + i] = t[i]
  <2>1. CASE i \in 1 .. Len(s)
    <3>1. from + i \in 1 .. Len(bytes)
      BY <1>1, <2>1
    <3>2. QED
      BY <1>3, <1>4, <1>5, <2>1, <3>1
  <2>2. CASE ~ (i \in 1 .. Len(s))
    <3>1. PICK j \in 1 .. Len(e) : i = Len(s) + j
      <4>1. i - Len(s) \in 1 .. Len(e) /\ i = Len(s) + (i - Len(s))
        BY <1>1, <1>4, <2>2
      <4>2. QED
        BY <4>1
    <3>2. from + i = Len(bytes) + j
      <4>1. j \in Nat /\ Len(bytes) = from + Len(s)
        BY <1>1
      <4>2. QED
        BY <1>1, <3>1, <4>1
    <3>3. QED
      BY <1>3, <1>4, <3>1, <3>2
  <2>3. QED
    BY <2>1, <2>2
<1>7. Holds(b, from, t) /\ from + Len(t) = Len(b)
  <2>1. /\ Len(t) = Len(s) + Len(e) /\ Len(b) = Len(bytes) + Len(e)
        /\ b \in Seq(Nat) /\ t \in Seq(Nat)
    BY <1>2, <1>3, <1>4, Concat
  <2>2. from + Len(t) = Len(b) /\ Len(b) \in Nat
    BY <1>1, <2>1
  <2>3. QED
    BY <1>6, <2>2 DEF Holds
<1>8. QED
  BY <1>2, <1>7

LEMMA HoldsParts ==
  ASSUME NEW bytes \in Seq(Nat), NEW s \in Seq(Nat), NEW t \in Seq(Nat),
         NEW from \in Nat, Holds(bytes, from, s \o t)
  PROVE  Holds(bytes, from, s) /\ Holds(bytes, from + Len(s), t)
<1>1. Len(bytes) \in Nat /\ Len(s) \in Nat /\ Len(t) \in Nat
  BY LenProperties
<1>2. PICK c : c = s \o t
  OBVIOUS
<1>3. /\ Len(c) = Len(s) + Len(t)
      /\ \A i \in 1 .. Len(s) : c[i] = s[i]
      /\ \A i \in 1 .. Len(t) : c[Len(s) + i] = t[i]
  BY <1>2, Concat
<1>4. from + Len(c) <= Len(bytes) /\ \A i \in 1 .. Len(c) : bytes[from + i] = c[i]
  <2>1. Holds(bytes, from, c)
    BY <1>2
  <2>2. QED
    BY <2>1 DEF Holds
<1>5. Holds(bytes, from, s)
  <2>1. from + Len(s) <= Len(bytes)
    BY <1>1, <1>3, <1>4
  <2>2. \A i \in 1 .. Len(s) : i \in 1 .. Len(c)
    BY <1>1, <1>3
  <2>3. QED
    BY <1>3, <1>4, <2>1, <2>2 DEF Holds
<1>6. ASSUME NEW i \in 1 .. Len(t) PROVE bytes[(from + Len(s)) + i] = t[i]
  <2>1. Len(s) + i \in 1 .. Len(c) /\ (from + Len(s)) + i = from + (Len(s) + i)
    BY <1>1, <1>3
  <2>2. QED
    BY <1>3, <1>4, <2>1
<1>7. QED
  BY <1>1, <1>3, <1>4, <1>5, <1>6 DEF Holds

LEMMA PlaceMoved ==
  ASSUME NEW n \in Nat, NEW k \in 1 .. n, NEW i \in 1 .. n - k, NEW from \in Nat
  PROVE  k + i \in 1 .. n /\ (from + k) + i = from + (k + i)
OBVIOUS

LEMMA HoldsRest ==
  ASSUME NEW bytes \in Seq(Nat), NEW s \in Seq(Nat), NEW from \in Nat,
         Holds(bytes, from, s), NEW k \in 1 .. Len(s), NEW r \in Seq(Nat),
         Len(r) = Len(s) - k, \A i \in 1 .. Len(s) - k : r[i] = s[k + i]
  PROVE  Holds(bytes, from + k, r)
<1>1. Len(bytes) \in Nat /\ Len(s) \in Nat
  BY LenProperties
<1>2. from + Len(s) <= Len(bytes) /\ \A i \in 1 .. Len(s) : bytes[from + i] = s[i]
  BY DEF Holds
<1>3. (from + k) + Len(r) <= Len(bytes)
  BY <1>1, <1>2
<1>4. ASSUME NEW i \in 1 .. Len(r) PROVE bytes[(from + k) + i] = r[i]
  <2>1. k + i \in 1 .. Len(s) /\ (from + k) + i = from + (k + i)
    <3>1. PICK n : n = Len(s)
      OBVIOUS
    <3>2. n \in Nat /\ k \in 1 .. n /\ i \in 1 .. n - k
      BY <1>1, <3>1
    <3>3. k + i \in 1 .. n /\ (from + k) + i = from + (k + i)
      BY <3>2, PlaceMoved
    <3>4. QED
      BY <3>1, <3>3, Zenon
  <2>2. bytes[from + (k + i)] = s[k + i] /\ r[i] = s[k + i]
    BY <1>2, <2>1
  <2>3. QED
    BY <2>1, <2>2
<1>5. QED
  BY <1>3, <1>4 DEF Holds

\* readCb() takes k bytes from the front.
CutAt(s, k, a, r) == a = SubSeq(s, 1, k) /\ r = SubSeq(s, k + 1, Len(s))

LEMMA Cut ==
  ASSUME NEW bytes \in Seq(Nat), NEW s \in Seq(Nat), NEW from \in Nat,
         Holds(bytes, from, s), NEW k \in 1 .. Len(s), NEW a, NEW r, CutAt(s, k, a, r)
  PROVE  /\ a \in Seq(Nat) /\ Len(a) = k
         /\ \A i \in 1 .. k : a[i] = bytes[from + i]
         /\ r \in Seq(Nat) /\ Len(r) = Len(s) - k /\ Holds(bytes, from + k, r)
<1>1. Len(bytes) \in Nat /\ Len(s) \in Nat /\ \A i \in 1 .. Len(s) : s[i] \in Nat
  BY LenProperties, ElementOfSeq
<1>2. from + Len(s) <= Len(bytes) /\ \A i \in 1 .. Len(s) : bytes[from + i] = s[i]
  BY DEF Holds
<1>3. a \in Seq(Nat) /\ Len(a) = k /\ \A i \in 1 .. k : a[i] = s[i]
  <2>1. \A i \in 1 .. k : s[i] \in Nat
    BY <1>1
  <2>2. /\ a \in Seq(Nat) /\ Len(a) = IF 1 <= k THEN k - 1 + 1 ELSE 0
        /\ \A i \in 1 .. k - 1 + 1 : a[i] = s[1 + i - 1]
    BY <1>1, <2>1, SubSeqProperties DEF CutAt
  <2>3. QED
    BY <1>1, <2>2
<1>4. /\ r \in Seq(Nat) /\ Len(r) = Len(s) - k
      /\ \A i \in 1 .. Len(s) - k : r[i] = s[k + i]
  <2>1. \A i \in k + 1 .. Len(s) : s[i] \in Nat
    BY <1>1
  <2>2. /\ r \in Seq(Nat)
        /\ Len(r) = IF k + 1 <= Len(s) THEN Len(s) - (k + 1) + 1 ELSE 0
        /\ \A i \in 1 .. Len(s) - (k + 1) + 1 : r[i] = s[(k + 1) + i - 1]
    BY <1>1, <2>1, SubSeqProperties DEF CutAt
  <2>3. QED
    BY <1>1, <2>2
<1>5. Holds(bytes, from + k, r)
  BY <1>4, HoldsRest
<1>6. \A i \in 1 .. k : i \in 1 .. Len(s)
  BY <1>1
<1>7. \A i \in 1 .. k : a[i] = bytes[from + i]
  BY <1>2, <1>3, <1>6
<1>8. QED
  BY <1>3, <1>4, <1>5, <1>7

\* What was read before and what follows it in the stream.
LEMMA StartGrows ==
  ASSUME NEW bytes \in Seq(Nat), NEW t \in Seq(Nat), NEW from \in Nat,
         Holds(bytes, from, t), NEW s, StartOf(s, t), NEW a \in Seq(Nat),
         \A i \in 1 .. Len(a) : a[i] = bytes[from + Len(s) + i],
         Len(s) + Len(a) <= Len(t)
  PROVE  StartOf(s \o a, t) /\ Len(s \o a) = Len(s) + Len(a)
<1>1. /\ s \in Seq(Nat) /\ Len(s) \in Nat /\ Len(a) \in Nat /\ Len(t) \in Nat
      /\ \A i \in 1 .. Len(s) : s[i] = t[i]
  BY LenProperties DEF StartOf
<1>2. PICK c : c = s \o a
  OBVIOUS
<1>3. /\ c \in Seq(Nat) /\ Len(c) = Len(s) + Len(a)
      /\ \A i \in 1 .. Len(s) : c[i] = s[i]
      /\ \A i \in 1 .. Len(a) : c[Len(s) + i] = a[i]
  BY <1>1, <1>2, Concat
<1>4. \A i \in 1 .. Len(t) : bytes[from + i] = t[i]
  BY DEF Holds
<1>5. ASSUME NEW i \in 1 .. Len(c) PROVE c[i] = t[i]
  <2>1. CASE i \in 1 .. Len(s)
    BY <1>1, <1>3, <2>1
  <2>2. CASE ~ (i \in 1 .. Len(s))
    <3>1. PICK j \in 1 .. Len(a) : i = Len(s) + j
      <4>1. i - Len(s) \in 1 .. Len(a) /\ i = Len(s) + (i - Len(s))
        BY <1>1, <1>3, <2>2
      <4>2. QED
        BY <4>1
    <3>2. from + Len(s) + j = from + i /\ i \in 1 .. Len(t)
      BY <1>1, <1>3, <3>1
    <3>3. c[i] = a[j] /\ a[j] = bytes[from + Len(s) + j] /\ bytes[from + i] = t[i]
      BY <1>3, <1>4, <3>1, <3>2
    <3>4. QED
      BY <3>2, <3>3
  <2>3. QED
    BY <2>1, <2>2
<1>6. QED
  BY <1>2, <1>3, <1>5 DEF StartOf

LEMMA FunctionSeq ==
  ASSUME NEW S, NEW n \in Nat, NEW s \in [1 .. n -> S]
  PROVE  s \in Seq(S) /\ Len(s) = n
<1>1. s \in UNION {[1 .. m -> S] : m \in Nat}
  OBVIOUS
<1>2. s \in Seq(S)
  BY <1>1, SeqDef, Zenon
<1>3. QED
  BY <1>2, LenProperties

\* The mask comes off again.
LEMMA MaskFacts ==
  ASSUME FrameAssumption, NEW d \in Seq(Bit), NEW key \in MaskKeys
  PROVE  /\ Masked(d, key) \in Seq(Nat) /\ Len(Masked(d, key)) = Len(d)
         /\ Unmasked(Masked(d, key), key) = d
<1> DEFINE clear(i) == key = << >> \/ key[1 + ((i - 1) % 4)] = 0
<1>1. Len(d) \in Nat /\ DOMAIN d = 1 .. Len(d) /\ d \in [1 .. Len(d) -> Bit]
  BY LenProperties
<1>2. PICK c : c = [i \in 1 .. Len(d) |-> IF clear(i) THEN d[i] ELSE 1 - d[i]]
  OBVIOUS
<1>3. Masked(d, key) = c
  BY <1>1, <1>2 DEF Masked, Unmasked
<1>4. c \in [1 .. Len(d) -> Bit]
  BY <1>1, <1>2 DEF Bit
<1>5. c \in Seq(Bit) /\ Len(c) = Len(d)
  BY <1>1, <1>4, FunctionSeq
<1>6. c \in Seq(Nat)
  BY <1>5, SeqMonotonic DEF Bit
<1>7. \A i \in 1 .. Len(d) : d[i] = IF clear(i) THEN c[i] ELSE 1 - c[i]
  BY <1>1, <1>2 DEF Bit
<1>8. Unmasked(c, key) = [i \in 1 .. Len(d) |-> IF clear(i) THEN c[i] ELSE 1 - c[i]]
  BY <1>4 DEF Unmasked
<1>9. d = [i \in 1 .. Len(d) |-> IF clear(i) THEN c[i] ELSE 1 - c[i]]
  <2>1. d = [i \in 1 .. Len(d) |-> d[i]]
    BY <1>1
  <2>2. QED
    BY <1>7, <2>1
<1>10. QED
  BY <1>3, <1>5, <1>6, <1>8, <1>9

\* The frame f lies in the stream from one place to another.
Lies(bytes, from, to, f, key) ==
    /\ Holds(bytes, from, createHeader(f, key))
    /\ Holds(bytes, from + Len(createHeader(f, key)), Masked(f.data, key))
    /\ to = from + Len(createHeader(f, key)) + Len(f.data)

\* bytes is all that was ever written, at says where the frames begin and end.
Laid(bytes, at, frames) ==
    /\ bytes \in Seq(Nat) /\ at \in Seq(Nat) /\ Len(at) = Len(frames) + 1
    /\ at[Len(frames) + 1] = Len(bytes)
    /\ \A k \in 1 .. Len(frames) :
         \E key \in MaskKeys : Lies(bytes, at[k], at[k + 1], frames[k], key)

\* The receiver is within the frame f.
Reads(f, key) ==
    LET h == createHeader(f, key)
    IN  /\ StartOf(hdr, h)
        /\ phase = "header" =>
             /\ payload = << >> /\ Len(hdr) <= need
             /\ need \in {2, 2 + ExtLen(h), Len(h)}
        /\ phase = "payload" =>
             /\ Len(hdr) = Len(h) /\ need = Len(f.data)
             /\ StartOf(payload, Masked(f.data, key))

Reached(at) == at[Len(events) + 1] + Len(hdr) + Len(payload)

\* The receiver is at the frame f, which was sent and is not reported.
Inside(bytes, at, f, key) ==
    /\ Len(events) < Len(sent) /\ f = sent[Len(events) + 1]
    /\ Lies(bytes, at[Len(events) + 1], at[Len(events) + 2], f, key)
    /\ Reads(f, key)

\* What waits in the connection is what follows what was read.
InStep(bytes, at) ==
    /\ connected /\ up => /\ Holds(bytes, Reached(at), wire)
                          /\ Reached(at) + Len(wire) = Len(bytes)
    /\ connected /\ phase = "idle" => hdr = << >> /\ payload = << >>
    /\ phase # "idle" =>
         \E f \in Frames, key \in MaskKeys : Inside(bytes, at, f, key)

Delivered ==
    /\ wire \in Seq(Nat) /\ sent \in Seq(Frames) /\ events \in Seq(Frames)
    /\ phase \in {"idle", "header", "payload"}
    /\ ~ connected => phase = "idle" /\ ~ up
    /\ ~ up => wire = << >>
    /\ Len(events) <= Len(sent) /\ \A k \in 1 .. Len(events) : events[k] = sent[k]

Good(bytes, at) == Delivered /\ Laid(bytes, at, sent) /\ InStep(bytes, at)

\* Unless a write broke off, what was written lies in the stream frame by frame.
StreamInv == ~ short => \E bytes, at \in Seq(Nat) : Good(bytes, at)

\* A frame as sendFrame() writes it, all in one.
LEMMA EncodedLies ==
  ASSUME FrameAssumption, NEW f \in Frames, NEW key \in MaskKeys,
         NEW bytes \in Seq(Nat), NEW e, e = Encoded(f, key)
  PROVE  /\ e \in Seq(Nat) /\ Lies(bytes \o e, Len(bytes), Len(bytes \o e), f, key)
<1>1. PICK h, d : h = createHeader(f, key) /\ d = Masked(f.data, key)
  OBVIOUS
<1>2. h \in Seq(Nat)
  BY <1>1, HeaderFacts
<1>3. d \in Seq(Nat) /\ Len(d) = Len(f.data)
  BY <1>1, FrameTypes, MaskFacts
<1>4. e = h \o d
  BY <1>1 DEF Encoded
<1>5. e \in Seq(Nat) /\ Len(e) = Len(h) + Len(d)
  <2>1. h \o d \in Seq(Nat) /\ Len(h \o d) = Len(h) + Len(d)
    BY <1>2, <1>3, Concat
  <2>2. QED
    BY <1>4, <2>1
<1>6. PICK b : b = bytes \o e
  OBVIOUS
<1>7. /\ b \in Seq(Nat) /\ Len(b) = Len(bytes) + Len(e)
      /\ \A i \in 1 .. Len(e) : b[Len(bytes) + i] = e[i]
  <2>1. /\ bytes \o e \in Seq(Nat) /\ Len(bytes \o e) = Len(bytes) + Len(e)
        /\ \A i \in 1 .. Len(e) : (bytes \o e)[Len(bytes) + i] = e[i]
    BY <1>5, Concat, Zenon
  <2>2. QED
    BY <1>6, <2>1, Zenon
<1>8. Len(bytes) \in Nat /\ Len(e) \in Nat /\ Len(h) \in Nat /\ Len(d) \in Nat
  BY <1>2, <1>3, <1>5, LenProperties
<1>9. Holds(b, Len(bytes), e)
  BY <1>7, <1>8 DEF Holds
<1>10. Holds(b, Len(bytes), h) /\ Holds(b, Len(bytes) + Len(h), d)
  <2>1. Holds(b, Len(bytes), h \o d)
    BY <1>4, <1>9
  <2>2. b \in Seq(Nat) /\ Len(bytes) \in Nat
    BY <1>7, <1>8
  <2>3. QED
    BY <1>2, <1>3, <2>1, <2>2, HoldsParts
<1>11. Len(b) = Len(bytes) + Len(h) + Len(f.data)
  <2>1. Len(b) = Len(bytes) + Len(e)
    BY <1>7
  <2>2. Len(b) = Len(bytes) + (Len(h) + Len(d))
    BY <1>5, <2>1
  <2>3. Len(b) = Len(bytes) + Len(h) + Len(d)
    BY <1>8, <2>2
  <2>4. QED
    BY <1>3, <2>3
<1>12. QED
  BY <1>1, <1>5, <1>6, <1>10, <1>11 DEF Lies

LEMMA LiesMore ==
  ASSUME FrameAssumption, NEW f \in Frames, NEW key \in MaskKeys,
         NEW bytes \in Seq(Nat), NEW e \in Seq(Nat), NEW from \in Nat, NEW to,
         Lies(bytes, from, to, f, key)
  PROVE  Lies(bytes \o e, from, to, f, key)
<1>1. PICK h, d : h = createHeader(f, key) /\ d = Masked(f.data, key)
  OBVIOUS
<1>2. h \in Seq(Nat) /\ Len(h) \in Nat
  BY <1>1, HeaderFacts, LenProperties
<1>3. d \in Seq(Nat)
  BY <1>1, FrameTypes, MaskFacts
<1>4. /\ Holds(bytes, from, h) /\ Holds(bytes, from + Len(h), d)
      /\ to = from + Len(h) + Len(f.data)
  BY <1>1 DEF Lies
<1>5. Holds(bytes \o e, from, h) /\ Holds(bytes \o e, from + Len(h), d)
  BY <1>2, <1>3, <1>4, HoldsMore
<1>6. QED
  BY <1>1, <1>4, <1>5 DEF Lies

\* sendFrame() adds a frame to the stream and leaves those before it.
Added(e, f, bytes, at, frames, b, more, all) ==
    b = bytes \o e /\ more = Append(at, Len(b)) /\ all = Append(frames, f)

LEMMA LaidMore ==
  ASSUME FrameAssumption, NEW f \in Frames, NEW key \in MaskKeys,
         NEW bytes, NEW at, NEW frames \in Seq(Frames), Laid(bytes, at, frames),
         NEW e, e = Encoded(f, key), NEW b, NEW more, NEW all,
         Added(e, f, bytes, at, frames, b, more, all)
  PROVE  Laid(b, more, all) /\ \A k \in 1 .. Len(frames) + 1 : more[k] = at[k]
<1>1. /\ bytes \in Seq(Nat) /\ at \in Seq(Nat) /\ Len(at) = Len(frames) + 1
      /\ at[Len(frames) + 1] = Len(bytes)
      /\ \A k \in 1 .. Len(frames) :
           \E x \in MaskKeys : Lies(bytes, at[k], at[k + 1], frames[k], x)
  BY DEF Laid
<1>2. b = bytes \o e /\ more = Append(at, Len(b)) /\ all = Append(frames, f)
  BY DEF Added
<1>3. e \in Seq(Nat) /\ Lies(b, Len(bytes), Len(b), f, key)
  BY <1>1, <1>2, EncodedLies
<1>4. b \in Seq(Nat) /\ Len(b) \in Nat
  BY <1>1, <1>2, <1>3, Concat, LenProperties
<1>5. /\ more \in Seq(Nat) /\ Len(more) = Len(at) + 1
      /\ \A i \in 1 .. Len(at) : more[i] = at[i]
      /\ more[Len(at) + 1] = Len(b)
  BY <1>1, <1>2, <1>4, AppendProperties
<1>6. /\ all \in Seq(Frames) /\ Len(all) = Len(frames) + 1
      /\ \A i \in 1 .. Len(frames) : all[i] = frames[i]
      /\ all[Len(frames) + 1] = f
  BY <1>2, AppendProperties
<1>7. Len(frames) \in Nat /\ \A k \in 1 .. Len(frames) : frames[k] \in Frames
  BY LenProperties, ElementOfSeq
<1>8. \A k \in 1 .. Len(at) : at[k] \in Nat
  BY <1>1, ElementOfSeq
<1>9. ASSUME NEW k \in 1 .. Len(all)
      PROVE  \E x \in MaskKeys : Lies(b, more[k], more[k + 1], all[k], x)
  <2>1. CASE k \in 1 .. Len(frames)
    <3>1. PICK x \in MaskKeys : Lies(bytes, at[k], at[k + 1], frames[k], x)
      BY <1>1, <2>1
    <3>2. k \in 1 .. Len(at) /\ k + 1 \in 1 .. Len(at)
      BY <1>1, <1>7, <2>1
    <3>3. more[k] = at[k] /\ more[k + 1] = at[k + 1] /\ all[k] = frames[k]
      BY <1>5, <1>6, <2>1, <3>2
    <3>4. at[k] \in Nat /\ frames[k] \in Frames
      BY <1>7, <1>8, <2>1, <3>2
    <3>5. Lies(b, at[k], at[k + 1], frames[k], x)
      BY <1>1, <1>2, <1>3, <3>1, <3>4, LiesMore
    <3>6. QED
      BY <3>3, <3>5
  <2>2. CASE k = Len(frames) + 1
    <3>1. k = Len(at) /\ k \in 1 .. Len(at) /\ k + 1 = Len(at) + 1
      BY <1>1, <1>7, <2>2
    <3>2. more[k] = Len(bytes) /\ more[k + 1] = Len(b) /\ all[k] = f
      BY <1>1, <1>5, <1>6, <2>2, <3>1
    <3>3. QED
      BY <1>3, <3>2
  <2>3. QED
    BY <1>6, <1>7, <2>1, <2>2
<1>10. Len(more) = Len(all) + 1 /\ more[Len(all) + 1] = Len(b)
  BY <1>1, <1>5, <1>6, <1>7
<1>11. Laid(b, more, all)
  BY <1>4, <1>5, <1>9, <1>10 DEF Laid
<1>12. \A k \in 1 .. Len(frames) + 1 : more[k] = at[k]
  BY <1>1, <1>5
<1>13. QED
  BY <1>11, <1>12

\* The connection is closed: nothing is in step any more, nothing is reported.
LEMMA ClosedGood ==
  ASSUME NEW bytes, NEW at, Good(bytes, at), NEW reason, Disconnect(reason),
         UNCHANGED <<events, sent, short>>
  PROVE  Good(bytes, at)'
<1>1. /\ connected' = FALSE /\ up' = FALSE /\ wire' = << >> /\ phase' = "idle"
      /\ events' = events /\ sent' = sent
  BY DEF Disconnect
<1>2. Delivered'
  BY <1>1 DEF Good, Delivered
<1>3. Laid(bytes, at, sent)'
  BY <1>1 DEF Good, Laid
<1>4. InStep(bytes, at)'
  BY <1>1 DEF InStep
<1>5. QED
  BY <1>2, <1>3, <1>4 DEF Good

LEMMA LostGood ==
  ASSUME NEW bytes, NEW at, Good(bytes, at), ConnectionLost
  PROVE  Good(bytes, at)'
<1>1. /\ up' = FALSE /\ wire' = << >> /\ phase' = phase /\ hdr' = hdr /\ need' = need
      /\ payload' = payload /\ (connected' <=> connected)
      /\ events' = events /\ sent' = sent
  BY DEF ConnectionLost
<1>2. Delivered'
  BY <1>1 DEF Good, Delivered
<1>3. Laid(bytes, at, sent)'
  BY <1>1 DEF Good, Laid
<1>4. InStep(bytes, at)'
  BY <1>1 DEF Good, InStep, Inside, Reads
<1>5. QED
  BY <1>2, <1>3, <1>4 DEF Good

\* Numbers of frames and places.
LEMMA GoodFacts ==
  ASSUME NEW bytes, NEW at, Good(bytes, at)
  PROVE  /\ bytes \in Seq(Nat) /\ at \in Seq(Nat) /\ wire \in Seq(Nat)
         /\ Len(at) = Len(sent) + 1 /\ Len(events) <= Len(sent)
         /\ Len(events) \in Nat /\ Len(sent) \in Nat /\ Len(wire) \in Nat
         /\ \A k \in 1 .. Len(sent) + 1 : at[k] \in Nat
         /\ \A k \in 1 .. Len(sent) : sent[k] \in Frames
<1>1. /\ bytes \in Seq(Nat) /\ at \in Seq(Nat) /\ Len(at) = Len(sent) + 1
  BY DEF Good, Laid
<1>2. /\ wire \in Seq(Nat) /\ sent \in Seq(Frames) /\ events \in Seq(Frames)
      /\ Len(events) <= Len(sent)
  BY DEF Good, Delivered
<1>3. Len(events) \in Nat /\ Len(sent) \in Nat /\ Len(wire) \in Nat
  BY <1>2, LenProperties
<1>4. \A k \in 1 .. Len(sent) + 1 : at[k] \in Nat
  BY <1>1, ElementOfSeq
<1>5. \A k \in 1 .. Len(sent) : sent[k] \in Frames
  BY <1>2, ElementOfSeq
<1>6. QED
  BY <1>1, <1>2, <1>3, <1>4, <1>5

LEMMA StartsGood ==
  ASSUME FrameAssumption, NEW bytes, NEW at, Good(bytes, at), handleWebsocket
  PROVE  Good(bytes, at)'
<1>1. /\ phase = "idle" /\ connected /\ up /\ wire # << >>
      /\ phase' = "header" /\ need' = 2 /\ wire' = wire /\ hdr' = hdr
      /\ payload' = payload /\ events' = events /\ sent' = sent
  BY DEF handleWebsocket
<1>2. (connected' <=> connected) /\ (up' <=> up)
  BY DEF handleWebsocket
<1>3. hdr = << >> /\ payload = << >>
  BY <1>1 DEF Good, InStep
<1>4. Len(events) < Len(sent)
  <2>1. SUFFICES ASSUME Len(events) = Len(sent) PROVE FALSE
    BY GoodFacts
  <2>2. Len(wire) > 0
    BY <1>1, GoodFacts, EmptySeq
  <2>3. at[Len(events) + 1] + Len(hdr) + Len(payload) + Len(wire) = Len(bytes)
    BY <1>1 DEF Good, InStep, Reached
  <2>4. at[Len(events) + 1] = Len(bytes)
    BY <2>1 DEF Good, Laid
  <2>5. Len(hdr) = 0 /\ Len(payload) = 0
    BY <1>3
  <2>6. Len(bytes) \in Nat /\ Len(wire) \in Nat
    BY GoodFacts, LenProperties
  <2>7. QED
    BY <2>2, <2>3, <2>4, <2>5, <2>6
<1>5. PICK n : n = Len(events) + 1
  OBVIOUS
<1>6. n \in 1 .. Len(sent) /\ n + 1 = Len(events) + 2
  BY <1>4, <1>5, GoodFacts
<1>7. PICK key \in MaskKeys : Lies(bytes, at[n], at[n + 1], sent[n], key)
  BY <1>6 DEF Good, Laid
<1>8. sent[n] \in Frames
  BY <1>6, GoodFacts
<1>9. Reads(sent[n], key)'
  <2>1. PICK h : h = createHeader(sent[n], key)
    OBVIOUS
  <2>2. h \in Seq(Nat)
    BY <1>8, <2>1, HeaderFacts
  <2>3. StartOf(<< >>, h)
    BY <2>2, LenProperties, EmptySeq DEF StartOf
  <2>4. QED
    BY <1>1, <1>3, <2>1, <2>3 DEF Reads
<1>10. Inside(bytes, at, sent[n], key)'
  BY <1>1, <1>4, <1>5, <1>6, <1>7, <1>9 DEF Inside
<1>11. Delivered'
  BY <1>1, <1>2 DEF Good, Delivered
<1>12. Laid(bytes, at, sent)'
  BY <1>1 DEF Good, Laid
<1>13. InStep(bytes, at)'
  <2>1. /\ Holds(bytes, Reached(at), wire)'
        /\ Reached(at)' + Len(wire') = Len(bytes)
    BY <1>1 DEF Good, InStep, Reached
  <2>2. QED
    BY <1>1, <1>8, <1>10, <2>1 DEF InStep
<1>14. QED
  BY <1>11, <1>12, <1>13 DEF Good

\* A frame is being read: where it lies, and what waits behind what was read.
LEMMA ReadingFacts ==
  ASSUME FrameAssumption, NEW bytes, NEW at, Good(bytes, at), phase # "idle",
         NEW f \in Frames, NEW key \in MaskKeys, Inside(bytes, at, f, key),
         NEW h, h = createHeader(f, key), NEW m, m = Masked(f.data, key),
         NEW from, from = at[Len(events) + 1]
  PROVE  /\ connected /\ bytes \in Seq(Nat) /\ from \in Nat
         /\ h \in Seq(Nat) /\ Len(h) \in Nat /\ m \in Seq(Nat) /\ Len(m) = Len(f.data)
         /\ Len(m) \in Nat /\ Holds(bytes, from, h) /\ Holds(bytes, from + Len(h), m)
         /\ at[Len(events) + 2] = from + Len(h) + Len(m)
         /\ hdr \in Seq(Nat) /\ Len(hdr) \in Nat /\ StartOf(hdr, h)
<1>1. connected
  BY DEF Good, Delivered
<1>2. h \in Seq(Nat) /\ Len(h) \in Nat
  BY HeaderFacts, LenProperties
<1>3. m \in Seq(Nat) /\ Len(m) = Len(f.data) /\ Len(m) \in Nat
  BY FrameTypes, MaskFacts
<1>4. bytes \in Seq(Nat) /\ from \in Nat
  BY GoodFacts DEF Inside
<1>5. /\ Holds(bytes, from, h) /\ Holds(bytes, from + Len(h), m)
      /\ at[Len(events) + 2] = from + Len(h) + Len(m)
  BY <1>3 DEF Inside, Lies
<1>6. StartOf(hdr, h)
  BY DEF Inside, Reads
<1>7. hdr \in Seq(Nat) /\ Len(hdr) \in Nat
  BY <1>6, LenProperties DEF StartOf
<1>8. QED
  BY <1>1, <1>2, <1>3, <1>4, <1>5, <1>6, <1>7

\* A piece of what waits: no more than there is and than was asked for.
LEMMA PieceFacts ==
  ASSUME NEW have \in Seq(Nat), need \in Nat, Len(have) < need, wire \in Seq(Nat),
         NEW k \in Piece(have)
  PROVE  k \in 1 .. Len(wire) /\ Len(have) + k <= need /\ wire # << >>
<1>1. k \in 1 .. Len(wire) /\ k \in {1, need - Len(have)}
  BY DEF Piece
<1>2. Len(have) \in Nat /\ Len(wire) \in Nat
  BY LenProperties
<1>3. Len(have) + k <= need
  BY <1>1, <1>2
<1>4. wire # << >>
  BY <1>1, <1>2
<1>5. QED
  BY <1>1, <1>3, <1>4

LEMMA HeaderReadGood ==
  ASSUME FrameAssumption, NEW bytes, NEW at, Good(bytes, at), readHeader
  PROVE  Good(bytes, at)'
<1>1. /\ phase = "header" /\ Len(hdr) < need
      /\ phase' = phase /\ need' = need
      /\ payload' = payload /\ events' = events /\ sent' = sent
  BY DEF readHeader
<1>2. (connected' <=> connected) /\ (up' <=> up)
  BY DEF readHeader
<1>3. PICK k \in Piece(hdr) :
        /\ hdr' = hdr \o SubSeq(wire, 1, k)
        /\ wire' = SubSeq(wire, k + 1, Len(wire))
  BY DEF readHeader
<1>4. PICK f \in Frames, key \in MaskKeys : Inside(bytes, at, f, key)
  BY <1>1 DEF Good, InStep
<1>5. PICK h, m, from : h = createHeader(f, key) /\ m = Masked(f.data, key)
                        /\ from = at[Len(events) + 1]
  OBVIOUS
<1>6. /\ connected /\ bytes \in Seq(Nat) /\ from \in Nat
      /\ h \in Seq(Nat) /\ Len(h) \in Nat /\ Holds(bytes, from, h)
      /\ hdr \in Seq(Nat) /\ Len(hdr) \in Nat /\ StartOf(hdr, h)
  BY <1>1, <1>4, <1>5, ReadingFacts
<1>7. /\ payload = << >> /\ need \in {2, 2 + ExtLen(h), Len(h)}
  BY <1>1, <1>4, <1>5 DEF Inside, Reads
<1>8. need \in Nat /\ need <= Len(h)
  <2>1. /\ ExtLen(h) \in {0, 2, 8} /\ Len(h) = 2 + ExtLen(h) + Len(key)
    BY <1>5, HeaderFacts
  <2>2. Len(key) \in Nat
    BY KeyFacts, LenProperties
  <2>3. QED
    BY <1>7, <2>1, <2>2
<1>9. k \in 1 .. Len(wire) /\ Len(hdr) + k <= need /\ wire # << >>
  BY <1>1, <1>6, <1>8, GoodFacts, PieceFacts
<1>10. up
  BY <1>9 DEF Good, Delivered
<1>11. /\ Holds(bytes, from + Len(hdr), wire)
       /\ from + Len(hdr) + Len(wire) = Len(bytes)
  <2>1. Len(payload) = 0
    BY <1>7
  <2>2. Reached(at) = from + Len(hdr)
    BY <1>5, <1>6, <2>1 DEF Reached
  <2>3. QED
    BY <1>6, <1>10, <2>2 DEF Good, InStep
<1>12. PICK a, r : CutAt(wire, k, a, r)
  BY DEF CutAt
<1>13. PICK p : p = from + Len(hdr)
  OBVIOUS
<1>14. /\ p \in Nat /\ wire \in Seq(Nat) /\ Len(wire) \in Nat
       /\ Holds(bytes, p, wire) /\ p + Len(wire) = Len(bytes)
  BY <1>6, <1>11, <1>13, GoodFacts
<1>15. /\ a \in Seq(Nat) /\ Len(a) = k /\ \A i \in 1 .. k : a[i] = bytes[p + i]
       /\ r \in Seq(Nat) /\ Len(r) = Len(wire) - k /\ Holds(bytes, p + k, r)
  <2>1. bytes \in Seq(Nat) /\ k \in 1 .. Len(wire)
    BY <1>6, <1>9
  <2>2. p \in Nat /\ wire \in Seq(Nat) /\ Holds(bytes, p, wire)
    BY <1>14
  <2>3. QED
    BY <1>12, <2>1, <2>2, Cut
<1>16. StartOf(hdr \o a, h) /\ Len(hdr \o a) = Len(hdr) + k
  <2>1. Len(hdr) + Len(a) <= Len(h)
    BY <1>6, <1>8, <1>9, <1>15
  <2>2. \A i \in 1 .. Len(a) : a[i] = bytes[from + Len(hdr) + i]
    BY <1>13, <1>15
  <2>3. a \in Seq(Nat) /\ bytes \in Seq(Nat) /\ h \in Seq(Nat) /\ from \in Nat
    BY <1>6, <1>15
  <2>4. Holds(bytes, from, h) /\ StartOf(hdr, h)
    BY <1>6
  <2>5. StartOf(hdr \o a, h) /\ Len(hdr \o a) = Len(hdr) + Len(a)
    BY <2>1, <2>2, <2>3, <2>4, StartGrows
  <2>6. QED
    BY <1>15, <2>5
<1>17. hdr' = hdr \o a /\ wire' = r
  BY <1>3, <1>12 DEF CutAt
<1>18. Inside(bytes, at, f, key)'
  <2>1. Reads(f, key)'
    BY <1>1, <1>5, <1>7, <1>9, <1>16, <1>17 DEF Reads
  <2>2. QED
    BY <1>1, <1>4, <2>1 DEF Inside
<1>19. Delivered'
  BY <1>1, <1>2, <1>6, <1>10, <1>15, <1>17 DEF Good, Delivered
<1>20. Laid(bytes, at, sent)'
  BY <1>1 DEF Good, Laid
<1>21. /\ Holds(bytes, Reached(at), wire)'
       /\ Reached(at)' + Len(wire') = Len(bytes)
  <2>1. Len(payload') = 0
    BY <1>1, <1>7
  <2>2. k \in Nat
    BY <1>9, <1>14
  <2>3. Reached(at)' = p + k
    BY <1>1, <1>5, <1>6, <1>13, <1>16, <1>17, <2>1, <2>2 DEF Reached
  <2>4. Holds(bytes, Reached(at)', wire')
    BY <1>15, <1>17, <2>3
  <2>5. Len(wire') = Len(wire) - k
    BY <1>15, <1>17
  <2>6. Reached(at)' + Len(wire') = p + Len(wire)
    BY <1>14, <2>2, <2>3, <2>5
  <2>7. QED
    BY <1>14, <2>4, <2>6
<1>22. InStep(bytes, at)'
  BY <1>1, <1>18, <1>21 DEF InStep
<1>23. QED
  BY <1>19, <1>20, <1>22 DEF Good

LEMMA PayloadReadGood ==
  ASSUME FrameAssumption, NEW bytes, NEW at, Good(bytes, at), readPayload
  PROVE  Good(bytes, at)'
<1>1. /\ phase = "payload" /\ Len(payload) < need
      /\ phase' = phase /\ need' = need
      /\ hdr' = hdr /\ events' = events /\ sent' = sent
  BY DEF readPayload
<1>2. (connected' <=> connected) /\ (up' <=> up)
  BY DEF readPayload
<1>3. PICK k \in Piece(payload) :
        /\ payload' = payload \o SubSeq(wire, 1, k)
        /\ wire' = SubSeq(wire, k + 1, Len(wire))
  BY DEF readPayload
<1>4. PICK f \in Frames, key \in MaskKeys : Inside(bytes, at, f, key)
  BY <1>1 DEF Good, InStep
<1>5. PICK h, m, from : h = createHeader(f, key) /\ m = Masked(f.data, key)
                        /\ from = at[Len(events) + 1]
  OBVIOUS
<1>6. /\ connected /\ bytes \in Seq(Nat) /\ from \in Nat /\ Len(h) \in Nat
      /\ m \in Seq(Nat) /\ Len(m) = Len(f.data) /\ Len(m) \in Nat
      /\ Holds(bytes, from + Len(h), m)
  BY <1>1, <1>4, <1>5, ReadingFacts
<1>7. Len(hdr) = Len(h) /\ need = Len(m) /\ StartOf(payload, m) /\ StartOf(hdr, h)
  BY <1>1, <1>4, <1>5, <1>6 DEF Inside, Reads
<1>8. payload \in Seq(Nat) /\ Len(payload) \in Nat
  BY <1>7, LenProperties DEF StartOf
<1>9. k \in 1 .. Len(wire) /\ Len(payload) + k <= need /\ wire # << >>
  BY <1>1, <1>6, <1>7, <1>8, GoodFacts, PieceFacts
<1>10. up
  BY <1>9 DEF Good, Delivered
<1>11. PICK q, p : q = from + Len(h) /\ p = q + Len(payload)
  OBVIOUS
<1>12. PICK a, r : CutAt(wire, k, a, r)
  BY DEF CutAt
<1>13. q \in Nat /\ p \in Nat /\ Reached(at) = p
  <2>1. q \in Nat
    BY <1>6, <1>11
  <2>2. p \in Nat
    BY <1>8, <1>11, <2>1
  <2>3. Reached(at) = from + Len(h) + Len(payload)
    BY <1>5, <1>7 DEF Reached
  <2>4. QED
    BY <1>11, <2>1, <2>2, <2>3
<1>14. /\ wire \in Seq(Nat) /\ Len(wire) \in Nat
       /\ Holds(bytes, p, wire) /\ p + Len(wire) = Len(bytes)
  BY <1>6, <1>10, <1>13, GoodFacts DEF Good, InStep
<1>15. /\ a \in Seq(Nat) /\ Len(a) = k /\ \A i \in 1 .. k : a[i] = bytes[p + i]
       /\ r \in Seq(Nat) /\ Len(r) = Len(wire) - k /\ Holds(bytes, p + k, r)
  <2>1. bytes \in Seq(Nat) /\ k \in 1 .. Len(wire)
    BY <1>6, <1>9
  <2>2. p \in Nat /\ wire \in Seq(Nat) /\ Holds(bytes, p, wire)
    BY <1>13, <1>14
  <2>3. QED
    BY <1>12, <2>1, <2>2, Cut
<1>16. StartOf(payload \o a, m) /\ Len(payload \o a) = Len(payload) + k
  <2>1. Len(payload) + Len(a) <= Len(m)
    BY <1>7, <1>9, <1>15
  <2>2. \A i \in 1 .. Len(a) : a[i] = bytes[q + Len(payload) + i]
    BY <1>11, <1>15
  <2>3. a \in Seq(Nat) /\ bytes \in Seq(Nat) /\ m \in Seq(Nat) /\ q \in Nat
    BY <1>6, <1>13, <1>15
  <2>4. Holds(bytes, q, m) /\ StartOf(payload, m)
    BY <1>6, <1>7, <1>11
  <2>5. StartOf(payload \o a, m) /\ Len(payload \o a) = Len(payload) + Len(a)
    BY <2>1, <2>2, <2>3, <2>4, StartGrows
  <2>6. QED
    BY <1>15, <2>5
<1>17. payload' = payload \o a /\ wire' = r
  BY <1>3, <1>12 DEF CutAt
<1>18. Inside(bytes, at, f, key)'
  <2>1. phase' = "payload" /\ hdr' = hdr /\ need' = Len(f.data)
    BY <1>1, <1>6, <1>7
  <2>2. StartOf(hdr', h) /\ Len(hdr') = Len(h) /\ StartOf(payload', m)
    BY <1>1, <1>7, <1>16, <1>17
  <2>3. Reads(f, key)'
    BY <1>5, <2>1, <2>2 DEF Reads
  <2>4. QED
    BY <1>1, <1>4, <2>3 DEF Inside
<1>19. Delivered'
  BY <1>1, <1>2, <1>6, <1>10, <1>15, <1>17 DEF Good, Delivered
<1>20. Laid(bytes, at, sent)'
  BY <1>1 DEF Good, Laid
<1>21. /\ Holds(bytes, Reached(at), wire)'
       /\ Reached(at)' + Len(wire') = Len(bytes)
  <2>1. k \in Nat
    BY <1>9, <1>14
  <2>2. Reached(at)' = from + Len(h) + (Len(payload) + k)
    BY <1>1, <1>5, <1>7, <1>16, <1>17 DEF Reached
  <2>3. Reached(at)' = p + k
    BY <1>6, <1>8, <1>11, <2>1, <2>2
  <2>4. Holds(bytes, Reached(at)', wire')
    BY <1>15, <1>17, <2>3
  <2>5. Len(wire') = Len(wire) - k
    BY <1>15, <1>17
  <2>6. Reached(at)' + Len(wire') = p + Len(wire)
    BY <1>13, <1>14, <2>1, <2>3, <2>5
  <2>7. QED
    BY <1>14, <2>4, <2>6
<1>22. InStep(bytes, at)'
  BY <1>1, <1>18, <1>21 DEF InStep
<1>23. QED
  BY <1>19, <1>20, <1>22 DEF Good

LEMMA FailedGood ==
  ASSUME NEW bytes, NEW at, Good(bytes, at), readFailed
  PROVE  Good(bytes, at)'
<1>1. Disconnect(1002) /\ UNCHANGED <<events, sent, short>>
  BY DEF readFailed
<1>2. QED
  BY <1>1, ClosedGood

\* A change of phase within a frame: what was read stays as it is.
LEMMA StaysGood ==
  ASSUME NEW bytes, NEW at, Good(bytes, at), phase = "header",
         phase' \in {"header", "payload"},
         UNCHANGED <<hdr, payload, wire, up, connected, events, sent>>,
         NEW f \in Frames, NEW key \in MaskKeys, Inside(bytes, at, f, key),
         Reads(f, key)'
  PROVE  Good(bytes, at)'
<1>1. /\ hdr' = hdr /\ payload' = payload /\ wire' = wire
      /\ events' = events /\ sent' = sent
  OBVIOUS
<1>2. (connected' <=> connected) /\ (up' <=> up)
  OBVIOUS
<1>3. Delivered'
  BY <1>1, <1>2 DEF Good, Delivered
<1>4. Laid(bytes, at, sent)'
  BY <1>1 DEF Good, Laid
<1>5. Inside(bytes, at, f, key)'
  BY <1>1 DEF Inside
<1>6. InStep(bytes, at)'
  <2>1. connected' /\ up' => /\ Holds(bytes, Reached(at), wire)'
                             /\ Reached(at)' + Len(wire') = Len(bytes)
    BY <1>1, <1>2 DEF Good, InStep, Reached
  <2>2. QED
    BY <1>5, <2>1 DEF InStep
<1>7. QED
  BY <1>3, <1>4, <1>6 DEF Good

LEMMA HeaderSteps ==
  ASSUME FrameAssumption, NEW bytes, NEW at, Good(bytes, at), handleWebsocketCb
  PROVE  Good(bytes, at)'
<1>1. /\ phase = "header" /\ Len(hdr) = need /\ UNCHANGED <<events, sent, short>>
  BY DEF handleWebsocketCb
<1>2. PICK f \in Frames, key \in MaskKeys : Inside(bytes, at, f, key)
  BY <1>1 DEF Good, InStep
<1>3. PICK h, m, from : h = createHeader(f, key) /\ m = Masked(f.data, key)
                        /\ from = at[Len(events) + 1]
  OBVIOUS
<1>4. /\ h \in Seq(Nat) /\ Len(h) \in Nat /\ m \in Seq(Nat) /\ Len(m) \in Nat
      /\ hdr \in Seq(Nat) /\ Len(hdr) \in Nat /\ StartOf(hdr, h)
  BY <1>1, <1>2, <1>3, ReadingFacts
<1>5. /\ ExtLen(h) \in {0, 2, 8} /\ Len(h) = 2 + ExtLen(h) + Len(key)
      /\ MaskLen(h) = Len(key) /\ Length(h) = Len(f.data)
  BY <1>3, HeaderFacts
<1>6. Len(key) \in Nat
  BY KeyFacts, LenProperties
<1>7. payload = << >> /\ need \in {2, 2 + ExtLen(h), Len(h)}
  BY <1>1, <1>2, <1>3 DEF Inside, Reads
<1>8. Len(hdr) >= 2 /\ Len(hdr) <= Len(h)
  BY <1>1, <1>5, <1>6, <1>7
<1>9. /\ ExtLen(hdr) = ExtLen(h) /\ MaskLen(hdr) = MaskLen(h)
      /\ Len(hdr) >= 2 + ExtLen(h) => Length(hdr) = Length(h)
  <2>1. \A i \in 1 .. Len(hdr) : hdr[i] = h[i]
    BY <1>4 DEF StartOf
  <2>2. QED
    BY <1>4, <1>8, <2>1, PartRead
<1>10. PICK want, all : want = 2 + ExtLen(h) /\ all = Len(h)
  OBVIOUS
<1>11. /\ want = 2 + ExtLen(hdr) /\ all = want + MaskLen(hdr)
       /\ want \in Nat /\ want >= 2 /\ want <= all
  BY <1>5, <1>6, <1>9, <1>10
<1>12. CASE /\ Len(hdr) < want /\ need' = want
            /\ UNCHANGED <<phase, hdr, payload, wire, up, connected, answers>>
  <2>1. phase' = "header" /\ hdr' = hdr /\ payload' = << >>
    BY <1>1, <1>7, <1>12
  <2>2. Reads(f, key)'
    BY <1>3, <1>4, <1>10, <1>12, <2>1 DEF Reads
  <2>3. QED
    BY <1>1, <1>2, <1>12, <2>1, <2>2, StaysGood
<1>13. CASE \E reason \in {1009, 1011} : Disconnect(reason)
  BY <1>1, <1>13, ClosedGood
<1>14. CASE /\ Len(hdr) < all /\ need' = all
            /\ UNCHANGED <<phase, hdr, payload, wire, up, connected, answers>>
  <2>1. phase' = "header" /\ hdr' = hdr /\ payload' = << >>
    BY <1>1, <1>7, <1>14
  <2>2. Reads(f, key)'
    BY <1>3, <1>4, <1>10, <1>14, <2>1 DEF Reads
  <2>3. QED
    BY <1>1, <1>2, <1>14, <2>1, <2>2, StaysGood
<1>15. CASE /\ ~ Len(hdr) < want /\ ~ Len(hdr) < all
            /\ phase' = "payload" /\ need' = Length(hdr)
            /\ UNCHANGED <<hdr, payload, wire, up, connected, answers>>
  <2>1. hdr' = hdr /\ payload' = << >> /\ need' = Len(f.data) /\ Len(hdr) = Len(h)
    BY <1>4, <1>5, <1>7, <1>8, <1>9, <1>10, <1>11, <1>15
  <2>2. StartOf(<< >>, m)
    BY <1>4, EmptySeq DEF StartOf
  <2>3. Reads(f, key)'
    BY <1>3, <1>4, <1>15, <2>1, <2>2 DEF Reads
  <2>4. QED
    BY <1>1, <1>2, <1>15, <2>1, <2>3, StaysGood
<1>16. QED
  <2>1. IF Len(hdr) < want
          THEN need' = want
               /\ UNCHANGED <<phase, hdr, payload, wire, up, connected, answers>>
        ELSE IF Length(hdr) > MaxData
          THEN Disconnect(1009)
        ELSE IF Len(hdr) < all
          THEN need' = all
               /\ UNCHANGED <<phase, hdr, payload, wire, up, connected, answers>>
        ELSE \/ /\ phase' = "payload" /\ need' = Length(hdr)
                /\ UNCHANGED <<hdr, payload, wire, up, connected, answers>>
             \/ Disconnect(1011)
    BY <1>11 DEF handleWebsocketCb
  <2>2. QED
    BY <1>12, <1>13, <1>14, <1>15, <2>1

\* A sequence that has the length and the elements of another is that one.
LEMMA SameNats ==
  ASSUME NEW s, NEW t \in Seq(Nat), StartOf(s, t), Len(s) = Len(t)
  PROVE  s = t
<1>1. s \in Seq(Nat) /\ \A i \in 1 .. Len(s) : s[i] = t[i]
  BY DEF StartOf
<1>2. QED
  BY <1>1, SeqEqual

\* The key at the end of a header.
LEMMA KeyRead ==
  ASSUME FrameAssumption, NEW f \in Frames, NEW key \in MaskKeys,
         NEW h, h = createHeader(f, key)
  PROVE  KeyOf(h) = key
<1>1. /\ h \in Seq(Nat) /\ ExtLen(h) \in {0, 2, 8}
      /\ Len(h) = 2 + ExtLen(h) + Len(key) /\ MaskLen(h) = Len(key)
      /\ \A i \in 1 .. Len(key) : h[2 + ExtLen(h) + i] = key[i]
  BY HeaderFacts
<1>2. key \in Seq(Nat) /\ Len(key) \in Nat
  BY KeyFacts, LenProperties
<1>3. PICK n : n = 2 + ExtLen(h)
  OBVIOUS
<1>4. n \in Nat /\ Len(h) = n + Len(key)
  BY <1>1, <1>2, <1>3
<1>5. Len(h) - MaskLen(h) + 1 = n + 1
  BY <1>1, <1>2, <1>4
<1>6. KeyOf(h) = SubSeq(h, n + 1, Len(h))
  BY <1>5 DEF KeyOf
<1>7. \A i \in n + 1 .. Len(h) : h[i] \in Nat
  BY <1>1, <1>4, ElementOfSeq
<1>8. PICK s : s = SubSeq(h, n + 1, Len(h))
  OBVIOUS
<1>9. /\ s \in Seq(Nat)
      /\ Len(s) = IF n + 1 <= Len(h) THEN Len(h) - (n + 1) + 1 ELSE 0
      /\ \A i \in 1 .. Len(h) - (n + 1) + 1 : s[i] = h[(n + 1) + i - 1]
  BY <1>2, <1>4, <1>7, <1>8, SubSeqProperties
<1>10. Len(s) = Len(key)
  BY <1>2, <1>4, <1>9
<1>11. \A i \in 1 .. Len(key) : s[i] = key[i]
  <2>1. SUFFICES ASSUME NEW i \in 1 .. Len(key) PROVE s[i] = key[i]
    OBVIOUS
  <2>2. i \in 1 .. Len(h) - (n + 1) + 1 /\ (n + 1) + i - 1 = n + i
    BY <1>2, <1>4
  <2>3. s[i] = h[n + i]
    BY <1>9, <2>2
  <2>4. QED
    BY <1>1, <1>3, <2>3
<1>12. s = key
  BY <1>2, <1>9, <1>10, <1>11, SeqEqual
<1>13. QED
  BY <1>6, <1>8, <1>12

\* The first byte gives back the flag and the opcode.
LEMMA FirstByte ==
  ASSUME NEW op \in 0 .. 15, NEW fin \in BOOLEAN, NEW b,
         b = (IF fin THEN 128 ELSE 0) + op
  PROVE  b % 128 = op /\ (b >= 128) = fin
<1>1. CASE fin = TRUE
  <2>1. b = 128 + op
    BY <1>1
  <2>2. b % 128 = op /\ (b >= 128) = TRUE
    BY <2>1
  <2>3. QED
    BY <1>1, <2>2
<1>2. CASE fin = FALSE
  <2>1. b = op
    BY <1>2
  <2>2. b % 128 = op /\ (b >= 128) = FALSE
    BY <2>1
  <2>3. QED
    BY <1>2, <2>2
<1>3. QED
  BY <1>1, <1>2

\* What is reported of a frame that was read is the frame.
LEMMA FrameRead ==
  ASSUME FrameAssumption, NEW f \in Frames, NEW key \in MaskKeys,
         NEW h, h = createHeader(f, key), NEW m, m = Masked(f.data, key)
  PROVE  [op |-> h[1] % 128, fin |-> h[1] >= 128,
          data |-> Unmasked(m, KeyOf(h))] = f
<1>1. f.op \in 0 .. 15 /\ f.data \in Seq(Bit)
  BY FrameTypes
<1>2. f.fin \in BOOLEAN /\ f = [op |-> f.op, fin |-> f.fin, data |-> f.data]
  BY WholeFrame
<1>3. h[1] = (IF f.fin THEN 128 ELSE 0) + f.op
  BY HeaderFacts
<1>4. h[1] % 128 = f.op /\ (h[1] >= 128) = f.fin
  <2>1. PICK b, op, fin : b = h[1] /\ op = f.op /\ fin = f.fin
    OBVIOUS
  <2>2. b = (IF fin THEN 128 ELSE 0) + op
    BY <1>3, <2>1, Zenon
  <2>3. op \in 0 .. 15 /\ fin \in BOOLEAN
    BY <1>1, <1>2, <2>1, Zenon
  <2>4. b % 128 = op /\ (b >= 128) = fin
    BY <2>2, <2>3, FirstByte
  <2>5. QED
    BY <2>1, <2>4, Zenon
<1>5. Unmasked(m, KeyOf(h)) = f.data
  BY <1>1, KeyRead, MaskFacts
<1>6. QED
  BY <1>2, <1>4, <1>5, Zenon

LEMMA PayloadSteps ==
  ASSUME FrameAssumption, NEW bytes, NEW at, Good(bytes, at),
         handleWebsocketPayloadCb
  PROVE  Good(bytes, at)'
<1>1. /\ phase = "payload" /\ Len(payload) = need /\ UNCHANGED <<sent, short>>
  BY DEF handleWebsocketPayloadCb
<1>2. PICK f \in Frames, key \in MaskKeys : Inside(bytes, at, f, key)
  BY <1>1 DEF Good, InStep
<1>3. PICK h, m, from : h = createHeader(f, key) /\ m = Masked(f.data, key)
                        /\ from = at[Len(events) + 1]
  OBVIOUS
<1>4. /\ connected /\ h \in Seq(Nat) /\ m \in Seq(Nat) /\ Len(m) = Len(f.data)
      /\ StartOf(hdr, h) /\ at[Len(events) + 2] = from + Len(h) + Len(m)
  BY <1>1, <1>2, <1>3, ReadingFacts
<1>5. Len(hdr) = Len(h) /\ Len(payload) = Len(m) /\ StartOf(payload, m)
  BY <1>1, <1>2, <1>3, <1>4 DEF Inside, Reads
<1>6. hdr = h /\ payload = m
  BY <1>4, <1>5, SameNats
<1>7. Len(events) < Len(sent) /\ f = sent[Len(events) + 1]
  BY <1>2 DEF Inside
<1>8. PICK g : g = [op |-> hdr[1] % 128, fin |-> hdr[1] >= 128,
                    data |-> Unmasked(payload, KeyOf(hdr))]
  OBVIOUS
<1>9. g = f
  BY <1>3, <1>6, <1>8, FrameRead
<1>10. CASE \E reason \in {1000, 1002} : Disconnect(reason) /\ UNCHANGED events
  BY <1>1, <1>10, ClosedGood
<1>11. CASE /\ events' = Append(events, g) /\ phase' = "idle"
            /\ hdr' = << >> /\ payload' = << >>
            /\ UNCHANGED <<wire, up, connected>>
  <2>1. /\ events \in Seq(Frames) /\ Len(events) \in Nat /\ Len(sent) \in Nat
        /\ \A k \in 1 .. Len(events) : events[k] = sent[k]
    BY GoodFacts DEF Good, Delivered
  <2>2. /\ events' \in Seq(Frames) /\ Len(events') = Len(events) + 1
        /\ \A k \in 1 .. Len(events) : events'[k] = events[k]
        /\ events'[Len(events) + 1] = f
    BY <1>9, <1>11, <2>1, AppendProperties
  <2>3. \A k \in 1 .. Len(events') : events'[k] = sent[k]
    <3>1. SUFFICES ASSUME NEW k \in 1 .. Len(events) + 1 PROVE events'[k] = sent[k]
      BY <2>2
    <3>2. CASE k = Len(events) + 1
      BY <1>7, <2>2, <3>2
    <3>3. CASE k \in 1 .. Len(events)
      BY <2>1, <2>2, <3>3
    <3>4. QED
      BY <2>1, <3>2, <3>3
  <2>4. wire' = wire /\ sent' = sent /\ (up' <=> up) /\ (connected' <=> connected)
    BY <1>1, <1>11
  <2>5. Len(events') <= Len(sent')
    BY <1>7, <2>1, <2>2, <2>4
  <2>6. Delivered'
    BY <1>4, <1>11, <2>2, <2>3, <2>4, <2>5 DEF Good, Delivered
  <2>7. Laid(bytes, at, sent)'
    BY <2>4 DEF Good, Laid
  <2>8. Reached(at)' = Reached(at)
    <3>1. Len(hdr') = 0 /\ Len(payload') = 0
      BY <1>11
    <3>2. PICK n : n = Len(events) + 2
      OBVIOUS
    <3>3. n \in 1 .. Len(sent) + 1 /\ Len(events') + 1 = n
      BY <1>7, <2>1, <2>2, <3>2
    <3>4. at[n] \in Nat
      BY <3>3, GoodFacts
    <3>5. Reached(at)' = at[n]
      BY <3>1, <3>3, <3>4 DEF Reached
    <3>6. Reached(at) = from + Len(h) + Len(m)
      BY <1>3, <1>5 DEF Reached
    <3>7. QED
      BY <1>4, <3>2, <3>5, <3>6
  <2>9. InStep(bytes, at)'
    BY <1>11, <2>4, <2>8 DEF Good, InStep
  <2>10. QED
    BY <2>6, <2>7, <2>9 DEF Good
<1>12. QED
  <2>1. \/ /\ events' = Append(events, g) /\ phase' = "idle"
           /\ hdr' = << >> /\ payload' = << >>
           /\ UNCHANGED <<wire, up, connected>>
        \/ \E reason \in {1000, 1002} : Disconnect(reason) /\ UNCHANGED events
    BY <1>8 DEF handleWebsocketPayloadCb
  <2>2. QED
    BY <1>10, <1>11, <2>1

\* A frame written in full lies behind all that was written before.
LEMMA SendGood ==
  ASSUME FrameAssumption, NEW f \in Frames, NEW key \in MaskKeys,
         NEW bytes, NEW at, Good(bytes, at), NEW e, e = Encoded(f, key),
         up, sent' = Append(sent, f), wire' = wire \o e,
         UNCHANGED <<up, phase, hdr, need, payload, connected, events, answers>>
  PROVE  Good(bytes \o e, Append(at, Len(bytes \o e)))'
<1>1. /\ phase' = phase /\ hdr' = hdr /\ need' = need /\ payload' = payload
      /\ events' = events
  OBVIOUS
<1>2. (up' <=> up) /\ (connected' <=> connected)
  OBVIOUS
<1>3. /\ bytes \in Seq(Nat) /\ at \in Seq(Nat) /\ wire \in Seq(Nat)
      /\ Len(events) <= Len(sent) /\ Len(events) \in Nat /\ Len(sent) \in Nat
      /\ \A k \in 1 .. Len(sent) + 1 : at[k] \in Nat
  BY GoodFacts
<1>4. sent \in Seq(Frames) /\ Laid(bytes, at, sent)
  BY DEF Good, Delivered
<1>5. PICK b, more : b = bytes \o e /\ more = Append(at, Len(bytes \o e))
  OBVIOUS
<1>6. Laid(b, more, sent') /\ \A k \in 1 .. Len(sent) + 1 : more[k] = at[k]
  <2>1. Added(e, f, bytes, at, sent, b, more, sent')
    BY <1>5 DEF Added
  <2>2. QED
    BY <1>4, <2>1, LaidMore
<1>7. e \in Seq(Nat)
  BY <1>3, EncodedLies
<1>8. /\ sent' \in Seq(Frames) /\ Len(sent') = Len(sent) + 1
      /\ \A i \in 1 .. Len(sent) : sent'[i] = sent[i]
  BY <1>4, AppendProperties
<1>9. PICK n : n = Len(events) + 1
  OBVIOUS
<1>10. n \in 1 .. Len(sent) + 1 /\ more[n] = at[n] /\ at[n] \in Nat
  BY <1>3, <1>6, <1>9
<1>11. Delivered'
  <2>1. wire' \in Seq(Nat)
    BY <1>3, <1>7, Concat
  <2>2. \A k \in 1 .. Len(events) : events[k] = sent[k]
    BY DEF Good, Delivered
  <2>3. \A k \in 1 .. Len(events) : events[k] = sent'[k]
    BY <1>3, <1>8, <2>2
  <2>4. Len(events) <= Len(sent')
    BY <1>3, <1>8
  <2>5. QED
    BY <1>1, <1>2, <1>8, <2>1, <2>3, <2>4 DEF Good, Delivered
<1>12. Laid(b, more, sent)'
  BY <1>6
<1>13. /\ connected => /\ Holds(b, Reached(more)', wire')
                       /\ Reached(more)' + Len(wire') = Len(b)
  <2>1. SUFFICES ASSUME connected
                 PROVE  /\ Holds(b, Reached(more)', wire')
                        /\ Reached(more)' + Len(wire') = Len(b)
    OBVIOUS
  <2>2. PICK p : p = Reached(at)
    OBVIOUS
  <2>3. Reached(more)' = p
    BY <1>1, <1>9, <1>10, <2>2 DEF Reached
  <2>4. p \in Nat
    <3>1. Len(hdr) \in Nat /\ Len(payload) \in Nat
      <4>1. CASE phase = "idle"
        <5>1. hdr = << >> /\ payload = << >>
          BY <2>1, <4>1 DEF Good, InStep
        <5>2. QED
          BY <5>1
      <4>2. CASE phase # "idle"
        <5>1. PICK g \in Frames, x \in MaskKeys : Inside(bytes, at, g, x)
          BY <4>2 DEF Good, InStep
        <5>2. hdr \in Seq(Nat)
          BY <5>1 DEF Inside, Reads, StartOf
        <5>3. payload = << >> \/ payload \in Seq(Nat)
          BY <4>2, <5>1 DEF Inside, Reads, StartOf, Good, Delivered
        <5>4. QED
          BY <5>2, <5>3, LenProperties
      <4>3. QED
        BY <4>1, <4>2
    <3>2. QED
      BY <1>9, <1>10, <2>2, <3>1 DEF Reached
  <2>5. Holds(bytes, p, wire) /\ p + Len(wire) = Len(bytes)
    BY <2>1, <2>2 DEF Good, InStep
  <2>6. Holds(b, p, wire \o e) /\ p + Len(wire \o e) = Len(b)
    BY <1>3, <1>5, <1>7, <2>4, <2>5, HoldsJoined
  <2>7. QED
    BY <2>3, <2>6
<1>14. ASSUME NEW g \in Frames, NEW x \in MaskKeys, Inside(bytes, at, g, x)
       PROVE  Inside(b, more, g, x)'
  <2>1. /\ Len(events) < Len(sent) /\ g = sent[Len(events) + 1]
        /\ Lies(bytes, at[Len(events) + 1], at[Len(events) + 2], g, x)
        /\ Reads(g, x)
    BY <1>14 DEF Inside
  <2>2. PICK k : k = Len(events) + 2
    OBVIOUS
  <2>3. /\ k \in 1 .. Len(sent) + 1 /\ n \in 1 .. Len(sent)
    <3>1. PICK l, j : l = Len(sent) /\ j = Len(events)
      OBVIOUS
    <3>2. l \in Nat /\ j \in Nat /\ j < l /\ n = j + 1 /\ k = j + 2
      BY <1>3, <1>9, <2>1, <2>2, <3>1
    <3>3. k \in 1 .. l + 1 /\ n \in 1 .. l
      BY <3>2
    <3>4. QED
      BY <3>1, <3>3, Zenon
  <2>4. more[k] = at[k] /\ sent'[n] = g
    BY <1>6, <1>8, <1>9, <2>1, <2>3
  <2>5. Lies(bytes, at[n], at[k], g, x)
    BY <1>9, <2>1, <2>2
  <2>6. Lies(b, at[n], at[k], g, x)
    BY <1>3, <1>5, <1>7, <1>10, <2>5, LiesMore
  <2>7. Lies(b, more[n], more[k], g, x)
    BY <1>10, <2>4, <2>6
  <2>8. Reads(g, x)'
    BY <1>1, <2>1 DEF Reads
  <2>9. Len(events) < Len(sent')
    BY <1>3, <1>8, <2>1
  <2>10. QED
    BY <1>1, <1>9, <2>2, <2>4, <2>7, <2>8, <2>9 DEF Inside
<1>15. InStep(b, more)'
  <2>1. phase # "idle" => \E g \in Frames, x \in MaskKeys : Inside(b, more, g, x)'
    BY <1>14 DEF Good, InStep
  <2>2. connected /\ phase = "idle" => hdr = << >> /\ payload = << >>
    BY DEF Good, InStep
  <2>3. QED
    BY <1>1, <1>2, <1>13, <2>1, <2>2 DEF InStep
<1>16. Good(b, more)'
  BY <1>11, <1>12, <1>15 DEF Good
<1>17. QED
  BY <1>5, <1>16

LEMMA FrameStarts ==
  ASSUME FrameAssumption, FrameInit
  PROVE  StreamInv
<1>1. /\ wire = << >> /\ up = TRUE /\ phase = "idle" /\ hdr = << >> /\ payload = << >>
      /\ connected = TRUE /\ events = << >> /\ sent = << >>
  BY DEF FrameInit
<1>2. PICK bytes, at : bytes = << >> /\ at = <<0>>
  OBVIOUS
<1>3. /\ bytes \in Seq(Nat) /\ Len(bytes) = 0 /\ at \in Seq(Nat) /\ Len(at) = 1
      /\ at[1] = 0
  BY <1>2
<1>4. /\ wire \in Seq(Nat) /\ Len(wire) = 0 /\ Len(sent) = 0 /\ Len(events) = 0
      /\ Len(hdr) = 0 /\ Len(payload) = 0
      /\ sent \in Seq(Frames) /\ events \in Seq(Frames)
  BY <1>1
<1>5. Delivered
  BY <1>1, <1>4 DEF Delivered
<1>6. Laid(bytes, at, sent)
  BY <1>3, <1>4 DEF Laid
<1>7. InStep(bytes, at)
  <2>1. Reached(at) = 0
    BY <1>3, <1>4 DEF Reached
  <2>2. Holds(bytes, Reached(at), wire) /\ Reached(at) + Len(wire) = Len(bytes)
    BY <1>3, <1>4, <2>1 DEF Holds
  <2>3. QED
    BY <1>1, <2>2 DEF InStep
<1>8. QED
  BY <1>3, <1>5, <1>6, <1>7 DEF StreamInv, Good

LEMMA FrameSteps ==
  ASSUME FrameAssumption, StreamInv, FrameNext
  PROVE  StreamInv'
<1>1. SUFFICES ASSUME ~ short'
               PROVE  \E bytes, at \in Seq(Nat) : Good(bytes, at)'
  BY DEF StreamInv
<1>2. ASSUME ~ short
      PROVE  \E bytes, at \in Seq(Nat) : Good(bytes, at)
  BY <1>2 DEF StreamInv
<1>3. ASSUME Receive \/ ConnectionLost
      PROVE  \E bytes, at \in Seq(Nat) : Good(bytes, at)'
  <2>1. short' = short
    BY <1>3 DEF Receive, ConnectionLost, handleWebsocket, readHeader, readPayload,
                readFailed, handleWebsocketCb, handleWebsocketPayloadCb
  <2>2. PICK bytes \in Seq(Nat), at \in Seq(Nat) : Good(bytes, at)
    BY <1>1, <1>2, <2>1
  <2>3. Good(bytes, at)'
    BY <1>3, <2>2, StartsGood, HeaderReadGood, PayloadReadGood, FailedGood,
       HeaderSteps, PayloadSteps, LostGood DEF Receive
  <2>4. QED
    BY <2>3
<1>4. ASSUME NEW f \in Frames, sendFrame(f)
      PROVE  \E bytes, at \in Seq(Nat) : Good(bytes, at)'
  <2>1. PICK key \in MaskKeys :
          \E written \in write(Encoded(f, key)) :
             /\ wire' = wire \o written
             /\ short' = (short \/ written # Encoded(f, key))
    BY <1>4 DEF sendFrame
  <2>2. PICK e : e = Encoded(f, key)
    OBVIOUS
  <2>3. ~ short /\ wire' = wire \o e
    BY <1>1, <2>1, <2>2, Zenon
  <2>4. /\ up /\ sent' = Append(sent, f)
        /\ UNCHANGED <<up, phase, hdr, need, payload, connected, events, answers>>
    BY <1>4 DEF sendFrame
  <2>5. PICK bytes \in Seq(Nat), at \in Seq(Nat) : Good(bytes, at)
    BY <1>2, <2>3
  <2>6. Good(bytes \o e, Append(at, Len(bytes \o e)))'
    BY <2>2, <2>3, <2>4, <2>5, SendGood
  <2>7. e \in Seq(Nat)
    BY <2>2, <2>5, EncodedLies
  <2>8. bytes \o e \in Seq(Nat) /\ Len(bytes \o e) \in Nat
    BY <2>5, <2>7, Concat, LenProperties
  <2>9. Append(at, Len(bytes \o e)) \in Seq(Nat)
    BY <2>5, <2>8, AppendProperties
  <2>10. QED
    BY <2>6, <2>8, <2>9
<1>5. QED
  BY <1>3, <1>4 DEF FrameNext

LEMMA FrameStutters ==
  ASSUME StreamInv, UNCHANGED frameVars
  PROVE  StreamInv'
<1>1. /\ wire' = wire /\ phase' = phase /\ hdr' = hdr /\ need' = need
      /\ payload' = payload /\ events' = events /\ sent' = sent
  BY DEF frameVars
<1>2. (up' <=> up) /\ (connected' <=> connected) /\ (short' <=> short)
  BY DEF frameVars
<1>3. ASSUME NEW bytes, NEW at, Good(bytes, at)
      PROVE  Good(bytes, at)'
  <2>1. Delivered'
    BY <1>1, <1>2, <1>3 DEF Good, Delivered
  <2>2. Laid(bytes, at, sent)'
    BY <1>1, <1>3 DEF Good, Laid
  <2>3. InStep(bytes, at)'
    BY <1>1, <1>2, <1>3 DEF Good, InStep, Reached, Inside, Reads
  <2>4. QED
    BY <2>1, <2>2, <2>3 DEF Good
<1>4. QED
  BY <1>2, <1>3 DEF StreamInv

LEMMA StreamDelivers ==
  ASSUME StreamInv
  PROVE  DeliveredAsSent
<1>1. SUFFICES ASSUME ~ short PROVE IsPrefix(events, sent)
  BY DEF DeliveredAsSent
<1>2. Delivered
  BY <1>1 DEF StreamInv, Good
<1>3. /\ sent \in Seq(Frames) /\ events \in Seq(Frames) /\ Len(events) <= Len(sent)
      /\ \A k \in 1 .. Len(events) : events[k] = sent[k]
  BY <1>2 DEF Delivered
<1>4. PICK n, s : n = Len(events) /\ s = SubSeq(sent, 1, n)
  OBVIOUS
<1>5. n \in Nat /\ Len(sent) \in Nat /\ n <= Len(sent)
  BY <1>3, <1>4, LenProperties
<1>6. \A i \in 1 .. n : sent[i] \in Frames
  BY <1>3, <1>5, ElementOfSeq
<1>7. /\ s \in Seq(Frames) /\ Len(s) = IF 1 <= n THEN n - 1 + 1 ELSE 0
      /\ \A i \in 1 .. n - 1 + 1 : s[i] = sent[1 + i - 1]
  BY <1>3, <1>4, <1>5, <1>6, SubSeqProperties
<1>8. Len(s) = n /\ \A i \in 1 .. n : s[i] = events[i]
  BY <1>3, <1>4, <1>5, <1>7
<1>9. s = events
  BY <1>3, <1>4, <1>7, <1>8, SeqEqual
<1>10. QED
  BY <1>4, <1>5, <1>9 DEF IsPrefix

\* However TCP cuts the stream, the receiver reports the frames that were sent,
\* whole, unmasked and in order, as long as no write broke off: for every base,
\* marker, set of frames and keys (sendFrame(), handleWebsocketCb()).
THEOREM FramesDelivered ==
  ASSUME FrameAssumption
  PROVE  FrameSpec => []DeliveredAsSent
<1>1. FrameInit => StreamInv
  BY FrameStarts
<1>2. StreamInv /\ [FrameNext]_frameVars => StreamInv'
  BY FrameSteps, FrameStutters
<1>3. StreamInv => DeliveredAsSent
  BY StreamDelivers
<1>4. QED
  BY <1>1, <1>2, <1>3, PTL DEF FrameSpec
-----------------------------------------------------------------------------
(* The upgrade request: for any headers that are mandatory or refused.      *)

\* What the fields say of the lines, while there are no repetitions: the header
\* lines since GET are all the others, counted and judged.
Judged ==
    IF "GET" \in lines
      THEN /\ headers = lines \ Upgrade
           /\ client.count = Cardinality(headers \cap Mandatory)
           /\ client.valid <=> headers \cap Rejected = {}
      ELSE headers = {} /\ lines \subseteq Upgrade

Refusable ==
    ~ twice /\ Mandatory \subseteq headers =>
        headers \cap Rejected # {} \/ ~ Upgrade \subseteq lines

ShakeInv ==
    /\ client \in [fields : SUBSET Upgrade, valid : BOOLEAN, count : Nat]
    /\ lines \subseteq Line /\ headers \subseteq Mandatory \cup Rejected
    /\ twice \in BOOLEAN
    /\ stage = "not" => client.fields = {}
    /\ stage # "not" => /\ client.fields = lines \cap Upgrade
                        /\ ~ twice => Judged
    /\ stage = "connected" => Accepted
    /\ answer = "400" => stage = "not" /\ Refusable

\* A request that is as good as it can be is accepted, and an accepted one is good.
LEMMA AcceptedMeans ==
  ASSUME HeadersAssumption, ~ twice, Judged, client.fields = lines \cap Upgrade,
         headers \subseteq Mandatory \cup Rejected, client.valid \in BOOLEAN
  PROVE  /\ Accepted => headers = Mandatory
         /\ ~ Accepted => Refusable
<1>1. IsFiniteSet(Mandatory) /\ headers \cap Mandatory \subseteq Mandatory
  BY DEF HeadersAssumption
<1>2. /\ IsFiniteSet(headers \cap Mandatory)
      /\ Cardinality(headers \cap Mandatory) = Cardinality(Mandatory)
           => headers \cap Mandatory = Mandatory
  BY <1>1, FS_Subset
<1>3. ASSUME Accepted PROVE headers = Mandatory
  <2>1. "GET" \in lines
    BY <1>3 DEF Accepted, Upgrade
  <2>2. headers \cap Mandatory = Mandatory /\ headers \cap Rejected = {}
    BY <1>2, <1>3, <2>1 DEF Accepted, Judged
  <2>3. QED
    BY <2>2
<1>4. ASSUME ~ Accepted, Mandatory \subseteq headers, headers \cap Rejected = {},
             Upgrade \subseteq lines
      PROVE  FALSE
  <2>1. "GET" \in lines /\ client.fields = Upgrade
    BY <1>4 DEF Upgrade
  <2>2. headers \cap Mandatory = Mandatory
    BY <1>4
  <2>3. client.valid /\ client.count = Cardinality(Mandatory)
    BY <1>4, <2>1, <2>2 DEF Judged
  <2>4. QED
    BY <1>4, <2>1, <2>3 DEF Accepted
<1>5. QED
  BY <1>3, <1>4 DEF Refusable

\* One line keeps what the fields say.
LEMMA LineJudged ==
  ASSUME HeadersAssumption, ShakeInv, NEW line \in Line, handleLine(line)
  PROVE  ShakeInv'
<1>1. /\ stage = "header" /\ stage' = "header" /\ answer' = answer /\ answer # "400"
      /\ lines' = lines \cup {line}
      /\ headers' = IF line = "GET" THEN {}
                    ELSE IF line \in Upgrade THEN headers ELSE headers \cup {line}
  BY DEF handleLine, ShakeInv
<1>2. twice' <=> (twice \/ (line \notin Upgrade \ {"GET"} /\ line \in lines)
                        \/ (line \notin Upgrade /\ "GET" \notin lines))
  BY DEF handleLine
<1>3. /\ client \in [fields : SUBSET Upgrade, valid : BOOLEAN, count : Nat]
      /\ client.fields = lines \cap Upgrade
  BY <1>1 DEF ShakeInv
<1>4. lines' \subseteq Line /\ headers' \subseteq Mandatory \cup Rejected
  BY <1>1 DEF ShakeInv, Line
<1>5. twice' \in BOOLEAN
  BY DEF handleLine, ShakeInv
<1>6. CASE line = "GET"
  <2>1. client' = [fields |-> client.fields \cup {"GET"}, valid |-> TRUE, count |-> 0]
    BY <1>6 DEF handleLine, handleRequestLine
  <2>2. client' \in [fields : SUBSET Upgrade, valid : BOOLEAN, count : Nat]
    BY <1>3, <2>1 DEF Upgrade
  <2>3. client'.fields = lines' \cap Upgrade
    BY <1>1, <1>3, <1>6, <2>1 DEF Upgrade
  <2>4. ASSUME ~ twice' PROVE Judged'
    <3>1. "GET" \notin lines /\ ~ twice
      BY <1>2, <1>6, <2>4 DEF Upgrade
    <3>2. lines \subseteq Upgrade
      BY <1>1, <3>1 DEF ShakeInv, Judged
    <3>3. headers' = {} /\ lines' \ Upgrade = {} /\ "GET" \in lines'
      BY <1>1, <1>6, <3>2 DEF Upgrade
    <3>4. headers' \cap Mandatory = {} /\ headers' \cap Rejected = {}
      BY <3>3
    <3>5. client'.count = Cardinality(headers' \cap Mandatory) /\ client'.valid = TRUE
      BY <2>1, <3>4, FS_EmptySet
    <3>6. QED
      BY <3>3, <3>4, <3>5 DEF Judged
  <2>5. QED
    BY <1>1, <1>4, <1>5, <2>2, <2>3, <2>4 DEF ShakeInv
<1>7. CASE line \in Upgrade \ {"GET"}
  <2>1. client' = [client EXCEPT !.fields = @ \cup {line}]
    BY <1>7 DEF handleLine
  <2>2. /\ client' \in [fields : SUBSET Upgrade, valid : BOOLEAN, count : Nat]
        /\ client'.fields = client.fields \cup {line}
        /\ client'.count = client.count
    BY <1>3, <1>7, <2>1
  <2>3. client'.valid = client.valid
    BY <1>3, <2>1
  <2>4. client'.fields = lines' \cap Upgrade
    BY <1>1, <1>3, <1>7, <2>2
  <2>5. ASSUME ~ twice' PROVE Judged'
    <3>1. ~ twice /\ Judged
      BY <1>1, <1>2, <2>5 DEF ShakeInv
    <3>2. headers' = headers /\ lines' \ Upgrade = lines \ Upgrade
      BY <1>1, <1>7
    <3>3. ("GET" \in lines' <=> "GET" \in lines)
          /\ (lines \subseteq Upgrade => lines' \subseteq Upgrade)
      BY <1>1, <1>7
    <3>4. QED
      BY <2>2, <2>3, <3>1, <3>2, <3>3 DEF Judged
  <2>6. QED
    BY <1>1, <1>4, <1>5, <2>2, <2>4, <2>5 DEF ShakeInv
<1>8. CASE line \notin Upgrade
  <2>1. client' = [client EXCEPT !.valid = @ /\ line \notin Rejected,
                                 !.count = IF line \in Mandatory THEN @ + 1 ELSE @]
    BY <1>8 DEF handleLine, validateHeader, Upgrade
  <2>2. /\ client' \in [fields : SUBSET Upgrade, valid : BOOLEAN, count : Nat]
        /\ client'.fields = client.fields
    <3>1. PICK v \in BOOLEAN, n \in Nat :
            client' = [client EXCEPT !.valid = v, !.count = n]
      <4>1. PICK v, n : v = (client.valid /\ line \notin Rejected)
                        /\ n = IF line \in Mandatory THEN client.count + 1 ELSE client.count
        OBVIOUS
      <4>2. v \in BOOLEAN
        BY <4>1
      <4>3. n \in Nat
        BY <1>3, <4>1
      <4>4. client' = [client EXCEPT !.valid = v, !.count = n]
        BY <2>1, <4>1, Zenon
      <4>5. QED
        BY <4>2, <4>3, <4>4
    <3>2. QED
      BY <1>3, <3>1
  <2>3. client'.count = IF line \in Mandatory THEN client.count + 1 ELSE client.count
    BY <1>3, <2>1
  <2>4. client'.valid <=> client.valid /\ line \notin Rejected
    BY <1>3, <2>1
  <2>5. client'.fields = lines' \cap Upgrade
    BY <1>1, <1>3, <1>8, <2>2
  <2>6. ASSUME ~ twice' PROVE Judged'
    <3>1. ~ twice /\ Judged /\ line \notin lines /\ "GET" \in lines
      BY <1>1, <1>2, <1>8, <2>6 DEF ShakeInv, Upgrade
    <3>2. headers' = headers \cup {line} /\ line \notin headers
      BY <1>1, <1>8, <3>1 DEF Judged, Upgrade
    <3>3. headers' = lines' \ Upgrade /\ "GET" \in lines'
      BY <1>1, <1>8, <3>1, <3>2 DEF Judged
    <3>4. client'.valid <=> headers' \cap Rejected = {}
      BY <2>4, <3>1, <3>2 DEF Judged
    <3>5. client'.count = Cardinality(headers' \cap Mandatory)
      <4>1. IsFiniteSet(headers \cap Mandatory)
        BY FS_Subset DEF HeadersAssumption
      <4>2. client.count = Cardinality(headers \cap Mandatory)
        BY <3>1 DEF Judged
      <4>3. CASE line \in Mandatory
        <5>1. headers' \cap Mandatory = (headers \cap Mandatory) \cup {line}
              /\ line \notin headers \cap Mandatory
          BY <3>2, <4>3
        <5>2. QED
          BY <2>3, <4>1, <4>2, <4>3, <5>1, FS_AddElement
      <4>4. CASE line \notin Mandatory
        <5>1. headers' \cap Mandatory = headers \cap Mandatory
          BY <3>2, <4>4
        <5>2. QED
          BY <2>3, <4>2, <4>4, <5>1
      <4>5. QED
        BY <4>3, <4>4
    <3>6. QED
      BY <3>3, <3>4, <3>5 DEF Judged
  <2>7. QED
    BY <1>1, <1>4, <1>5, <2>2, <2>5, <2>6 DEF ShakeInv
<1>9. QED
  BY <1>6, <1>7, <1>8

\* The end of a request or of a connection clears the fields and keeps the rest.
LEMMA Cleared ==
  ASSUME ShakeInv, clearFields, UNCHANGED <<lines, headers, twice>>,
         answer' = "400" => Refusable'
  PROVE  ShakeInv'
<1>1. client \in [fields : SUBSET Upgrade, valid : BOOLEAN, count : Nat]
  BY DEF ShakeInv
<1>2. stage' = "not" /\ client' = [client EXCEPT !.fields = {}]
  BY DEF clearFields
<1>3. /\ client' \in [fields : SUBSET Upgrade, valid : BOOLEAN, count : Nat]
      /\ client'.fields = {}
  BY <1>1, <1>2
<1>4. lines' \subseteq Line /\ headers' \subseteq Mandatory \cup Rejected
  BY DEF ShakeInv
<1>5. twice' \in BOOLEAN
  BY DEF ShakeInv
<1>6. QED
  BY <1>2, <1>3, <1>4, <1>5 DEF ShakeInv

LEMMA ShakeSteps ==
  ASSUME HeadersAssumption, ShakeInv, ShakeNext
  PROVE  ShakeInv'
<1>1. CASE handleNewClient
  <2>1. /\ stage = "not" /\ stage' = "header" /\ client' = client
        /\ lines' = {} /\ headers' = {} /\ answer' = "none"
    BY <1>1 DEF handleNewClient
  <2>2. twice' = FALSE
    BY <1>1 DEF handleNewClient
  <2>3. /\ client' \in [fields : SUBSET Upgrade, valid : BOOLEAN, count : Nat]
        /\ client'.fields = {}
    BY <2>1 DEF ShakeInv
  <2>4. Judged'
    BY <2>1 DEF Judged
  <2>5. QED
    BY <2>1, <2>2, <2>3, <2>4 DEF ShakeInv
<1>2. CASE \E line \in Line : handleLine(line)
  BY <1>2, LineJudged
<1>3. CASE handleHeaderEnd
  <2>1. stage = "header" /\ UNCHANGED <<lines, headers, twice>>
    BY <1>3 DEF handleHeaderEnd
  <2>2. CASE Accepted
    <3>1. stage' = "connected" /\ answer' = "101" /\ client' = client
      BY <1>3, <2>2 DEF handleHeaderEnd
    <3>2. Accepted' /\ (Judged => Judged')
      BY <2>1, <2>2, <3>1 DEF Accepted, Judged
    <3>3. /\ client' \in [fields : SUBSET Upgrade, valid : BOOLEAN, count : Nat]
          /\ client'.fields = lines' \cap Upgrade
      BY <2>1, <3>1 DEF ShakeInv
    <3>4. ~ twice' => Judged'
      BY <2>1, <3>2 DEF ShakeInv
    <3>5. lines' \subseteq Line /\ headers' \subseteq Mandatory \cup Rejected
      BY <2>1 DEF ShakeInv
    <3>6. twice' \in BOOLEAN
      BY <2>1 DEF ShakeInv
    <3>7. QED
      BY <3>1, <3>2, <3>3, <3>4, <3>5, <3>6 DEF ShakeInv
  <2>3. CASE ~ Accepted
    <3>1. clearFields /\ answer' = "400"
      BY <1>3, <2>3 DEF handleHeaderEnd
    <3>2. ~ twice => Refusable
      BY <2>1, <2>3, AcceptedMeans DEF ShakeInv
    <3>3. Refusable'
      BY <2>1, <3>2 DEF Refusable
    <3>4. QED
      BY <2>1, <3>1, <3>3, Cleared
  <2>4. QED
    BY <2>2, <2>3
<1>4. CASE Closed
  BY <1>4, Cleared DEF Closed
<1>5. QED
  BY <1>1, <1>2, <1>3, <1>4 DEF ShakeNext

LEMMA ShakeStutters ==
  ASSUME ShakeInv, UNCHANGED shakeVars
  PROVE  ShakeInv'
BY DEF ShakeInv, shakeVars, Judged, Accepted, Refusable

\* An upgrade and a refusal are the connection's own, for any mandatory headers and
\* any that the validator refuses, over any number of connections in one slot.
THEOREM HandshakesCorrect ==
  ASSUME HeadersAssumption
  PROVE  ShakeSpec => []HandshakeAgrees
<1>1. ShakeInit => ShakeInv
  <2>1. SUFFICES ASSUME ShakeInit PROVE ShakeInv
    OBVIOUS
  <2>2. client = [fields |-> {}, valid |-> TRUE, count |-> 0]
    BY <2>1 DEF ShakeInit
  <2>3. /\ client \in [fields : SUBSET Upgrade, valid : BOOLEAN, count : Nat]
        /\ client.fields = {}
    BY <2>2
  <2>4. twice = FALSE
    BY <2>1 DEF ShakeInit
  <2>5. stage = "not" /\ answer = "none" /\ lines = {} /\ headers = {}
    BY <2>1 DEF ShakeInit
  <2>6. QED
    BY <2>3, <2>4, <2>5 DEF ShakeInv
<1>2. ShakeInv /\ [ShakeNext]_shakeVars => ShakeInv'
  BY ShakeSteps, ShakeStutters
<1>3. ShakeInv => HandshakeAgrees
  <2>1. SUFFICES ASSUME ShakeInv PROVE HandshakeAgrees
    OBVIOUS
  <2>2. ASSUME stage = "connected" PROVE Upgrade \subseteq lines
    BY <2>1, <2>2 DEF ShakeInv, Accepted
  <2>3. ASSUME stage = "connected", ~ twice PROVE headers = Mandatory
    BY <2>1, <2>3, AcceptedMeans DEF ShakeInv
  <2>4. QED
    BY <2>1, <2>2, <2>3 DEF HandshakeAgrees, ShakeInv, Refusable
<1>4. QED
  BY <1>1, <1>2, <1>3, PTL DEF ShakeSpec

-----------------------------------------------------------------------------
(* The base64 coder, for any bytes, any texts and pieces, and lines of any *)
(* length: first the arithmetic of groups, lines and sextets.              *)

LEMMA DivIs ==
  ASSUME NEW a \in Nat, NEW b \in Nat, NEW q \in Nat, NEW r \in Nat,
         b > 0, a = b * q + r, r < b
  PROVE  a \div b = q /\ a % b = r
OBVIOUS

LEMMA DivMod ==
  ASSUME NEW a \in Nat, NEW b \in Nat, b > 0
  PROVE  \E q \in Nat, r \in Nat :
            q = a \div b /\ r = a % b /\ a = b * q + r /\ r < b
<1>1. PICK q, x : q = a \div b /\ x = b * q
  OBVIOUS
<1>2. q \in Nat /\ x \in Nat /\ x <= a /\ a < x + b
  BY <1>1
<1>3. PICK r \in Nat : r = a - x /\ r < b
  BY <1>2
<1>4. a = b * q + r
  BY <1>1, <1>2, <1>3
<1>5. a % b = r
  BY <1>2, <1>3, <1>4, DivIs
<1>6. QED
  BY <1>1, <1>2, <1>3, <1>4, <1>5

LEMMA Products ==
  ASSUME NEW w \in Nat, NEW x \in Nat
  PROVE  w * x \in Nat /\ (w + 1) * x = w * x + x
OBVIOUS

WLine == CHARS_PER_LINE + 1

LEMMA LineFacts ==
  ASSUME CodeAssumption
  PROVE  /\ PerLine \in Nat \ {0} /\ CHARS_PER_LINE = 4 * PerLine
         /\ WLine \in Nat /\ WLine = 4 * PerLine + 1
<1>1. CHARS_PER_LINE \in Nat \ {0} /\ CHARS_PER_LINE % 4 = 0
  BY DEF CodeAssumption
<1>2. PICK q \in Nat, r \in Nat :
        q = CHARS_PER_LINE \div 4 /\ r = CHARS_PER_LINE % 4 /\ CHARS_PER_LINE = 4 * q + r
  BY <1>1, DivMod
<1>3. QED
  BY <1>1, <1>2 DEF PerLine, WLine

\* Group g is the one after c groups of the line after q lines.
Placed(g, q, c) == g = PerLine * q + c /\ c < PerLine

\* The places of the characters of a group.
LEMMA InLine ==
  ASSUME CodeAssumption, NEW g \in Nat, NEW q \in Nat, NEW c \in Nat, Placed(g, q, c),
         NEW k \in Nat, 4 * g + q <= k, k <= 4 * g + q + 4
  PROVE  k \div WLine = q /\ k % WLine = 4 * c + (k - 4 * g - q)
<1>1. PICK p, w : p = PerLine /\ w = WLine
  OBVIOUS
<1>2. p \in Nat \ {0} /\ w \in Nat /\ w = 4 * p + 1 /\ g = p * q + c /\ c < p
  BY <1>1, LineFacts DEF Placed
<1>3. PICK x : x = p * q
  OBVIOUS
<1>4. x \in Nat /\ w * q = 4 * x + q
  BY <1>2, <1>3
<1>5. PICK d : d = 4 * c + (k - 4 * g - q)
  OBVIOUS
<1>6. g = x + c
  BY <1>2, <1>3
<1>7. d \in Nat /\ d < w /\ k = (4 * x + q) + d
  <2>1. c < p /\ w = 4 * p + 1 /\ p \in Nat /\ w \in Nat
    BY <1>2
  <2>2. QED
    BY <1>4, <1>5, <1>6, <2>1
<1>8. k = w * q + d
  BY <1>4, <1>7
<1>9. k \div w = q /\ k % w = d
  BY <1>2, <1>7, <1>8, DivIs
<1>10. QED
  BY <1>1, <1>5, <1>9, Zenon

\* A line ends after PerLine groups.
LEMMA AtLineEnd ==
  ASSUME CodeAssumption, NEW q \in Nat, NEW g \in Nat, g + 1 = PerLine * (q + 1),
         NEW k \in Nat, k = 4 * g + q + 5
  PROVE  k \div WLine = q + 1 /\ k % WLine = 0
<1>1. PerLine \in Nat \ {0} /\ WLine \in Nat /\ WLine = 4 * PerLine + 1
  BY LineFacts
<1>2. PICK x : x = PerLine * (q + 1)
  OBVIOUS
<1>3. x \in Nat /\ WLine * (q + 1) = 4 * x + (q + 1)
  BY <1>1, <1>2
<1>4. k = WLine * (q + 1) + 0
  BY <1>1, <1>2, <1>3
<1>5. QED
  BY <1>1, <1>4, DivIs

\* Fewer places, fewer characters.
LEMMA FewerCharacters ==
  ASSUME CodeAssumption, NEW k \in Nat, NEW n \in Nat, k <= n
  PROVE  /\ k - k \div WLine <= n - n \div WLine
         /\ k - k \div WLine \in Nat
         /\ k >= 1 => k - k \div WLine >= 1
<1>1. PerLine \in Nat \ {0} /\ WLine \in Nat /\ WLine = 4 * PerLine + 1
  BY LineFacts
<1>2. PICK x \in Nat, r \in Nat : x = k \div WLine /\ k = WLine * x + r /\ r < WLine
  BY <1>1, DivMod
<1>3. PICK y \in Nat, t \in Nat : y = n \div WLine /\ n = WLine * y + t /\ t < WLine
  BY <1>1, DivMod
<1>4. PICK w : w = 4 * PerLine
  OBVIOUS
<1>5. w \in Nat /\ w >= 4 /\ WLine = w + 1
  BY <1>1, <1>4
<1>6. PICK wx, wy : wx = w * x /\ wy = w * y
  OBVIOUS
<1>7. wx \in Nat /\ wy \in Nat /\ k = wx + x + r /\ n = wy + y + t
  <2>1. w * x \in Nat /\ (w + 1) * x = w * x + x
    BY <1>2, <1>5, Products
  <2>2. w * y \in Nat /\ (w + 1) * y = w * y + y
    BY <1>3, <1>5, Products
  <2>3. QED
    BY <1>2, <1>3, <1>5, <1>6, <2>1, <2>2
<1>8. (y >= x + 1 => wy >= wx + w) /\ (x >= y + 1 => wx >= wy + w)
  BY <1>5, <1>6
<1>9. k - x = wx + r /\ n - y = wy + t
  BY <1>2, <1>3, <1>7
<1>10. wx + r <= wy + t
  BY <1>2, <1>3, <1>5, <1>7, <1>8
<1>11. x >= 1 => wx >= 1
  BY <1>5, <1>6
<1>12. k >= 1 => wx + r >= 1
  BY <1>2, <1>7, <1>11
<1>13. QED
  BY <1>2, <1>3, <1>7, <1>9, <1>10, <1>12

\* The length of a text, in groups and lines, and that of a text with a byte more.
LEMMA Lengths ==
  ASSUME CodeAssumption, NEW n \in Nat
  PROVE  \E g \in Nat, e \in 0 .. 2, q \in Nat, c \in Nat :
            /\ g = n \div 3 /\ e = n % 3 /\ n = 3 * g + e
            /\ q = g \div PerLine /\ c = g % PerLine /\ Placed(g, q, c)
<1>1. PerLine \in Nat \ {0}
  BY LineFacts
<1>2. PICK g \in Nat, e \in Nat : g = n \div 3 /\ e = n % 3 /\ n = 3 * g + e /\ e < 3
  BY DivMod
<1>3. PICK q \in Nat, c \in Nat :
        q = g \div PerLine /\ c = g % PerLine /\ g = PerLine * q + c /\ c < PerLine
  BY <1>1, DivMod
<1>4. e \in 0 .. 2
  BY <1>2
<1>5. QED
  BY <1>2, <1>3, <1>4 DEF Placed

LEMMA NextLine ==
  ASSUME CodeAssumption, NEW q \in Nat, NEW c \in Nat, NEW g \in Nat, Placed(g, q, c),
         NEW h, h = g + 1
  PROVE  /\ c + 1 # PerLine => h \div PerLine = q /\ h % PerLine = c + 1
         /\ c + 1 = PerLine => /\ h \div PerLine = q + 1 /\ h % PerLine = 0
                               /\ h = PerLine * (q + 1)
<1>1. PICK p : p = PerLine
  OBVIOUS
<1>2. p \in Nat \ {0} /\ g = p * q + c /\ c < p
  BY <1>1, LineFacts DEF Placed
<1>3. PICK x, z, y : x = p * q /\ z = q + 1 /\ y = c + 1
  OBVIOUS
<1>4. x \in Nat /\ p * z = x + p
  BY <1>2, <1>3
<1>5. ASSUME y # p PROVE h \div p = q /\ h % p = y
  <2>1. h = p * q + y /\ y < p /\ y \in Nat /\ h \in Nat
    BY <1>2, <1>3, <1>4, <1>5
  <2>2. QED
    BY <1>2, <2>1, DivIs
<1>6. ASSUME y = p PROVE h \div p = z /\ h % p = 0 /\ h = p * z
  <2>1. h = p * z /\ h \in Nat /\ z \in Nat
    BY <1>2, <1>3, <1>4, <1>6
  <2>2. h = p * z + 0
    BY <2>1
  <2>3. h \div p = z /\ h % p = 0
    BY <1>2, <2>1, <2>2, DivIs
  <2>4. QED
    BY <2>1, <2>3
<1>7. QED
  BY <1>1, <1>3, <1>5, <1>6, Zenon


LEMMA ValuesKept ==
  ASSUME NEW v \in 0 .. 63
  PROVE  /\ base64_decode_value(base64_encode_value(v)) = v
         /\ base64_encode_value(v) \in Nat
<1>1. PICK w : w = base64_encode_value(v)
  OBVIOUS
<1>2. CASE v \in 0 .. 25
  <2>1. w = v + 65
    BY <1>1, <1>2 DEF base64_encode_value
  <2>2. w \in 65 .. 90
    BY <1>2, <2>1
  <2>3. base64_decode_value(w) = w - 65
    BY <2>2 DEF base64_decode_value, Pad
  <2>4. base64_decode_value(w) = v /\ w \in Nat
    BY <2>1, <2>2, <2>3
  <2>5. QED
    BY <1>1, <2>4, Zenon
<1>3. CASE v \in 26 .. 51
  <2>1. w = v + 71
    BY <1>1, <1>3 DEF base64_encode_value
  <2>2. w \in 97 .. 122
    BY <1>3, <2>1
  <2>3. base64_decode_value(w) = w - 71
    BY <2>2 DEF base64_decode_value, Pad
  <2>4. base64_decode_value(w) = v /\ w \in Nat
    BY <2>1, <2>2, <2>3
  <2>5. QED
    BY <1>1, <2>4, Zenon
<1>4. CASE v \in 52 .. 61
  <2>1. w = v - 4
    BY <1>1, <1>4 DEF base64_encode_value
  <2>2. w \in 48 .. 57
    BY <1>4, <2>1
  <2>3. base64_decode_value(w) = w + 4
    BY <2>2 DEF base64_decode_value, Pad
  <2>4. base64_decode_value(w) = v /\ w \in Nat
    BY <2>1, <2>2, <2>3
  <2>5. QED
    BY <1>1, <2>4, Zenon
<1>5. CASE v = 62
  <2>1. w = 43
    BY <1>1, <1>5 DEF base64_encode_value
  <2>2. base64_decode_value(w) = 62
    BY <2>1 DEF base64_decode_value, Pad
  <2>3. w \in Nat
    BY <2>1
  <2>4. QED
    BY <1>1, <1>5, <2>2, <2>3, Zenon
<1>8. CASE v = 63
  <2>1. w = 47
    BY <1>1, <1>8 DEF base64_encode_value
  <2>2. base64_decode_value(w) = 63
    BY <2>1 DEF base64_decode_value, Pad
  <2>3. w \in Nat
    BY <2>1
  <2>4. QED
    BY <1>1, <1>8, <2>2, <2>3, Zenon
<1>6. v \in 0 .. 25 \/ v \in 26 .. 51 \/ v \in 52 .. 61 \/ v = 62 \/ v = 63
  OBVIOUS
<1>7. QED
  BY <1>2, <1>3, <1>4, <1>5, <1>6, <1>8, Zenon

LEMMA BitsOf ==
  ASSUME NEW b \in 0 .. 255
  PROVE  /\ High(b, 6) = b \div 4 /\ High(b, 4) = b \div 16 /\ High(b, 2) = b \div 64
         /\ Low(b, 2) = b % 4 /\ Low(b, 4) = b % 16 /\ Low(b, 6) = b % 64
BY DEF High, Low

LEMMA BytesAt ==
  ASSUME NEW s \in Seq(0 .. 255), NEW j \in Nat \ {0}
  PROVE  ByteAt(s, j) \in 0 .. 255
BY ElementOfSeq DEF ByteAt

\* Four sextets are the digits of three bytes.
SextetOf(a, b, c, j) ==
    CASE j = 0 -> a \div 4
      [] j = 1 -> (a % 4) * 16 + b \div 16
      [] j = 2 -> (b % 16) * 4 + c \div 64
      [] j = 3 -> c % 64

\* Group h of s has these bytes, sextet i is the j-th of its four.
GroupHas(s, h, a, b, c) ==
    a = ByteAt(s, 3 * h + 1) /\ b = ByteAt(s, 3 * h + 2) /\ c = ByteAt(s, 3 * h + 3)

InGroup(i, h, j) == i = 4 * h + j

IsTriple(t, a, b, c) == t = 65536 * a + 256 * b + c

LEMMA GroupOf ==
  ASSUME NEW h \in Nat, NEW j \in 0 .. 3, NEW i, InGroup(i, h, j)
  PROVE  i \div 4 = h /\ i % 4 = j
BY DivIs DEF InGroup

DigitsAre(t, a, b, c) ==
    /\ (t \div 262144) % 64 = a \div 4
    /\ (t \div 4096) % 64 = (a % 4) * 16 + b \div 16
    /\ (t \div 64) % 64 = (b % 16) * 4 + c \div 64
    /\ (t \div 1) % 64 = c % 64

LEMMA DigitsOfTriple ==
  ASSUME NEW a \in 0 .. 255, NEW b \in 0 .. 255, NEW c \in 0 .. 255,
         NEW t, IsTriple(t, a, b, c)
  PROVE  DigitsAre(t, a, b, c)
<1>3. t = 65536 * a + 256 * b + c
  BY SMTT(30) DEF IsTriple
<1>4. (t \div 262144) % 64 = a \div 4
  BY <1>3, SMTT(30)
<1>5. (t \div 4096) % 64 = (a % 4) * 16 + b \div 16
  <2>1. t \div 4096 = 16 * a + b \div 16
    BY <1>3, SMTT(30)
  <2>2. PICK x \in 0 .. 63, y \in 0 .. 3 : a = 4 * x + y
    <3>1. a \div 4 \in 0 .. 63 /\ a - 4 * (a \div 4) \in 0 .. 3
      BY SMTT(30)
    <3>2. QED
      BY <3>1, SMTT(30)
  <2>3. PICK z \in 0 .. 15 : z = b \div 16
    BY SMTT(30)
  <2>4. a % 4 = y
    BY <2>2, SMTT(30)
  <2>5. (16 * a + z) % 64 = 16 * y + z
    BY <2>2, <2>3, SMTT(30)
  <2>6. QED
    BY <2>1, <2>2, <2>3, <2>4, <2>5, SMTT(30)
<1>6. (t \div 64) % 64 = (b % 16) * 4 + c \div 64
  BY <1>3, SMTT(30)
<1>7. (t \div 1) % 64 = c % 64
  BY <1>3, SMTT(30)
<1>8. QED
  BY <1>4, <1>5, <1>6, <1>7, SMTT(30) DEF DigitsAre

LEMMA SextetIs ==
  ASSUME NEW s \in Seq(0 .. 255), NEW h \in Nat, NEW j \in 0 .. 3, NEW i, InGroup(i, h, j),
         NEW a, NEW b, NEW c, GroupHas(s, h, a, b, c)
  PROVE  Sextet(s, i) = SextetOf(a, b, c, j)
<1>1. a \in 0 .. 255 /\ b \in 0 .. 255 /\ c \in 0 .. 255
  <2>1. PICK x, y, z : x = 3 * h + 1 /\ y = 3 * h + 2 /\ z = 3 * h + 3
    OBVIOUS
  <2>2. x \in Nat \ {0} /\ y \in Nat \ {0} /\ z \in Nat \ {0}
    BY <2>1
  <2>3. ByteAt(s, x) \in 0 .. 255 /\ ByteAt(s, y) \in 0 .. 255 /\ ByteAt(s, z) \in 0 .. 255
    BY <2>2, BytesAt
  <2>4. QED
    BY <2>1, <2>3, Zenon DEF GroupHas
<1>2. PICK t : IsTriple(t, a, b, c)
  BY SMTT(30) DEF IsTriple
<1>9. DigitsAre(t, a, b, c)
  BY <1>1, <1>2, DigitsOfTriple
<1>3. Sextet(s, i) = (t \div <<262144, 4096, 64, 1>>[j + 1]) % 64
  <2>1. Triple(s, h) = t
    BY <1>2, SMTT(30) DEF Triple, IsTriple, GroupHas
  <2>2. i \div 4 = h /\ i % 4 = j
    BY GroupOf
  <2>3. QED
    BY <2>1, <2>2, SMTT(30) DEF Sextet
<1>4. CASE j = 0
  <2>1. <<262144, 4096, 64, 1>>[j + 1] = 262144
    BY <1>4, SMTT(30)
  <2>2. (t \div 262144) % 64 = a \div 4
    BY <1>9, SMTT(30) DEF DigitsAre
  <2>3. SextetOf(a, b, c, j) = a \div 4
    BY <1>4 DEF SextetOf
  <2>4. QED
    BY <1>3, <2>1, <2>2, <2>3, SMTT(30)
<1>5. CASE j = 1
  <2>1. <<262144, 4096, 64, 1>>[j + 1] = 4096
    BY <1>5, SMTT(30)
  <2>2. (t \div 4096) % 64 = (a % 4) * 16 + b \div 16
    BY <1>9, SMTT(30) DEF DigitsAre
  <2>3. SextetOf(a, b, c, j) = (a % 4) * 16 + b \div 16
    BY <1>5 DEF SextetOf
  <2>4. QED
    BY <1>3, <2>1, <2>2, <2>3, SMTT(30)
<1>6. CASE j = 2
  <2>1. <<262144, 4096, 64, 1>>[j + 1] = 64
    BY <1>6, SMTT(30)
  <2>2. (t \div 64) % 64 = (b % 16) * 4 + c \div 64
    BY <1>9, SMTT(30) DEF DigitsAre
  <2>3. SextetOf(a, b, c, j) = (b % 16) * 4 + c \div 64
    BY <1>6 DEF SextetOf
  <2>4. QED
    BY <1>3, <2>1, <2>2, <2>3, SMTT(30)
<1>7. CASE j = 3
  <2>1. <<262144, 4096, 64, 1>>[j + 1] = 1
    BY <1>7, SMTT(30)
  <2>2. (t \div 1) % 64 = c % 64
    BY <1>9, SMTT(30) DEF DigitsAre
  <2>3. SextetOf(a, b, c, j) = c % 64
    BY <1>7 DEF SextetOf
  <2>4. QED
    BY <1>3, <2>1, <2>2, <2>3, SMTT(30)
<1>8. QED
  BY <1>4, <1>5, <1>6, <1>7

LEMMA SextetA ==
  ASSUME NEW s \in Seq(0 .. 255), NEW h \in Nat, NEW a, a = ByteAt(s, 3 * h + 1)
  PROVE  Sextet(s, 4 * h + 0) = a \div 4
<1>1. PICK i, j : i = 4 * h + 0 /\ j = 0
  OBVIOUS
<1>2. j \in 0 .. 3 /\ InGroup(i, h, j)
  BY <1>1 DEF InGroup
<1>3. PICK x, y, z : x = ByteAt(s, 3 * h + 1) /\ y = ByteAt(s, 3 * h + 2) /\ z = ByteAt(s, 3 * h + 3)
  OBVIOUS
<1>4. Sextet(s, i) = SextetOf(x, y, z, j)
  <2>1. GroupHas(s, h, x, y, z)
    BY <1>3, Zenon DEF GroupHas
  <2>2. QED
    BY <1>2, <2>1, SextetIs
<1>5. SextetOf(x, y, z, j) = x \div 4
  BY <1>1 DEF SextetOf
<1>6. QED
  BY <1>1, <1>3, <1>4, <1>5, Zenon

LEMMA SextetB ==
  ASSUME NEW s \in Seq(0 .. 255), NEW h \in Nat, NEW a, a = ByteAt(s, 3 * h + 1),
         NEW b, b = ByteAt(s, 3 * h + 2)
  PROVE  Sextet(s, 4 * h + 1) = (a % 4) * 16 + b \div 16
<1>1. PICK i, j : i = 4 * h + 1 /\ j = 1
  OBVIOUS
<1>2. j \in 0 .. 3 /\ InGroup(i, h, j)
  BY <1>1 DEF InGroup
<1>3. PICK x, y, z : x = ByteAt(s, 3 * h + 1) /\ y = ByteAt(s, 3 * h + 2) /\ z = ByteAt(s, 3 * h + 3)
  OBVIOUS
<1>4. Sextet(s, i) = SextetOf(x, y, z, j)
  <2>1. GroupHas(s, h, x, y, z)
    BY <1>3, Zenon DEF GroupHas
  <2>2. QED
    BY <1>2, <2>1, SextetIs
<1>5. SextetOf(x, y, z, j) = (x % 4) * 16 + y \div 16
  BY <1>1 DEF SextetOf
<1>6. QED
  BY <1>1, <1>3, <1>4, <1>5, Zenon

LEMMA SextetC ==
  ASSUME NEW s \in Seq(0 .. 255), NEW h \in Nat, NEW a, a = ByteAt(s, 3 * h + 2),
         NEW b, b = ByteAt(s, 3 * h + 3)
  PROVE  Sextet(s, 4 * h + 2) = (a % 16) * 4 + b \div 64
<1>1. PICK i, j : i = 4 * h + 2 /\ j = 2
  OBVIOUS
<1>2. j \in 0 .. 3 /\ InGroup(i, h, j)
  BY <1>1 DEF InGroup
<1>3. PICK x, y, z : x = ByteAt(s, 3 * h + 1) /\ y = ByteAt(s, 3 * h + 2) /\ z = ByteAt(s, 3 * h + 3)
  OBVIOUS
<1>4. Sextet(s, i) = SextetOf(x, y, z, j)
  <2>1. GroupHas(s, h, x, y, z)
    BY <1>3, Zenon DEF GroupHas
  <2>2. QED
    BY <1>2, <2>1, SextetIs
<1>5. SextetOf(x, y, z, j) = (y % 16) * 4 + z \div 64
  BY <1>1 DEF SextetOf
<1>6. QED
  BY <1>1, <1>3, <1>4, <1>5, Zenon

LEMMA SextetD ==
  ASSUME NEW s \in Seq(0 .. 255), NEW h \in Nat, NEW a, a = ByteAt(s, 3 * h + 3)
  PROVE  Sextet(s, 4 * h + 3) = a % 64
<1>1. PICK i, j : i = 4 * h + 3 /\ j = 3
  OBVIOUS
<1>2. j \in 0 .. 3 /\ InGroup(i, h, j)
  BY <1>1 DEF InGroup
<1>3. PICK x, y, z : x = ByteAt(s, 3 * h + 1) /\ y = ByteAt(s, 3 * h + 2) /\ z = ByteAt(s, 3 * h + 3)
  OBVIOUS
<1>4. Sextet(s, i) = SextetOf(x, y, z, j)
  <2>1. GroupHas(s, h, x, y, z)
    BY <1>3, Zenon DEF GroupHas
  <2>2. QED
    BY <1>2, <2>1, SextetIs
<1>5. SextetOf(x, y, z, j) = z % 64
  BY <1>1 DEF SextetOf
<1>6. QED
  BY <1>1, <1>3, <1>4, <1>5, Zenon

\* A further byte changes no sextet of which all bits were there.
LEMMA SextetStays ==
  ASSUME NEW s \in Seq(0 .. 255), NEW b \in 0 .. 255, NEW i \in Nat, 6 * i + 6 <= 8 * Len(s)
  PROVE  Sextet(Append(s, b), i) = Sextet(s, i)
<1>1. PICK u : u = Append(s, b)
  OBVIOUS
<1>2. /\ u \in Seq(0 .. 255) /\ Len(u) = Len(s) + 1 /\ Len(s) \in Nat
      /\ \A k \in 1 .. Len(s) : u[k] = s[k]
  BY <1>1
<1>3. \A k \in Nat \ {0} : k <= Len(s) => ByteAt(u, k) = ByteAt(s, k)
  BY <1>2 DEF ByteAt
<1>4. PICK h \in Nat, j \in Nat : h = i \div 4 /\ j = i % 4 /\ i = 4 * h + j /\ j < 4
  BY DivMod
<1>5. j \in 0 .. 3
  BY <1>4
<1>6. ByteAt(u, 3 * h + 1) = ByteAt(s, 3 * h + 1)
  BY <1>2, <1>3, <1>4
<1>7. j # 0 => ByteAt(u, 3 * h + 2) = ByteAt(s, 3 * h + 2)
  BY <1>2, <1>3, <1>4
<1>8. j \notin {0, 1} => ByteAt(u, 3 * h + 3) = ByteAt(s, 3 * h + 3)
  BY <1>2, <1>3, <1>4
<1>11. PICK a, b1, c1, b2, c2 :
         /\ a = ByteAt(s, 3 * h + 1) /\ b1 = ByteAt(s, 3 * h + 2) /\ c1 = ByteAt(s, 3 * h + 3)
         /\ b2 = ByteAt(u, 3 * h + 2) /\ c2 = ByteAt(u, 3 * h + 3)
  OBVIOUS
<1>16. GroupHas(s, h, a, b1, c1) /\ GroupHas(u, h, a, b2, c2)
  BY <1>6, <1>11, Zenon DEF GroupHas
<1>17. h \in Nat /\ InGroup(i, h, j) /\ u \in Seq(0 .. 255)
  BY <1>2, <1>4 DEF InGroup
<1>12. Sextet(s, i) = SextetOf(a, b1, c1, j)
  BY <1>5, <1>16, <1>17, SextetIs
<1>13. Sextet(u, i) = SextetOf(a, b2, c2, j)
  BY <1>5, <1>16, <1>17, SextetIs
<1>14. (j # 0 => b1 = b2) /\ (j \notin {0, 1} => c1 = c2)
  BY <1>7, <1>8, <1>11, Zenon
<1>15. SextetOf(a, b1, c1, j) = SextetOf(a, b2, c2, j)
  BY <1>5, <1>14 DEF SextetOf
<1>9. Sextet(u, i) = Sextet(s, i)
  BY <1>12, <1>13, <1>15, Zenon
<1>10. QED
  BY <1>1, <1>9


-----------------------------------------------------------------------------
(* The coder: what it has written is the code of what it was given.        *)

AtPlace(s, k) ==
    IF k % WLine = 0 THEN NewLine ELSE base64_encode_value(Sextet(s, k - 1 - k \div WLine))

MeantAt(s, k) == IF k % WLine = 0 THEN NewLine ELSE Meant(s, k - 1 - k \div WLine)

Written(cs, n, s) ==
    cs \in Seq(Nat) /\ Len(cs) = n /\ \A k \in 1 .. n : cs[k] = AtPlace(s, k)

CodedAs(x, s, g, e, q, c) ==
    /\ x.state \in [step : {"A", "B", "C"}, result : Nat, stepcount : Nat]
    /\ x.state.stepcount = c
    /\ e = 0 => x.state.step = "A"
    /\ e = 1 => x.state.step = "B" /\ x.state.result = (s[Len(s)] % 4) * 16
    /\ e = 2 => x.state.step = "C" /\ x.state.result = (s[Len(s)] % 16) * 4
    /\ Written(x.code, 4 * g + q + e, s)

Coded(x, s) ==
    CodedAs(x, s, Len(s) \div 3, Len(s) % 3, (Len(s) \div 3) \div PerLine, (Len(s) \div 3) % PerLine)

LEMMA WrittenOne ==
  ASSUME NEW cs, NEW n \in Nat, NEW s, Written(cs, n, s), NEW v \in Nat, AtPlace(s, n + 1) = v
  PROVE  Written(cs \o <<v>>, n + 1, s)
<1>1. cs \in Seq(Nat) /\ Len(cs) = n /\ \A k \in 1 .. n : cs[k] = AtPlace(s, k)
  BY DEF Written
<1>2. PICK t : t = <<v>>
  OBVIOUS
<1>3. t \in Seq(Nat) /\ Len(t) = 1 /\ t[1] = v
  BY <1>2
<1>4. /\ cs \o t \in Seq(Nat) /\ Len(cs \o t) = Len(cs) + Len(t)
      /\ \A i \in 1 .. Len(cs) : (cs \o t)[i] = cs[i]
      /\ \A i \in 1 .. Len(t) : (cs \o t)[Len(cs) + i] = t[i]
  BY <1>1, <1>3, Concat
<1>5. (cs \o t)[n + 1] = v
  BY <1>1, <1>3, <1>4
<1>6. ASSUME NEW k \in 1 .. n + 1 PROVE (cs \o t)[k] = AtPlace(s, k)
  <2>1. CASE k \in 1 .. n
    <3>1. (cs \o t)[k] = cs[k] /\ cs[k] = AtPlace(s, k)
      BY <1>1, <1>4, <2>1
    <3>2. QED
      BY <3>1
  <2>2. CASE k = n + 1
    BY <1>5, <2>2
  <2>3. k \in 1 .. n \/ k = n + 1
    OBVIOUS
  <2>4. QED
    BY <2>1, <2>2, <2>3
<1>7. cs \o t \in Seq(Nat) /\ Len(cs \o t) = n + 1
  BY <1>1, <1>3, <1>4
<1>8. QED
  BY <1>2, <1>6, <1>7 DEF Written

\* All bits of a character that was written were there.
LEMMA BitsThere ==
  ASSUME CodeAssumption, NEW g \in Nat, NEW e \in 0 .. 2,
         NEW q \in Nat, NEW c \in Nat, Placed(g, q, c),
         NEW k \in Nat, k >= 1, k <= 4 * g + q + e
  PROVE  /\ k - 1 - k \div WLine \in Nat
         /\ 6 * (k - 1 - k \div WLine) + 6 <= 8 * (3 * g + e)
<1>1. PICK n : n = 4 * g + q + e
  OBVIOUS
<1>2. n \in Nat /\ n - n \div WLine = 4 * g + e
  <2>1. n \in Nat /\ 4 * g + q <= n /\ n <= 4 * g + q + 4
    BY <1>1
  <2>2. n \div WLine = q
    BY <2>1, InLine
  <2>3. QED
    BY <1>1, <2>1, <2>2
<1>3. k - k \div WLine <= n - n \div WLine /\ k - k \div WLine >= 1
  BY <1>1, <1>2, FewerCharacters
<1>4. PICK m : m = WLine
  OBVIOUS
<1>5. m \in Nat /\ m > 0
  BY <1>4, LineFacts
<1>6. PICK z \in Nat : z = k \div WLine
  BY <1>4, <1>5
<1>7. k - z <= 4 * g + e /\ k - z >= 1
  BY <1>2, <1>3, <1>6
<1>8. k - 1 - z \in Nat /\ 6 * (k - 1 - z) + 6 <= 8 * (3 * g + e)
  BY <1>6, <1>7
<1>9. QED
  BY <1>6, <1>8

\* What was written of a text is written of the text with a byte more.
LEMMA WrittenStays ==
  ASSUME CodeAssumption, NEW s \in Seq(0 .. 255), NEW b \in 0 .. 255, NEW cs,
         NEW g \in Nat, NEW e \in 0 .. 2, Len(s) = 3 * g + e,
         NEW q \in Nat, NEW c \in Nat, Placed(g, q, c),
         Written(cs, 4 * g + q + e, s)
  PROVE  Written(cs, 4 * g + q + e, Append(s, b))
<1>1. PICK n : n = 4 * g + q + e
  OBVIOUS
<1>2. ASSUME NEW k \in 1 .. n PROVE AtPlace(Append(s, b), k) = AtPlace(s, k)
  <2>1. CASE k % WLine = 0
    BY <2>1 DEF AtPlace
  <2>2. CASE k % WLine # 0
    <3>1. PICK i : i = k - 1 - k \div WLine
      OBVIOUS
    <3>2. k \in Nat /\ k <= 4 * g + q + e /\ k >= 1
      BY <1>1
    <3>3. i \in Nat /\ 6 * i + 6 <= 8 * (3 * g + e)
      BY <3>1, <3>2, BitsThere
    <3>4. Sextet(Append(s, b), i) = Sextet(s, i)
      BY <3>3, SextetStays
    <3>5. QED
      BY <2>2, <3>1, <3>4 DEF AtPlace
  <2>3. QED
    BY <2>1, <2>2
<1>3. QED
  BY <1>1, <1>2 DEF Written

\* The value at a character of group g, and what it means.
LEMMA PlaceOf ==
  ASSUME CodeAssumption, NEW s, NEW g \in Nat, NEW q \in Nat, NEW c \in Nat, Placed(g, q, c),
         NEW k \in Nat, 4 * g + q < k, k <= 4 * g + q + 4, NEW j, j = k - 1 - q
  PROVE  AtPlace(s, k) = base64_encode_value(Sextet(s, j))
<1>1. k \div WLine = q /\ k % WLine = 4 * c + (k - 4 * g - q)
  BY InLine
<1>2. k % WLine # 0 /\ k - 1 - k \div WLine = j
  BY <1>1
<1>3. QED
  BY <1>2, Zenon DEF AtPlace

LEMMA MeantIn ==
  ASSUME CodeAssumption, NEW s, NEW g \in Nat, NEW q \in Nat, NEW c \in Nat, Placed(g, q, c),
         NEW k \in Nat, 4 * g + q < k, k <= 4 * g + q + 4, NEW j, j = k - 1 - q
  PROVE  MeantAt(s, k) = Meant(s, j)
<1>1. k \div WLine = q /\ k % WLine = 4 * c + (k - 4 * g - q)
  BY InLine
<1>2. k % WLine # 0 /\ k - 1 - k \div WLine = j
  BY <1>1
<1>3. QED
  BY <1>2, Zenon DEF MeantAt

LEMMA ByteCodedA ==
  ASSUME CodeAssumption, NEW s \in Seq(0 .. 255), NEW b \in 0 .. 255,
         NEW x, Coded(x, s), NEW y, y = ByteEncoded(x, b), Len(s) % 3 = 0
  PROVE  Coded(y, Append(s, b))
<1>1. Len(s) \in Nat
  BY LenProperties
<1>2. PICK g \in Nat, e \in 0 .. 2, q \in Nat, c \in Nat :
        /\ g = Len(s) \div 3 /\ e = Len(s) % 3 /\ Len(s) = 3 * g + e
        /\ q = g \div PerLine /\ c = g % PerLine /\ Placed(g, q, c)
  BY <1>1, Lengths
<1>22. g \in Nat /\ q \in Nat /\ c \in Nat /\ Len(s) = 3 * g + e /\ Placed(g, q, c)
  BY <1>2
<1>3. e = 0
  BY <1>2
<1>4. PICK u : u = Append(s, b)
  OBVIOUS
<1>5. u \in Seq(0 .. 255) /\ Len(u) = Len(s) + 1 /\ u[Len(u)] = b
  BY <1>1, <1>4
<1>6. Len(u) \div 3 = g /\ Len(u) % 3 = 1
  <2>1. PICK l : l = Len(u)
    OBVIOUS
  <2>2. l = 3 * g + 1 /\ l \in Nat
    BY <1>1, <1>3, <1>5, <1>22, <2>1
  <2>3. l \div 3 = g /\ l % 3 = 1
    BY <2>2, DivIs
  <2>4. QED
    BY <2>1, <2>3, Zenon
<1>7. PICK n : n = 4 * g + q
  OBVIOUS
<1>8. n \in Nat /\ n = 4 * g + q + e
  BY <1>3, <1>7
<1>9. CodedAs(x, s, g, e, q, c)
  BY <1>2, Zenon DEF Coded
<1>10. /\ x.state \in [step : {"A", "B", "C"}, result : Nat, stepcount : Nat]
       /\ x.state.step = "A" /\ x.state.stepcount = c
       /\ Written(x.code, n, s)
  <2>1. x.state \in [step : {"A", "B", "C"}, result : Nat, stepcount : Nat]
    BY <1>9 DEF CodedAs
  <2>2. x.state.step = "A"
    BY <1>3, <1>9 DEF CodedAs
  <2>3. x.state.stepcount = c
    BY <1>2, <1>9 DEF CodedAs
  <2>4. Written(x.code, 4 * g + q + e, s)
    BY <1>9 DEF CodedAs
  <2>5. QED
    BY <1>2, <1>8, <2>1, <2>2, <2>3, <2>4
<1>11. Written(x.code, n, u)
  BY <1>4, <1>8, <1>10, <1>22, WrittenStays
<1>12. PICK v : v = base64_encode_value(b \div 4)
  OBVIOUS
<1>13. v \in Nat
  <2>1. b \div 4 \in 0 .. 63
    OBVIOUS
  <2>2. QED
    BY <1>12, <2>1, ValuesKept
<1>14. AtPlace(u, n + 1) = v
  <2>1. ByteAt(u, 3 * g + 1) = b
    <3>1. PICK l : l = 3 * g + 1
      OBVIOUS
    <3>2. l = Len(u) /\ l <= Len(u)
      BY <1>1, <1>3, <1>5, <1>22, <3>1
    <3>3. ByteAt(u, l) = b
      BY <1>5, <3>2, Zenon DEF ByteAt
    <3>4. QED
      BY <3>1, <3>3, Zenon
  <2>2. Sextet(u, 4 * g + 0) = b \div 4
    BY <1>5, <2>1, SextetA
  <2>6. PICK k, j : k = n + 1 /\ j = 4 * g + 0
    OBVIOUS
  <2>8. k \in Nat /\ 4 * g + q < k /\ k <= 4 * g + q + 4 /\ j = k - 1 - q
    BY <1>7, <1>22, <2>6
  <2>3. AtPlace(u, k) = base64_encode_value(Sextet(u, j))
    BY <1>22, <2>8, PlaceOf
  <2>5. QED
    BY <1>12, <2>2, <2>3, <2>6, Zenon
<1>15. /\ y.state = [x.state EXCEPT !.step = "B", !.result = (b % 4) * 16]
       /\ y.code = x.code \o <<base64_encode_value(b \div 4)>>
  BY <1>10, BitsOf DEF ByteEncoded
<1>16. Written(y.code, n + 1, u)
  BY <1>8, <1>11, <1>12, <1>13, <1>14, <1>15, WrittenOne
<1>17. (b % 4) * 16 \in Nat
  OBVIOUS
<1>18. /\ y.state \in [step : {"A", "B", "C"}, result : Nat, stepcount : Nat]
       /\ y.state.step = "B" /\ y.state.result = (b % 4) * 16 /\ y.state.stepcount = c
  BY <1>10, <1>15, <1>17
<1>19. 4 * g + q + 1 = n + 1
  BY <1>7
<1>20. CodedAs(y, u, g, 1, q, c)
  BY <1>5, <1>16, <1>18, <1>19 DEF CodedAs
<1>21. QED
  BY <1>2, <1>4, <1>6, <1>20, Zenon DEF Coded


LEMMA ByteCodedB ==
  ASSUME CodeAssumption, NEW s \in Seq(0 .. 255), NEW b \in 0 .. 255,
         NEW x, Coded(x, s), NEW y, y = ByteEncoded(x, b), Len(s) % 3 = 1
  PROVE  Coded(y, Append(s, b))
<1>1. Len(s) \in Nat
  BY LenProperties
<1>2. PICK g \in Nat, e \in 0 .. 2, q \in Nat, c \in Nat :
        /\ g = Len(s) \div 3 /\ e = Len(s) % 3 /\ Len(s) = 3 * g + e
        /\ q = g \div PerLine /\ c = g % PerLine /\ Placed(g, q, c)
  BY <1>1, Lengths
<1>30. g \in Nat /\ q \in Nat /\ c \in Nat /\ Len(s) = 3 * g + e /\ Placed(g, q, c)
  BY <1>2
<1>3. e = 1
  BY <1>2
<1>4. PICK u : u = Append(s, b)
  OBVIOUS
<1>5. u \in Seq(0 .. 255) /\ Len(u) = Len(s) + 1 /\ u[Len(u)] = b /\ \A k \in 1 .. Len(s) : u[k] = s[k]
  BY <1>1, <1>4
<1>6. Len(u) \div 3 = g /\ Len(u) % 3 = 2
  <2>1. PICK l : l = Len(u)
    OBVIOUS
  <2>5. l = Len(s) + 1 /\ Len(s) = 3 * g + 1
    BY <1>3, <1>5, <1>30, <2>1
  <2>2. l = 3 * g + 2 /\ l \in Nat
    BY <1>1, <1>30, <2>5
  <2>3. l \div 3 = g /\ l % 3 = 2
    BY <2>2, DivIs
  <2>4. QED
    BY <2>1, <2>3, Zenon
<1>7. PICK a : a = s[Len(s)]
  OBVIOUS
<1>8. PICK n : n = 4 * g + q + 1
  OBVIOUS
<1>9. n \in Nat /\ n = 4 * g + q + e
  BY <1>3, <1>8
<1>10. CodedAs(x, s, g, e, q, c)
  BY <1>2, Zenon DEF Coded
<1>11. /\ x.state \in [step : {"A", "B", "C"}, result : Nat, stepcount : Nat]
       /\ x.state.step = "B" /\ x.state.stepcount = c
       /\ x.state.result = (a % 4) * 16
       /\ Written(x.code, n, s)
  <2>1. x.state \in [step : {"A", "B", "C"}, result : Nat, stepcount : Nat]
    BY <1>10 DEF CodedAs
  <2>2. x.state.step = "B" /\ x.state.result = (a % 4) * 16
    BY <1>3, <1>10, <1>7, Zenon DEF CodedAs
  <2>3. x.state.stepcount = c
    BY <1>2, <1>10 DEF CodedAs
  <2>4. Written(x.code, 4 * g + q + e, s)
    BY <1>10 DEF CodedAs
  <2>5. QED
    BY <1>2, <1>9, <2>1, <2>2, <2>3, <2>4
<1>12. Written(x.code, n, u)
  BY <1>4, <1>9, <1>11, <1>30, WrittenStays
<1>13. a \in 0 .. 255
  <2>1. Len(s) = 3 * g + e /\ g \in Nat
    BY <1>2
  <2>2. Len(s) \in 1 .. Len(s)
    BY <1>1, <1>3, <2>1
  <2>3. QED
    BY <1>7, <2>2, ElementOfSeq
<1>14. PICK w : w = (a % 4) * 16 + b \div 16
  OBVIOUS
<1>15. w \in 0 .. 63
  BY <1>13, <1>14
<1>16. PICK v : v = base64_encode_value(w)
  OBVIOUS
<1>17. v \in Nat
  BY <1>15, <1>16, ValuesKept
<1>18. AtPlace(u, n + 1) = v
  <2>1. ByteAt(u, 3 * g + 1) = a /\ ByteAt(u, 3 * g + 2) = b
    <3>1. Len(s) = 3 * g + 1 /\ g \in Nat
      BY <1>2, <1>3
    <3>2. u[3 * g + 1] = a /\ 3 * g + 1 <= Len(u)
      BY <1>1, <1>5, <1>7, <3>1
    <3>3. u[3 * g + 2] = b /\ 3 * g + 2 <= Len(u)
      BY <1>5, <3>1
    <3>4. QED
      BY <3>2, <3>3 DEF ByteAt
  <2>2. Sextet(u, 4 * g + 1) = w
    <3>1. Sextet(u, 4 * g + 1) = (a % 4) * 16 + b \div 16
      BY <1>5, <2>1, SextetB
    <3>2. QED
      BY <1>14, <3>1
  <2>6. PICK k, j : k = n + 1 /\ j = 4 * g + 1
    OBVIOUS
  <2>8. k \in Nat /\ 4 * g + q < k /\ k <= 4 * g + q + 4 /\ j = k - 1 - q
    BY <1>8, <1>30, <2>6
  <2>3. AtPlace(u, k) = base64_encode_value(Sextet(u, j))
    BY <1>30, <2>8, PlaceOf
  <2>7. QED
    BY <1>16, <2>2, <2>3, <2>6, Zenon
<1>19. /\ y.state = [x.state EXCEPT !.step = "C", !.result = (b % 16) * 4]
       /\ y.code = x.code \o <<v>>
  <2>5. x.state \in [step : {"A", "B", "C"}, result : Nat, stepcount : Nat]
    BY <1>11
  <2>6. x.state.step = "B"
    BY <1>11
  <2>7. /\ y.state = [x.state EXCEPT !.step = "C", !.result = (b % 16) * 4]
        /\ y.code = x.code \o <<base64_encode_value(x.state.result + b \div 16)>>
    BY <2>5, <2>6, BitsOf DEF ByteEncoded, Joined
  <2>1. y.state = [x.state EXCEPT !.step = "C", !.result = (b % 16) * 4]
    BY <2>7
  <2>2. y.code = x.code \o <<base64_encode_value(x.state.result + b \div 16)>>
    BY <2>7
  <2>3. x.state.result + b \div 16 = w
    BY <1>11, <1>14
  <2>4. QED
    BY <1>16, <2>1, <2>2, <2>3
<1>20. Written(y.code, n + 1, u)
  BY <1>9, <1>12, <1>17, <1>18, <1>19, WrittenOne
<1>21. (b % 16) * 4 \in Nat
  OBVIOUS
<1>22. /\ y.state \in [step : {"A", "B", "C"}, result : Nat, stepcount : Nat]
       /\ y.state.step = "C" /\ y.state.result = (b % 16) * 4 /\ y.state.stepcount = c
  BY <1>11, <1>19, <1>21
<1>23. 4 * g + q + 2 = n + 1
  BY <1>8, <1>30
<1>24. CodedAs(y, u, g, 2, q, c)
  BY <1>5, <1>20, <1>22, <1>23 DEF CodedAs
<1>25. QED
  BY <1>2, <1>4, <1>6, <1>24, Zenon DEF Coded

LEMMA TwoMore ==
  ASSUME NEW cs \in Seq(Nat), NEW v \in Nat, NEW w \in Nat
  PROVE  /\ cs \o (<<v, w>> \o <<>>) = (cs \o <<v>>) \o <<w>>
         /\ cs \o (<<v, w>> \o <<NewLine>>) = ((cs \o <<v>>) \o <<w>>) \o <<NewLine>>
<1>1. <<v>> \in Seq(Nat) /\ <<w>> \in Seq(Nat) /\ <<v, w>> \in Seq(Nat) /\ <<NewLine>> \in Seq(Nat)
  BY DEF NewLine
<1>2. <<v, w>> = <<v>> \o <<w>>
  <2>1. PICK a, c, d : a = <<v>> /\ c = <<w>> /\ d = <<v, w>>
    OBVIOUS
  <2>2. a \in Seq(Nat) /\ c \in Seq(Nat) /\ Len(a) = 1 /\ Len(c) = 1 /\ a[1] = v /\ c[1] = w
    BY <2>1
  <2>3. d \in Seq(Nat) /\ Len(d) = 2 /\ d[1] = v /\ d[2] = w
    BY <2>1
  <2>4. /\ a \o c \in Seq(Nat) /\ Len(a \o c) = Len(a) + Len(c)
        /\ \A i \in 1 .. Len(a) : (a \o c)[i] = a[i]
        /\ \A i \in 1 .. Len(c) : (a \o c)[Len(a) + i] = c[i]
    BY <2>2, Concat
  <2>5. (a \o c)[1] = v /\ (a \o c)[2] = w /\ Len(a \o c) = 2
    BY <2>2, <2>4
  <2>8. \A i \in 1 .. Len(d) : d[i] = (a \o c)[i]
    BY <2>3, <2>5
  <2>9. a \o c \in Seq(Nat) /\ Len(d) = Len(a \o c)
    BY <2>3, <2>4, <2>5
  <2>6. d = a \o c
    BY <2>3, <2>8, <2>9, SeqEqual
  <2>7. QED
    BY <2>1, <2>6
<1>3. <<v, w>> \o <<>> = <<v, w>>
  BY <1>1, ConcatEmptySeq
<1>4. cs \o (<<v>> \o <<w>>) = (cs \o <<v>>) \o <<w>>
  BY <1>1, ConcatAssociative
<1>5. cs \o (<<v, w>> \o <<NewLine>>) = (cs \o <<v, w>>) \o <<NewLine>>
  BY <1>1, ConcatAssociative
<1>6. QED
  BY <1>2, <1>3, <1>4, <1>5

LEMMA ByteCodedC ==
  ASSUME CodeAssumption, NEW s \in Seq(0 .. 255), NEW b \in 0 .. 255,
         NEW x, Coded(x, s), NEW y, y = ByteEncoded(x, b), Len(s) % 3 = 2
  PROVE  Coded(y, Append(s, b))
<1>1. Len(s) \in Nat
  BY LenProperties
<1>2. PICK g \in Nat, e \in 0 .. 2, q \in Nat, c \in Nat :
        /\ g = Len(s) \div 3 /\ e = Len(s) % 3 /\ Len(s) = 3 * g + e
        /\ q = g \div PerLine /\ c = g % PerLine /\ Placed(g, q, c)
  BY <1>1, Lengths
<1>30. g \in Nat /\ q \in Nat /\ c \in Nat /\ Len(s) = 3 * g + e /\ Placed(g, q, c)
  BY <1>2
<1>3. e = 2
  BY <1>2
<1>4. PICK u : u = Append(s, b)
  OBVIOUS
<1>5. u \in Seq(0 .. 255) /\ Len(u) = Len(s) + 1 /\ u[Len(u)] = b /\ \A k \in 1 .. Len(s) : u[k] = s[k]
  BY <1>1, <1>4
<1>6. Len(u) \div 3 = g + 1 /\ Len(u) % 3 = 0
  <2>1. PICK l, k : l = Len(u) /\ k = g + 1
    OBVIOUS
  <2>5. l = Len(s) + 1 /\ Len(s) = 3 * g + 2
    BY <1>3, <1>5, <1>30, <2>1
  <2>2. l = 3 * k + 0 /\ l \in Nat /\ k \in Nat
    BY <1>1, <1>30, <2>1, <2>5
  <2>3. l \div 3 = k /\ l % 3 = 0
    BY <2>2, DivIs
  <2>4. QED
    BY <2>1, <2>3, Zenon
<1>7. PICK a : a = s[Len(s)]
  OBVIOUS
<1>8. PICK n : n = 4 * g + q + 2
  OBVIOUS
<1>9. n \in Nat /\ n = 4 * g + q + e
  BY <1>3, <1>8
<1>10. CodedAs(x, s, g, e, q, c)
  BY <1>2, Zenon DEF Coded
<1>11. /\ x.state \in [step : {"A", "B", "C"}, result : Nat, stepcount : Nat]
       /\ x.state.step = "C" /\ x.state.stepcount = c
       /\ x.state.result = (a % 16) * 4
       /\ Written(x.code, n, s)
  <2>1. x.state \in [step : {"A", "B", "C"}, result : Nat, stepcount : Nat]
    BY <1>10 DEF CodedAs
  <2>2. x.state.step = "C" /\ x.state.result = (a % 16) * 4
    BY <1>3, <1>10, <1>7, Zenon DEF CodedAs
  <2>3. x.state.stepcount = c
    BY <1>2, <1>10 DEF CodedAs
  <2>4. Written(x.code, 4 * g + q + e, s)
    BY <1>10 DEF CodedAs
  <2>5. QED
    BY <1>2, <1>9, <2>1, <2>2, <2>3, <2>4
<1>12. Written(x.code, n, u)
  BY <1>4, <1>9, <1>11, <1>30, WrittenStays
<1>13. a \in 0 .. 255
  <2>1. Len(s) = 3 * g + e /\ g \in Nat
    BY <1>2
  <2>2. Len(s) \in 1 .. Len(s)
    BY <1>1, <1>3, <2>1
  <2>3. QED
    BY <1>7, <2>2, ElementOfSeq
<1>14. PICK w1, w2 : w1 = (a % 16) * 4 + b \div 64 /\ w2 = b % 64
  OBVIOUS
<1>15. w1 \in 0 .. 63 /\ w2 \in 0 .. 63
  BY <1>13, <1>14
<1>16. PICK v1, v2 : v1 = base64_encode_value(w1) /\ v2 = base64_encode_value(w2)
  OBVIOUS
<1>17. v1 \in Nat /\ v2 \in Nat
  BY <1>15, <1>16, ValuesKept
<1>18. ByteAt(u, 3 * g + 2) = a /\ ByteAt(u, 3 * g + 3) = b
  <2>1. Len(s) = 3 * g + 2 /\ g \in Nat
    BY <1>2, <1>3
  <2>2. u[3 * g + 2] = a /\ 3 * g + 2 <= Len(u)
    BY <1>1, <1>5, <1>7, <2>1
  <2>3. u[3 * g + 3] = b /\ 3 * g + 3 <= Len(u)
    BY <1>5, <2>1
  <2>4. QED
    BY <2>2, <2>3 DEF ByteAt
<1>19. AtPlace(u, n + 1) = v1
  <2>5. Sextet(u, 4 * g + 2) = (a % 16) * 4 + b \div 64
    BY <1>5, <1>18, SextetC
  <2>1. Sextet(u, 4 * g + 2) = w1
    BY <1>14, <2>5
  <2>6. PICK k, j : k = n + 1 /\ j = 4 * g + 2
    OBVIOUS
  <2>8. k \in Nat /\ 4 * g + q < k /\ k <= 4 * g + q + 4 /\ j = k - 1 - q
    BY <1>8, <1>30, <2>6
  <2>3. AtPlace(u, k) = base64_encode_value(Sextet(u, j))
    BY <1>30, <2>8, PlaceOf
  <2>7. QED
    BY <1>16, <2>1, <2>3, <2>6, Zenon
<1>20. AtPlace(u, n + 2) = v2
  <2>5. Sextet(u, 4 * g + 3) = b % 64
    BY <1>5, <1>18, SextetD
  <2>1. Sextet(u, 4 * g + 3) = w2
    BY <1>14, <2>5
  <2>6. PICK k, j : k = n + 2 /\ j = 4 * g + 3
    OBVIOUS
  <2>8. k \in Nat /\ 4 * g + q < k /\ k <= 4 * g + q + 4 /\ j = k - 1 - q
    BY <1>8, <1>30, <2>6
  <2>3. AtPlace(u, k) = base64_encode_value(Sextet(u, j))
    BY <1>30, <2>8, PlaceOf
  <2>7. QED
    BY <1>16, <2>1, <2>3, <2>6, Zenon
<1>21. Written((x.code \o <<v1>>) \o <<v2>>, n + 2, u)
  <2>1. Written(x.code \o <<v1>>, n + 1, u)
    BY <1>9, <1>12, <1>17, <1>19, WrittenOne
  <2>2. n + 1 \in Nat /\ (n + 1) + 1 = n + 2
    BY <1>9
  <2>3. AtPlace(u, (n + 1) + 1) = v2
    BY <1>20, <2>2
  <2>4. Written((x.code \o <<v1>>) \o <<v2>>, (n + 1) + 1, u)
    BY <1>17, <2>1, <2>2, <2>3, WrittenOne
  <2>5. QED
    BY <2>2, <2>4
<1>22. x.code \in Seq(Nat)
  BY <1>11 DEF Written
<1>23. /\ y.state = [step |-> "A", result |-> b % 64, stepcount |-> Counted(c)]
       /\ y.code = x.code \o (<<v1, v2>>
                       \o (IF c + 1 = PerLine THEN <<NewLine>> ELSE <<>>))
  <2>5. x.state \in [step : {"A", "B", "C"}, result : Nat, stepcount : Nat]
    BY <1>11
  <2>6. x.state.step = "C"
    BY <1>11
  <2>7. /\ y.state = [step |-> "A", result |-> b % 64, stepcount |-> Counted(x.state.stepcount)]
        /\ y.code = x.code \o (<<base64_encode_value(x.state.result + b \div 64),
                                 base64_encode_value(b % 64)>>
                      \o (IF x.state.stepcount + 1 = PerLine THEN <<NewLine>> ELSE <<>>))
    BY <2>5, <2>6, BitsOf DEF ByteEncoded, Joined
  <2>1. y.state = [step |-> "A", result |-> b % 64, stepcount |-> Counted(x.state.stepcount)]
    BY <2>7
  <2>4. y.code = x.code \o (<<base64_encode_value(x.state.result + b \div 64),
                                 base64_encode_value(b % 64)>>
                      \o (IF x.state.stepcount + 1 = PerLine THEN <<NewLine>> ELSE <<>>))
    BY <2>7
  <2>2. x.state.result + b \div 64 = w1
    BY <1>11, <1>14
  <2>3. QED
    BY <1>11, <1>14, <1>16, <2>1, <2>2, <2>4
<1>24. b % 64 \in Nat
  OBVIOUS
<1>25. PICK h : h = g + 1
  OBVIOUS
<1>28. /\ c + 1 # PerLine => h \div PerLine = q /\ h % PerLine = c + 1
       /\ c + 1 = PerLine => /\ h \div PerLine = q + 1 /\ h % PerLine = 0
                             /\ h = PerLine * (q + 1)
  BY <1>25, <1>30, NextLine
<1>29. Len(u) \div 3 = h /\ Len(u) % 3 = 0
  BY <1>6, <1>25, Zenon
<1>31. h \in Nat /\ 4 * h + q + 0 = n + 2 /\ 4 * h + (q + 1) + 0 = (n + 2) + 1
  BY <1>8, <1>25, <1>30
<1>26. CASE c + 1 # PerLine
  <2>1. y.code = (x.code \o <<v1>>) \o <<v2>>
    <3>1. y.code = x.code \o (<<v1, v2>> \o <<>>)
      BY <1>23, <1>26
    <3>2. QED
      BY <1>17, <1>22, <3>1, TwoMore
  <2>2. h \div PerLine = q /\ h % PerLine = c + 1
    BY <1>26, <1>28, Zenon
  <2>3. /\ y.state \in [step : {"A", "B", "C"}, result : Nat, stepcount : Nat]
        /\ y.state.step = "A" /\ y.state.stepcount = c + 1
    BY <1>23, <1>24, <1>26, <1>30 DEF Counted
  <2>4. Written(y.code, 4 * h + q + 0, u)
    BY <1>21, <1>31, <2>1, Zenon
  <2>5. CodedAs(y, u, h, 0, q, c + 1)
    BY <2>3, <2>4 DEF CodedAs
  <2>6. QED
    BY <1>4, <1>29, <2>2, <2>5, Zenon DEF Coded
<1>27. CASE c + 1 = PerLine
  <2>13. y.code = x.code \o (<<v1, v2>> \o <<NewLine>>)
    BY <1>23, <1>27
  <2>1. y.code = ((x.code \o <<v1>>) \o <<v2>>) \o <<NewLine>>
    BY <1>17, <1>22, <2>13, TwoMore
  <2>2. h \div PerLine = q + 1 /\ h % PerLine = 0 /\ h = PerLine * (q + 1)
    BY <1>27, <1>28, Zenon
  <2>3. /\ y.state \in [step : {"A", "B", "C"}, result : Nat, stepcount : Nat]
        /\ y.state.step = "A" /\ y.state.stepcount = 0
    BY <1>23, <1>24, <1>27 DEF Counted
  <2>4. PICK k : k = n + 3
    OBVIOUS
  <2>5. k \in Nat /\ k = 4 * g + q + 5 /\ (n + 2) + 1 = k /\ n + 2 \in Nat
    BY <1>8, <1>9, <1>30, <2>4
  <2>6. k % WLine = 0
    <3>1. g + 1 = PerLine * (q + 1)
      BY <1>25, <2>2, Zenon
    <3>2. QED
      BY <1>30, <2>5, <3>1, AtLineEnd
  <2>7. AtPlace(u, (n + 2) + 1) = NewLine /\ NewLine \in Nat
    BY <2>5, <2>6 DEF AtPlace, NewLine
  <2>8. Written(y.code, (n + 2) + 1, u)
    BY <1>21, <2>1, <2>5, <2>7, WrittenOne
  <2>9. Written(y.code, 4 * h + (q + 1) + 0, u)
    BY <1>31, <2>8, Zenon
  <2>10. CodedAs(y, u, h, 0, q + 1, 0)
    BY <2>3, <2>9 DEF CodedAs
  <2>11. QED
    BY <1>4, <1>29, <2>2, <2>10, Zenon DEF Coded
<1>32. QED
  BY <1>26, <1>27


LEMMA ByteCoded ==
  ASSUME CodeAssumption, NEW s \in Seq(0 .. 255), NEW b \in 0 .. 255,
         NEW x, Coded(x, s)
  PROVE  Coded(ByteEncoded(x, b), Append(s, b))
<1>1. Len(s) \in Nat
  BY LenProperties
<1>2. Len(s) % 3 = 0 \/ Len(s) % 3 = 1 \/ Len(s) % 3 = 2
  BY <1>1
<1>3. PICK y : y = ByteEncoded(x, b)
  OBVIOUS
<1>4. CASE Len(s) % 3 = 0
  BY <1>3, <1>4, ByteCodedA, Zenon
<1>5. CASE Len(s) % 3 = 1
  BY <1>3, <1>5, ByteCodedB, Zenon
<1>6. CASE Len(s) % 3 = 2
  BY <1>3, <1>6, ByteCodedC, Zenon
<1>7. QED
  BY <1>2, <1>4, <1>5, <1>6, Zenon

LEMMA LeastPlace ==
  ASSUME NEW S \in SUBSET Nat, S # {}
  PROVE  \E m \in S : \A n \in S : m <= n
<1> DEFINE R == OpToRel(<, Nat)
<1>1. IsWellFoundedOn(R, Nat)
  BY NatLessThanWellFounded
<1>2. R = {ss \in Nat \X Nat : ss[1] < ss[2]}
  BY Zenon DEF OpToRel
<1>3. \A x \in Nat, y \in Nat : <<x, y>> \in R <=> x < y
  BY <1>2
<1> HIDE DEF R
<1>4. PICK x \in S : \A y \in S : ~ (<<y, x>> \in R)
  BY <1>1, WFMin
<1>5. \A y \in S : ~ (y < x)
  BY <1>3, <1>4
<1>6. \A y \in S : x <= y
  BY <1>5
<1>7. QED
  BY <1>6

\* f makes the piece's bytes from e on, up to the m-th.
Encodes(f, e, piece, m) ==
    f = [i \in 0 .. m |-> IF i = 0 THEN e ELSE ByteEncoded(f[i - 1], piece[i])]

\* The recursive function of BytesEncoded() exists.
LEMMA EncodingExists ==
  ASSUME NEW e, NEW piece, NEW n \in Nat
  PROVE  \E f : Encodes(f, e, piece, n)
<1> DEFINE S == {m \in Nat : ~ \E f : Encodes(f, e, piece, m)}
<1>1. SUFFICES ASSUME S # {} PROVE FALSE
  OBVIOUS
<1>2. PICK m \in S : \A k \in S : m <= k
  BY <1>1, LeastPlace
<1>3. m \in Nat /\ ~ \E f : Encodes(f, e, piece, m)
  OBVIOUS
<1>4. m # 0
  <2>1. PICK f : f = [i \in 0 .. 0 |-> e]
    OBVIOUS
  <2>2. 0 .. 0 = {0}
    OBVIOUS
  <2>3. Encodes(f, e, piece, 0)
    BY <2>1, <2>2 DEF Encodes
  <2>4. QED
    BY <1>3, <2>3
<1>5. m - 1 \in Nat /\ m - 1 \notin S
  BY <1>2, <1>3, <1>4
<1>6. PICK f : Encodes(f, e, piece, m - 1)
  BY <1>5
<1>7. PICK g : g = [i \in 0 .. m |-> IF i = 0 THEN e ELSE ByteEncoded(f[i - 1], piece[i])]
  OBVIOUS
<1>8. \A i \in 0 .. m - 1 : g[i] = f[i]
  BY <1>3, <1>6, <1>7 DEF Encodes
<1>9. g = [i \in 0 .. m |-> IF i = 0 THEN e ELSE ByteEncoded(g[i - 1], piece[i])]
  <2>1. \A i \in 0 .. m : i # 0 => g[i - 1] = f[i - 1]
    BY <1>3, <1>8
  <2>2. QED
    BY <1>7, <2>1
<1>10. QED
  BY <1>3, <1>9 DEF Encodes

LEMMA BytesAre ==
  ASSUME NEW e, NEW piece, Len(piece) \in Nat
  PROVE  \E f : Encodes(f, e, piece, Len(piece)) /\ BytesEncoded(e, piece) = f[Len(piece)]
<1>1. PICK f : f = CHOOSE h : h = [i \in 0 .. Len(piece) |->
                                     IF i = 0 THEN e ELSE ByteEncoded(h[i - 1], piece[i])]
  OBVIOUS
<1>2. \E h : h = [i \in 0 .. Len(piece) |-> IF i = 0 THEN e ELSE ByteEncoded(h[i - 1], piece[i])]
  <2>1. PICK h : Encodes(h, e, piece, Len(piece))
    BY EncodingExists
  <2>2. QED
    BY <2>1, Zenon DEF Encodes
<1>3. f = [i \in 0 .. Len(piece) |-> IF i = 0 THEN e ELSE ByteEncoded(f[i - 1], piece[i])]
  BY <1>1, <1>2, Zenon
<1>4. BytesEncoded(e, piece) = f[Len(piece)]
  BY <1>1, Zenon DEF BytesEncoded
<1>5. QED
  BY <1>3, <1>4 DEF Encodes

LEMMA PieceCoded ==
  ASSUME CodeAssumption, NEW s \in Seq(0 .. 255), NEW piece \in Seq(0 .. 255), NEW x, Coded(x, s)
  PROVE  Coded(BytesEncoded(x, piece), s \o piece)
<1>1. Len(piece) \in Nat
  BY LenProperties
<1>2. PICK f : Encodes(f, x, piece, Len(piece)) /\ BytesEncoded(x, piece) = f[Len(piece)]
  BY <1>1, BytesAre
<1> DEFINE Upto(m) == [k \in 1 .. Len(s) + m |-> IF k <= Len(s) THEN s[k] ELSE piece[k - Len(s)]]
<1> DEFINE S == {m \in Nat : m <= Len(piece) /\ ~ Coded(f[m], Upto(m))}
<1>3. Len(s) \in Nat /\ \A k \in 1 .. Len(s) : s[k] \in 0 .. 255
  BY LenProperties, ElementOfSeq
<1>4. \A k \in 1 .. Len(piece) : piece[k] \in 0 .. 255
  BY ElementOfSeq
<1>5. ASSUME NEW m \in Nat, m <= Len(piece)
      PROVE  Upto(m) \in Seq(0 .. 255) /\ Len(Upto(m)) = Len(s) + m
  <2>1. Len(s) + m \in Nat
    BY <1>3
  <2>2. ASSUME NEW k \in 1 .. Len(s) + m
        PROVE  (IF k <= Len(s) THEN s[k] ELSE piece[k - Len(s)]) \in 0 .. 255
    <3>1. CASE k <= Len(s)
      BY <1>3, <3>1
    <3>2. CASE ~ (k <= Len(s))
      <4>1. k - Len(s) \in 1 .. Len(piece)
        BY <1>1, <1>3, <1>5, <3>2
      <4>2. QED
        BY <1>4, <3>2, <4>1
    <3>3. QED
      BY <3>1, <3>2
  <2>3. Upto(m) \in [1 .. Len(s) + m -> 0 .. 255]
    BY <2>2
  <2>4. PICK u : u = Upto(m)
    OBVIOUS
  <2>5. PICK l \in Nat : l = Len(s) + m
    BY <2>1
  <2>6. u \in [1 .. l -> 0 .. 255]
    BY <2>3, <2>4, <2>5, Zenon
  <2>7. u \in Seq(0 .. 255) /\ Len(u) = l
    BY <2>6
  <2>8. QED
    BY <2>4, <2>5, <2>7, Zenon
<1>6. S = {}
  <2>1. SUFFICES ASSUME S # {} PROVE FALSE
    OBVIOUS
  <2>2. PICK m \in S : \A k \in S : m <= k
    BY <2>1, LeastPlace
  <2>3. m \in Nat /\ m <= Len(piece) /\ ~ Coded(f[m], Upto(m))
    OBVIOUS
  <2>4. m # 0
    <3>1. Upto(0) = s
      <4>1. Upto(0) \in Seq(0 .. 255) /\ Len(Upto(0)) = Len(s)
        BY <1>1, <1>3, <1>5
      <4>2. \A k \in 1 .. Len(Upto(0)) : Upto(0)[k] = s[k]
        BY <1>3, <4>1
      <4>3. QED
        BY <4>1, <4>2, SeqEqual
    <3>2. f[0] = x
      BY <1>1, <1>2 DEF Encodes
    <3>3. QED
      BY <2>3, <3>1, <3>2
  <2>12. m - 1 \in Nat /\ m - 1 <= Len(piece) /\ ~ (m <= m - 1)
    BY <1>1, <2>3, <2>4
  <2>13. m - 1 \notin S
    BY <2>2, <2>12, Zenon
  <2>5. m - 1 \in Nat /\ m - 1 <= Len(piece) /\ m - 1 \notin S
    BY <2>12, <2>13
  <2>6. Coded(f[m - 1], Upto(m - 1))
    BY <2>5
  <2>7. f[m] = ByteEncoded(f[m - 1], piece[m])
    <3>1. f = [i \in 0 .. Len(piece) |-> IF i = 0 THEN x ELSE ByteEncoded(f[i - 1], piece[i])]
      BY <1>2, Zenon DEF Encodes
    <3>2. m \in 0 .. Len(piece)
      BY <1>1, <2>3
    <3>3. QED
      BY <2>4, <3>1, <3>2, Zenon
  <2>8. Upto(m) = Append(Upto(m - 1), piece[m])
    <3>1. /\ Upto(m) \in Seq(0 .. 255) /\ Len(Upto(m)) = Len(s) + m
          /\ Upto(m - 1) \in Seq(0 .. 255) /\ Len(Upto(m - 1)) = Len(s) + (m - 1)
      BY <1>5, <2>3, <2>5
    <3>2. piece[m] \in 0 .. 255
      BY <1>4, <1>1, <2>3, <2>4
    <3>3. PICK w : w = Append(Upto(m - 1), piece[m])
      OBVIOUS
    <3>4. PICK p, r : p = Upto(m - 1) /\ r = piece[m]
      OBVIOUS
    <3>5. p \in Seq(0 .. 255) /\ r \in 0 .. 255 /\ Len(p) = Len(s) + (m - 1) /\ w = Append(p, r)
      BY <3>1, <3>2, <3>3, <3>4, Zenon
    <3>6. /\ w \in Seq(0 .. 255) /\ Len(w) = Len(s) + m /\ w[Len(s) + m] = r
          /\ \A k \in 1 .. Len(p) : w[k] = p[k]
      BY <1>3, <2>3, <3>5
    <3>7. \A k \in 1 .. Len(s) + m : w[k] = Upto(m)[k]
      <4>1. TAKE k \in 1 .. Len(s) + m
      <4>2. CASE k = Len(s) + m
        <5>1. Upto(m)[k] = piece[m]
          BY <1>3, <2>3, <2>4, <4>2
        <5>2. QED
          BY <3>4, <3>6, <4>2, <5>1
      <4>3. CASE k # Len(s) + m
        <5>1. k \in 1 .. Len(s) + (m - 1)
          BY <1>3, <2>3, <4>3
        <5>2. w[k] = p[k]
          BY <3>5, <3>6, <5>1
        <5>3. p[k] = IF k <= Len(s) THEN s[k] ELSE piece[k - Len(s)]
          BY <3>4, <5>1
        <5>4. Upto(m)[k] = IF k <= Len(s) THEN s[k] ELSE piece[k - Len(s)]
          OBVIOUS
        <5>5. QED
          BY <5>2, <5>3, <5>4, Zenon
      <4>4. QED
        BY <4>2, <4>3
    <3>8. w = Upto(m)
      BY <3>1, <3>6, <3>7, SeqEqual
    <3>9. QED
      BY <3>3, <3>8
  <2>9. piece[m] \in 0 .. 255 /\ Upto(m - 1) \in Seq(0 .. 255)
    BY <1>1, <1>4, <1>5, <2>3, <2>4, <2>5
  <2>14. PICK z : z = f[m - 1]
    OBVIOUS
  <2>15. PICK p, r : p = Upto(m - 1) /\ r = piece[m]
    OBVIOUS
  <2>16. p \in Seq(0 .. 255) /\ r \in 0 .. 255 /\ Coded(z, p)
    BY <2>6, <2>9, <2>14, <2>15, Zenon
  <2>17. Coded(ByteEncoded(z, r), Append(p, r))
    BY <2>16, ByteCoded
  <2>10. Coded(f[m], Upto(m))
    BY <2>7, <2>8, <2>14, <2>15, <2>17, Zenon
  <2>11. QED
    BY <2>3, <2>10
<1>7. Coded(f[Len(piece)], Upto(Len(piece)))
  <2>1. Len(piece) \in Nat /\ Len(piece) <= Len(piece)
    BY <1>1
  <2>2. Len(piece) \notin S
    BY <1>6, Zenon
  <2>3. QED
    BY <2>1, <2>2, Zenon
<1>8. Upto(Len(piece)) = s \o piece
  <2>5. Len(piece) <= Len(piece)
    BY <1>1
  <2>1. /\ Upto(Len(piece)) \in Seq(0 .. 255) /\ Len(Upto(Len(piece))) = Len(s) + Len(piece)
    BY <1>1, <1>5, <2>5
  <2>2. /\ s \o piece \in Seq(0 .. 255) /\ Len(s \o piece) = Len(s) + Len(piece)
        /\ \A i \in 1 .. Len(s) : (s \o piece)[i] = s[i]
        /\ \A i \in 1 .. Len(piece) : (s \o piece)[Len(s) + i] = piece[i]
    BY Concat
  <2>3. ASSUME NEW k \in 1 .. Len(s) + Len(piece)
        PROVE  Upto(Len(piece))[k] = (s \o piece)[k]
    <3>1. CASE k <= Len(s)
      <4>1. k \in 1 .. Len(s)
        BY <1>3, <3>1
      <4>2. QED
        BY <2>2, <3>1, <4>1
    <3>2. CASE ~ (k <= Len(s))
      <4>1. PICK i : i = k - Len(s)
        OBVIOUS
      <4>2. i \in 1 .. Len(piece) /\ Len(s) + i = k
        BY <1>1, <1>3, <3>2, <4>1
      <4>3. (s \o piece)[k] = piece[i]
        BY <2>2, <4>2
      <4>4. Upto(Len(piece))[k] = piece[i]
        BY <3>2, <4>1
      <4>5. QED
        BY <4>3, <4>4
    <3>3. QED
      BY <3>1, <3>2
  <2>4. QED
    BY <2>1, <2>2, <2>3, SeqEqual
<1>9. QED
  BY <1>2, <1>7, <1>8


-----------------------------------------------------------------------------
(* The end of the code: the bits left over, and the padding.               *)

MeantFor(cs, n, s) ==
    cs \in Seq(Nat) /\ Len(cs) = n /\ \A k \in 1 .. n : cs[k] = MeantAt(s, k)

LEMMA WrittenMeant ==
  ASSUME CodeAssumption, NEW s \in Seq(0 .. 255), NEW cs,
         NEW g \in Nat, NEW e \in 0 .. 2, Len(s) = 3 * g + e,
         NEW q \in Nat, NEW c \in Nat, Placed(g, q, c),
         Written(cs, 4 * g + q + e, s)
  PROVE  MeantFor(cs, 4 * g + q + e, s)
<1>1. PICK n : n = 4 * g + q + e
  OBVIOUS
<1>2. ASSUME NEW k \in 1 .. n PROVE MeantAt(s, k) = AtPlace(s, k)
  <2>1. CASE k % WLine = 0
    BY <2>1 DEF AtPlace, MeantAt
  <2>2. CASE k % WLine # 0
    <3>1. PICK i : i = k - 1 - k \div WLine
      OBVIOUS
    <3>2. k \in Nat /\ k <= 4 * g + q + e /\ k >= 1
      BY <1>1
    <3>3. i \in Nat /\ 6 * i + 6 <= 8 * (3 * g + e)
      BY <3>1, <3>2, BitsThere
    <3>4. Meant(s, i) = base64_encode_value(Sextet(s, i))
      <4>1. PICK l : l = Len(s)
        OBVIOUS
      <4>2. l = 3 * g + e
        BY <4>1
      <4>3. 6 * i < 8 * l
        BY <3>3, <4>2
      <4>4. QED
        BY <4>1, <4>3, Zenon DEF Meant
    <3>5. QED
      BY <2>2, <3>1, <3>4 DEF AtPlace, MeantAt
  <2>3. QED
    BY <2>1, <2>2
<1>3. QED
  BY <1>1, <1>2 DEF Written, MeantFor

LEMMA MeantMore ==
  ASSUME NEW cs, NEW n \in Nat, NEW s, MeantFor(cs, n, s), NEW t \in Seq(Nat),
         \A i \in 1 .. Len(t) : t[i] = MeantAt(s, n + i)
  PROVE  MeantFor(cs \o t, n + Len(t), s)
<1>1. cs \in Seq(Nat) /\ Len(cs) = n /\ \A k \in 1 .. n : cs[k] = MeantAt(s, k)
  BY DEF MeantFor
<1>2. /\ cs \o t \in Seq(Nat) /\ Len(cs \o t) = Len(cs) + Len(t)
      /\ \A i \in 1 .. Len(cs) : (cs \o t)[i] = cs[i]
      /\ \A i \in 1 .. Len(t) : (cs \o t)[Len(cs) + i] = t[i]
  BY <1>1, Concat
<1>3. PICK l \in Nat : l = Len(t)
  BY LenProperties
<1>4. ASSUME NEW k \in 1 .. n + l PROVE (cs \o t)[k] = MeantAt(s, k)
  <2>1. CASE k \in 1 .. n
    <3>1. (cs \o t)[k] = cs[k] /\ cs[k] = MeantAt(s, k)
      BY <1>1, <1>2, <2>1
    <3>2. QED
      BY <3>1
  <2>2. CASE k \notin 1 .. n
    <3>1. PICK i : i = k - n
      OBVIOUS
    <3>2. i \in 1 .. l /\ n + i = k
      BY <2>2, <3>1
    <3>3. (cs \o t)[n + i] = t[i]
      BY <1>1, <1>2, <1>3, <3>2
    <3>4. t[i] = MeantAt(s, n + i)
      BY <1>3, <3>2
    <3>5. QED
      BY <3>2, <3>3, <3>4
  <2>3. QED
    BY <2>1, <2>2
<1>5. cs \o t \in Seq(Nat) /\ Len(cs \o t) = n + l
  BY <1>1, <1>2, <1>3
<1>6. QED
  BY <1>3, <1>4, <1>5 DEF MeantFor

LEMMA Thirds ==
  ASSUME NEW l \in Nat, NEW g \in Nat, NEW e \in 0 .. 2, l = 3 * g + e
  PROVE  (e = 0 => (l + 2) \div 3 = g) /\ (e # 0 => (l + 2) \div 3 = g + 1)
OBVIOUS

LEMMA SizeIs ==
  ASSUME CodeAssumption, NEW s, NEW g \in Nat, NEW e \in 0 .. 2, Len(s) = 3 * g + e,
         NEW q \in Nat, NEW c \in Nat, Placed(g, q, c)
  PROVE  /\ e = 0 => CodeSize(s) = 4 * g + q
         /\ e # 0 => CodeSize(s) = 4 * g + q + 4
         /\ CodeSize(s) + 1 = TextSize(Len(s))
<1>1. PICK l, p : l = Len(s) /\ p = PerLine
  OBVIOUS
<1>2. p \in Nat \ {0} /\ l = 3 * g + e /\ g = p * q + c /\ c < p /\ l \in Nat
  BY <1>1, LineFacts DEF Placed
<1>3. l \div (3 * p) = q
  <2>1. PICK x : x = p * q
    OBVIOUS
  <2>2. x \in Nat /\ (3 * p) * q = 3 * x
    BY <1>2, <2>1
  <2>3. PICK b, y : b = 3 * p /\ y = 3 * c + e
    OBVIOUS
  <2>4. g = x + c
    BY <1>2, <2>1, Zenon
  <2>5. b \in Nat /\ b > 0 /\ y \in Nat /\ y < b /\ l = 3 * x + y
    BY <1>2, <2>2, <2>3, <2>4
  <2>6. b * q = 3 * x
    BY <2>2, <2>3, Zenon
  <2>7. l = b * q + y
    BY <2>5, <2>6
  <2>8. l \div b = q
    BY <1>2, <2>5, <2>7, DivIs
  <2>9. QED
    BY <2>3, <2>8, Zenon
<1>4. (e = 0 => (l + 2) \div 3 = g) /\ (e # 0 => (l + 2) \div 3 = g + 1)
  <2>1. l = 3 * g + e /\ l \in Nat
    BY <1>2
  <2>2. QED
    BY <2>1, Thirds
<1>5. CodeSize(s) = 4 * ((l + 2) \div 3) + q /\ TextSize(Len(s)) = 4 * ((l + 2) \div 3) + q + 1
  BY <1>1, <1>3, Zenon DEF CodeSize, TextSize
<1>6. PICK m : m = (l + 2) \div 3
  OBVIOUS
<1>7. /\ e = 0 => m = g
      /\ e # 0 => m = g + 1
      /\ CodeSize(s) = 4 * m + q /\ TextSize(Len(s)) = 4 * m + q + 1
  BY <1>4, <1>5, <1>6, Zenon
<1>8. QED
  BY <1>7

LEMMA MeantIsCode ==
  ASSUME NEW s, NEW cs, MeantFor(cs, CodeSize(s), s)
  PROVE  cs = CodeOf(s)
<1>1. cs \in Seq(Nat) /\ Len(cs) = CodeSize(s) /\ \A k \in 1 .. CodeSize(s) : cs[k] = MeantAt(s, k)
  BY DEF MeantFor
<1>2. cs = [k \in 1 .. CodeSize(s) |-> MeantAt(s, k)]
  BY <1>1
<1>3. QED
  BY <1>2, Zenon DEF CodeOf, MeantAt, WLine

LEMMA CodeEnds ==
  ASSUME CodeAssumption, NEW s \in Seq(0 .. 255), NEW x, Coded(x, s)
  PROVE  LET rest == CASE x.state.step = "A" -> <<>>
                       [] x.state.step = "B" -> <<base64_encode_value(x.state.result), Pad, Pad>>
                       [] x.state.step = "C" -> <<base64_encode_value(x.state.result), Pad>>
         IN  MeantFor(x.code \o rest, CodeSize(s), s)
<1>1. Len(s) \in Nat
  BY LenProperties
<1>2. PICK g \in Nat, e \in 0 .. 2, q \in Nat, c \in Nat :
        /\ g = Len(s) \div 3 /\ e = Len(s) % 3 /\ Len(s) = 3 * g + e
        /\ q = g \div PerLine /\ c = g % PerLine /\ Placed(g, q, c)
  BY <1>1, Lengths
<1>3. Len(s) = 3 * g + e /\ Placed(g, q, c)
  BY <1>2
<1>4. CodedAs(x, s, g, e, q, c)
  BY <1>2, Zenon DEF Coded
<1>5. PICK n : n = 4 * g + q + e
  OBVIOUS
<1>6. n \in Nat
  BY <1>5
<1>7. Written(x.code, 4 * g + q + e, s)
  BY <1>4, Zenon DEF CodedAs
<1>8. MeantFor(x.code, n, s) /\ x.code \in Seq(Nat)
  <2>1. MeantFor(x.code, 4 * g + q + e, s)
    BY <1>3, <1>7, WrittenMeant
  <2>2. QED
    BY <1>5, <2>1 DEF MeantFor
<1>9. PICK a : a = s[Len(s)]
  OBVIOUS
<1>10. e # 0 => a \in 0 .. 255
  <2>1. Len(s) # 0 => Len(s) \in 1 .. Len(s)
    BY <1>1
  <2>2. e # 0 => Len(s) # 0
    BY <1>1, <1>3
  <2>3. QED
    BY <1>9, <2>1, <2>2, ElementOfSeq
<1>11. PICK rest : rest = CASE x.state.step = "A" -> <<>>
                            [] x.state.step = "B" -> <<base64_encode_value(x.state.result), Pad, Pad>>
                            [] x.state.step = "C" -> <<base64_encode_value(x.state.result), Pad>>
  OBVIOUS
<1>12. CASE e = 0
  <2>1. x.state.step = "A"
    BY <1>4, <1>12, Zenon DEF CodedAs
  <2>2. rest = <<>>
    BY <1>11, <2>1
  <2>3. x.code \o rest = x.code
    BY <1>8, <2>2, ConcatEmptySeq
  <2>4. CodeSize(s) = n
    BY <1>3, <1>5, <1>12, SizeIs
  <2>5. QED
    BY <1>8, <1>11, <2>3, <2>4, Zenon
<1>13. CASE e = 1
  <2>1. x.state.step = "B" /\ x.state.result = (a % 4) * 16
    BY <1>4, <1>9, <1>13, Zenon DEF CodedAs
  <2>2. PICK w, v : w = (a % 4) * 16 /\ v = base64_encode_value(w)
    OBVIOUS
  <2>13. a \in 0 .. 255
    BY <1>10, <1>13
  <2>14. w = (a % 4) * 16
    BY <2>2
  <2>15. w \in 0 .. 63
    BY <2>13, <2>14
  <2>3. w \in 0 .. 63 /\ a \in 0 .. 255
    BY <2>13, <2>15
  <2>4. v \in Nat /\ Pad \in Nat
    BY <2>2, <2>3, ValuesKept DEF Pad
  <2>5. rest = <<v, Pad, Pad>>
    <3>1. rest = <<base64_encode_value(x.state.result), Pad, Pad>>
      BY <1>11, <2>1
    <3>2. QED
      BY <2>1, <2>2, <3>1, Zenon
  <2>6. rest \in Seq(Nat) /\ Len(rest) = 3 /\ rest[1] = v /\ rest[2] = Pad /\ rest[3] = Pad
    BY <2>4, <2>5
  <2>7. MeantAt(s, n + 1) = v
    <3>1. MeantAt(s, 4 * g + q + 2) = Meant(s, 4 * g + 2 - 1)
      <4>1. PICK k, j : k = 4 * g + q + 2 /\ j = 4 * g + 2 - 1
        OBVIOUS
      <4>2. k \in Nat /\ 4 * g + q < k /\ k <= 4 * g + q + 4 /\ j = k - 1 - q
        BY <1>3, <4>1
      <4>3. MeantAt(s, k) = Meant(s, j)
        BY <1>3, <4>2, MeantIn
      <4>4. QED
        BY <4>1, <4>3, Zenon
    <3>2. ByteAt(s, 3 * g + 1) = a /\ ByteAt(s, 3 * g + 2) = 0
      <4>1. Len(s) = 3 * g + 1
        BY <1>3, <1>13
      <4>2. QED
        BY <1>9, <4>1 DEF ByteAt
    <3>3. Sextet(s, 4 * g + 1) = (a % 4) * 16 + 0 \div 16
      BY <3>2, SextetB
    <3>4. 0 \div 16 = 0 /\ (a % 4) * 16 \in Nat
      BY <2>3
    <3>5. Sextet(s, 4 * g + 1) = w
      BY <2>2, <3>3, <3>4
    <3>6. Len(s) = 3 * g + 1 /\ n = 4 * g + q + 1
      BY <1>3, <1>5, <1>13
    <3>7. 4 * g + 2 - 1 = 4 * g + 1 /\ 4 * g + q + 2 = n + 1 /\ 6 * (4 * g + 1) < 8 * Len(s)
      BY <3>6
    <3>8. Meant(s, 4 * g + 1) = v
      BY <2>2, <3>5, <3>7, Zenon DEF Meant
    <3>9. QED
      BY <3>1, <3>7, <3>8, Zenon
  <2>8. MeantAt(s, n + 2) = Pad /\ MeantAt(s, n + 3) = Pad
    <3>1. MeantAt(s, 4 * g + q + 3) = Meant(s, 4 * g + 3 - 1)
      <4>1. PICK k, j : k = 4 * g + q + 3 /\ j = 4 * g + 3 - 1
        OBVIOUS
      <4>2. k \in Nat /\ 4 * g + q < k /\ k <= 4 * g + q + 4 /\ j = k - 1 - q
        BY <1>3, <4>1
      <4>3. MeantAt(s, k) = Meant(s, j)
        BY <1>3, <4>2, MeantIn
      <4>4. QED
        BY <4>1, <4>3, Zenon
    <3>2. MeantAt(s, 4 * g + q + 4) = Meant(s, 4 * g + 4 - 1)
      <4>1. PICK k, j : k = 4 * g + q + 4 /\ j = 4 * g + 4 - 1
        OBVIOUS
      <4>2. k \in Nat /\ 4 * g + q < k /\ k <= 4 * g + q + 4 /\ j = k - 1 - q
        BY <1>3, <4>1
      <4>3. MeantAt(s, k) = Meant(s, j)
        BY <1>3, <4>2, MeantIn
      <4>4. QED
        BY <4>1, <4>3, Zenon
    <3>3. Len(s) = 3 * g + 1 /\ n = 4 * g + q + 1
      BY <1>3, <1>5, <1>13
    <3>4. 4 * g + q + 3 = n + 2 /\ 4 * g + q + 4 = n + 3
      BY <3>3
    <3>5. ~ (6 * (4 * g + 3 - 1) < 8 * Len(s)) /\ ~ (6 * (4 * g + 4 - 1) < 8 * Len(s))
      BY <3>3
    <3>6. QED
      BY <3>1, <3>2, <3>4, <3>5, Zenon DEF Meant
  <2>9. \A i \in 1 .. Len(rest) : rest[i] = MeantAt(s, n + i)
    <3>1. \A i \in 1 .. 3 : i = 1 \/ i = 2 \/ i = 3
      OBVIOUS
    <3>2. QED
      BY <2>6, <2>7, <2>8, <3>1, Zenon
  <2>10. MeantFor(x.code \o rest, n + Len(rest), s)
    BY <1>6, <1>8, <2>6, <2>9, MeantMore
  <2>11. CodeSize(s) = n + 3
    <3>1. CodeSize(s) = 4 * g + q + 4
      BY <1>3, <1>13, SizeIs
    <3>2. QED
      BY <1>5, <1>13, <3>1
  <2>12. QED
    BY <1>11, <2>6, <2>10, <2>11, Zenon
<1>14. CASE e = 2
  <2>1. x.state.step = "C" /\ x.state.result = (a % 16) * 4
    BY <1>4, <1>9, <1>14, Zenon DEF CodedAs
  <2>2. PICK w, v : w = (a % 16) * 4 /\ v = base64_encode_value(w)
    OBVIOUS
  <2>13. a \in 0 .. 255
    BY <1>10, <1>14
  <2>14. w = (a % 16) * 4
    BY <2>2
  <2>15. w \in 0 .. 63
    BY <2>13, <2>14
  <2>3. w \in 0 .. 63 /\ a \in 0 .. 255
    BY <2>13, <2>15
  <2>4. v \in Nat /\ Pad \in Nat
    BY <2>2, <2>3, ValuesKept DEF Pad
  <2>5. rest = <<v, Pad>>
    <3>1. rest = <<base64_encode_value(x.state.result), Pad>>
      BY <1>11, <2>1
    <3>2. QED
      BY <2>1, <2>2, <3>1, Zenon
  <2>6. rest \in Seq(Nat) /\ Len(rest) = 2 /\ rest[1] = v /\ rest[2] = Pad
    BY <2>4, <2>5
  <2>7. MeantAt(s, n + 1) = v
    <3>1. MeantAt(s, 4 * g + q + 3) = Meant(s, 4 * g + 3 - 1)
      <4>1. PICK k, j : k = 4 * g + q + 3 /\ j = 4 * g + 3 - 1
        OBVIOUS
      <4>2. k \in Nat /\ 4 * g + q < k /\ k <= 4 * g + q + 4 /\ j = k - 1 - q
        BY <1>3, <4>1
      <4>3. MeantAt(s, k) = Meant(s, j)
        BY <1>3, <4>2, MeantIn
      <4>4. QED
        BY <4>1, <4>3, Zenon
    <3>2. ByteAt(s, 3 * g + 2) = a /\ ByteAt(s, 3 * g + 3) = 0
      <4>1. Len(s) = 3 * g + 2
        BY <1>3, <1>14
      <4>2. QED
        BY <1>9, <4>1 DEF ByteAt
    <3>3. Sextet(s, 4 * g + 2) = (a % 16) * 4 + 0 \div 64
      BY <3>2, SextetC
    <3>4. 0 \div 64 = 0 /\ (a % 16) * 4 \in Nat
      BY <2>3
    <3>5. Sextet(s, 4 * g + 2) = w
      BY <2>2, <3>3, <3>4
    <3>6. Len(s) = 3 * g + 2 /\ n = 4 * g + q + 2
      BY <1>3, <1>5, <1>14
    <3>7. 4 * g + 3 - 1 = 4 * g + 2 /\ 4 * g + q + 3 = n + 1 /\ 6 * (4 * g + 2) < 8 * Len(s)
      BY <3>6
    <3>8. Meant(s, 4 * g + 2) = v
      BY <2>2, <3>5, <3>7, Zenon DEF Meant
    <3>9. QED
      BY <3>1, <3>7, <3>8, Zenon
  <2>8. MeantAt(s, n + 2) = Pad
    <3>2. MeantAt(s, 4 * g + q + 4) = Meant(s, 4 * g + 4 - 1)
      <4>1. PICK k, j : k = 4 * g + q + 4 /\ j = 4 * g + 4 - 1
        OBVIOUS
      <4>2. k \in Nat /\ 4 * g + q < k /\ k <= 4 * g + q + 4 /\ j = k - 1 - q
        BY <1>3, <4>1
      <4>3. MeantAt(s, k) = Meant(s, j)
        BY <1>3, <4>2, MeantIn
      <4>4. QED
        BY <4>1, <4>3, Zenon
    <3>3. Len(s) = 3 * g + 2 /\ n = 4 * g + q + 2
      BY <1>3, <1>5, <1>14
    <3>4. 4 * g + q + 4 = n + 2
      BY <3>3
    <3>5. ~ (6 * (4 * g + 4 - 1) < 8 * Len(s))
      BY <3>3
    <3>6. QED
      BY <3>2, <3>4, <3>5, Zenon DEF Meant
  <2>9. \A i \in 1 .. Len(rest) : rest[i] = MeantAt(s, n + i)
    <3>1. \A i \in 1 .. 2 : i = 1 \/ i = 2
      OBVIOUS
    <3>2. QED
      BY <2>6, <2>7, <2>8, <3>1, Zenon
  <2>10. MeantFor(x.code \o rest, n + Len(rest), s)
    BY <1>6, <1>8, <2>6, <2>9, MeantMore
  <2>11. CodeSize(s) = n + 2
    <3>1. CodeSize(s) = 4 * g + q + 4
      BY <1>3, <1>14, SizeIs
    <3>2. QED
      BY <1>5, <1>14, <3>1
  <2>12. QED
    BY <1>11, <2>6, <2>10, <2>11, Zenon
<1>15. e = 0 \/ e = 1 \/ e = 2
  OBVIOUS
<1>16. QED
  BY <1>12, <1>13, <1>14, <1>15, Zenon


-----------------------------------------------------------------------------
(* The decoder: what it has made of the first r characters.                *)

Values(s) == (4 * Len(s) + 2) \div 3

Taken(s, r) == IF r - r \div WLine <= Values(s) THEN r - r \div WLine ELSE Values(s)

\* base64_decodestate after j characters of group h.
Rest(s, h, j) ==
    IF j = 0 THEN [step |-> "a", plainchar |-> 0]
    ELSE IF j = 1 THEN [step |-> "b", plainchar |-> (ByteAt(s, 3 * h + 1) \div 4) * 4]
    ELSE IF j = 2 THEN [step |-> "c", plainchar |-> (ByteAt(s, 3 * h + 2) \div 16) * 16]
    ELSE [step |-> "d", plainchar |-> (ByteAt(s, 3 * h + 3) \div 64) * 64]

Whole(h, j) == IF j = 0 THEN 3 * h ELSE 3 * h + j - 1

Decoded(s, h, j) == [state |-> Rest(s, h, j), text |-> SubSeq(s, 1, Whole(h, j))]

DecodedOf(s, r) == Decoded(s, Taken(s, r) \div 4, Taken(s, r) % 4)

LEMMA ValueOf ==
  ASSUME NEW v \in 0 .. 63, NEW c, c = base64_encode_value(v)
  PROVE  base64_decode_value(c) = v /\ ~ PassedOver(c)
BY ValuesKept DEF PassedOver

\* Line ends and padding are passed over.
LEMMA NoneTaken ==
  ASSUME NEW d, NEW c, c = NewLine \/ c = Pad
  PROVE  CharacterDecoded(d, c) = d
<1>1. base64_decode_value(c) < 0
  BY DEF base64_decode_value, NewLine, Pad
<1>2. PassedOver(c)
  BY <1>1 DEF PassedOver
<1>3. QED
  BY <1>2 DEF CharacterDecoded

LEMMA ByteMore ==
  ASSUME NEW s \in Seq(0 .. 255), NEW n \in Nat, n < Len(s), NEW v, v = s[n + 1]
  PROVE  Append(SubSeq(s, 1, n), v) = SubSeq(s, 1, n + 1)
OBVIOUS

Second(a, b) == (a % 4) * 16 + b \div 16

Third(a, b) == (a % 16) * 4 + b \div 64

LEMMA Bits4 ==
  ASSUME NEW a \in 0 .. 255, NEW b \in 0 .. 255, NEW v, v = Second(a, b)
  PROVE  v \in 0 .. 63 /\ v % 16 = b \div 16 /\ (a \div 4) * 4 + v \div 16 = a
<1>1. PICK u : u = b \div 16
  OBVIOUS
<1>2. u \in 0 .. 15 
  BY <1>1
<1>3. PICK y : y = a % 4
  OBVIOUS
<1>4. y \in 0 .. 3
  BY <1>3
<1>5. v = 16 * y + u
  BY <1>1, <1>2, <1>3, <1>4 DEF Second
<1>6. v \in 0 .. 63 /\ v % 16 = u /\ v \div 16 = y
  BY <1>2, <1>4, <1>5
<1>7. (a \div 4) * 4 + y = a
  BY <1>3
<1>8. QED
  BY <1>1, <1>6, <1>7, Zenon

LEMMA Bits16 ==
  ASSUME NEW a \in 0 .. 255, NEW b \in 0 .. 255, NEW v, v = Third(a, b)
  PROVE  v \in 0 .. 63 /\ v % 4 = b \div 64 /\ (a \div 16) * 16 + v \div 4 = a
<1>1. PICK u : u = b \div 64
  OBVIOUS
<1>2. u \in 0 .. 3
  BY <1>1
<1>3. PICK y : y = a % 16
  OBVIOUS
<1>4. y \in 0 .. 15
  BY <1>3
<1>5. v = 4 * y + u
  BY <1>1, <1>2, <1>3, <1>4 DEF Third
<1>6. v \in 0 .. 63 /\ v % 4 = u /\ v \div 4 = y
  BY <1>2, <1>4, <1>5
<1>7. (a \div 16) * 16 + y = a
  BY <1>3
<1>8. QED
  BY <1>1, <1>6, <1>7, Zenon

LEMMA Bits64 ==
  ASSUME NEW a \in 0 .. 255
  PROVE  /\ a \div 4 \in 0 .. 63 /\ a % 64 \in 0 .. 63
         /\ (a \div 4) * 4 \in 0 .. 255 /\ (a \div 16) * 16 \in 0 .. 255
         /\ (a \div 64) * 64 \in 0 .. 255
<1>1. a \div 4 \in 0 .. 63
  OBVIOUS
<1>2. a % 64 \in 0 .. 63
  OBVIOUS
<1>4. (a \div 4) * 4 \in 0 .. 255
  OBVIOUS
<1>5. (a \div 16) * 16 \in 0 .. 255
  OBVIOUS
<1>6. (a \div 64) * 64 \in 0 .. 255
  OBVIOUS
<1>7. QED
  BY <1>1, <1>2, <1>4, <1>5, <1>6, Zenon

Filled(s, i) == 6 * i < 8 * Len(s)

\* A character of the text's bits: the next state.
LEMMA OneTaken ==
  ASSUME NEW s \in Seq(0 .. 255), NEW h \in Nat, NEW j \in 0 .. 3, Filled(s, 4 * h + j)
  PROVE  LET d2 == CharacterDecoded(Decoded(s, h, j), base64_encode_value(Sextet(s, 4 * h + j)))
         IN  /\ j # 3 => d2 = Decoded(s, h, j + 1)
             /\ j = 3 => d2 = Decoded(s, h + 1, 0)
<1>1. PICK l \in Nat : l = Len(s)
  BY LenProperties
<1>2. 6 * (4 * h + j) < 8 * l
  BY <1>1 DEF Filled
<1>3. PICK a, b, c : a = ByteAt(s, 3 * h + 1) /\ b = ByteAt(s, 3 * h + 2) /\ c = ByteAt(s, 3 * h + 3)
  OBVIOUS
<1>15. a \in 0 .. 255 /\ b \in 0 .. 255 /\ c \in 0 .. 255
  <2>1. 3 * h + 1 \in Nat \ {0} /\ 3 * h + 2 \in Nat \ {0} /\ 3 * h + 3 \in Nat \ {0}
    OBVIOUS
  <2>2. QED
    BY <1>3, <2>1, BytesAt
<1>5. PICK v : v = Sextet(s, 4 * h + j)
  OBVIOUS
<1>6. PICK d : d = Decoded(s, h, j)
  OBVIOUS
<1>7. PICK k : k = base64_encode_value(v)
  OBVIOUS
<1>8. CASE j = 0
  <2>7. v = a \div 4 /\ a \in 0 .. 255
    BY <1>3, <1>5, <1>8, <1>15, SextetA
  <2>1. v = a \div 4 /\ v \in 0 .. 63
    BY <2>7, Bits64
  <2>2. d = [state |-> [step |-> "a", plainchar |-> 0], text |-> SubSeq(s, 1, 3 * h)]
    BY <1>6, <1>8, Zenon DEF Decoded, Rest, Whole
  <2>3. CharacterDecoded(d, k) = [state |-> [step |-> "b", plainchar |-> v * 4], text |-> SubSeq(s, 1, 3 * h)]
    <3>1. base64_decode_value(k) = v /\ ~ PassedOver(k)
      BY <1>7, <2>1, ValueOf
    <3>2. QED
      BY <2>1, <2>2, <3>1 DEF CharacterDecoded
  <2>4. Decoded(s, h, 1) = [state |-> [step |-> "b", plainchar |-> v * 4], text |-> SubSeq(s, 1, 3 * h)]
    <3>1. Rest(s, h, 1) = [step |-> "b", plainchar |-> v * 4]
      BY <1>3, <2>1 DEF Rest
    <3>2. Whole(h, 1) = 3 * h
      BY DEF Whole
    <3>3. QED
      BY <3>1, <3>2, Zenon DEF Decoded
  <2>5. j # 3 /\ j + 1 = 1
    BY <1>8
  <2>6. QED
    BY <1>5, <1>6, <1>7, <2>3, <2>4, <2>5, Zenon
<1>9. CASE j = 1
  <2>10. v = (a % 4) * 16 + b \div 16 /\ a \in 0 .. 255 /\ b \in 0 .. 255
    BY <1>3, <1>5, <1>9, <1>15, SextetB
  <2>1. v \in 0 .. 63 /\ v % 16 = b \div 16 /\ (a \div 4) * 4 + v \div 16 = a
    <3>1. v = Second(a, b) /\ a \in 0 .. 255 /\ b \in 0 .. 255
      BY <2>10 DEF Second
    <3>2. QED
      BY <3>1, Bits4
  <2>2. PICK p : p = (a \div 4) * 4
    OBVIOUS
  <2>11. (a \div 4) * 4 \in 0 .. 255
    BY <2>10, Bits64
  <2>3. p \in 0 .. 255 /\ v % 16 = b \div 16 /\ p + v \div 16 = a
    BY <2>1, <2>2, <2>11, Zenon
  <2>4. d = [state |-> [step |-> "b", plainchar |-> p], text |-> SubSeq(s, 1, 3 * h)]
    <3>1. Rest(s, h, 1) = [step |-> "b", plainchar |-> p]
      BY <1>3, <2>2 DEF Rest
    <3>2. Whole(h, 1) = 3 * h
      BY DEF Whole
    <3>3. QED
      BY <1>6, <1>9, <3>1, <3>2, Zenon DEF Decoded
  <2>5. CharacterDecoded(d, k) = [state |-> [step |-> "c", plainchar |-> (v % 16) * 16],
                                  text |-> Append(SubSeq(s, 1, 3 * h), p + v \div 16)]
    <3>1. base64_decode_value(k) = v /\ ~ PassedOver(k)
      BY <1>7, <2>1, ValueOf
    <3>2. Low(v, 4) = v % 16
      BY <2>1 DEF Low
    <3>3. QED
      BY <2>1, <2>3, <2>4, <3>1, <3>2 DEF CharacterDecoded
  <2>6. Append(SubSeq(s, 1, 3 * h), p + v \div 16) = SubSeq(s, 1, 3 * h + 1)
    <3>1. 3 * h \in Nat /\ 3 * h < l
      BY <1>2, <1>9
    <3>2. s[3 * h + 1] = a
      BY <1>1, <1>3, <3>1 DEF ByteAt
    <3>3. QED
      BY <1>1, <2>3, <3>1, <3>2, ByteMore
  <2>7. Decoded(s, h, 2) = [state |-> [step |-> "c", plainchar |-> (b \div 16) * 16],
                            text |-> SubSeq(s, 1, 3 * h + 1)]
    <3>1. Rest(s, h, 2) = [step |-> "c", plainchar |-> (b \div 16) * 16]
      BY <1>3 DEF Rest
    <3>2. Whole(h, 2) = 3 * h + 1
      BY DEF Whole
    <3>3. QED
      BY <3>1, <3>2, Zenon DEF Decoded
  <2>8. j # 3 /\ j + 1 = 2
    BY <1>9
  <2>9. QED
    BY <1>5, <1>6, <1>7, <2>3, <2>5, <2>6, <2>7, <2>8, Zenon
<1>10. CASE j = 2
  <2>10. v = (b % 16) * 4 + c \div 64 /\ b \in 0 .. 255 /\ c \in 0 .. 255
    BY <1>3, <1>5, <1>10, <1>15, SextetC
  <2>1. v \in 0 .. 63 /\ v % 4 = c \div 64 /\ (b \div 16) * 16 + v \div 4 = b
    <3>1. v = Third(b, c) /\ b \in 0 .. 255 /\ c \in 0 .. 255
      BY <2>10 DEF Third
    <3>2. QED
      BY <3>1, Bits16
  <2>2. PICK p : p = (b \div 16) * 16
    OBVIOUS
  <2>11. (b \div 16) * 16 \in 0 .. 255
    BY <2>10, Bits64
  <2>3. p \in 0 .. 255 /\ v % 4 = c \div 64 /\ p + v \div 4 = b
    BY <2>1, <2>2, <2>11, Zenon
  <2>4. d = [state |-> [step |-> "c", plainchar |-> p], text |-> SubSeq(s, 1, 3 * h + 1)]
    <3>1. Rest(s, h, 2) = [step |-> "c", plainchar |-> p]
      BY <1>3, <2>2 DEF Rest
    <3>2. Whole(h, 2) = 3 * h + 1
      BY DEF Whole
    <3>3. QED
      BY <1>6, <1>10, <3>1, <3>2, Zenon DEF Decoded
  <2>5. CharacterDecoded(d, k) = [state |-> [step |-> "d", plainchar |-> (v % 4) * 64],
                                  text |-> Append(SubSeq(s, 1, 3 * h + 1), p + v \div 4)]
    <3>1. base64_decode_value(k) = v /\ ~ PassedOver(k)
      BY <1>7, <2>1, ValueOf
    <3>2. Low(v, 2) = v % 4
      BY <2>1 DEF Low
    <3>3. QED
      BY <2>1, <2>3, <2>4, <3>1, <3>2 DEF CharacterDecoded
  <2>6. Append(SubSeq(s, 1, 3 * h + 1), p + v \div 4) = SubSeq(s, 1, 3 * h + 2)
    <3>1. PICK n : n = 3 * h + 1
      OBVIOUS
    <3>2. n \in Nat /\ n < l /\ n + 1 = 3 * h + 2
      BY <1>2, <1>10, <3>1
    <3>3. s[n + 1] = b
      BY <1>1, <1>3, <3>2 DEF ByteAt
    <3>4. Append(SubSeq(s, 1, n), p + v \div 4) = SubSeq(s, 1, n + 1)
      BY <1>1, <2>3, <3>2, <3>3, ByteMore
    <3>5. QED
      BY <3>1, <3>2, <3>4, Zenon
  <2>7. Decoded(s, h, 3) = [state |-> [step |-> "d", plainchar |-> (c \div 64) * 64],
                            text |-> SubSeq(s, 1, 3 * h + 2)]
    <3>1. Rest(s, h, 3) = [step |-> "d", plainchar |-> (c \div 64) * 64]
      BY <1>3 DEF Rest
    <3>2. Whole(h, 3) = 3 * h + 2
      BY DEF Whole
    <3>3. QED
      BY <3>1, <3>2, Zenon DEF Decoded
  <2>8. j # 3 /\ j + 1 = 3
    BY <1>10
  <2>9. QED
    BY <1>5, <1>6, <1>7, <2>3, <2>5, <2>6, <2>7, <2>8, Zenon
<1>11. CASE j = 3
  <2>10. v = c % 64 /\ c \in 0 .. 255
    BY <1>3, <1>5, <1>11, <1>15, SextetD
  <2>1. v \in 0 .. 63 /\ (c \div 64) * 64 + v = c /\ (c \div 64) * 64 \in 0 .. 255
    <3>1. v \in 0 .. 63
      BY <2>10
    <3>2. (c \div 64) * 64 + v = c
      BY <2>10
    <3>3. (c \div 64) * 64 \in 0 .. 255
      BY <2>10
    <3>4. QED
      BY <3>1, <3>2, <3>3
  <2>2. PICK p : p = (c \div 64) * 64
    OBVIOUS
  <2>3. p \in 0 .. 255 /\ p + v = c
    BY <2>1, <2>2, Zenon
  <2>4. d = [state |-> [step |-> "d", plainchar |-> p], text |-> SubSeq(s, 1, 3 * h + 2)]
    <3>1. Rest(s, h, 3) = [step |-> "d", plainchar |-> p]
      BY <1>3, <2>2 DEF Rest
    <3>2. Whole(h, 3) = 3 * h + 2
      BY DEF Whole
    <3>3. QED
      BY <1>6, <1>11, <3>1, <3>2, Zenon DEF Decoded
  <2>5. CharacterDecoded(d, k) = [state |-> [step |-> "a", plainchar |-> 0],
                                  text |-> Append(SubSeq(s, 1, 3 * h + 2), p + v)]
    <3>1. base64_decode_value(k) = v /\ ~ PassedOver(k)
      BY <1>7, <2>1, ValueOf
    <3>3. QED
      BY <2>1, <2>3, <2>4, <3>1 DEF CharacterDecoded
  <2>6. Append(SubSeq(s, 1, 3 * h + 2), p + v) = SubSeq(s, 1, 3 * h + 3)
    <3>1. PICK n : n = 3 * h + 2
      OBVIOUS
    <3>2. n \in Nat /\ n < l /\ n + 1 = 3 * h + 3
      BY <1>2, <1>11, <3>1
    <3>3. s[n + 1] = c
      BY <1>1, <1>3, <3>2 DEF ByteAt
    <3>4. Append(SubSeq(s, 1, n), p + v) = SubSeq(s, 1, n + 1)
      BY <1>1, <2>3, <3>2, <3>3, ByteMore
    <3>5. QED
      BY <3>1, <3>2, <3>4, Zenon
  <2>7. Decoded(s, h + 1, 0) = [state |-> [step |-> "a", plainchar |-> 0],
                                text |-> SubSeq(s, 1, 3 * h + 3)]
    <3>1. Rest(s, h + 1, 0) = [step |-> "a", plainchar |-> 0]
      BY Zenon DEF Rest
    <3>2. Whole(h + 1, 0) = 3 * h + 3
      BY DEF Whole
    <3>3. QED
      BY <3>1, <3>2, Zenon DEF Decoded
  <2>8. QED
    BY <1>5, <1>6, <1>7, <1>11, <2>5, <2>6, <2>7, Zenon
<1>12. j = 0 \/ j = 1 \/ j = 2 \/ j = 3
  OBVIOUS
<1>13. QED
  BY <1>8, <1>9, <1>10, <1>11, <1>12, Zenon


LEMMA Fills ==
  ASSUME NEW s \in Seq(0 .. 255), NEW i \in Nat
  PROVE  Values(s) \in Nat /\ (Filled(s, i) <=> i < Values(s))
<1>1. PICK l \in Nat : l = Len(s)
  BY LenProperties
<1>2. PICK v : v = (4 * l + 2) \div 3
  OBVIOUS
<1>3. v \in Nat /\ 3 * v <= 4 * l + 2 /\ 4 * l + 2 < 3 * v + 3
  BY <1>2
<1>4. 6 * i < 8 * l <=> i < v
  BY <1>3
<1>5. Values(s) = v /\ (Filled(s, i) <=> 6 * i < 8 * l)
  BY <1>1, <1>2, Zenon DEF Values, Filled
<1>6. QED
  BY <1>3, <1>4, <1>5, Zenon

LEMMA NextPlace ==
  ASSUME CodeAssumption, NEW r \in Nat, NEW k, k = r + 1
  PROVE  \E x \in Nat :
            /\ x = r \div WLine /\ x <= r
            /\ k % WLine = 0 => k \div WLine = x + 1
            /\ k % WLine # 0 => k \div WLine = x
<1>1. PICK w : w = WLine
  OBVIOUS
<1>2. w \in Nat /\ w > 1
  BY <1>1, LineFacts
<1>3. PICK x \in Nat, t \in Nat : x = r \div w /\ r = w * x + t /\ t < w
  BY <1>2, DivMod
<1>4. PICK y : y = w * x
  OBVIOUS
<1>5. y \in Nat /\ y >= x
  BY <1>2, <1>4
<1>6. r = y + t
  BY <1>3, <1>4
<1>10. x \in Nat /\ x = r \div WLine /\ x <= r
  <2>3. x \in Nat /\ t \in Nat
    BY <1>3
  <2>1. x <= r
    BY <1>5, <1>6, <2>3
  <2>2. QED
    BY <1>1, <1>3, <2>1, Zenon
<1>7. CASE t + 1 = w
  <2>1. PICK z : z = x + 1
    OBVIOUS
  <2>2. z \in Nat /\ w * z = y + w
    BY <1>2, <1>4, <2>1
  <2>3. k = w * z + 0 /\ k \in Nat
    BY <1>2, <1>5, <1>6, <1>7, <2>2
  <2>4. k \div w = z /\ k % w = 0
    BY <1>2, <2>2, <2>3, DivIs
  <2>5. k % WLine = 0 /\ k \div WLine = x + 1
    BY <1>1, <2>1, <2>4, Zenon
  <2>6. QED
    BY <1>10, <2>5, Zenon
<1>8. CASE t + 1 # w
  <2>1. PICK z : z = t + 1
    OBVIOUS
  <2>2. z \in Nat /\ z < w /\ z # 0
    BY <1>2, <1>3, <1>8, <2>1
  <2>3. k = w * x + z /\ k \in Nat
    BY <1>4, <1>5, <1>6, <2>1
  <2>4. k \div w = x /\ k % w = z
    BY <1>2, <2>2, <2>3, DivIs
  <2>5. k % WLine # 0 /\ k \div WLine = x
    BY <1>1, <2>2, <2>4, Zenon
  <2>6. QED
    BY <1>10, <2>5, Zenon
<1>9. QED
  BY <1>7, <1>8

\* The next character, whatever it is.
LEMMA NextDecoded ==
  ASSUME CodeAssumption, NEW s \in Seq(0 .. 255), NEW r \in Nat, NEW k, k = r + 1
  PROVE  CharacterDecoded(DecodedOf(s, r), MeantAt(s, k)) = DecodedOf(s, k)
<1>1. PICK x \in Nat :
        /\ x = r \div WLine /\ x <= r
        /\ k % WLine = 0 => k \div WLine = x + 1
        /\ k % WLine # 0 => k \div WLine = x
  BY NextPlace, SMTT(30)
<1>2. PICK i : i = r - x
  OBVIOUS
<1>3. i \in Nat /\ r - r \div WLine = i
  BY <1>1, <1>2
<1>4. PICK v \in Nat : v = Values(s)
  BY <1>3, Fills
<1>5. Filled(s, i) <=> i < v
  BY <1>3, <1>4, Fills
<1>6. Taken(s, r) = IF i <= v THEN i ELSE v
  BY <1>3, <1>4, Zenon DEF Taken
<1>7. CASE k % WLine = 0
  <2>1. k - k \div WLine = i
    BY <1>1, <1>2, <1>7
  <2>2. Taken(s, k) = Taken(s, r)
    BY <1>3, <2>1, Zenon DEF Taken
  <2>3. MeantAt(s, k) = NewLine
    BY <1>7, Zenon DEF MeantAt
  <2>4. QED
    BY <2>2, <2>3, NoneTaken, Zenon DEF DecodedOf
<1>8. CASE k % WLine # 0
  <2>1. k - k \div WLine = i + 1 /\ k - 1 - k \div WLine = i
    BY <1>1, <1>2, <1>8
  <2>2. MeantAt(s, k) = Meant(s, i)
    BY <1>8, <2>1, Zenon DEF MeantAt
  <2>3. Taken(s, k) = IF i + 1 <= v THEN i + 1 ELSE v
    BY <1>4, <2>1, Zenon DEF Taken
  <2>4. CASE i < v
    <3>1. Taken(s, r) = i /\ Taken(s, k) = i + 1
      BY <1>3, <1>6, <2>3, <2>4
    <3>2. MeantAt(s, k) = base64_encode_value(Sextet(s, i))
      BY <1>5, <2>2, <2>4, Zenon DEF Meant, Filled
    <3>3. PICK h \in Nat, j \in Nat : h = i \div 4 /\ j = i % 4 /\ i = 4 * h + j /\ j < 4
      BY <1>3, DivMod
    <3>4. j \in 0 .. 3 /\ Filled(s, 4 * h + j)
      BY <1>5, <2>4, <3>3
    <3>5. PICK d2 : d2 = CharacterDecoded(Decoded(s, h, j), base64_encode_value(Sextet(s, 4 * h + j)))
      OBVIOUS
    <3>6. /\ j # 3 => d2 = Decoded(s, h, j + 1)
          /\ j = 3 => d2 = Decoded(s, h + 1, 0)
      BY <3>3, <3>4, <3>5, OneTaken, Zenon
    <3>7. CharacterDecoded(DecodedOf(s, r), MeantAt(s, k)) = d2
      BY <3>1, <3>2, <3>3, <3>5, Zenon DEF DecodedOf
    <3>8. DecodedOf(s, k) = Decoded(s, (i + 1) \div 4, (i + 1) % 4)
      BY <3>1, Zenon DEF DecodedOf
    <3>9. CASE j # 3
      <4>1. (i + 1) \div 4 = h /\ (i + 1) % 4 = j + 1
        BY <3>3, <3>9
      <4>2. QED
        BY <3>6, <3>7, <3>8, <3>9, <4>1, Zenon
    <3>10. CASE j = 3
      <4>1. (i + 1) \div 4 = h + 1 /\ (i + 1) % 4 = 0
        BY <3>3, <3>10
      <4>2. QED
        BY <3>6, <3>7, <3>8, <3>10, <4>1, Zenon
    <3>11. QED
      BY <3>9, <3>10
  <2>5. CASE ~ (i < v)
    <3>1. Taken(s, r) = v /\ Taken(s, k) = v
      BY <1>3, <1>6, <2>3, <2>5
    <3>2. MeantAt(s, k) = Pad
      BY <1>5, <2>2, <2>5, Zenon DEF Meant, Filled
    <3>3. QED
      BY <3>1, <3>2, NoneTaken, Zenon DEF DecodedOf
  <2>6. QED
    BY <2>4, <2>5
<1>9. QED
  BY <1>7, <1>8

\* f decodes the piece's characters from d on, up to the m-th.
Decodes(f, d, piece, m) ==
    f = [i \in 0 .. m |-> IF i = 0 THEN d ELSE CharacterDecoded(f[i - 1], piece[i])]

LEMMA DecodingExists ==
  ASSUME NEW d, NEW piece, NEW n \in Nat
  PROVE  \E f : Decodes(f, d, piece, n)
<1> DEFINE S == {m \in Nat : ~ \E f : Decodes(f, d, piece, m)}
<1>1. SUFFICES ASSUME S # {} PROVE FALSE
  OBVIOUS
<1>2. PICK m \in S : \A k \in S : m <= k
  BY <1>1, LeastPlace
<1>3. m \in Nat /\ ~ \E f : Decodes(f, d, piece, m)
  OBVIOUS
<1>4. m # 0
  <2>1. PICK f : f = [i \in 0 .. 0 |-> d]
    OBVIOUS
  <2>2. 0 .. 0 = {0}
    OBVIOUS
  <2>3. Decodes(f, d, piece, 0)
    BY <2>1, <2>2 DEF Decodes
  <2>4. QED
    BY <1>3, <2>3
<1>5. m - 1 \in Nat /\ m - 1 \notin S
  BY <1>2, <1>3, <1>4
<1>6. PICK f : Decodes(f, d, piece, m - 1)
  BY <1>5
<1>7. PICK g : g = [i \in 0 .. m |-> IF i = 0 THEN d ELSE CharacterDecoded(f[i - 1], piece[i])]
  OBVIOUS
<1>8. \A i \in 0 .. m - 1 : g[i] = f[i]
  BY <1>3, <1>6, <1>7 DEF Decodes
<1>9. g = [i \in 0 .. m |-> IF i = 0 THEN d ELSE CharacterDecoded(g[i - 1], piece[i])]
  <2>1. \A i \in 0 .. m : i # 0 => g[i - 1] = f[i - 1]
    BY <1>3, <1>8
  <2>2. QED
    BY <1>7, <2>1
<1>10. QED
  BY <1>3, <1>9 DEF Decodes

LEMMA CharactersAre ==
  ASSUME NEW d, NEW piece, Len(piece) \in Nat
  PROVE  \E f : Decodes(f, d, piece, Len(piece)) /\ CharactersDecoded(d, piece) = f[Len(piece)]
<1>1. PICK f : f = CHOOSE h : h = [i \in 0 .. Len(piece) |->
                                     IF i = 0 THEN d ELSE CharacterDecoded(h[i - 1], piece[i])]
  OBVIOUS
<1>2. \E h : h = [i \in 0 .. Len(piece) |-> IF i = 0 THEN d ELSE CharacterDecoded(h[i - 1], piece[i])]
  <2>1. PICK h : Decodes(h, d, piece, Len(piece))
    BY DecodingExists
  <2>2. QED
    BY <2>1, Zenon DEF Decodes
<1>3. f = [i \in 0 .. Len(piece) |-> IF i = 0 THEN d ELSE CharacterDecoded(f[i - 1], piece[i])]
  BY <1>1, <1>2, Zenon
<1>4. CharactersDecoded(d, piece) = f[Len(piece)]
  BY <1>1, Zenon DEF CharactersDecoded
<1>5. QED
  BY <1>3, <1>4 DEF Decodes

LEMMA PieceDecoded ==
  ASSUME CodeAssumption, NEW s \in Seq(0 .. 255), NEW r \in Nat, NEW piece, NEW n \in Nat, Len(piece) = n,
         \A k \in 1 .. n : piece[k] = MeantAt(s, r + k)
  PROVE  CharactersDecoded(DecodedOf(s, r), piece) = DecodedOf(s, r + n)
<1>1. PICK f : Decodes(f, DecodedOf(s, r), piece, n) /\ CharactersDecoded(DecodedOf(s, r), piece) = f[n]
  BY CharactersAre
<1> DEFINE S == {m \in Nat : m <= n /\ f[m] # DecodedOf(s, r + m)}
<1>2. S = {}
  <2>1. SUFFICES ASSUME S # {} PROVE FALSE
    OBVIOUS
  <2>2. PICK m \in S : \A k \in S : m <= k
    BY <2>1, LeastPlace
  <2>3. m \in Nat /\ m <= n /\ f[m] # DecodedOf(s, r + m)
    OBVIOUS
  <2>4. m # 0
    <3>1. f[0] = DecodedOf(s, r) /\ r + 0 = r
      BY <1>1 DEF Decodes
    <3>2. QED
      BY <2>3, <3>1
  <2>5. m - 1 \in Nat /\ m - 1 <= n /\ ~ (m <= m - 1)
    BY <2>3, <2>4
  <2>6. m - 1 \notin S
    BY <2>2, <2>5, Zenon
  <2>7. f[m - 1] = DecodedOf(s, r + (m - 1))
    BY <2>5, <2>6
  <2>8. f[m] = CharacterDecoded(f[m - 1], piece[m])
    <3>1. f = [i \in 0 .. n |-> IF i = 0 THEN DecodedOf(s, r) ELSE CharacterDecoded(f[i - 1], piece[i])]
      BY <1>1, Zenon DEF Decodes
    <3>2. m \in 0 .. n
      BY <2>3
    <3>3. QED
      BY <2>4, <3>1, <3>2, Zenon
  <2>9. PICK r1, k : r1 = r + (m - 1) /\ k = r + m
    OBVIOUS
  <2>10. r1 \in Nat /\ k = r1 + 1 /\ m \in 1 .. n
    BY <2>3, <2>4, <2>9
  <2>11. piece[m] = MeantAt(s, k)
    BY <2>9, <2>10
  <2>12. CharacterDecoded(DecodedOf(s, r1), MeantAt(s, k)) = DecodedOf(s, k)
    BY <2>10, NextDecoded
  <2>13. QED
    BY <2>3, <2>7, <2>8, <2>9, <2>11, <2>12, Zenon
<1>3. n \in Nat /\ n <= n /\ n \notin S
  <2>1. n <= n
    OBVIOUS
  <2>2. n \notin S
    BY <1>2, Zenon
  <2>3. QED
    BY <2>1, <2>2
<1>4. f[n] = DecodedOf(s, r + n)
  BY <1>3, Zenon
<1>5. QED
  BY <1>1, <1>4, Zenon


LEMMA LineEnds ==
  ASSUME NEW n \in Nat, NEW p \in Nat, p >= 5
  PROVE  n \div (3 * p) <= n \div 15
<1> DEFINE q == n \div (3 * p)
<1>1. 3 * p \in Nat /\ 3 * p >= 15  OBVIOUS
<1>2. q \in Nat /\ q * (3 * p) <= n  BY <1>1
<1>3. q * 15 <= q * (3 * p)  BY <1>1, <1>2
<1>4. q * 15 <= n  BY <1>1, <1>2, <1>3
<1> QED  BY <1>2, <1>4

(* The buffer of base64_encode() is large enough for a text of any length  *)
(* but one, two, four and seven: for the code in full lines and its zero.  *)
THEOREM BufferHolds ==
  ASSUME NEW n \in Nat, n \notin {1, 2, 4, 7}, CodeAssumption, CHARS_PER_LINE >= 20
  PROVE  TextSize(n) <= BufferSize(n)
<1>1. PerLine \in Nat /\ PerLine >= 5
  BY LineFacts
<1>2. n \div (3 * PerLine) <= n \div 15
  BY <1>1, LineEnds
<1>3. n \div (3 * PerLine) \in Nat
  BY <1>1
<1>4. 4 * ((n + 2) \div 3) + n \div 15 + 1 <= (n * 16) \div 10 + 1
  OBVIOUS
<1>5. QED
  BY <1>2, <1>3, <1>4 DEF TextSize, BufferSize

CodeInv ==
    /\ plain \in Seq(0 .. 255) /\ ended \in BOOLEAN /\ read \in Nat
    /\ ~ ended => Coded([state |-> state_in, code |-> code], plain) /\ read = 0
    /\ ended => code = CodeOf(plain) /\ read <= CodeSize(plain)
    /\ [state |-> decoder, text |-> text] = DecodedOf(plain, read)

LEMMA SizeNat ==
  ASSUME CodeAssumption, NEW s \in Seq(0 .. 255)
  PROVE  /\ CodeSize(s) \in Nat /\ Len(CodeOf(s)) = CodeSize(s)
         /\ CodeSize(s) + 1 = TextSize(Len(s))
         /\ CodeSize(s) - CodeSize(s) \div WLine >= Values(s)
<1>1. Len(s) \in Nat
  BY LenProperties
<1>2. PICK g \in Nat, e \in 0 .. 2, q \in Nat, c \in Nat :
        /\ g = Len(s) \div 3 /\ e = Len(s) % 3 /\ Len(s) = 3 * g + e
        /\ q = g \div PerLine /\ c = g % PerLine /\ Placed(g, q, c)
  BY <1>1, Lengths
<1>3. Len(s) = 3 * g + e /\ Placed(g, q, c)
  BY <1>2
<1>4. /\ e = 0 => CodeSize(s) = 4 * g + q
      /\ e # 0 => CodeSize(s) = 4 * g + q + 4
      /\ CodeSize(s) + 1 = TextSize(Len(s))
  BY <1>3, SizeIs
<1>5. PICK k : k = CodeSize(s)
  OBVIOUS
<1>6. k \in Nat /\ (e = 0 => k = 4 * g + q + 0) /\ (e # 0 => k = 4 * g + q + 4)
  BY <1>4, <1>5
<1>7. Len([i \in 1 .. k |-> IF i % (CHARS_PER_LINE + 1) = 0 THEN NewLine
                            ELSE Meant(s, i - 1 - i \div (CHARS_PER_LINE + 1))]) = k
  BY <1>6
<1>8. Len(CodeOf(s)) = k
  BY <1>5, <1>7, Zenon DEF CodeOf
<1>9. PICK l, v : l = Len(s) /\ v = (4 * l + 2) \div 3
  OBVIOUS
<1>10. l = 3 * g + e
  BY <1>3, <1>9
<1>11. (e = 0 => v <= 4 * g) /\ v <= 4 * g + 4
  BY <1>9, <1>10
<1>12. v = Values(s)
  BY <1>9, Zenon DEF Values
<1>13. CASE e = 0
  <2>1. k = 4 * g + q /\ k \in Nat /\ 4 * g + q <= k /\ k <= 4 * g + q + 4
    BY <1>6, <1>13
  <2>5. k \div WLine = q
    BY <1>3, <2>1, InLine
  <2>2. k - k \div WLine = 4 * g + 0
    BY <2>1, <2>5
  <2>3. k - k \div WLine >= v
    BY <1>11, <1>13, <2>2
  <2>4. QED
    BY <1>4, <1>5, <1>6, <1>8, <1>12, <2>3, Zenon
<1>14. CASE e # 0
  <2>1. k = 4 * g + q + 4 /\ k \in Nat /\ 4 * g + q <= k /\ k <= 4 * g + q + 4
    BY <1>6, <1>14
  <2>5. k \div WLine = q
    BY <1>3, <2>1, InLine
  <2>2. k - k \div WLine = 4 * g + 4
    BY <2>1, <2>5
  <2>3. k - k \div WLine >= v
    BY <1>11, <2>2
  <2>4. QED
    BY <1>4, <1>5, <1>6, <1>8, <1>12, <2>3, Zenon
<1>15. QED
  BY <1>13, <1>14

\* Before the first character there is nothing.
LEMMA NoneRead ==
  ASSUME CodeAssumption, NEW s \in Seq(0 .. 255)
  PROVE  DecodedOf(s, 0) = [state |-> base64_init_decodestate, text |-> <<>>]
<1>1. PICK w : w = WLine
  OBVIOUS
<1>2. w \in Nat /\ w > 0
  BY <1>1, LineFacts
<1>3. 0 \div w = 0
  BY <1>2
<1>4. 0 - 0 \div WLine = 0
  BY <1>1, <1>3
<1>5. Values(s) \in Nat
  BY Fills
<1>6. Taken(s, 0) = 0
  BY <1>4, <1>5 DEF Taken
<1>7. 0 \div 4 = 0 /\ 0 % 4 = 0
  OBVIOUS
<1>8. Whole(0, 0) = 0
  BY DEF Whole
<1>9. SubSeq(s, 1, 0) = <<>>
  OBVIOUS
<1>10. Rest(s, 0, 0) = base64_init_decodestate
  BY Zenon DEF Rest, base64_init_decodestate
<1>11. QED
  BY <1>6, <1>7, <1>8, <1>9, <1>10, Zenon DEF DecodedOf, Decoded

\* What was decoded begins the text; at the end it is the text.
LEMMA DecodedText ==
  ASSUME NEW s \in Seq(0 .. 255), NEW r \in Nat, r - r \div WLine \in Nat
  PROVE  /\ DecodedOf(s, r).text = SubSeq(s, 1, Len(DecodedOf(s, r).text))
         /\ r - r \div WLine >= Values(s) => DecodedOf(s, r).text = s
<1>1. PICK l \in Nat : l = Len(s)
  BY LenProperties
<1>2. PICK v : v = (4 * l + 2) \div 3
  OBVIOUS
<1>3. v \in Nat /\ 3 * v <= 4 * l + 2 /\ 4 * l + 2 < 3 * v + 3
  BY <1>2
<1>4. Values(s) = v
  BY <1>1, <1>2, Zenon DEF Values
<1>5. PICK m : m = Taken(s, r)
  OBVIOUS
<1>6. m \in Nat /\ m <= v /\ (r - r \div WLine >= v => m = v)
  BY <1>3, <1>4, <1>5 DEF Taken
<1>7. PICK h \in Nat, j \in Nat : h = m \div 4 /\ j = m % 4 /\ m = 4 * h + j /\ j < 4
  BY <1>6, DivMod
<1>8. PICK n : n = Whole(h, j)
  OBVIOUS
<1>9. n = IF j = 0 THEN 3 * h ELSE 3 * h + j - 1
  BY <1>8, Zenon DEF Whole
<1>10. n \in Nat /\ n <= l /\ (m = v => n = l)
  BY <1>3, <1>6, <1>7, <1>9
<1>11. DecodedOf(s, r).text = SubSeq(s, 1, n)
  BY <1>5, <1>7, <1>8 DEF DecodedOf, Decoded
<1>12. Len(SubSeq(s, 1, n)) = n /\ (n = l => SubSeq(s, 1, n) = s)
  BY <1>1, <1>10
<1>13. QED
  BY <1>4, <1>6, <1>10, <1>11, <1>12, Zenon

LEMMA CodeInvAgrees ==
  ASSUME CodeAssumption, CodeInv
  PROVE  CodesAgree
<1>1. plain \in Seq(0 .. 255) /\ ended \in BOOLEAN /\ read \in Nat
  BY DEF CodeInv
<1>2. [state |-> decoder, text |-> text] = DecodedOf(plain, read)
  BY DEF CodeInv
<1>3. text = DecodedOf(plain, read).text
  BY <1>2
<1>4. read - read \div WLine \in Nat
  BY <1>1, FewerCharacters
<1>5. text = SubSeq(plain, 1, Len(text))
  BY <1>1, <1>3, <1>4, DecodedText
<1>6. ended => code = CodeOf(plain)
  BY DEF CodeInv
<1>7. /\ CodeSize(plain) \in Nat /\ Len(CodeOf(plain)) = CodeSize(plain)
      /\ CodeSize(plain) + 1 = TextSize(Len(plain))
      /\ CodeSize(plain) - CodeSize(plain) \div WLine >= Values(plain)
  BY <1>1, SizeNat
<1>8. ended => Len(code) + 1 = TextSize(Len(plain))
  BY <1>6, <1>7
<1>9. ASSUME ended, read = Len(code) PROVE text = plain
  <2>1. read = CodeSize(plain)
    BY <1>6, <1>7, <1>9
  <2>2. read - read \div WLine >= Values(plain)
    BY <1>7, <2>1, Zenon
  <2>3. QED
    BY <1>1, <1>3, <1>4, <2>2, DecodedText
<1>10. Len(plain) \in Nat
  BY <1>1, LenProperties
<1>11. CHARS_PER_LINE >= 20 /\ Len(plain) \notin {1, 2, 4, 7} =>
         TextSize(Len(plain)) <= BufferSize(Len(plain))
  BY <1>10, BufferHolds
<1>12. QED
  BY <1>5, <1>6, <1>8, <1>9, <1>11, Zenon DEF CodesAgree

LEMMA CodeStarts ==
  ASSUME CodeAssumption, CodeInit
  PROVE  CodeInv
<1>1. plain \in Seq(0 .. 255) /\ ended = FALSE /\ read = 0 /\ plain = <<>>
  BY DEF CodeInit
<1>2. [state |-> decoder, text |-> text] = DecodedOf(plain, read)
  BY <1>1, NoneRead, Zenon DEF CodeInit
<1>3. Coded([state |-> state_in, code |-> code], plain)
  <2>1. PICK x : x = [state |-> state_in, code |-> code]
    OBVIOUS
  <2>2. x.state = [step |-> "A", result |-> 0, stepcount |-> 0] /\ x.code = <<>>
    BY <2>1 DEF CodeInit, base64_init_encodestate
  <2>3. Len(plain) \div 3 = 0 /\ Len(plain) % 3 = 0
    BY <1>1
  <2>4. 0 % PerLine = 0 /\ 0 \div PerLine = 0
    <3>1. PerLine \in Nat \ {0}
      BY LineFacts
    <3>2. QED
      BY <3>1
  <2>5. Written(x.code, 0, plain)
    BY <2>2 DEF Written
  <2>6. 4 * 0 + 0 + 0 = 0
    OBVIOUS
  <2>7. CodedAs(x, plain, 0, 0, 0, 0)
    BY <2>2, <2>5, <2>6 DEF CodedAs
  <2>8. QED
    BY <2>1, <2>3, <2>4, <2>7, Zenon DEF Coded
<1>4. QED
  BY <1>1, <1>2, <1>3 DEF CodeInv

LEMMA PiecesAre ==
  ASSUME CodeAssumption, NEW piece \in Pieces
  PROVE  piece \in Seq(0 .. 255)
<1>1. PICK n \in 1 .. MaxPiece : piece \in [1 .. n -> Byte]
  BY DEF Pieces
<1>2. n \in Nat /\ Byte \subseteq 0 .. 255
  BY DEF CodeAssumption
<1>3. piece \in [1 .. n -> 0 .. 255]
  BY <1>1, <1>2
<1>4. QED
  BY <1>2, <1>3

LEMMA CodeStep ==
  ASSUME CodeAssumption, CodeInv, [CodeNext]_codeVars
  PROVE  CodeInv'
<1>1. plain \in Seq(0 .. 255) /\ ended \in BOOLEAN /\ read \in Nat
  BY DEF CodeInv
<1>2. [state |-> decoder, text |-> text] = DecodedOf(plain, read)
  BY DEF CodeInv
<1>3. ASSUME NEW piece \in Pieces, base64_encode_block(piece)
      PROVE  CodeInv'
  <2>1. ~ ended /\ ended' = ended /\ read' = read /\ decoder' = decoder /\ text' = text
    BY <1>3 DEF base64_encode_block
  <2>2. PICK x, y : x = [state |-> state_in, code |-> code] /\ y = BytesEncoded(x, piece)
    OBVIOUS
  <2>3. state_in' = y.state /\ code' = y.code /\ plain' = plain \o piece
    BY <1>3, <2>2, Zenon DEF base64_encode_block
  <2>4. piece \in Seq(0 .. 255)
    BY PiecesAre
  <2>5. Coded(x, plain) /\ read = 0
    BY <2>1, <2>2, Zenon DEF CodeInv
  <2>6. Coded(y, plain')
    BY <1>1, <2>2, <2>3, <2>4, <2>5, PieceCoded, Zenon
  <2>7. Coded([state |-> state_in', code |-> code'], plain')
    <3>1. PICK z : z = [state |-> state_in', code |-> code']
      OBVIOUS
    <3>2. z.state = y.state /\ z.code = y.code
      BY <2>3, <3>1
    <3>3. QED
      BY <2>6, <3>1, <3>2, Zenon DEF Coded, CodedAs
  <2>8. plain' \in Seq(0 .. 255)
    BY <1>1, <2>3, <2>4
  <2>9. [state |-> decoder', text |-> text'] = DecodedOf(plain', read')
    <3>1. DecodedOf(plain, 0) = DecodedOf(plain', 0)
      BY <1>1, <2>8, NoneRead
    <3>2. QED
      BY <1>2, <2>1, <2>5, <3>1, Zenon
  <2>10. QED
    BY <1>1, <2>1, <2>5, <2>7, <2>8, <2>9, Zenon DEF CodeInv
<1>4. ASSUME base64_encode_blockend
      PROVE  CodeInv'
  <2>1. /\ ~ ended /\ ended' = TRUE /\ plain' = plain /\ read' = read
        /\ decoder' = decoder /\ text' = text
    BY <1>4 DEF base64_encode_blockend
  <2>2. PICK x : x = [state |-> state_in, code |-> code]
    OBVIOUS
  <2>3. Coded(x, plain) /\ read = 0
    BY <2>1, <2>2, Zenon DEF CodeInv
  <2>4. PICK rest : rest = CASE x.state.step = "A" -> <<>>
                            [] x.state.step = "B" -> <<base64_encode_value(x.state.result), Pad, Pad>>
                            [] x.state.step = "C" -> <<base64_encode_value(x.state.result), Pad>>
    OBVIOUS
  <2>5. MeantFor(x.code \o rest, CodeSize(plain), plain)
    BY <1>1, <2>3, <2>4, CodeEnds, Zenon
  <2>6. x.state = state_in /\ x.code = code
    BY <2>2
  <2>7. code' = x.code \o rest
    BY <1>4, <2>4, <2>6, Zenon DEF base64_encode_blockend
  <2>8. code' = CodeOf(plain)
    BY <2>5, <2>7, MeantIsCode, Zenon
  <2>9. read <= CodeSize(plain)
    <3>1. CodeSize(plain) \in Nat
      BY <1>1, SizeNat
    <3>2. QED
      BY <2>3, <3>1
  <2>10. QED
    BY <1>1, <1>2, <2>1, <2>8, <2>9, Zenon DEF CodeInv
<1>5. ASSUME NEW n \in 1 .. MaxPiece, base64_decode_block(n)
      PROVE  CodeInv'
  <2>1. /\ ended /\ ended' = ended /\ plain' = plain /\ code' = code /\ read' = read + n
        /\ n \in 1 .. (Len(code) - read)
    BY <1>5 DEF base64_decode_block
  <2>2. code = CodeOf(plain) /\ read <= CodeSize(plain)
    BY <2>1 DEF CodeInv
  <2>3. CodeSize(plain) \in Nat /\ Len(CodeOf(plain)) = CodeSize(plain)
    BY <1>1, SizeNat
  <2>4. PICK m : m = CodeSize(plain)
    OBVIOUS
  <2>5. m \in Nat /\ Len(code) = m /\ n \in Nat /\ n >= 1 /\ read + n <= m
    BY <1>1, <2>1, <2>2, <2>3, <2>4
  <2>6. PICK piece : piece = SubSeq(code, read + 1, read + n)
    OBVIOUS
  <2>7. \A k \in 1 .. m : code[k] = MeantAt(plain, k)
    BY <2>2, <2>4, Zenon DEF CodeOf, MeantAt, WLine
  <2>8. Len(piece) = n /\ \A k \in 1 .. n : piece[k] = code[read + k]
    BY <1>1, <2>5, <2>6
  <2>9. \A k \in 1 .. n : piece[k] = MeantAt(plain, read + k)
    <3>1. \A k \in 1 .. n : read + k \in 1 .. m
      BY <1>1, <2>5
    <3>2. QED
      BY <2>7, <2>8, <3>1, Zenon
  <2>10. PICK d : d = CharactersDecoded(DecodedOf(plain, read), piece)
    OBVIOUS
  <2>11. d = DecodedOf(plain, read + n)
    <3>1. n \in Nat /\ Len(piece) = n
      BY <2>5, <2>8
    <3>2. CharactersDecoded(DecodedOf(plain, read), piece) = DecodedOf(plain, read + n)
      BY <1>1, <2>9, <3>1, PieceDecoded
    <3>3. QED
      BY <2>10, <3>2, Zenon
  <2>12. decoder' = d.state /\ text' = d.text
    BY <1>2, <1>5, <2>6, <2>10, Zenon DEF base64_decode_block
  <2>13. [state |-> decoder', text |-> text'] = d
    BY <2>11, <2>12 DEF DecodedOf, Decoded
  <2>14. read + n \in Nat
    BY <1>1, <2>5
  <2>15. QED
    BY <1>1, <2>1, <2>2, <2>4, <2>5, <2>11, <2>13, <2>14, Zenon DEF CodeInv
<1>6. CASE UNCHANGED codeVars
  BY <1>6, Zenon DEF CodeInv, codeVars
<1>7. CASE CodeNext
  <2>1. CASE \E piece \in Pieces :
               Len(plain) + Len(piece) <= MaxBytes /\ base64_encode_block(piece)
    BY <1>3, <2>1, Zenon
  <2>2. CASE base64_encode_blockend
    BY <1>4, <2>2, Zenon
  <2>3. CASE \E n \in 1 .. MaxPiece : base64_decode_block(n)
    BY <1>5, <2>3, Zenon
  <2>4. QED
    BY <1>7, <2>1, <2>2, <2>3, Zenon DEF CodeNext
<1>8. QED
  BY <1>6, <1>7

(* For any bytes, texts and pieces of any length and lines of any length:  *)
(* however the text and its code are cut, the code is the one base64 gives *)
(* to the whole text, and decoding gives the text back.                    *)
THEOREM CodesCorrect ==
  ASSUME CodeAssumption
  PROVE  CodeSpec => []CodesAgree
<1>1. CodeInit => CodeInv
  BY CodeStarts
<1>2. CodeInv /\ [CodeNext]_codeVars => CodeInv'
  BY CodeStep
<1>3. CodeInv => CodesAgree
  BY CodeInvAgrees
<1>4. QED
  BY <1>1, <1>2, <1>3, PTL DEF CodeSpec
=============================================================================
