------------------------ MODULE ClientRoutingProofs -------------------------
(***************************************************************************)
(* Proofs about ClientRouting, for any number of slots, any set of devices *)
(* and any messages they may send.                                         *)
(***************************************************************************)
EXTENDS ClientRouting, FiniteSetTheorems, TLAPS

-----------------------------------------------------------------------------
\* Erasing the clients that are registered leaves an empty list.
LEMMA UnregisterFirst ==
  ASSUME NEW a, NEW b, a # b
  PROVE  /\ Unregister(<<a, b>>, a) = <<b>>
         /\ Unregister(<<b>>, b) = << >>
<1>1. Unregister(<<b>>, b) = << >>
  <2>1. (CHOOSE k \in DOMAIN <<b>> :
           <<b>>[k] = b /\ \A j \in 1 .. k - 1 : <<b>>[j] # b) = 1
    OBVIOUS
  <2>2. Unregister(<<b>>, b) =
          [j \in 1 .. 0 |-> IF j < 1 THEN <<b>>[j] ELSE <<b>>[j + 1]]
    BY <2>1 DEF Unregister
  <2>3. QED
    BY <2>2
<1>2. Unregister(<<a, b>>, a) = <<b>>
  <2>1. (CHOOSE k \in DOMAIN <<a, b>> :
           <<a, b>>[k] = a /\ \A j \in 1 .. k - 1 : <<a, b>>[j] # a) = 1
    OBVIOUS
  <2>2. Unregister(<<a, b>>, a) =
          [j \in 1 .. 1 |-> IF j < 1 THEN <<a, b>>[j] ELSE <<a, b>>[j + 1]]
    BY <2>1 DEF Unregister
  <2>3. QED
    BY <2>2
<1>3. QED
  BY <1>1, <1>2

\* After a pairing round, completed or failed, the clients of the mode are
\* registered, once each, and the counter agrees.
THEOREM RegistrationCorrect == Spec => []RegistrationMatchesMode
<1>1. Init => RegistrationMatchesMode
  BY DEF Init, RegistrationMatchesMode, UserClients
<1>2. ASSUME RegistrationMatchesMode, [Next]_vars
      PROVE  RegistrationMatchesMode'
  <2> USE <1>2
  <2>1. CASE UNCHANGED <<registered, idCounter, mode>>
    BY <2>1 DEF RegistrationMatchesMode
  <2>2. ASSUME NEW ok \in BOOLEAN, Pair(ok)
        PROVE  RegistrationMatchesMode'
    <3>1. registered = UserClients /\ idCounter = 2
      BY <2>2 DEF Pair, RegistrationMatchesMode, UserClients
    <3> DEFINE left == Unregister(Unregister(registered, "visualscope"),
                                  "audiocrack")
    <3>2. left = << >>
      <4>1. "visualscope" # "audiocrack"
        OBVIOUS
      <4>2. Unregister(UserClients, "visualscope") = <<"audiocrack">>
        BY <4>1, UnregisterFirst DEF UserClients
      <4>3. Unregister(<<"audiocrack">>, "audiocrack") = << >>
        BY <4>1, UnregisterFirst
      <4>4. QED
        BY <3>1, <4>2, <4>3
    <3> HIDE DEF left
    <3>a. /\ registered' = left \o (IF ok THEN <<"generic">> ELSE UserClients)
          /\ idCounter' = idCounter - (Len(registered) - Len(left))
                            + Len(IF ok THEN <<"generic">> ELSE UserClients)
      BY <2>2 DEF Pair, Reregister, left
    <3>3. /\ registered' = IF ok THEN <<"generic">> ELSE UserClients
          /\ idCounter' = IF ok THEN 1 ELSE 2
      BY <3>1, <3>2, <3>a DEF UserClients
    <3>4. QED
      BY <2>2, <3>3 DEF Pair, RegistrationMatchesMode, UserClients
  <2>3. ASSUME NEW ok \in BOOLEAN, PairEnd(ok)
        PROVE  RegistrationMatchesMode'
    <3>1. registered = <<"generic">> /\ idCounter = 1
      BY <2>3 DEF PairEnd, RegistrationMatchesMode
    <3>2. Unregister(registered, "generic") = << >>
      <4>1. "none" # "generic"
        OBVIOUS
      <4>2. QED
        BY <3>1, <4>1, UnregisterFirst
    <3>a. /\ registered' = << >> \o UserClients
          /\ idCounter' = idCounter - (Len(registered) - 0) + Len(UserClients)
      BY <2>3, <3>2 DEF PairEnd, Reregister
    <3>3. registered' = UserClients /\ idCounter' = 2
      BY <3>1, <3>a DEF UserClients
    <3>4. QED
      BY <2>3, <3>3 DEF PairEnd, RegistrationMatchesMode, UserClients
  <2>4. QED
    <3>1. CASE Environment
      BY <2>1, <3>1 DEF Environment, Dial, SendHeader, SendText, SendClose,
                        LoseTcp, Put, app
    <3>2. CASE SocketLoop
      BY <2>1, <3>2 DEF SocketLoop, Accept, AcceptDone, Skip, ReadControl,
                        ReadText, app
    <3>3. CASE AppStep
      BY <2>1, <2>2, <2>3, <3>3 DEF AppStep, Idle, Push, Stop, Configure, app
    <3>4. CASE UNCHANGED vars
      BY <2>1, <3>4 DEF vars, app
    <3>5. QED
      BY <3>1, <3>2, <3>3, <3>4 DEF Next
<1>3. QED
  BY <1>1, <1>2, PTL DEF Spec

-----------------------------------------------------------------------------
\* Steps other than ReadText leave nothing read.
LEMMA OnlyReadTextReads ==
  ASSUME [Next]_vars
  PROVE  \/ ReadText
         \/ read' = NoRead
         \/ UNCHANGED vars
BY DEF Next, vars, Environment, SocketLoop, AppStep, Dial, SendHeader,
       SendText, SendClose, LoseTcp, Put, Accept, AcceptDone, Skip,
       ReadControl, Idle, Push, Stop, Configure, Pair, PairEnd, Quiet

\* The first client registered wins the dispatch when it holds the slot.
LEMMA FirstHolderWins ==
  ASSUME NEW ids, NEW num, registered = UserClients,
         ids["visualscope"] = num
  PROVE  Target(ids, num) = "visualscope"
<1>1. 1 \in Holders(ids, num) /\ Holders(ids, num) \subseteq {1, 2}
  BY DEF Holders, UserClients
<1>2. (CHOOSE k \in Holders(ids, num) :
         \A l \in Holders(ids, num) : k <= l) = 1
  BY <1>1
<1>3. QED
  BY <1>1, <1>2 DEF Target, UserClients

\* Stale ids cannot take a frame away from VisualScope: while the firmware is
\* not pairing, each of its commands runs its own handler.
THEOREM VisualScopeServed == Spec => []VisualScopeAlwaysServed
<1>1. Init => VisualScopeAlwaysServed
  BY DEF Init, VisualScopeAlwaysServed, TextRead, NoRead
<1>2. ASSUME RegistrationMatchesMode, VisualScopeAlwaysServed, [Next]_vars
      PROVE  VisualScopeAlwaysServed'
  <2>1. CASE UNCHANGED vars
    BY <1>2, <2>1 DEF VisualScopeAlwaysServed, TextRead, vars, seen
  <2>2. CASE read' = NoRead
    BY <2>2 DEF VisualScopeAlwaysServed, TextRead, NoRead
  <2>3. CASE ReadText
    <3> DEFINE m == slot[turn].rx[1].msg
               ids == SetIds(turn, m)
               to == Target(ids, turn)
    <3> SUFFICES ASSUME mode = "run", m.roasterID,
                        m.command \in Commands("visualscope")
                 PROVE  Runs(to, m) = "visualscope"
      BY <2>3 DEF ReadText, VisualScopeAlwaysServed
    <3>1. registered = UserClients
      BY <1>2 DEF RegistrationMatchesMode
    <3>2. "visualscope" \in Registered /\ "visualscope" \in Client
      BY <3>1 DEF Registered, UserClients, Client
    <3>3. Claims("visualscope", m) /\ Valid("visualscope", m)
      BY DEF Claims, Valid, isValidVisualScope
    <3>4. ids["visualscope"] = turn
      BY <3>2, <3>3 DEF SetIds
    <3>5. to = "visualscope"
      BY <3>1, <3>4, FirstHolderWins
    <3>6. QED
      BY <3>3, <3>5 DEF Runs
  <2>4. QED
    BY <1>2, <2>1, <2>2, <2>3, OnlyReadTextReads
<1>3. QED
  BY <1>1, <1>2, RegistrationCorrect, PTL DEF Spec

-----------------------------------------------------------------------------
\* A slot with a TCP connection belongs to a device.
SlotsOwned == \A i \in Slots : slot[i].tcp # "none" => slot[i].dev \in Device

SlotTable == [Slots -> SlotType]

SlotsTyped == slot \in SlotTable /\ SlotsOwned

\* An empty slot is well formed.
LEMMA FreeSlotTyped == FreeSlot \in SlotType /\ FreeSlot.tcp = "none"
  BY DEF FreeSlot, SlotType

\* clientIsConnected() leaves a well-formed slot.
LEMMA CheckedTyped ==
  ASSUME NEW s \in SlotType, s.tcp # "none" => s.dev \in Device
  PROVE  /\ Checked(s) \in SlotType
         /\ Checked(s).tcp # "none" => Checked(s).dev \in Device
  BY FreeSlotTyped DEF Checked

\* newClient() fills one slot, or none.
LEMMA NewClientTyped ==
  ASSUME NEW d \in Device, SlotsTyped,
         slot' = NewClient(slot, d)
  PROVE  SlotsTyped'
<1> DEFINE fresh == [FreeSlot EXCEPT !.status = "header", !.tcp = "up",
                                     !.dev = d]
<1>1. fresh \in SlotType /\ fresh.dev = d
  BY DEF FreeSlot, SlotType
<1> HIDE DEF fresh
<1>2. slot' = slot \/ slot' = [slot EXCEPT ![FirstFree(slot)] = fresh]
  BY DEF NewClient, fresh
<1>3. QED
  BY <1>1, <1>2 DEF SlotsTyped, SlotsOwned, SlotTable

\* sendTXT() may clean slots up and does nothing else to the table.
LEMMA SendTXTTyped ==
  ASSUME SlotsTyped, NEW nums
  PROVE  LET tbl == SendTXT(slot, nums)
         IN  /\ tbl \in SlotTable
             /\ \A i \in Slots : tbl[i].tcp # "none" => tbl[i].dev \in Device
<1> SUFFICES ASSUME NEW i \in Slots
             PROVE  LET s == IF i \in nums THEN Checked(slot[i]) ELSE slot[i]
                    IN  s \in SlotType /\ (s.tcp # "none" => s.dev \in Device)
  BY DEF SendTXT, SlotTable
<1>1. slot[i] \in SlotType /\ (slot[i].tcp # "none" => slot[i].dev \in Device)
  BY DEF SlotsTyped, SlotsOwned, SlotTable
<1>2. QED
  BY <1>1, CheckedTyped

\* disconnect() empties every slot.
LEMMA DisconnectAllTyped ==
  ASSUME slot' = DisconnectAll(slot)
  PROVE  SlotsTyped'
  BY FreeSlotTyped DEF DisconnectAll, SlotsTyped, SlotsOwned, SlotTable

\* The message in a slot that holds a text frame.
LEMMA TextTyped ==
  ASSUME SlotsTyped, NEW i \in Slots, slot[i].rx # << >>,
         slot[i].rx[1].op = "text"
  PROVE  slot[i].rx[1].msg \in UNION {Sends[d] : d \in Device}
<1>1. slot[i].rx \in {<<f>> : f \in Frame}
  BY DEF SlotsTyped, SlotTable, SlotType
<1>2. PICK f \in Frame : slot[i].rx = <<f>>
  BY <1>1
<1>3. QED
  BY <1>2 DEF Frame

\* The slot table stays well formed.
LEMMA SlotsStep ==
  ASSUME TypeOK, SlotsOwned, [Next]_vars
  PROVE  SlotsTyped'
<1>0. SlotsTyped
  BY DEF TypeOK, SlotsTyped, SlotTable
<1>1. CASE slot' = slot
  BY <1>0, <1>1 DEF SlotsTyped, SlotsOwned
<1>2. ASSUME NEW i \in Slots, NEW f \in Frame, Put(i, f)
      PROVE  SlotsTyped'
  <2>1. [slot[i] EXCEPT !.rx = <<f>>] \in SlotType
    BY <1>0, <1>2 DEF SlotsTyped, SlotTable, SlotType
  <2>2. QED
    BY <1>0, <1>2, <2>1 DEF Put, SlotsTyped, SlotsOwned, SlotTable
<1>3. CASE Environment
  <2>1. ASSUME NEW i \in Slots, SendHeader(i)
        PROVE  SlotsTyped'
    <3>1. PICK op \in {"upgrade", "plain"} : Put(i, [op |-> op])
      BY <2>1 DEF SendHeader
    <3>2. [op |-> op] \in Frame
      BY DEF Frame
    <3>3. QED
      BY <1>2, <3>1, <3>2
  <2>2. ASSUME NEW i \in Slots, SendClose(i)
        PROVE  SlotsTyped'
    <3>1. [op |-> "close"] \in Frame
      BY DEF Frame
    <3>2. QED
      BY <1>2, <2>2, <3>1 DEF SendClose
  <2>3. ASSUME NEW i \in Slots, SendText(i)
        PROVE  SlotsTyped'
    <3>1. PICK m \in Sends[slot[i].dev] : Put(i, [op |-> "text", msg |-> m])
      BY <2>3 DEF SendText
    <3>2. slot[i].dev \in Device
      BY <1>0, <3>1 DEF Put, SlotsTyped, SlotsOwned
    <3>3. [op |-> "text", msg |-> m] \in Frame
      BY <3>2 DEF Frame
    <3>4. QED
      BY <1>2, <3>1, <3>3
  <2>4. ASSUME NEW i \in Slots, NEW tcp \in {"half", "lost"}, LoseTcp(i, tcp)
        PROVE  SlotsTyped'
    <3>1. /\ [slot[i] EXCEPT !.tcp = tcp] \in SlotType
          /\ slot[i].dev \in Device
      BY <1>0, <2>4 DEF LoseTcp, SlotsTyped, SlotsOwned, SlotTable, SlotType
    <3>2. QED
      BY <1>0, <2>4, <3>1 DEF LoseTcp, SlotsTyped, SlotsOwned, SlotTable
  <2>5. QED
    BY <1>1, <1>3, <2>1, <2>2, <2>3, <2>4 DEF Environment, Dial
<1>4. CASE SocketLoop
  <2>1. ASSUME NEW d \in Device, Accept(d)
        PROVE  SlotsTyped'
    BY <1>0, <2>1, NewClientTyped DEF Accept
  <2>2. CASE Skip
    BY <1>0, <2>2, CheckedTyped
       DEF Skip, SlotsTyped, SlotsOwned, SlotTable
  <2>3. CASE ReadControl
    <3>1. [slot[turn] EXCEPT !.status = "connected", !.rx = << >>] \in SlotType
      BY <1>0, <2>3 DEF ReadControl, SlotsTyped, SlotTable, SlotType
    <3>2. QED
      BY <1>0, <2>3, <3>1, FreeSlotTyped
         DEF ReadControl, SlotsTyped, SlotsOwned, SlotTable
  <2>4. CASE ReadText
    <3> DEFINE m == slot[turn].rx[1].msg
               msgs == Replies(Runs(Target(SetIds(turn, m), turn), m),
                               SetIds(turn, m), turn, m)
               more == {c \in Registered : Claims(c, m)}
    <3>1. slot' = [AfterSending(msgs) EXCEPT
                     ![turn].rx = << >>, ![turn].said = @ \cup more]
      BY <2>4 DEF ReadText
    <3>a. more \in SUBSET Client
      BY DEF TypeOK, Registered
    <3> HIDE DEF m, msgs, more
    <3> DEFINE tbl == AfterSending(msgs)
               new == [tbl[turn] EXCEPT !.rx = << >>, !.said = @ \cup more]
    <3>2. /\ tbl \in SlotTable
          /\ \A i \in Slots : tbl[i].tcp # "none" => tbl[i].dev \in Device
      BY <1>0, SendTXTTyped DEF AfterSending
    <3>3. turn \in Slots
      BY <2>4 DEF ReadText
    <3>4. slot' = [tbl EXCEPT ![turn] = new]
      BY <3>1, <3>2, <3>3 DEF SlotTable
    <3>5. /\ new \in SlotType
          /\ new.tcp = tbl[turn].tcp /\ new.dev = tbl[turn].dev
      BY <3>2, <3>3, <3>a DEF SlotTable, SlotType
    <3> HIDE DEF tbl, new
    <3>6. QED
      BY <3>2, <3>3, <3>4, <3>5 DEF SlotsTyped, SlotsOwned, SlotTable
  <2>5. QED
    BY <1>1, <1>4, <2>1, <2>2, <2>3, <2>4 DEF SocketLoop, AcceptDone, net
<1>5. CASE AppStep
  <2>1. ASSUME NEW clients, Push(clients)
        PROVE  SlotsTyped'
    BY <1>0, <2>1, SendTXTTyped
       DEF Push, AfterSending, SlotsTyped, SlotsOwned
  <2>2. QED
    BY <1>1, <1>5, <2>1, DisconnectAllTyped
       DEF AppStep, Idle, Stop, Configure, Pair, PairEnd, TurnOn, TurnOff, net
<1>6. QED
  BY <1>1, <1>3, <1>4, <1>5 DEF Next, vars, net

\* The types, with what makes them inductive: a connection has a device.
LEMMA RoutingInvariant == Spec => [](TypeOK /\ SlotsOwned)
<1> DEFINE Inv == TypeOK /\ SlotsOwned
<1>1. Init => Inv
  <2> SUFFICES ASSUME Init
               PROVE  Inv
    OBVIOUS
  <2>1. slot \in SlotTable /\ SlotsOwned
    BY FreeSlotTyped DEF Init, SlotTable, SlotsOwned
  <2>2. registered \in Seq(Client) /\ idCounter = 2
    BY DEF Init, UserClients, Client
  <2>3. -1 \in -1 .. MaxClients - 1 /\ -1 \in -1 .. MaxClients
    BY SlotsAssumption
  <2>4. m_id \in [Client -> -1 .. MaxClients - 1]
    BY <2>3 DEF Init
  <2>5. turn \in -1 .. MaxClients
    BY <2>3 DEF Init, Accepting
  <2>6. /\ running \in BOOLEAN /\ ap \in BOOLEAN /\ refused \in BOOLEAN
        /\ dialing \subseteq Device /\ clientNames \subseteq DeviceName
        /\ mode \in {"run", "pairing"}
    BY DEF Init
  <2>7. QED
    BY <2>1, <2>2, <2>4, <2>5, <2>6 DEF TypeOK, SlotTable
<1>2. ASSUME Inv, RegistrationMatchesMode, RegistrationMatchesMode',
             [Next]_vars
      PROVE  Inv'
  <2> USE <1>2
  <2>1. slot' \in SlotTable /\ SlotsOwned'
    BY SlotsStep DEF SlotsTyped, SlotTable
  <2>2. mode' \in {"run", "pairing"}
    BY DEF TypeOK, Next, vars, app, net, seen, Environment, SocketLoop,
           AppStep, Dial, SendHeader, SendText, SendClose, LoseTcp, Put,
           Accept, AcceptDone, Skip, ReadControl, ReadText, Idle, Push, Stop,
           Configure, Pair, PairEnd
  <2>3. registered' \in Seq(Client) /\ idCounter' \in Nat
    <3>1. registered' = UserClients \/ registered' = <<"generic">>
      BY DEF RegistrationMatchesMode
    <3>2. registered' \in Seq(Client) /\ Len(registered') \in Nat
      <4>1. /\ UserClients \in Seq(Client) /\ Len(UserClients) = 2
            /\ <<"generic">> \in Seq(Client) /\ Len(<<"generic">>) = 1
        BY DEF UserClients, Client
      <4>2. QED
        BY <3>1, <4>1, SMTT(30)
    <3>3. QED
      BY <3>2 DEF RegistrationMatchesMode
  <2>4. m_id' \in [Client -> -1 .. MaxClients - 1]
    <3>1. CASE ReadText
      <4>1. turn \in -1 .. MaxClients - 1
        <5>1. turn \in Slots
          BY <3>1 DEF ReadText
        <5>2. QED
          BY <5>1, SlotsAssumption DEF Slots
      <4>2. m_id' = SetIds(turn, slot[turn].rx[1].msg)
        BY <3>1 DEF ReadText
      <4>3. QED
        BY <4>1, <4>2 DEF SetIds, TypeOK
    <3>2. CASE m_id' = m_id
      BY <3>2 DEF TypeOK
    <3>3. QED
      BY <3>1, <3>2
         DEF Next, vars, app, Environment, SocketLoop, AppStep, Dial,
             SendHeader, SendText, SendClose, LoseTcp, Put, Accept,
             AcceptDone, Skip, ReadControl, Idle, Push, Stop, Configure, Pair,
             PairEnd
  <2>5. clientNames' \subseteq DeviceName
    <3>1. CASE ReadText
      <4> DEFINE m == slot[turn].rx[1].msg
                 by == Runs(Target(SetIds(turn, m), turn), m)
      <4>1. m \in UNION {Sends[d] : d \in Device}
        BY <3>1, TextTyped DEF ReadText, SlotsTyped, TypeOK, SlotTable
      <4>2. m.device \in DeviceName \cup {"none"}
        BY <4>1, SendsAssumption
      <4>3. by = "generic" => m.device # "none"
        BY DEF Runs, Valid, isValidGeneric
      <4>4. clientNames' = clientNames \cup
                             (IF by = "generic" THEN {m.device} ELSE {})
        BY <3>1 DEF ReadText, Attached
      <4> HIDE DEF m, by
      <4>5. QED
        BY <4>2, <4>3, <4>4 DEF TypeOK
    <3>2. CASE clientNames' = clientNames
      BY <3>2 DEF TypeOK
    <3>3. QED
      BY <3>1, <3>2
         DEF Next, vars, app, Environment, SocketLoop, AppStep, Dial,
             SendHeader, SendText, SendClose, LoseTcp, Put, Accept,
             AcceptDone, Skip, ReadControl, Idle, Push, Stop, Configure, Pair,
             PairEnd
  <2>6. turn' \in -1 .. MaxClients
    <3>1. CASE turn' = turn
      BY <3>1 DEF TypeOK
    <3>2. CASE turn' = Accepting
      BY <3>2, SlotsAssumption DEF Accepting
    <3>3. CASE turn' = 0 \/ turn' = App
      BY <3>3, SlotsAssumption DEF App
    <3>4. CASE turn \in Slots /\ turn' = turn + 1
      BY <3>4, SlotsAssumption DEF Slots
    <3>5. QED
      BY <3>1, <3>2, <3>3, <3>4
         DEF Next, vars, Environment, SocketLoop, AppStep, Dial, SendHeader,
             SendText, SendClose, LoseTcp, Put, Accept, AcceptDone, Skip,
             ReadControl, ReadText, Idle, Push, Stop, Configure, Pair, PairEnd
  <2>7. running' \in BOOLEAN /\ ap' \in BOOLEAN /\ dialing' \subseteq Device
    BY DEF TypeOK, Next, vars, net, Environment, SocketLoop, AppStep, Dial,
           SendHeader, SendText, SendClose, LoseTcp, Put, Accept, AcceptDone,
           Skip, ReadControl, ReadText, Idle, Push, Stop, Configure, Pair,
           PairEnd, TurnOn, TurnOff
  <2>8. refused' \in BOOLEAN
    <3>1. CASE \E d \in Device : Accept(d)
      BY <3>1 DEF Accept, HasRoom
    <3>2. QED
      BY <3>1
         DEF TypeOK, Next, vars, seen, Quiet, Environment, SocketLoop, AppStep,
             Dial, SendHeader, SendText, SendClose, LoseTcp, Put, AcceptDone,
             Skip, ReadControl, ReadText, Idle, Push, Stop, Configure, Pair,
             PairEnd
  <2>9. QED
    BY <2>1, <2>2, <2>3, <2>4, <2>5, <2>6, <2>7, <2>8 DEF TypeOK, SlotTable
<1>3. QED
  BY <1>1, <1>2, RegistrationCorrect, PTL DEF Spec

\* Every variable keeps its type, for any number of slots and devices.
THEOREM RoutingTypeCorrect == Spec => []TypeOK
BY RoutingInvariant, PTL

-----------------------------------------------------------------------------
\* What places rest on: a device has one living connection at most, and none
\* while it waits to be let in.
OneConnection ==
    \A i \in Slots : slot[i].tcp = "up" =>
        /\ slot[i].dev \notin dialing
        /\ \A j \in Slots :
              slot[j].tcp = "up" /\ slot[j].dev = slot[i].dev => j = i

\* A step that brings no living connection and no waiting device keeps it.
LEMMA OneConnectionKept ==
  ASSUME OneConnection, dialing' \subseteq dialing,
         \A i \in Slots : slot'[i].tcp = "up" =>
            slot[i].tcp = "up" /\ slot'[i].dev = slot[i].dev
  PROVE  OneConnection'
  BY DEF OneConnection, Slots

LEMMA OneConnectionStep ==
  ASSUME TypeOK, OneConnection, [Next]_vars
  PROVE  OneConnection'
<1>1. slot \in [Slots -> SlotType]
  BY DEF TypeOK
<1>2. FreeSlot.tcp = "none"
  BY DEF FreeSlot
<1>3. ASSUME NEW d \in Device, Dial(d)
      PROVE  OneConnection'
  BY <1>3 DEF Dial, OneConnection, Slots
<1>4. ASSUME NEW d \in Device, Accept(d)
      PROVE  OneConnection'
  <2>1. CASE slot' = slot
    BY <1>4, <2>1, OneConnectionKept DEF Accept
  <2>2. CASE slot' # slot
    <3> DEFINE fresh == [FreeSlot EXCEPT !.status = "header", !.tcp = "up",
                                         !.dev = d]
               at == FirstFree(slot)
    <3>1. fresh.dev = d
      BY DEF FreeSlot
    <3> HIDE DEF fresh
    <3>2. slot' = [slot EXCEPT ![at] = fresh]
      BY <1>4, <2>2 DEF Accept, NewClient, fresh
    <3> HIDE DEF at
    <3>3. \A i \in Slots : slot'[i] = IF i = at THEN fresh ELSE slot[i]
      BY <1>1, <3>2
    <3>4. d \in dialing /\ dialing' = dialing \ {d}
      BY <1>4 DEF Accept
    <3>5. Slots' = Slots
      BY DEF Slots
    <3>6. QED
      BY <3>1, <3>3, <3>4, <3>5 DEF OneConnection
  <2>3. QED
    BY <2>1, <2>2
<1>5. CASE UNCHANGED <<slot, dialing>>
  BY <1>5, OneConnectionKept
<1>6. ASSUME NEW i \in Slots, NEW f, Put(i, f)
      PROVE  OneConnection'
  BY <1>1, <1>6, OneConnectionKept DEF Put
<1>7. CASE Environment
  <2>1. ASSUME NEW i \in Slots, NEW tcp \in {"half", "lost"}, LoseTcp(i, tcp)
        PROVE  OneConnection'
    BY <1>1, <2>1, OneConnectionKept DEF LoseTcp
  <2>2. QED
    BY <1>3, <1>6, <1>7, <2>1
       DEF Environment, SendHeader, SendText, SendClose
<1>8. CASE SocketLoop
  <2>1. CASE Skip
    BY <1>1, <1>2, <2>1, OneConnectionKept DEF Skip, Checked
  <2>2. CASE ReadControl
    BY <1>1, <1>2, <2>2, OneConnectionKept DEF ReadControl
  <2>3. CASE ReadText
    <3>1. PICK msgs, more :
             slot' = [AfterSending(msgs) EXCEPT
                        ![turn].rx = << >>, ![turn].said = @ \cup more]
      BY <2>3 DEF ReadText
    <3>2. \A i \in Slots : AfterSending(msgs)[i] \in {slot[i], FreeSlot}
      BY DEF AfterSending, SendTXT, Checked
    <3>3. AfterSending(msgs) = [i \in Slots |-> AfterSending(msgs)[i]]
      BY DEF AfterSending, SendTXT
    <3>4. \A i \in Slots : AfterSending(msgs)[i] \in SlotType
      BY <1>1, <3>2, FreeSlotTyped
    <3>5. \A i \in Slots : /\ slot'[i].tcp = AfterSending(msgs)[i].tcp
                           /\ slot'[i].dev = AfterSending(msgs)[i].dev
      BY <3>1, <3>3, <3>4 DEF SlotType
    <3>6. QED
      BY <1>2, <2>3, <3>2, <3>5, OneConnectionKept DEF ReadText
  <2>4. QED
    BY <1>4, <1>5, <1>8, <2>1, <2>2, <2>3
       DEF SocketLoop, AcceptDone, net
<1>9. CASE AppStep
  <2>1. ASSUME TurnOff
        PROVE  OneConnection'
    BY <1>2, <2>1, OneConnectionKept DEF TurnOff, DisconnectAll
  <2>2. ASSUME NEW clients, Push(clients)
        PROVE  OneConnection'
    <3>1. \A i \in Slots : slot'[i] \in {slot[i], FreeSlot}
      BY <2>2 DEF Push, AfterSending, SendTXT, Checked
    <3>2. QED
      BY <1>2, <2>2, <3>1, OneConnectionKept DEF Push
  <2>3. QED
    BY <1>5, <1>9, <2>1, <2>2
       DEF AppStep, Idle, Stop, Configure, Pair, PairEnd, TurnOn, net
<1>10. QED
  BY <1>5, <1>7, <1>8, <1>9 DEF Next, vars, net

\* A table without a free place holds a connection of a device that is gone:
\* the living ones belong to different devices, and one more device waits.
LEMMA FullTableHoldsHalfOpen ==
  ASSUME TypeOK, SlotsOwned, OneConnection, IsFiniteSet(Device),
         Cardinality(Device) <= MaxClients,
         NEW d \in dialing, ~HasRoom(slot)
  PROVE  \E i \in Slots : slot[i].tcp = "half"
<1> SUFFICES ASSUME \A i \in Slots : slot[i].tcp # "half"
             PROVE  FALSE
  OBVIOUS
<1>1. \A i \in Slots : slot[i].tcp = "up"
  BY DEF HasRoom, IsConnected
<1> DEFINE owner == [i \in Slots |-> slot[i].dev]
           others == Device \ {d}
<1>2. owner \in [Slots -> others]
  BY <1>1 DEF SlotsOwned, OneConnection
<1>3. d \in Device
  BY DEF TypeOK
<1>4. /\ IsFiniteSet(others)
      /\ Cardinality(others) = Cardinality(Device) - 1
  BY <1>3, FS_RemoveElement
<1>5. MaxClients \in Nat \ {0}
  BY SlotsAssumption
<1>6. IsFiniteSet(Slots) /\ Cardinality(Slots) = MaxClients
  BY <1>5, FS_Interval DEF Slots
<1>7. Cardinality(Device) \in Nat
  BY FS_CardinalityType
<1>8. Cardinality(others) < Cardinality(Slots)
  BY <1>4, <1>5, <1>6, <1>7
<1> HIDE DEF owner, others
<1>9. PICK i, j \in Slots : i # j /\ owner[i] = owner[j]
  BY <1>2, <1>4, <1>6, <1>8, FS_PigeonHole
<1>10. QED
  BY <1>1, <1>9 DEF OneConnection, owner

\* With no more devices than slots, only a connection that ended without a
\* word keeps a device out: what TCP has given up never costs a place.
THEOREM RefusedCorrect ==
  ASSUME IsFiniteSet(Device)
  PROVE  Spec => []RefusedForHalfOpen
<1>1. Init => OneConnection /\ RefusedForHalfOpen
  BY DEF Init, OneConnection, RefusedForHalfOpen, FreeSlot
<1>2. ASSUME TypeOK, SlotsOwned, OneConnection, RefusedForHalfOpen, [Next]_vars
      PROVE  OneConnection' /\ RefusedForHalfOpen'
  <2>1. ASSUME UNCHANGED vars
        PROVE  RefusedForHalfOpen'
    BY <1>2, <2>1 DEF RefusedForHalfOpen, vars, net, seen, Slots
  <2>2. ASSUME ~refused'
        PROVE  RefusedForHalfOpen'
    BY <2>2 DEF RefusedForHalfOpen
  <2>3. ASSUME NEW d \in Device, Accept(d)
        PROVE  RefusedForHalfOpen'
    <3> SUFFICES ASSUME ~HasRoom(slot), Cardinality(Device) <= MaxClients
                 PROVE  \E i \in Slots : slot'[i].tcp = "half"
      BY <2>3 DEF Accept, RefusedForHalfOpen, Slots
    <3>1. slot' = slot /\ d \in dialing
      BY <2>3 DEF Accept, NewClient
    <3>2. QED
      BY <1>2, <3>1, FullTableHoldsHalfOpen
  <2>4. RefusedForHalfOpen'
    BY <1>2, <2>1, <2>2, <2>3
       DEF Next, Environment, SocketLoop, AppStep, Dial, SendHeader, SendText,
           SendClose, LoseTcp, Put, AcceptDone, Skip, ReadControl, ReadText,
           Idle, Push, Stop, Configure, Pair, PairEnd, Quiet
  <2>5. QED
    BY <1>2, <2>4, OneConnectionStep
<1>3. QED
  BY <1>1, <1>2, RoutingInvariant, PTL DEF Spec

-----------------------------------------------------------------------------
\* Pushes are labelled with the client they are for.
LEMMA EventsLabelled ==
  ASSUME NEW ids, NEW clients
  PROVE  \A y \in Events(ids, clients) : y.for \in clients
  BY DEF Events

\* A frame is dispatched to a client that holds the slot it came from.
LEMMA TargetHolds ==
  ASSUME RegistrationMatchesMode, NEW ids, NEW num,
         Target(ids, num) # "none"
  PROVE  ids[Target(ids, num)] = num
<1>1. DOMAIN registered \subseteq {1, 2}
  BY DEF RegistrationMatchesMode, UserClients
<1>2. Holders(ids, num) # {} /\ Holders(ids, num) \subseteq {1, 2}
  BY <1>1 DEF Target, Holders
<1>3. \E k \in Holders(ids, num) : \A l \in Holders(ids, num) : k <= l
  <2>1. CASE 1 \in Holders(ids, num)
    BY <1>2, <2>1
  <2>2. CASE 1 \notin Holders(ids, num)
    BY <1>2, <2>2
  <2>3. QED
    BY <2>1, <2>2
<1> DEFINE first == CHOOSE k \in Holders(ids, num) :
                      \A l \in Holders(ids, num) : k <= l
<1>4. first \in Holders(ids, num)
  BY <1>3
<1>5. Target(ids, num) = registered[first]
  BY <1>2 DEF Target
<1>6. QED
  BY <1>4, <1>5 DEF Holders

\* Sending does not disturb the slot whose frame is read: it is connected.
LEMMA TextKeepsDevice ==
  ASSUME TypeOK, ReadText
  PROVE  slot'[turn].dev = slot[turn].dev
<1> DEFINE m == slot[turn].rx[1].msg
           msgs == Replies(Runs(Target(SetIds(turn, m), turn), m),
                           SetIds(turn, m), turn, m)
           more == {c \in Registered : Claims(c, m)}
<1>1. turn \in Slots /\ IsConnected(slot[turn])
  BY DEF ReadText
<1>2. slot' = [AfterSending(msgs) EXCEPT
                 ![turn].rx = << >>, ![turn].said = @ \cup more]
  BY DEF ReadText
<1> HIDE DEF m, msgs, more
<1>3. /\ AfterSending(msgs)[turn] = slot[turn]
      /\ DOMAIN AfterSending(msgs) = Slots
  BY <1>1 DEF AfterSending, SendTXT, Checked
<1>4. slot[turn] \in SlotType
  BY <1>1 DEF TypeOK
<1>5. QED
  BY <1>1, <1>2, <1>3, <1>4 DEF SlotType

\* Whatever ids are left over, a reply returns to the connection that asked.
THEOREM RepliesCorrect == Spec => []RepliesReturnToSender
<1>1. Init => RepliesReturnToSender
  BY DEF Init, RepliesReturnToSender
<1>2. ASSUME TypeOK, RegistrationMatchesMode, RepliesReturnToSender,
             [Next]_vars
      PROVE  RepliesReturnToSender'
  <2> USE <1>2
  <2>1. CASE UNCHANGED vars
    BY <2>1 DEF RepliesReturnToSender, TextRead, vars, net, seen
  <2>2. CASE sent' = {}
    BY <2>2 DEF RepliesReturnToSender
  <2>3. ASSUME NEW clients \in SUBSET Client,
               sent' = Delivered(Events(m_id, clients))
        PROVE  RepliesReturnToSender'
    <3>1. "reply" \notin clients
      BY DEF Client
    <3>2. \A x \in sent' : x.for \in clients
      BY <2>3, EventsLabelled DEF Delivered
    <3>3. QED
      BY <3>1, <3>2 DEF RepliesReturnToSender
  <2>4. CASE ReadText
    <3> DEFINE m == slot[turn].rx[1].msg
               ids == SetIds(turn, m)
               to == Target(ids, turn)
               by == Runs(to, m)
               msgs == Replies(by, ids, turn, m)
    <3>1. /\ turn \in Slots
          /\ read'.slot = turn
          /\ sent' = Delivered(msgs)
      BY <2>4 DEF ReadText
    <3>2. slot'[turn].dev = slot[turn].dev
      BY <2>4, TextKeepsDevice
    <3>3. \A y \in msgs : y.for = "reply" => y.to = turn
      <4>1. by = "generic" => ids["generic"] = turn
        BY TargetHolds DEF Runs
      <4>2. \A y \in Events(ids, {"audiocrack"}) : y.for # "reply"
        BY EventsLabelled
      <4> HIDE DEF m, ids, to, by
      <4>3. QED
        BY <4>1, <4>2 DEF Replies
    <3>4. turn # -1
      BY <3>1, SlotsAssumption DEF Slots
    <3> HIDE DEF m, ids, to, by, msgs
    <3>5. \A x \in sent' : x.for = "reply" =>
                            x.num = turn /\ x.dev = slot[turn].dev
      BY <3>1, <3>3 DEF Delivered
    <3>6. QED
      BY <3>1, <3>2, <3>4, <3>5 DEF RepliesReturnToSender, TextRead
  <2>5. Registered \subseteq Client /\ {} \subseteq Client
    BY DEF Registered, TypeOK
  <2>6. ASSUME NEW changed \in BOOLEAN, NEW ok \in BOOLEAN,
               Configure(changed, ok)
        PROVE  RepliesReturnToSender'
    <3>1. CASE changed
      BY <2>3, <2>5, <2>6, <3>1 DEF Configure
    <3>2. CASE ~changed
      BY <2>2, <2>6, <3>2 DEF Configure, Delivered
    <3>3. QED
      BY <3>1, <3>2
  <2>7. ASSUME NEW clients \in SUBSET Client, Push(clients)
        PROVE  RepliesReturnToSender'
    BY <2>3, <2>7 DEF Push
  <2>8. QED
    <3>1. /\ {"visualscope", "audiocrack"} \in SUBSET Client
          /\ {"audiocrack"} \in SUBSET Client
      BY DEF Client
    <3>2. CASE Environment \/ SocketLoop
      BY <2>2, <2>4, <3>2
         DEF Environment, SocketLoop, Dial, SendHeader, SendText, SendClose,
             LoseTcp, Put, Accept, AcceptDone, Skip, ReadControl, Quiet
    <3>3. CASE AppStep
      BY <2>2, <2>6, <2>7, <3>1, <3>3
         DEF AppStep, Idle, Stop, Pair, PairEnd, Quiet
    <3>4. QED
      BY <2>1, <3>2, <3>3 DEF Next
<1>3. QED
  BY <1>1, <1>2, RoutingTypeCorrect, RegistrationCorrect, PTL DEF Spec

-----------------------------------------------------------------------------
\* What a slot holds was sent by its device: the frame that waits, and a
\* message for VisualScope if VisualScope ever spoke on the connection.
HeardFrom(s) ==
    /\ s.rx # << >> /\ s.rx[1].op = "text" => s.rx[1].msg \in Sends[s.dev]
    /\ "visualscope" \in s.said => \E m \in Sends[s.dev] : m.roasterID

HeardInv == \A i \in Slots : HeardFrom(slot[i])

\* A slot that is emptied, or checked, holds nothing new.
LEMMA HeardKept ==
  /\ HeardFrom(FreeSlot)
  /\ \A s : HeardFrom(s) => HeardFrom(Checked(s))
  /\ \A s \in SlotType : HeardFrom(s) => HeardFrom([s EXCEPT !.rx = << >>])
BY DEF HeardFrom, FreeSlot, Checked, SlotType

\* The message of a slot is kept by whatever does not concern its frame.
LEMMA HeardStep ==
  ASSUME TypeOK, HeardInv, RegistrationMatchesMode, [Next]_vars
  PROVE  HeardInv'
<1> USE DEF HeardInv
<1>0. slot \in SlotTable
  BY DEF TypeOK, SlotTable
<1>1. CASE slot' = slot
  BY <1>1
<1>2. ASSUME NEW i \in Slots, NEW f,
             f.op = "text" => f.msg \in Sends[slot[i].dev], Put(i, f)
      PROVE  HeardInv'
  <2>1. HeardFrom([slot[i] EXCEPT !.rx = <<f>>])
    BY <1>0, <1>2 DEF HeardFrom, SlotTable, SlotType
  <2>2. slot' = [slot EXCEPT ![i] = [slot[i] EXCEPT !.rx = <<f>>]]
    BY <1>0, <1>2 DEF Put, SlotTable
  <2>3. QED
    BY <1>0, <2>1, <2>2 DEF SlotTable
<1>3. CASE Environment
  <2>1. ASSUME NEW i \in Slots, SendHeader(i)
        PROVE  HeardInv'
    <3>1. PICK op \in {"upgrade", "plain"} : Put(i, [op |-> op])
      BY <2>1 DEF SendHeader
    <3>2. QED
      BY <1>2, <3>1
  <2>2. ASSUME NEW i \in Slots, SendText(i)
        PROVE  HeardInv'
    <3>1. PICK m \in Sends[slot[i].dev] : Put(i, [op |-> "text", msg |-> m])
      BY <2>2 DEF SendText
    <3>2. QED
      BY <1>2, <3>1
  <2>3. ASSUME NEW i \in Slots, SendClose(i)
        PROVE  HeardInv'
    BY <1>2, <2>3 DEF SendClose
  <2>4. ASSUME NEW i \in Slots, NEW tcp \in {"half", "lost"}, LoseTcp(i, tcp)
        PROVE  HeardInv'
    <3>1. HeardFrom([slot[i] EXCEPT !.tcp = tcp])
      BY <1>0 DEF HeardFrom, SlotTable, SlotType
    <3>2. slot' = [slot EXCEPT ![i] = [slot[i] EXCEPT !.tcp = tcp]]
      BY <1>0, <2>4 DEF LoseTcp, SlotTable
    <3>3. QED
      BY <1>0, <3>1, <3>2 DEF SlotTable
  <2>5. QED
    BY <1>1, <1>3, <2>1, <2>2, <2>3, <2>4 DEF Environment, Dial
<1>4. ASSUME NEW nums
      PROVE  \A i \in Slots : HeardFrom(SendTXT(slot, nums)[i])
  BY HeardKept DEF SendTXT
<1>5. CASE SocketLoop
  <2>1. ASSUME NEW d \in Device, Accept(d)
        PROVE  HeardInv'
    <3> DEFINE fresh == [FreeSlot EXCEPT !.status = "header", !.tcp = "up",
                                         !.dev = d]
    <3>1. HeardFrom(fresh)
      BY DEF HeardFrom, FreeSlot
    <3> HIDE DEF fresh
    <3>2. slot' = slot \/ slot' = [slot EXCEPT ![FirstFree(slot)] = fresh]
      BY <2>1 DEF Accept, NewClient, fresh
    <3>3. QED
      BY <1>0, <3>1, <3>2 DEF SlotTable
  <2>2. CASE Skip
    BY <1>0, <2>2, HeardKept DEF Skip, SlotTable
  <2>3. CASE ReadControl
    <3>1. HeardFrom([slot[turn] EXCEPT !.status = "connected", !.rx = << >>])
      BY <1>0, <2>3 DEF ReadControl, HeardFrom, SlotTable, SlotType
    <3>2. QED
      BY <1>0, <2>3, <3>1, HeardKept DEF ReadControl, SlotTable
  <2>4. CASE ReadText
    <3> DEFINE m == slot[turn].rx[1].msg
               msgs == Replies(Runs(Target(SetIds(turn, m), turn), m),
                               SetIds(turn, m), turn, m)
               more == {c \in Registered : Claims(c, m)}
               tbl == AfterSending(msgs)
               new == [tbl[turn] EXCEPT !.rx = << >>, !.said = @ \cup more]
    <3>1. /\ turn \in Slots /\ IsConnected(slot[turn])
          /\ m \in Sends[slot[turn].dev]
      BY <2>4 DEF ReadText, HeardFrom
    <3>2. "visualscope" \in more => m.roasterID
      BY DEF Claims, Valid, isValidVisualScope
    <3>3. /\ tbl[turn] = slot[turn]
          /\ DOMAIN tbl = Slots
          /\ \A i \in Slots : HeardFrom(tbl[i])
      BY <1>4, <3>1 DEF AfterSending, SendTXT, Checked
    <3>4. slot' = [tbl EXCEPT ![turn] = new]
      <4>1. slot' = [AfterSending(msgs) EXCEPT
                       ![turn].rx = << >>, ![turn].said = @ \cup more]
        BY <2>4 DEF ReadText
      <4> HIDE DEF m, msgs, more
      <4>2. QED
        BY <3>1, <3>3, <4>1
    <3>5. /\ new.rx = << >> /\ new.dev = slot[turn].dev
          /\ new.said = slot[turn].said \cup more
      <4>1. slot[turn] \in SlotType
        BY <1>0, <3>1 DEF SlotTable
      <4> HIDE DEF m, msgs, more, tbl
      <4>2. QED
        BY <3>3, <4>1 DEF SlotType
    <3>6. HeardFrom(new)
      <4>1. HeardFrom(slot[turn])
        BY <3>1
      <4> HIDE DEF m, msgs, more, tbl, new
      <4>2. QED
        BY <3>1, <3>2, <3>5, <4>1 DEF HeardFrom
    <3> HIDE DEF m, msgs, more, tbl, new
    <3>7. QED
      BY <3>1, <3>3, <3>4, <3>6
  <2>5. QED
    BY <1>1, <1>5, <2>1, <2>2, <2>3, <2>4 DEF SocketLoop, AcceptDone, net
<1>6. CASE AppStep
  <2>1. ASSUME NEW clients, Push(clients)
        PROVE  HeardInv'
    BY <1>4, <2>1 DEF Push, AfterSending
  <2>2. ASSUME slot' = DisconnectAll(slot)
        PROVE  HeardInv'
    BY <2>2, HeardKept DEF DisconnectAll
  <2>3. QED
    BY <1>1, <1>6, <2>1, <2>2
       DEF AppStep, Idle, Stop, Configure, Pair, PairEnd, TurnOn, TurnOff, net
<1>7. QED
  BY <1>1, <1>3, <1>5, <1>6 DEF Next, vars, net

\* Without the id of an earlier connection in its way, a command of the
\* AudioCrack device runs its handler: the second client registered gets the
\* slot unless the first one still holds it, and on this connection
\* VisualScope cannot have spoken.
THEOREM AudioCrackServed ==
  ASSUME OwnMessages
  PROVE  Spec => []AudioCrackLostOnlyToStaleId
<1> DEFINE P == AudioCrackLostOnlyToStaleId
<1>1. Init => HeardInv /\ P
  <2>1. Init => HeardInv
    BY HeardKept DEF Init, HeardInv
  <2>2. Init => P
    BY DEF Init, AudioCrackLostOnlyToStaleId, TextRead, NoRead
  <2>3. QED
    BY <2>1, <2>2
<1>2. ASSUME TypeOK, SlotsOwned, RegistrationMatchesMode, HeardInv, P,
             [Next]_vars
      PROVE  HeardInv' /\ P'
  <2> USE <1>2
  <2>1. HeardInv'
    BY HeardStep
  <2> SUFFICES P'
    BY <2>1
  <2>2. CASE UNCHANGED vars
    BY <2>2 DEF AudioCrackLostOnlyToStaleId, TextRead, vars, seen, app, net
  <2>3. CASE read' = NoRead
    BY <2>3 DEF AudioCrackLostOnlyToStaleId, TextRead, NoRead
  <2>4. CASE ReadText
    <3> DEFINE m == slot[turn].rx[1].msg
               ids == SetIds(turn, m)
               to == Target(ids, turn)
               by == Runs(to, m)
    <3>1. /\ turn \in Slots /\ IsConnected(slot[turn])
          /\ m \in Sends[slot[turn].dev]
          /\ m_id' = ids /\ mode' = mode
          /\ read' = [slot |-> turn, msg |-> m, to |-> to, by |-> by]
      BY <2>4 DEF ReadText, HeardInv, HeardFrom
    <3> SUFFICES ASSUME mode = "run", m.device = "audiocrack",
                        m.command \in Commands("audiocrack"),
                        by # "audiocrack"
                 PROVE  /\ ids["visualscope"] = turn
                        /\ "visualscope" \notin slot'[turn].said
      BY <3>1 DEF AudioCrackLostOnlyToStaleId
    <3>2. registered = UserClients
      BY DEF RegistrationMatchesMode
    <3>3. \A n \in Sends[slot[turn].dev] : ~n.roasterID
      <4>1. slot[turn].dev \in Device
        BY <3>1 DEF SlotsOwned, IsConnected
      <4>2. QED
        BY <3>1, <4>1 DEF OwnMessages
    <3>4. Claims("audiocrack", m) /\ Valid("audiocrack", m)
      BY DEF Claims, Valid, isValidAudioCrack, Commands
    <3>5. ids["audiocrack"] = turn
      BY <3>2, <3>4 DEF SetIds, Registered, UserClients, Client
    <3>6. ids["visualscope"] = turn
      <4> SUFFICES ASSUME ids["visualscope"] # turn
                   PROVE  FALSE
        OBVIOUS
      <4>1. Holders(ids, turn) = {2}
        BY <3>2, <3>5 DEF Holders, UserClients
      <4>2. to = "audiocrack"
        BY <3>2, <4>1 DEF Target, UserClients
      <4>3. QED
        BY <3>4, <4>2 DEF Runs
    <3>7. "visualscope" \notin slot'[turn].said
      BY <2>1, <2>4, <3>1, <3>3, TextKeepsDevice DEF HeardInv, HeardFrom
    <3>8. QED
      BY <3>6, <3>7
  <2>5. QED
    BY <2>1, <2>2, <2>3, <2>4, OnlyReadTextReads
<1>3. QED
  BY <1>1, <1>2, RoutingInvariant, RegistrationCorrect, PTL DEF Spec
=============================================================================
