-------------------------- MODULE CredentialsProofs --------------------------
(***************************************************************************)
(* Proofs about Credentials, for any devices, requests, renamings and      *)
(* refused passphrases: what a power failure may do, who has which         *)
(* credentials, and that the code implements CredentialStore; and about    *)
(* CheckSSID, for any names and any list of networks.                      *)
(***************************************************************************)
EXTENDS Credentials, SequenceTheorems, TLAPS

Offered    == [ssid : Ssids, pass : Passes, channel : Channels]
Credential == [ssid : Ssids \cup {Empty}, pass : Passes \cup {Empty},
               channel : Channels \cup {1}]
Namespace  == [ssid : Ssids \cup {Absent}, pass : Passes \cup {Absent},
               channel : Channels \cup {Absent}]

TypeInv ==
    /\ command \in {"idle", "notify", "start", "reply", "pairing"} \cup Saving
    /\ command \in {"notify", "start"} => newdata \in Offered
    /\ eepromdata \in Credential
    /\ nvs \in Namespace
    /\ torn \in BOOLEAN
    /\ missed \subseteq Device
    /\ knows = [d \in Device |-> knows[d]]

\* The network that runs while its credentials are saved is theirs, and what
\* save() has passed is what read() will give; between commands that is all.
SaveInv ==
    /\ command \in Saving \cup {"reply"} =>
         eepromdata \in Offered /\ ap = [on |-> TRUE, cfg |-> eepromdata]
    /\ command \in {"save pass", "save channel"} =>
         read(nvs).ssid = eepromdata.ssid
    /\ command = "save channel" => read(nvs).pass = eepromdata.pass
    /\ command \notin Saving => read(nvs) = eepromdata

OpenInv ==
    /\ OpenOnlyAfterTornSave
    /\ eepromdata.ssid # Empty /\ eepromdata.pass = Empty => torn

\* Once they are told, the devices are ahead of the roaster.
InformedInv ==
    \A d \in Device \ missed :
        knows[d] = IF command = "start" THEN newdata ELSE eepromdata

CredentialsInv == TypeInv /\ SaveInv /\ OpenInv /\ InformedInv
-----------------------------------------------------------------------------
\* read() fills every member; what the store does not hold gets a default.
LEMMA ReadFacts ==
  ASSUME CredentialsAssumption, NEW s \in Namespace
  PROVE  /\ read(s) \in Credential
         /\ read(s) = [f \in DOMAIN Default |->
                        IF s[f] = Absent THEN Default[f] ELSE s[f]]
         /\ \A f \in {"ssid", "pass", "channel"} :
              read(s)[f] = IF s[f] = Absent THEN Default[f] ELSE s[f]
<1>1. DOMAIN s = {"ssid", "pass", "channel"}
  BY DEF Namespace
<1>2. DOMAIN Default = {"ssid", "pass", "channel"}
  BY DEF Default
<1>3. \A f \in {"ssid", "pass", "channel"} :
        read(s)[f] = IF s[f] = Absent THEN Default[f] ELSE s[f]
  BY <1>1 DEF read
<1>4. read(s) = [ssid |-> read(s).ssid, pass |-> read(s).pass,
                 channel |-> read(s).channel]
  BY <1>1 DEF read
<1>5. read(s) \in Credential
  BY <1>3, <1>4 DEF Credential, Namespace, Default
<1>6. QED
  BY <1>1, <1>2, <1>3, <1>5 DEF read

\* A key that save() has passed is read back as it is; the others stay.
LEMMA SavedFacts ==
  ASSUME CredentialsAssumption, nvs \in Namespace, eepromdata \in Offered,
         NEW f \in {"ssid", "pass", "channel"}
  PROVE  /\ Saved(f) \in Namespace
         /\ Saved(f) \in {nvs, [nvs EXCEPT ![f] = eepromdata[f]]}
         /\ read(Saved(f))[f] = eepromdata[f]
         /\ \A g \in {"ssid", "pass", "channel"} \ {f} :
              read(Saved(f))[g] = read(nvs)[g]
<1>1. eepromdata[f] # Absent
  BY DEF CredentialsAssumption, Offered
<1>2. [nvs EXCEPT ![f] = eepromdata[f]] \in Namespace
  BY DEF Namespace, Offered
<1>3. Saved(f) \in Namespace /\ Saved(f) \in {nvs, [nvs EXCEPT ![f] = eepromdata[f]]}
  BY <1>2 DEF Saved
<1>4. \A g \in {"ssid", "pass", "channel"} :
        /\ read(Saved(f))[g] = IF Saved(f)[g] = Absent THEN Default[g] ELSE Saved(f)[g]
        /\ read(nvs)[g] = IF nvs[g] = Absent THEN Default[g] ELSE nvs[g]
  BY <1>3, ReadFacts
<1>5. DOMAIN nvs = {"ssid", "pass", "channel"}
  BY DEF Namespace
<1>6. QED
  BY <1>1, <1>3, <1>4, <1>5 DEF Saved

\* What S, makes of a request can be told to the devices and saved.
LEMMA ParseOffered ==
  ASSUME NEW r \in Request, NEW s \in {Parse(r).ssid} \cup Renamed(Parse(r).ssid)
  PROVE  [Parse(r) EXCEPT !.ssid = s] \in Offered
<1>1. /\ Parse(r).ssid \in Ssids /\ Renamed(Parse(r).ssid) \subseteq Ssids
      /\ Parse(r).pass \in Passes /\ Parse(r).channel \in Channels
  BY Zenon DEF Ssids, Passes, Channels
<1>2. [Parse(r) EXCEPT !.ssid = s] =
        [ssid |-> s, pass |-> Parse(r).pass, channel |-> Parse(r).channel]
  BY DEF Parse
<1>3. QED
  BY <1>1, <1>2 DEF Offered

\* S, never leaves the network without a passphrase.
LEMMA PassGiven ==
  ASSUME CredentialsAssumption
  PROVE  Empty \notin Passes
<1>1. ASSUME NEW r \in Request PROVE Parse(r).pass # Empty
  <2>1. r.pass # Empty /\ Constructed.pass # Empty
    BY DEF CredentialsAssumption, Constructed, Empty
  <2>2. QED
    BY <2>1 DEF Parse
<1>2. QED
  BY <1>1 DEF Passes

-----------------------------------------------------------------------------
\* The invariant holds at the start, and every step keeps it.
LEMMA CredentialsInductive ==
  ASSUME CredentialsAssumption
  PROVE  CommandSpec => []CredentialsInv
<1>1. CommandInit => CredentialsInv
  <2> SUFFICES ASSUME CommandInit PROVE CredentialsInv
    OBVIOUS
  <2>1. nvs = [ssid |-> Absent, pass |-> Absent, channel |-> Absent]
    BY DEF CommandInit, Default
  <2>2. nvs \in Namespace /\ eepromdata \in Credential /\ read(nvs) = eepromdata
    BY <2>1, ReadFacts DEF CommandInit, Namespace
  <2>3. eepromdata.ssid = Empty
    BY <2>1, <2>2, ReadFacts DEF CommandInit, Default
  <2>4. QED
    BY <2>2, <2>3 DEF CommandInit, CredentialsInv, TypeInv, SaveInv, OpenInv,
         OpenOnlyAfterTornSave, InformedInv, Saving, Off
<1>2. CredentialsInv /\ [CommandNext]_commandVars => CredentialsInv'
  <2> SUFFICES ASSUME CredentialsInv, [CommandNext]_commandVars PROVE CredentialsInv'
    OBVIOUS
  <2> USE DEF CredentialsInv, flash, radio
  <2>1. ASSUME NEW r \in Request, SCommand(r) PROVE CredentialsInv'
    <3>1. newdata' \in Offered
      BY <2>1, ParseOffered DEF SCommand
    <3>2. QED
      BY <2>1, <3>1 DEF SCommand, TypeInv, SaveInv, OpenInv, InformedInv,
           OpenOnlyAfterTornSave, Saving, read
  <2>2. CASE notifyOnChange
    <3>1. TypeInv' /\ SaveInv' /\ OpenInv'
      BY <2>2 DEF notifyOnChange, TypeInv, SaveInv, OpenInv,
           OpenOnlyAfterTornSave, Saving, read
    <3>2. InformedInv'
      BY <2>2 DEF notifyOnChange, TypeInv, InformedInv, Message
    <3>3. QED
      BY <3>1, <3>2
  <2>3. CASE SStart
    <3>1. command = "start" /\ newdata \in Offered
      BY <2>3 DEF SStart, TypeInv
    <3>2. newdata \in Credential
      BY <3>1 DEF Offered, Credential
    <3>3. CASE turnOnOk(newdata) /\ eepromdata' = newdata /\ command' = "save ssid"
               /\ UNCHANGED missed
      <4>1. TypeInv' /\ SaveInv'
        BY <2>3, <3>1, <3>2, <3>3 DEF SStart, turnOnOk, TypeInv, SaveInv, Saving
      <4>2. newdata.pass # Empty
        BY <3>1, PassGiven DEF Offered
      <4>3. OpenInv'
        BY <2>3, <3>3, <4>2 DEF SStart, turnOnOk, OpenInv, OpenOnlyAfterTornSave
      <4>4. InformedInv'
        BY <2>3, <3>1, <3>3 DEF SStart, InformedInv
      <4>5. QED
        BY <4>1, <4>3, <4>4
    <3>4. CASE /\ turnOnFail /\ command' = "idle" /\ UNCHANGED eepromdata
               /\ missed' = IF eepromdata = newdata THEN missed ELSE Device
      <4>1. TypeInv' /\ SaveInv' /\ InformedInv'
        BY <2>3, <3>1, <3>4 DEF SStart, TypeInv, SaveInv, Saving, read, InformedInv
      <4>2. OpenInv'
        BY <2>3, <3>4 DEF SStart, turnOnFail, Off, Cleared, OpenInv,
             OpenOnlyAfterTornSave
      <4>3. QED
        BY <4>1, <4>2
    <3>5. QED
      BY <2>3, <3>3, <3>4 DEF SStart
  <2>4. CASE save
    <3>1. command \in Saving /\ nvs \in Namespace /\ eepromdata \in Offered
      BY <2>4 DEF save, SaveKey, Saving, TypeInv, SaveInv
    <3>2. TypeInv' /\ InformedInv' /\ OpenInv'
      BY <2>4, <3>1, SavedFacts DEF save, SaveKey, TypeInv, OpenInv, Saving,
           OpenOnlyAfterTornSave, InformedInv
    <3>3. CASE SaveKey("ssid", "save ssid", "save pass")
      BY <3>1, <3>2, <3>3, SavedFacts DEF SaveKey, SaveInv, Saving
    <3>4. CASE SaveKey("pass", "save pass", "save channel")
      BY <3>1, <3>2, <3>4, SavedFacts DEF SaveKey, SaveInv, Saving
    <3>5. CASE SaveKey("channel", "save channel", "reply")
      <4>1. /\ read(nvs').ssid = eepromdata.ssid
            /\ read(nvs').pass = eepromdata.pass
            /\ read(nvs').channel = eepromdata.channel
        BY <3>1, <3>5, SavedFacts DEF SaveKey, SaveInv
      <4>2. read(nvs') \in Credential /\ eepromdata \in Credential
        BY <3>1, <3>5, SavedFacts, ReadFacts DEF SaveKey, TypeInv
      <4>3. read(nvs') = eepromdata
        BY <4>1, <4>2 DEF Credential
      <4>4. QED
        BY <3>1, <3>2, <3>5, <4>3 DEF SaveKey, SaveInv, Saving
    <3>6. QED
      BY <2>4, <3>3, <3>4, <3>5 DEF save
  <2>5. CASE Reply
    <3>1. eepromdata.pass # Empty /\ ap = [on |-> TRUE, cfg |-> eepromdata]
      BY <2>5, PassGiven DEF Reply, SaveInv, Offered
    <3>2. TypeInv' /\ SaveInv' /\ InformedInv'
      BY <2>5 DEF Reply, TypeInv, SaveInv, InformedInv, Saving, read
    <3>3. QED
      BY <2>5, <3>1, <3>2 DEF Reply, OpenInv, OpenOnlyAfterTornSave
  <2>6. CASE setupDefaultCredentials
    <3>1. TypeInv' /\ SaveInv' /\ InformedInv'
      BY <2>6 DEF setupDefaultCredentials, TypeInv, SaveInv, InformedInv, Saving, read
    <3>2. OpenInv'
      BY <2>6 DEF setupDefaultCredentials, turnOnOk, turnOnFail, Off, Cleared,
           Pairing, Empty, OpenInv, OpenOnlyAfterTornSave
    <3>3. QED
      BY <3>1, <3>2
  <2>7. CASE setupUserCredentials
    <3>1. TypeInv' /\ SaveInv' /\ InformedInv'
      BY <2>7 DEF setupUserCredentials, TypeInv, SaveInv, InformedInv, Saving, read
    <3>2. OpenInv'
      BY <2>7 DEF setupUserCredentials, turnOnOk, turnOnFail, Off, Cleared,
           OpenInv, OpenOnlyAfterTornSave
    <3>3. QED
      BY <3>1, <3>2
  <2>8. CASE turnOffWebSocket
    BY <2>8 DEF turnOffWebSocket, Off, TypeInv, SaveInv, InformedInv, OpenInv,
         OpenOnlyAfterTornSave, Saving, read
  <2>9. CASE PowerCycle
    <3>1. read(nvs) \in Credential
      BY ReadFacts DEF TypeInv
    <3>2. command \notin Saving => eepromdata' = eepromdata
      BY <2>9 DEF PowerCycle, SaveInv
    <3>3. TypeInv' /\ SaveInv'
      BY <2>9, <3>1 DEF PowerCycle, TypeInv, SaveInv, Saving, read
    <3>4. OpenInv'
      BY <2>9, <3>2 DEF PowerCycle, Off, OpenInv, OpenOnlyAfterTornSave
    <3>5. InformedInv'
      BY <2>9, <3>2 DEF PowerCycle, InformedInv, TypeInv, Saving
    <3>6. QED
      BY <3>3, <3>4, <3>5
  <2>10. ASSUME NEW d \in Device, attach(d) PROVE CredentialsInv'
    BY <2>10 DEF attach, TypeInv, SaveInv, OpenInv, InformedInv,
         OpenOnlyAfterTornSave, Saving, read
  <2>11. ASSUME NEW d \in Device, Associate(d) \/ Leave(d) \/ Identify(d)
         PROVE CredentialsInv'
    BY <2>11 DEF Associate, Leave, Identify, TypeInv, SaveInv, OpenInv,
         InformedInv, OpenOnlyAfterTornSave, Saving, read
  <2>12. CASE UNCHANGED commandVars
    BY <2>12 DEF commandVars, TypeInv, SaveInv, OpenInv, InformedInv,
         OpenOnlyAfterTornSave, Saving, read
  <2>13. QED
    BY <2>1, <2>2, <2>3, <2>4, <2>5, <2>6, <2>7, <2>8, <2>9, <2>10, <2>11, <2>12
       DEF CommandNext
<1>3. QED
  BY <1>1, <1>2, PTL DEF CommandSpec

-----------------------------------------------------------------------------
\* The network is open only after a power failure in the middle of a save.
THEOREM OpenAfterTornSave ==
  ASSUME CredentialsAssumption
  PROVE  CommandSpec => []OpenOnlyAfterTornSave
<1>1. CredentialsInv => OpenOnlyAfterTornSave
  BY DEF CredentialsInv, OpenInv
<1>2. QED
  BY <1>1, CredentialsInductive, PTL

\* A device that had the chance to learn of a change has the credentials that
\* the roaster runs on, whatever was lost, refused or interrupted.
THEOREM DevicesFollow ==
  ASSUME CredentialsAssumption
  PROVE  CommandSpec => []InformedDevicesFollow
<1>1. CredentialsInv => InformedDevicesFollow
  BY DEF CredentialsInv, InformedInv, InformedDevicesFollow
<1>2. QED
  BY <1>1, CredentialsInductive, PTL

-----------------------------------------------------------------------------
\* The code implements the store: a change is accepted by the access point,
\* each key that save() writes is a write, the reply finishes it, and a power
\* failure is a restart; every other step stutters.
THEOREM StoreImplemented ==
  ASSUME CredentialsAssumption
  PROVE  CommandSpec => ImplementsStore
<1> DEFINE busy == command \in Saving \cup {"reply"}
<1>1. CommandInit => Store!Init
  <2> SUFFICES ASSUME CommandInit PROVE Store!Init
    OBVIOUS
  <2>1. DOMAIN nvs = DOMAIN Default /\ nvs = [f \in DOMAIN Default |-> Absent]
    BY DEF CommandInit
  <2>2. eepromdata = Store!Load(nvs)
    BY <2>1 DEF CommandInit, read, Store!Load, Store!Field
  <2>3. QED
    BY <2>1, <2>2 DEF CommandInit, Store!Init, Store!Field, Saving
<1>2. CredentialsInv /\ [CommandNext]_commandVars => [Store!Next]_(Store!vars)
  <2> SUFFICES ASSUME CredentialsInv, [CommandNext]_commandVars,
                      nvs' # nvs \/ eepromdata' # eepromdata \/ ~(busy <=> busy')
               PROVE  Store!Next
    <3>1. (busy <=> busy') => busy' = busy
      OBVIOUS
    <3>2. nvs' = nvs /\ eepromdata' = eepromdata /\ busy' = busy => UNCHANGED Store!vars
      BY Zenon DEF Store!vars
    <3>3. QED
      BY <3>1, <3>2
  <2> USE DEF flash, radio
  <2>1. read(nvs) = Store!Load(nvs)
    BY ReadFacts DEF CredentialsInv, TypeInv, Store!Load, Store!Field
  <2>2. CASE SStart
    <3>1. /\ turnOnOk(newdata) /\ eepromdata' = newdata /\ command' = "save ssid"
          /\ command = "start" /\ UNCHANGED nvs
      BY <2>2 DEF SStart, Saving
    <3>2. newdata \in [ssid : Ssids \ {Empty}, pass : Passes \ ShortPass,
                       channel : Channels]
      BY <3>1 DEF CredentialsInv, TypeInv, turnOnOk, Startable, Offered
    <3>3. Store!Accept
      BY <3>1, <3>2 DEF Store!Accept, Saving
    <3>4. QED
      BY <3>3 DEF Store!Next
  <2>3. ASSUME NEW f \in {"ssid", "pass", "channel"}, NEW here \in Saving,
               NEW after \in Saving \cup {"reply"}, SaveKey(f, here, after)
        PROVE  Store!Next
    <3>1. nvs \in Namespace /\ eepromdata \in Offered /\ busy /\ busy'
      BY <2>3 DEF CredentialsInv, TypeInv, SaveInv, SaveKey, Saving
    <3>2. nvs' = [nvs EXCEPT ![f] = eepromdata[f]] /\ UNCHANGED eepromdata
      BY <2>3, <3>1, SavedFacts DEF SaveKey
    <3>3. f \in Store!Field
      BY DEF Store!Field, Default
    <3>4. Store!Write(f)
      BY <3>1, <3>2 DEF Store!Write
    <3>5. QED
      BY <3>3, <3>4 DEF Store!Next
  <2>4. CASE Reply
    <3>1. read(nvs) = eepromdata /\ UNCHANGED <<nvs, eepromdata>> /\ busy /\ ~busy'
      BY <2>4 DEF Reply, CredentialsInv, SaveInv, Saving
    <3>2. Store!Finish
      BY <2>1, <3>1 DEF Store!Finish
    <3>3. QED
      BY <3>2 DEF Store!Next
  <2>5. CASE PowerCycle
    <3>1. ~busy' /\ eepromdata' = Store!Load(nvs) /\ UNCHANGED nvs
      BY <2>1, <2>5 DEF PowerCycle, Saving
    <3>2. Store!Restart
      BY <3>1 DEF Store!Restart
    <3>3. QED
      BY <3>2 DEF Store!Next
  <2>6. CASE UNCHANGED commandVars
    BY <2>6 DEF commandVars
  <2>7. ASSUME NEW r \in Request, SCommand(r) PROVE FALSE
    BY <2>7 DEF SCommand, Saving
  <2>8. CASE notifyOnChange \/ setupDefaultCredentials \/ setupUserCredentials
             \/ turnOffWebSocket
    BY <2>8 DEF notifyOnChange, setupDefaultCredentials, setupUserCredentials,
         turnOffWebSocket, Saving
  <2>9. ASSUME NEW d \in Device, attach(d) \/ Associate(d) \/ Leave(d) \/ Identify(d)
        PROVE  FALSE
    BY <2>9 DEF attach, Associate, Leave, Identify
  <2>10. CASE save
    BY <2>3, <2>10 DEF save, Saving
  <2>11. QED
    BY <2>2, <2>4, <2>5, <2>6, <2>7, <2>8, <2>9, <2>10 DEF CommandNext
<1>3. QED
  BY <1>1, <1>2, CredentialsInductive, PTL DEF CommandSpec, ImplementsStore, Store!Spec

-----------------------------------------------------------------------------
(* The renaming of the access point.                                       *)

Name == {n \in Seq(Nat) : Len(n) > 0}

\* m is shorter than n, or as long and its last character comes before.
Precedes(m, n) ==
    Len(m) < Len(n) \/ (Len(m) = Len(n) /\ m[Len(m)] < n[Len(n)])

\* A suffix adds its length.
LEMMA Joined ==
  ASSUME NEW a \in Seq(Nat), NEW b \in Seq(Nat)
  PROVE  a \o b \in Seq(Nat) /\ Len(a \o b) = Len(a) + Len(b)
BY ConcatProperties

\* A name that is cut keeps its length, one that is not stays within the buffer and
\* moves on.
LEMMA Assigned ==
  ASSUME NamesAssumption, NEW n \in Name, NEW r \in assignAnotherSSID(n)
  PROVE  /\ r \in Name
         /\ IF TooLong(n) THEN Len(r) = Len(n)
            ELSE Len(r) <= NameSize - 1 /\ Precedes(n, r)
<1> DEFINE len == Len(n)
           suffix == <<Underscore, 1>>
<1>1. /\ n \in Seq(Nat) /\ len \in Nat /\ len > 0
      /\ NameSize \in Nat /\ NameSize >= 6
  BY DEF Name, NamesAssumption
<1>2. /\ suffix \in Seq(Nat) /\ Len(suffix) = 2
  BY DEF Underscore
<1>3. CASE TooLong(n)
  <2> DEFINE cut == SubSeq(n, 1, len - 2)
  <2>1. len - 2 \in 1 .. len
    BY <1>1, <1>3 DEF TooLong
  <2>2. cut \in Seq(Nat) /\ Len(cut) = len - 2
    BY <1>1, <2>1, SubSeqProperties
  <2>3. r = cut \o suffix
    BY <1>3 DEF assignAnotherSSID
  <2> HIDE DEF cut, suffix
  <2>4. r \in Seq(Nat) /\ Len(r) = Len(cut) + Len(suffix)
    BY <1>2, <2>2, <2>3, Joined
  <2>5. QED
    BY <1>1, <1>2, <1>3, <2>2, <2>4 DEF Name
<1>4. CASE ~ TooLong(n)
  <2>1. \/ r = n \o suffix
        \/ r = [n EXCEPT ![len] = @ + 1]
    BY <1>4 DEF assignAnotherSSID
  <2>2. CASE r = n \o suffix
    <3>1. n \o suffix \in Seq(Nat) /\ Len(n \o suffix) = len + Len(suffix)
      <4> HIDE DEF suffix
      <4>1. QED
        BY <1>1, <1>2, Joined
    <3>2. QED
      <4> HIDE DEF suffix
      <4>1. QED
        BY <1>1, <1>2, <1>4, <2>2, <3>1 DEF Name, Precedes, TooLong
  <2>3. CASE r = [n EXCEPT ![len] = @ + 1]
    <3>1. n[len] \in Nat
      BY <1>1, ElementOfSeq
    <3>2. r \in Seq(Nat) /\ Len(r) = len /\ r[len] = n[len] + 1
      BY <1>1, <2>3, <3>1, ExceptSeq
    <3>3. r \in Name /\ Precedes(n, r)
      BY <1>1, <3>1, <3>2 DEF Name, Precedes
    <3>4. Len(r) <= NameSize - 1
      BY <1>1, <1>4, <3>2 DEF TooLong
    <3>5. QED
      BY <1>4, <3>3, <3>4
  <2>4. QED
    BY <2>1, <2>2, <2>3
<1>5. QED
  BY <1>3, <1>4

LEMMA PrecedesOrder ==
  /\ \A n \in Name : ~ Precedes(n, n)
  /\ \A l, m, n \in Name : Precedes(l, m) /\ Precedes(m, n) => Precedes(l, n)
<1>1. \A n \in Name : Len(n) \in Nat /\ n[Len(n)] \in Nat
  BY ElementOfSeq DEF Name
<1>2. QED
  BY <1>1 DEF Precedes

\* Of two names that ssidSocket had one after the other, without a cut between,
\* the first precedes the second; the networks that were passed and have the
\* present name come before the last change, or are its cause.
SsidInv ==
    /\ scan \in Seq(Names) /\ next \in Nat \ {0} /\ last \in 0 .. next - 1
    /\ held \in Seq(Name) /\ Len(held) > 0 /\ held[Len(held)] = ssidSocket
    /\ Len(ssidSocket) <= NameSize - 1 \/ Len(ssidSocket) = Len(held[1])
    /\ \A j, k \in DOMAIN held :
          j < k => (\E m \in j .. k - 1 : TooLong(held[m])) \/ Precedes(held[j], held[k])
    /\ \A j \in DOMAIN scan :
          j < next /\ scan[j] = ssidSocket =>
              j < last \/ (j = last /\ ssidSocket \in assignAnotherSSID(ssidSocket))

LEMMA SsidStep ==
  ASSUME NamesAssumption, SsidInv, [SsidNext]_ssidVars
  PROVE  SsidInv'
<1>1. CASE UNCHANGED ssidVars
  BY <1>1 DEF ssidVars, SsidInv
<1>2. ASSUME validateSSID, ssidSocket # scan[next], UNCHANGED <<ssidSocket, held, last>>
      PROVE  SsidInv'
  BY <1>2 DEF validateSSID, SsidInv
<1>3. ASSUME validateSSID, ssidSocket = scan[next],
             ssidSocket' \in assignAnotherSSID(ssidSocket),
             held' = Append(held, ssidSocket'), last' = next
      PROVE  SsidInv'
  <2> DEFINE L == Len(held)
             new == ssidSocket'
  <2>1. /\ held \in Seq(Name) /\ L \in Nat /\ L > 0 /\ DOMAIN held = 1 .. L
        /\ held[L] = ssidSocket /\ ssidSocket \in Name
    BY LenProperties, ElementOfSeq DEF SsidInv
  <2>2. /\ new \in Name
        /\ IF TooLong(ssidSocket) THEN Len(new) = Len(ssidSocket)
           ELSE Len(new) <= NameSize - 1 /\ Precedes(ssidSocket, new)
    BY <1>3, <2>1, Assigned
  <2> HIDE DEF new
  <2>3. /\ held' \in Seq(Name) /\ Len(held') = L + 1 /\ held'[L + 1] = new
        /\ \A k \in 1 .. L : held'[k] = held[k]
        /\ DOMAIN held' = 1 .. L + 1
    BY <1>3, <2>1, <2>2, AppendProperties, LenProperties DEF new
  <2>4. ASSUME NEW j \in DOMAIN held', NEW k \in DOMAIN held', j < k
        PROVE  (\E m \in j .. k - 1 : TooLong(held'[m])) \/ Precedes(held'[j], held'[k])
    <3>1. CASE k # L + 1
      <4>1. j \in DOMAIN held /\ k \in DOMAIN held
        BY <2>1, <2>3, <2>4, <3>1
      <4>2. (\E m \in j .. k - 1 : TooLong(held[m])) \/ Precedes(held[j], held[k])
        BY <2>4, <4>1 DEF SsidInv
      <4>3. \A m \in j .. k : held'[m] = held[m]
        BY <2>1, <2>3, <4>1
      <4>4. QED
        BY <2>1, <2>4, <4>1, <4>2, <4>3
    <3>2. CASE k = L + 1
      <4>1. j \in 1 .. L /\ held'[j] = held[j] /\ held'[k] = new
        BY <2>1, <2>3, <2>4, <3>2
      <4>2. CASE TooLong(ssidSocket)
        <5>1. L \in j .. k - 1 /\ TooLong(held'[L])
          BY <2>1, <2>3, <3>2, <4>1, <4>2
        <5>2. QED
          BY <5>1
      <4>3. CASE \E m \in j .. L - 1 : TooLong(held[m])
        <5>1. PICK m \in j .. L - 1 : TooLong(held[m])
          BY <4>3
        <5>2. m \in j .. k - 1 /\ held'[m] = held[m]
          BY <2>1, <2>3, <3>2, <4>1
        <5>3. QED
          BY <5>1, <5>2
      <4>4. CASE Precedes(ssidSocket, new) /\ (j = L \/ Precedes(held[j], held[L]))
        <5>1. held[j] \in Name
          BY <2>1, <4>1, ElementOfSeq
        <5>2. Precedes(held[j], new)
          BY <2>1, <2>2, <4>4, <5>1, PrecedesOrder
        <5>3. QED
          BY <4>1, <5>2
      <4>5. QED
        BY <2>1, <2>2, <4>1, <4>2, <4>3, <4>4 DEF SsidInv
    <3>3. QED
      BY <3>1, <3>2
  <2>5. ASSUME NEW j \in DOMAIN scan, j < next + 1, scan[j] = new
        PROVE  j < next \/ (j = next /\ new \in assignAnotherSSID(new))
    BY <1>3, <2>5 DEF SsidInv, new
  <2>6. /\ scan' = scan /\ next' = next + 1 /\ last' = next
        /\ scan \in Seq(Names) /\ next \in Nat \ {0}
    BY <1>3 DEF SsidInv, validateSSID
  <2>7. /\ next' \in Nat \ {0} /\ last' \in 0 .. next' - 1
        /\ Len(held') > 0 /\ held'[Len(held')] = ssidSocket'
    BY <2>1, <2>3, <2>6 DEF new
  <2>8. Len(new) <= NameSize - 1 \/ Len(new) = Len(held'[1])
    <3>1. held'[1] = held[1]
      BY <2>1, <2>3
    <3>2. Len(ssidSocket) <= NameSize - 1 \/ Len(ssidSocket) = Len(held[1])
      BY DEF SsidInv
    <3>3. CASE TooLong(ssidSocket)
      <4>1. Len(new) = Len(ssidSocket)
        BY <2>2, <3>3
      <4>2. QED
        BY <3>1, <3>2, <4>1
    <3>4. CASE ~ TooLong(ssidSocket)
      BY <2>2, <3>4
    <3>5. QED
      BY <3>3, <3>4
  <2>9. QED
    BY <2>3, <2>4, <2>5, <2>6, <2>7, <2>8 DEF SsidInv, new
<1>4. QED
  BY <1>1, <1>2, <1>3 DEF SsidNext, validateSSID, currentSSID

\* For any buffer, names of any length and any list of networks: CheckSSID never
\* writes past ssidSocket, or past what strcpy() has written there already, never
\* gives a name back unless it had to cut one, and ends on the name of a network only
\* if it had passed that network before.
THEOREM RenamesCorrect ==
  ASSUME NamesAssumption
  PROVE  SsidSpec => []RenamesSafely
<1>1. SsidInit => SsidInv
  <2>1. ASSUME SsidInit PROVE SsidInv
    <3>1. scan \in Seq(Names)
      <4>1. PICK m \in 0 .. MaxScan : scan \in [1 .. m -> Names]
        BY <2>1 DEF SsidInit, BoundedSeq, SeqOf
      <4>2. QED
        BY <4>1 DEF NamesAssumption
    <3>2. ssidSocket \in Name /\ held = <<ssidSocket>>
      BY <2>1 DEF SsidInit, Name, NamesAssumption
    <3>3. /\ held \in Seq(Name) /\ Len(held) = 1 /\ held[1] = ssidSocket
          /\ DOMAIN held = 1 .. 1
      BY <3>2
    <3>4. QED
      BY <2>1, <3>1, <3>3 DEF SsidInit, SsidInv
  <2>2. QED
    BY <2>1
<1>2. SsidInv /\ [SsidNext]_ssidVars => SsidInv'
  BY SsidStep
<1>3. SsidInv => RenamesSafely
  <2>1. ASSUME SsidInv PROVE RenamesSafely
    <3>1. ssidSocket \in Name /\ \A k \in DOMAIN held : held[k] \in Name
      BY <2>1, ElementOfSeq, LenProperties DEF SsidInv
    <3>2. \A n \in Name : ~ Precedes(n, n)
      BY PrecedesOrder
    <3>3. NeverBack
      BY <2>1, <3>1, <3>2 DEF SsidInv, NeverBack
    <3>4. NeverBeyond
      BY <2>1, <3>1 DEF SsidInv, NeverBeyond, Name
    <3>5. TakenOnlyIfSeenEarlier
      BY <2>1, LenProperties DEF SsidInv, TakenOnlyIfSeenEarlier, Done
    <3>6. QED
      BY <3>3, <3>4, <3>5 DEF RenamesSafely
  <2>2. QED
    BY <2>1
<1>4. QED
  BY <1>1, <1>2, <1>3, PTL DEF SsidSpec
==============================================================================
