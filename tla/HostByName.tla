----------------------------- MODULE HostByName -----------------------------
(***************************************************************************)
(* WiFiGenericClass::hostByName(): tasks of the sketch resolve names, one  *)
(* at a time as far as two bits of the network event group see to it.  The *)
(* resolver calls back in a task of its own, in time or long after the     *)
(* wait of 4 s, or answers from its cache at once; the callback writes     *)
(* through a pointer to the variable of the caller.                        *)
(***************************************************************************)
EXTENDS Integers, FiniteSets

CONSTANTS
    Callers,        \* the tasks that call hostByName()
    MaxCalls        \* bound on the calls of a behaviour

LookupAssumption == MaxCalls \in Nat

VARIABLES
    DNS_IDLE, DNS_DONE,     \* WIFI_DNS_IDLE_BIT, WIFI_DNS_DONE_BIT
    dnsPc,          \* of each task: where it is in hostByName()
    dnsCall,        \* of each task: the number of its call
    aResult,        \* of each task: the call whose address was written, or 0
    asked,          \* the lookups the resolver has yet to answer: <<task, call>>
    told,           \* of each task: what its last call returned
    \* history
    calls,
    found,          \* the lookups for which an address was written in their time
    overdue,        \* the lookups, <<task, call>>, that returned unanswered
    astray          \* a lookup was given up, or met another task's, and from
                    \* then on none was begun with nothing left of earlier ones

lookupVars == <<DNS_IDLE, DNS_DONE, dnsPc, dnsCall, aResult, asked, told, calls,
                found, overdue, astray>>

\* The time-out of a wait.
TimeIsUp == BOOLEAN

Inside(t) == dnsPc[t] \notin {"idle", "entry"}

At(t, a, b) == dnsPc[t] = a /\ dnsPc' = [dnsPc EXCEPT ![t] = b]

LookupInit ==
    /\ DNS_IDLE = TRUE /\ DNS_DONE = FALSE
    /\ dnsPc = [t \in Callers |-> "idle"] /\ dnsCall = [t \in Callers |-> 0]
    /\ aResult = [t \in Callers |-> 0]
    /\ asked = {} /\ told = [t \in Callers |-> [call |-> 0, address |-> 0]]
    /\ calls = 0 /\ found = {} /\ overdue = {} /\ astray = FALSE

hostByName(t) ==
    /\ At(t, "idle", "entry")
    /\ calls < MaxCalls /\ calls' = calls + 1
    /\ dnsCall' = [dnsCall EXCEPT ![t] = calls + 1]
    /\ aResult' = [aResult EXCEPT ![t] = 0]
    /\ UNCHANGED <<DNS_IDLE, DNS_DONE, asked, told, found, overdue, astray>>

\* The wait for the idle bit ends after 5 s, and its result is not looked at.
\* The bit is seen in one call and cleared in the next.
Enter(t) ==
    /\ At(t, "entry", "clear")
    /\ \E timeUp \in TimeIsUp : DNS_IDLE \/ timeUp
    /\ astray' = IF \E u \in Callers \ {t} : Inside(u) THEN TRUE
                 ELSE astray /\ (asked # {} \/ DNS_DONE)
    /\ UNCHANGED <<DNS_IDLE, DNS_DONE, dnsCall, aResult, asked, told, calls,
                   found, overdue>>

ClearIdle(t) ==
    /\ At(t, "clear", "ask")
    /\ DNS_IDLE' = FALSE
    /\ UNCHANGED <<DNS_DONE, dnsCall, aResult, asked, told, calls, found,
                   overdue, astray>>

Cached(t) == aResult' = [aResult EXCEPT ![t] = dnsCall[t]]

\* dns_gethostbyname() has the address, fails, or will call back.
Ask(t) ==
    /\ \/ /\ At(t, "ask", "leave") /\ Cached(t)
          /\ found' = found \cup {dnsCall[t]}
          /\ UNCHANGED asked
       \/ At(t, "ask", "leave") /\ UNCHANGED <<aResult, asked, found>>
       \/ /\ At(t, "ask", "wait")
          /\ asked' = asked \cup {<<t, dnsCall[t]>>}
          /\ UNCHANGED <<aResult, found>>
    /\ UNCHANGED <<DNS_IDLE, DNS_DONE, dnsCall, told, calls, overdue, astray>>

\* Mutant: the wait has no end of its own.
WaitEndsByAnswer(t) == DNS_DONE

\* The wait ends with the done bit, or after 4 s.
WaitEnds(t) == \E timeUp \in TimeIsUp : DNS_DONE \/ timeUp

Answered(t) ==
    /\ At(t, "wait", "take")
    /\ WaitEnds(t)
    /\ astray' = (astray \/ ~ DNS_DONE)
    /\ UNCHANGED <<DNS_IDLE, DNS_DONE, dnsCall, aResult, asked, told, calls,
                   found, overdue>>

\* Mutant: the bit stays for the next lookup.
DoneKept == UNCHANGED DNS_DONE

DoneTaken == DNS_DONE' = FALSE

Take(t) ==
    /\ At(t, "take", "leave")
    /\ DoneTaken
    /\ UNCHANGED <<DNS_IDLE, dnsCall, aResult, asked, told, calls, found,
                   overdue, astray>>

Leave(t) == DNS_IDLE' = TRUE

\* The call returns whether the address is not 0.
Return(t) ==
    /\ At(t, "leave", "idle")
    /\ Leave(t)
    /\ told' = [told EXCEPT ![t] = [call |-> dnsCall[t], address |-> aResult[t]]]
    /\ overdue' = overdue \cup (asked \cap {<<t, dnsCall[t]>>})
    /\ UNCHANGED <<DNS_DONE, dnsCall, aResult, asked, calls, found, astray>>

\* wifi_dns_found_callback() writes an address, if there is one, where the
\* call had its variable: a later call of the task may have its own there.
Answer(t, c) ==
    /\ <<t, c>> \in asked
    /\ asked' = asked \ {<<t, c>>}
    /\ \/ aResult' = [aResult EXCEPT ![t] = c]
          /\ found' = IF <<t, c>> \in overdue THEN found ELSE found \cup {c}
       \/ UNCHANGED <<aResult, found>>
    /\ DNS_DONE' = TRUE
    /\ UNCHANGED <<DNS_IDLE, dnsPc, dnsCall, told, calls, overdue, astray>>

Step(t) ==
    \/ Enter(t) \/ ClearIdle(t) \/ Ask(t)
    \/ Answered(t) \/ Take(t) \/ Return(t)

LookupNext ==
    \/ \E t \in Callers : hostByName(t) \/ Step(t)
    \/ \E t \in Callers, c \in 1 .. MaxCalls : Answer(t, c)

LookupSpec == LookupInit /\ [][LookupNext]_lookupVars

-----------------------------------------------------------------------------
\* An address that hostByName() returns is the answer to its own call, or the late
\* answer to an earlier call of the same task that had returned without it: never
\* one that another task asked for.
RightAddress ==
    \A t \in Callers :
        \/ told[t].address \in {0, told[t].call}
        \/ <<t, told[t].address>> \in overdue

\* An address that was found in time is returned.
FoundIsReturned ==
    \A t \in Callers : told[t].call \in found => told[t].address # 0

\* Every call returns, whatever the other tasks and the resolver do.
Returns == \A t \in Callers : dnsPc[t] # "idle" ~> dnsPc[t] = "idle"

\* Unless something is left of a lookup that was given up, or that met another
\* task's, no call returns before the resolver has answered it: a done bit is never
\* left over from one lookup to end the wait of the next.
AnswerFindsCall ==
    ~ astray => \A t \in Callers, c \in 1 .. MaxCalls :
        <<t, c>> \in asked => dnsCall[t] = c /\ dnsPc[t] = "wait"

\* What hostByName() returns was found for a name that its own task asked for, and
\* for this one if it came in time; the callback writes to the variable of a call
\* that has returned only after a lookup was given up or met another task's.
LookupsAgree == RightAddress /\ FoundIsReturned /\ AnswerFindsCall
=============================================================================
