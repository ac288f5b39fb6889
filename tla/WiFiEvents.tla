------------------------------ MODULE WiFiEvents ------------------------------
(***************************************************************************)
(* The handlers of the network events: onEvent() and the two removeEvent() *)
(* over one list, and the loop of _eventCallback() that walks the list by  *)
(* its index while a handler that it calls may change the list.            *)
(***************************************************************************)
EXTENDS Integers, SequencesExt

CONSTANTS
    Callback,         \* the functions of the sketch
    Event,            \* the events that happen
    MaxId             \* bound on current_id

EventsAssumption == MaxId \in Nat

\* SYSTEM_EVENT_MAX, the filter that stands for every event.
All == "MAX"

VARIABLES
    list,             \* cbEventList
    currentId,        \* WiFiEventCbList::current_id
    event,            \* the event that is dispatched
    eventI,           \* the index of the loop
    inside,           \* a handler is running
    \* history of this dispatch
    called,           \* the ids called, in order
    shifted           \* an entry that the loop had passed was removed

eventVars == <<list, currentId, event, eventI, inside, called, shifted>>

NoEvent == "none"
Ids(l) == {l[k].id : k \in DOMAIN l}

EventsInit ==
    /\ list = <<>> /\ currentId = 1
    /\ event = NoEvent /\ eventI = 1 /\ inside = FALSE
    /\ called = <<>> /\ shifted = FALSE
-----------------------------------------------------------------------------
\* The sketch calls from a handler, or between two events.
SketchRuns == event = NoEvent \/ inside

onEvent(cb, filter) ==
    /\ SketchRuns /\ currentId <= MaxId
    /\ list' = Append(list, [id |-> currentId, cb |-> cb, event |-> filter])
    /\ currentId' = currentId + 1
    /\ UNCHANGED <<event, eventI, inside, called, shifted>>

\* The entries of a list at the positions kept.
Entries(l, kept) ==
    [k \in 1 .. Cardinality(kept) |->
        l[CHOOSE m \in kept : Cardinality({n \in kept : n <= m}) = k]]

\* The entries that match go, but the index moves on over the one that takes
\* the place of an erased entry: of two neighbours that match, one stays.
Erase(l, matching) ==
    LET gone[k \in 0 .. Len(l)] ==
            IF k = 0 THEN {}
            ELSE IF k \in matching /\ k - 1 \notin gone[k - 1]
                 THEN gone[k - 1] \cup {k} ELSE gone[k - 1]
    IN  Entries(l, {k \in DOMAIN l : k \notin gone[Len(l)]})

Removes(matching) ==
    /\ SketchRuns
    /\ list' = Erase(list, matching)
    /\ shifted' = (shifted \/ \E k \in DOMAIN list :
                                 k < eventI /\ list[k].id \notin Ids(list'))
    /\ UNCHANGED <<currentId, event, eventI, inside, called>>

removeEvent(cb, filter) ==
    Removes({k \in DOMAIN list : list[k].cb = cb /\ list[k].event = filter})

removeId(id) == Removes({k \in DOMAIN list : list[k].id = id})
-----------------------------------------------------------------------------
Happens(e) ==
    /\ event = NoEvent
    /\ event' = e /\ eventI' = 1 /\ called' = <<>> /\ shifted' = FALSE
    /\ UNCHANGED <<list, currentId, inside>>

Matches(entry, e) == entry.event \in {e, All}

\* Mutant: only the handlers of this very event.
CallsExactHandler ==
    /\ event # NoEvent /\ ~ inside /\ eventI <= Len(list)
    /\ inside' = (list[eventI].event = event)
    /\ called' = IF inside' THEN Append(called, list[eventI].id) ELSE called
    /\ eventI' = eventI + 1
    /\ UNCHANGED <<list, currentId, event, shifted>>

\* The loop takes the next entry, and calls it if it is for this event.
CallsHandler ==
    /\ event # NoEvent /\ ~ inside /\ eventI <= Len(list)
    /\ inside' = Matches(list[eventI], event)
    /\ called' = IF inside' THEN Append(called, list[eventI].id) ELSE called
    /\ eventI' = eventI + 1
    /\ UNCHANGED <<list, currentId, event, shifted>>

HandlerReturns ==
    /\ inside /\ inside' = FALSE
    /\ UNCHANGED <<list, currentId, event, eventI, called, shifted>>

Ends ==
    /\ event # NoEvent /\ ~ inside /\ eventI > Len(list)
    /\ event' = NoEvent
    /\ UNCHANGED <<list, currentId, eventI, inside, called, shifted>>

EventsNext ==
    \/ \E cb \in Callback, f \in Event \cup {All} : onEvent(cb, f) \/ removeEvent(cb, f)
    \/ \E id \in 1 .. MaxId : removeId(id)
    \/ \E e \in Event : Happens(e)
    \/ CallsHandler \/ HandlerReturns \/ Ends

EventsSpec == EventsInit /\ [][EventsNext]_eventVars
-----------------------------------------------------------------------------
Over == event # NoEvent /\ ~ inside /\ eventI > Len(list)

\* The loop of _eventCallback() calls every handler that is registered for the
\* event when it ends, those included that a handler has registered meanwhile,
\* unless a handler has removed an entry that the loop had passed, which moves the
\* entries behind it past the index.
EveryHandlerCalled ==
    Over /\ ~ shifted => \A k \in DOMAIN list :
        Matches(list[k], event) => \E c \in DOMAIN called : called[c] = list[k].id

\* No handler is called twice for one event, and those called are called in the
\* order in which they were registered, whatever they add and remove.
CalledOnceInOrder == \A c, d \in DOMAIN called : c < d => called[c] < called[d]

\* None is forgotten and none is called again.
HandlersCalled == EveryHandlerCalled /\ CalledOnceInOrder

\* The id that onEvent() returns names one handler: removeEvent(id) takes that
\* one away, and no other.
RemovesThatOne ==
    [][\A id \in 1 .. MaxId : removeId(id) =>
         /\ Ids(list') = Ids(list) \ {id}
         /\ Len(list') = Cardinality(Ids(list'))]_eventVars
=============================================================================
