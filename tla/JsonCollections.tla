--------------------------- MODULE JsonCollections ---------------------------
(***************************************************************************)
(* The arrays and objects of ArduinoJson: linked lists of slots in one     *)
(* memory (VariantData, CollectionData, ArrayData and ObjectData).  An     *)
(* array links its elements; an object links keys and values in turn.      *)
(* The document's root is outside the pools.  A number that does not fit   *)
(* the slot takes another slot, its extension.  Which free slot is taken   *)
(* is JsonMemory's business, and so are the strings.                       *)
(* Owned strings may fail to be stored; slots run out.                     *)
(***************************************************************************)
EXTENDS Naturals, Sequences, FiniteSets, FiniteSetsExt, SequencesExt, TLC

CONSTANTS
  N,         \* the slots that can be had
  Key,       \* member names; a value may be the same text
  Owned,     \* those of them that need memory of their own
  Scalar,    \* the values that are set: "int", "big" and strings
  Index      \* the indexes that are used

NULL_SLOT == 0
Slot == 1..N
Root == N + 1

VARIABLES
  var,    \* the root and the slots: the union content_ (head, tail) and next_
  free,   \* slots that can be taken
  lost,   \* slots taken for a member that then could not be added
  it      \* the iterator of a loop over a collection

vars == <<var, free, lost, it>>

Blank == [type |-> "null", head |-> NULL_SLOT, tail |-> NULL_SLOT, next |-> NULL_SLOT]

NoLoop == [of |-> NULL_SLOT, at |-> NULL_SLOT, next |-> NULL_SLOT,
           removed |-> FALSE, due |-> <<>>]

Init ==
  /\ var = [s \in Slot \cup {Root} |-> Blank]
  /\ free = Slot
  /\ lost = {}
  /\ it = NoLoop

(* The memory as a whole, which the operations below turn into another. *)
Memory == [var |-> var, free |-> free, lost |-> lost]

isCollection(v, h) == v[h].type \in {"array", "object"}

(* The slots a CollectionIterator goes through. *)
NextOf(v, s) == IF s = NULL_SLOT THEN NULL_SLOT ELSE v[s].next

Chain(v, h) ==
  LET step[n \in 0..N] == IF n = 0 THEN v[h].head ELSE NextOf(v, step[n - 1])
  IN SelectSeq([n \in 1..(N + 1) |-> step[n - 1]], LAMBDA s : s # NULL_SLOT)

Children(v, h) ==
  IF isCollection(v, h) THEN ToSet(Chain(v, h))
  ELSE IF v[h].type = "big" THEN {v[h].head} ELSE {}

(* The values a user can name: elements, and every second slot of an object. *)
Values(v, h) ==
  LET c == Chain(v, h)
  IN CASE v[h].type = "array"  -> ToSet(c)
       [] v[h].type = "object" -> {c[i] : i \in {j \in DOMAIN c : j % 2 = 0}}
       [] OTHER                -> {}

(* S with what Of(s) gives for each s in it, N levels down. *)
Closure(Of(_), S) ==
  LET Wider(T) == T \cup UNION {Of(s) : s \in T}
      down[n \in 0..N] == IF n = 0 THEN S ELSE Wider(down[n - 1])
  IN down[N]

Below(v, S) == Closure(LAMBDA s : Children(v, s), S)

Places == Closure(LAMBDA s : Values(var, s), {Root})

----------------------------------------------------------------------------
(* Memory: a slot is taken and begins as null; a cleared value gives back  *)
(* everything below it.  Of a freed slot nothing is read but next_, by the *)
(* iterator that stands on it: it is kept only while there is a loop.      *)

allocVariant(m) ==
  [m EXCEPT !.var[Min(m.free)] = Blank, !.free = @ \ {Min(m.free)}]

Emptied(v, s) == [Blank EXCEPT !.next = v[s].next]

Freed(v, s) == IF it = NoLoop THEN Blank ELSE Emptied(v, s)

clear(m, h) ==
  LET gone == Below(m.var, Children(m.var, h))
  IN [m EXCEPT !.var = [s \in DOMAIN @ |-> IF s = h THEN Emptied(@, h)
                                           ELSE IF s \in gone THEN Freed(@, s)
                                           ELSE @[s]],
               !.free = @ \cup gone]

freeVariant(m, s) ==
  LET c == clear(m, s)
  IN [c EXCEPT !.var[s] = Freed(c.var, s), !.free = @ \cup {s}]

(* What a value can become when it is set: itself, or null without memory. *)
set(m, h, x) ==
  LET c == clear(m, h)
  IN CASE x \in {"null", "array", "object", "int"} \cup (Key \ Owned) ->
            {[c EXCEPT !.var[h].type = x]}
       [] x \in Owned -> {c, [c EXCEPT !.var[h].type = x]}
       [] x = "big" ->
            IF c.free = {} THEN {c}
            ELSE {[allocVariant(c) EXCEPT !.var[h].type = x, !.var[h].head = Min(c.free)]}

(* A null value becomes an empty collection when it is used as one. *)
As(m, h, t) == IF m.var[h].type = "null" THEN [m EXCEPT !.var[h].type = t] ELSE m

----------------------------------------------------------------------------
(* Lists. *)

append(m, h, first, last) ==
  LET t == m.var[h].tail
      n == [m EXCEPT !.var[h].tail = last]
  IN IF t # NULL_SLOT THEN [n EXCEPT !.var[t].next = first]
     ELSE [n EXCEPT !.var[h].head = first]

appendOne(m, h, s) == append(m, h, s, s)

appendPair(m, h, k, v) == append([m EXCEPT !.var[k].next = v], h, k, v)

removeOne(m, h, s) ==
  LET c == Chain(m.var, h)
      i == CHOOSE j \in DOMAIN c : c[j] = s
      next == m.var[s].next
      n == IF i > 1 THEN [m EXCEPT !.var[c[i - 1]].next = next]
           ELSE [m EXCEPT !.var[h].head = next]
      prev == IF i > 1 THEN c[i - 1] ELSE NULL_SLOT
  IN freeVariant(IF next = NULL_SLOT THEN [n EXCEPT !.var[h].tail = prev] ELSE n, s)

(* The value goes first; its slot still tells the loop where to go on. *)
removePair(m, h, k, v) ==
  removeOne(freeVariant([m EXCEPT !.var[k].next = m.var[v].next], v), h, k)

addElement(m, h) ==
  IF m.free = {} THEN m ELSE appendOne(allocVariant(m), h, Min(m.free))

(* The element is set before it is linked, and freed when that fails. *)
addValue(m, h, x) ==
  IF m.free = {} THEN {m}
  ELSE LET s == Min(m.free)
       IN {IF n.var[s].type = "null" /\ x # "null" THEN freeVariant(n, s)
           ELSE appendOne(n, h, s) : n \in set(allocVariant(m), s, x)}

\* Mutant: the element past the last one is counted twice.
getOrAddElementTwice(m, h, i) ==
  LET missing == Max({0, i + 2 - Len(Chain(m.var, h))})
      grown[n \in 0..missing] == IF n = 0 THEN m ELSE addElement(grown[n - 1], h)
  IN grown[missing]

getOrAddElement(m, h, i) ==
  LET missing == Max({0, i + 1 - Len(Chain(m.var, h))})
      grown[n \in 0..missing] == IF n = 0 THEN m ELSE addElement(grown[n - 1], h)
  IN grown[missing]

(* Every other slot of an object is a key. *)
findKey(v, h, k) ==
  LET c == Chain(v, h)
      keys == [i \in 1..((Len(c) + 1) \div 2) |-> c[2 * i - 1]]
  IN SelectSeq(keys, LAMBDA s : v[s].type = k)

(* When the value's slot or the key's text cannot be had, what was taken   *)
(* is not given back.                                                      *)
addMember(m, h, k) ==
  IF m.free = {} THEN {m}
  ELSE LET keySlot == Min(m.free)
           one == allocVariant(m)
           two == allocVariant(one)
       IN IF one.free = {} THEN {[one EXCEPT !.lost = @ \cup {keySlot}]}
          ELSE LET valueSlot == Min(one.free)
               IN {IF n.var[keySlot].type = "null"
                   THEN [n EXCEPT !.lost = @ \cup {keySlot, valueSlot}]
                   ELSE appendPair(n, h, keySlot, valueSlot)
                     : n \in set(two, keySlot, k)}

getOrAddMember(m, h, k) ==
  IF findKey(m.var, h, k) # <<>> THEN {m} ELSE addMember(m, h, k)

----------------------------------------------------------------------------
(* The operations on a value h of the document. *)

Does(M) == \E m \in M : var' = m.var /\ free' = m.free /\ lost' = m.lost

Set(h, x) == Does(set(Memory, h, x))

Add(h) ==
  LET m == As(Memory, h, "array")
  IN m.var[h].type = "array" /\ Does({addElement(m, h)})

AddValue(h, x) ==
  LET m == As(Memory, h, "array")
  IN m.var[h].type = "array" /\ Does(addValue(m, h, x))

Element(h, i) ==
  LET m == As(Memory, h, "array")
  IN m.var[h].type = "array" /\ Does({getOrAddElement(m, h, i)})

Member(h, k) ==
  LET m == As(Memory, h, "object")
  IN m.var[h].type = "object" /\ Does(getOrAddMember(m, h, k))

removeElement(h, i) ==
  LET c == Chain(var, h)
  IN /\ var[h].type = "array"
     /\ i + 1 \in DOMAIN c
     /\ Does({removeOne(Memory, h, c[i + 1])})

removeMember(h, k) ==
  LET f == findKey(var, h, k)
  IN /\ var[h].type = "object"
     /\ f # <<>>
     /\ Does({removePair(Memory, h, f[1], var[f[1]].next)})

Operation(h) ==
  \/ \E x \in Scalar \cup {"null", "array", "object"} : Set(h, x)
  \/ Add(h)
  \/ \E x \in Scalar : AddValue(h, x)
  \/ \E i \in Index : Element(h, i) \/ removeElement(h, i)
  \/ \E k \in Key : Member(h, k) \/ removeMember(h, k)

----------------------------------------------------------------------------
(* A loop over a collection, which may remove the item it stands on, or    *)
(* set its value.  due is what the loop has still to visit, as seen from   *)
(* its first step.                                                         *)

Items(h) ==
  LET c == Chain(var, h)
  IN IF var[h].type = "array" THEN c
     ELSE [i \in 1..(Len(c) \div 2) |-> c[2 * i - 1]]

begin(h) ==
  /\ it = NoLoop
  /\ isCollection(var, h) /\ var[h].head # NULL_SLOT
  /\ it' = [of |-> h, at |-> var[h].head, next |-> var[var[h].head].next,
            removed |-> FALSE, due |-> Items(h)]
  /\ UNCHANGED <<var, free, lost>>

next(i) ==
  [i EXCEPT !.at = i.next,
            !.next = IF i.next = NULL_SLOT THEN @ ELSE var[i.next].next]

advance ==
  /\ it.at # NULL_SLOT
  /\ it' = [(IF var[it.of].type = "array" THEN next(it) ELSE next(next(it)))
              EXCEPT !.removed = FALSE, !.due = Tail(@)]
  /\ UNCHANGED <<var, free, lost>>

remove ==
  /\ it.at # NULL_SLOT /\ ~it.removed
  /\ Does({IF var[it.of].type = "array" THEN removeOne(Memory, it.of, it.at)
           ELSE removePair(Memory, it.of, it.at, it.next)})
  /\ it' = [it EXCEPT !.removed = TRUE]

setCurrent(x) ==
  /\ it.at # NULL_SLOT /\ ~it.removed
  /\ Set(IF var[it.of].type = "array" THEN it.at ELSE it.next, x)
  /\ UNCHANGED it

(* At the end of the loop, or a break. *)
leave ==
  /\ it # NoLoop
  /\ it' = NoLoop
  /\ var' = [s \in DOMAIN var |-> IF s \in free THEN Blank ELSE var[s]]
  /\ UNCHANGED <<free, lost>>

Next ==
  \/ it = NoLoop /\ UNCHANGED it /\ \E h \in Places : Operation(h)
  \/ \E h \in Places : begin(h)
  \/ advance
  \/ remove
  \/ \E x \in Scalar : setCurrent(x)
  \/ leave

Spec == Init /\ [][Next]_vars

----------------------------------------------------------------------------
(* The document the slots stand for. *)
RECURSIVE Val(_, _)
Val(h, depth) ==
  LET c == Chain(var, h)
  IN CASE depth = 0 -> [type |-> "too deep", in |-> <<>>]
       [] depth > 0 /\ var[h].type = "array" ->
            [type |-> "array",
             in |-> [i \in DOMAIN c |-> [key |-> "", value |-> Val(c[i], depth - 1)]]]
       [] depth > 0 /\ var[h].type = "object" ->
            [type |-> "object",
             in |-> [i \in 1..(Len(c) \div 2) |->
                       [key |-> var[c[2 * i - 1]].type, value |-> Val(c[2 * i], depth - 1)]]]
       [] OTHER -> [type |-> var[h].type, in |-> <<>>]

Document == INSTANCE JsonValue WITH doc <- Val(Root, N + 2)

(* Every operation changes the value it names and no other, whatever slots *)
(* are reused and whenever memory runs out (VariantData, JsonValue).       *)
ImplementsDocument == Document!Spec

(* Every slot is in the document once, or free, or lost to a member that   *)
(* could not be added; none is in two places.                              *)
SlotsAccounted ==
  LET used == Below(var, Children(var, Root))
  IN /\ used \cap free = {} /\ used \cap lost = {} /\ free \cap lost = {}
     /\ used \cup free \cup lost = Slot
     /\ Cardinality(used) =
          MapThenSumSet(LAMBDA h : Cardinality(Children(var, h)), used \cup {Root})

(* The tail is the last slot of the list and ends it: what is appended is  *)
(* found again.  An object has whole pairs and every key once.             *)
WellLinked ==
  \A h \in Places : isCollection(var, h) =>
    LET c == Chain(var, h)
    IN /\ var[h].tail = IF c = <<>> THEN NULL_SLOT ELSE Last(c)
       /\ var[h].type = "object" =>
            /\ Len(c) % 2 = 0
            /\ \A k \in Key : Len(findKey(var, h, k)) <= 1

(* A loop that removes the items it stands on visits every item once, in   *)
(* order, though it reads the link of a slot that is free.                 *)
LoopVisitsAll ==
  it # NoLoop => it.at = IF it.due = <<>> THEN NULL_SLOT ELSE Head(it.due)
=============================================================================
