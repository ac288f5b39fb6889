---------------------------- MODULE JsonDocument -----------------------------
(***************************************************************************)
(* doc["k1"][2] = x: the proxies of ArduinoJson (MemberProxy,              *)
(* ElementProxy, VariantRefBase) on a JsonDocument, and the copy of one    *)
(* value of a document into another. A proxy holds a path and looks it up  *)
(* when it is used: to read, as far as it goes; to write, making what is   *)
(* missing. Whatever cannot be allocated sets overflowed, which only       *)
(* clear() resets.                                                         *)
(***************************************************************************)
EXTENDS JsonCollections

CONSTANTS
  Assigned,    \* bound: the values that are assigned, "array" for to<JsonArray>()
  MaxPath,     \* bound: the steps of a path
  MaxBuilt     \* bound: the assignments that make the document

VARIABLES
  overflowed,   \* ResourceManager::overflowed_
  last,         \* history: the last call, and what it returned
  stack,        \* the collections that are being copied, the innermost last
  built,        \* assignments so far
  job           \* history: what is copied where

proxyVars == <<vars, overflowed, last>>

Step == [in : {"object"}, key : Key, index : {0}] \cup [in : {"array"}, key : {""}, index : Index]

Path == UNION {[1..n -> Step] : n \in 1..MaxPath}

Nothing == [path |-> <<>>, value |-> "null", ok |-> FALSE]

ProxyInit == Init /\ overflowed = FALSE /\ last = Nothing

(* getData(): the value at the end of a path, if there is one. *)
FoundIn(v, h, s) ==
  LET c == Chain(v, h)
  IN CASE h = NULL_SLOT \/ v[h].type # s.in -> NULL_SLOT
       [] s.in = "array" -> IF s.index + 1 \in DOMAIN c THEN c[s.index + 1] ELSE NULL_SLOT
       [] OTHER -> LET f == findKey(v, h, s.key)
                   IN IF f = <<>> THEN NULL_SLOT ELSE v[f[1]].next

Find(v, path) ==
  LET at[n \in 0..Len(path)] == IF n = 0 THEN Root ELSE FoundIn(v, at[n - 1], path[n])
  IN at[Len(path)]

(* Only null becomes a collection. *)
UsedAs(m, h, t) == As(m, h, t)

getOrAdd(m, h, s) ==
  LET n == UsedAs(m, h, s.in)
  IN CASE n.var[h].type # s.in -> {m}
       [] s.in = "array" -> {getOrAddElement(n, h, s.index)}
       [] OTHER -> getOrAddMember(n, h, s.key)

(* getOrCreateData(): the memories in which the path has been made, or as  *)
(* much of it as was possible.                                             *)
getOrCreate(m, path) ==
  LET made[n \in 0..Len(path)] ==
        IF n = 0 THEN {m}
        ELSE UNION {LET h == Find(k.var, SubSeq(path, 1, n - 1))
                    IN IF h = NULL_SLOT THEN {k} ELSE getOrAdd(k, h, path[n]) : k \in made[n - 1]}
  IN made[Len(path)]

(* The path ends in a collection that could not take another item. *)
Short(v, path) ==
  \E n \in 1..Len(path) :
    LET h == Find(v, SubSeq(path, 1, n - 1))
    IN h # NULL_SLOT /\ v[h].type = path[n].in /\ FoundIn(v, h, path[n]) = NULL_SLOT

(* doSet(): the converters of numbers and to<T>() tell whether the value   *)
(* is there, the others do not and overflowed() is asked.                  *)
Told(x, there, over) == IF x \in {"int", "big", "array", "object"} THEN there ELSE ~over

(* What an assignment can come to. *)
Results(path, x) ==
  UNION {LET h == Find(m.var, path)
         IN {LET there == h # NULL_SLOT /\ n.var[h].type = x
             IN [memory |-> n, there |-> there,
                 over |-> overflowed \/ Short(m.var, path) \/ (h # NULL_SLOT /\ ~there)]
               : n \in IF h = NULL_SLOT THEN {m} ELSE set(m, h, x)}
         : m \in getOrCreate(Memory, path)}

Assign(path, x) ==
  \E r \in Results(path, x) :
    /\ Does({r.memory})
    /\ overflowed' = r.over
    /\ last' = [path |-> path, value |-> x, ok |-> Told(x, r.there, r.over)]

\* Mutant: the slot of an element that could not be set is not given back.
LinkedOrLeft(m, h, s, ok) == IF ok THEN appendOne(m, h, s) ELSE m

(* ArrayData::addValue(): the new element is linked when it is complete. *)
LinkedOrFreed(m, h, s, ok) == IF ok THEN appendOne(m, h, s) ELSE freeVariant(m, s)

(* doc.add(x): a document without an array, or without a slot, stays; last *)
(* names the element that is added.                                        *)
add(x) ==
  LET m     == As(Memory, Root, "array")
      array == m.var[Root].type = "array"
      s     == Min(m.free)
      Answers(n, over, ok) ==
        /\ Does({n}) /\ overflowed' = over
        /\ last' = [path |-> <<[in |-> "array", key |-> "", index |-> Len(Chain(var, Root))]>>,
                    value |-> x, ok |-> ok]
  IN IF ~array \/ m.free = {} THEN Answers(m, overflowed \/ array, FALSE)
     ELSE \E n \in set(allocVariant(m), s, x) :
            LET there == n.var[s].type = x
                over  == overflowed \/ ~there
            IN Answers(LinkedOrFreed(n, Root, s, Told(x, there, over)), over, Told(x, there, over))

Forget(path) ==
  LET h == Find(var, SubSeq(path, 1, Len(path) - 1))
      s == path[Len(path)]
  IN /\ h # NULL_SLOT
     /\ IF s.in = "array" THEN removeElement(h, s.index) ELSE removeMember(h, s.key)
     /\ last' = Nothing
     /\ UNCHANGED overflowed

ClearedMemory == [var |-> [s \in DOMAIN var |-> Blank], free |-> Slot, lost |-> {}]

clearDocument == Does({ClearedMemory}) /\ overflowed' = FALSE /\ last' = Nothing

(* doc.set(x), doc = x and doc.to<T>() begin with a cleared document.      *)
setDocument(x) ==
  \E m \in set(ClearedMemory, Root, x) :
    LET there == m.var[Root].type = x
    IN /\ Does({m})
       /\ overflowed' = ~there
       /\ last' = [path |-> <<>>, value |-> x, ok |-> Told(x, there, ~there)]

Use ==
  \/ \E path \in Path : \/ \E x \in Assigned : Assign(path, x)
                        \/ Forget(path)
  \/ \E x \in Assigned \cap Scalar : add(x)
  \/ \E x \in Assigned : setDocument(x)
  \/ clearDocument

ProxyNext == Use /\ UNCHANGED it

----------------------------------------------------------------------------
Within(p, q) == Len(p) <= Len(q) /\ SubSeq(q, 1, Len(p)) = p

(* What is to be seen at a path: its type, and its size. *)
Seen(v, path) ==
  LET h == Find(v, path)
  IN IF h = NULL_SLOT THEN <<"nothing", 0>> ELSE <<v[h].type, Len(Chain(v, h))>>

(* An assignment changes what its path names, and on the way there only    *)
(* what is null; every other value stays, also when memory runs out half   *)
(* way (MemberProxy::getOrCreateData, VariantData::getOrAddMember).        *)
OthersKept ==
  [][last' # last /\ last'.path # <<>> =>
       \A q \in Path :
         LET h == Find(var, q)
         IN /\ h # NULL_SLOT /\ ~Within(last'.path, q)
            /\ Within(q, last'.path) => var[h].type \in Scalar
            => Seen(var', q) = Seen(var, q)]_proxyVars

Blocked(path) ==
  \E n \in 0..(Len(path) - 1) :
    LET h == Find(var, SubSeq(path, 1, n))
    IN h # NULL_SLOT /\ var[h].type # path[n + 1].in

There == LET h == Find(var, last.path) IN h # NULL_SLOT /\ var[h].type = last.value

(* set() and to() have stored the value when they say so, unless the path  *)
(* leads through a value that is no collection (VariantRefBase::doSet).    *)
TrueMeansThere == last.ok /\ ~Blocked(last.path) => There
-----------------------------------------------------------------------------
(* Copying one value of a document into another: VariantRefBase::set() of  *)
(* a variant, JsonArray::set() and JsonObject::set().  A collection is     *)
(* copied item by item, the items in it likewise, in the memory that is    *)
(* being read; each level gives up at the first item after which, or before*)
(* which, overflowed() is true, whatever the item is: the converter of a   *)
(* JsonVariantConst tells nothing, so that overflowed() is asked.          *)
(* A value inside of what is overwritten is not copied here; a collection  *)
(* set to itself is emptied before it is read.                             *)

copyVars == <<proxyVars, stack, built, job>>

NoJob == [src |-> NULL_SLOT, dst |-> NULL_SLOT, before |-> [type |-> "null", in |-> <<>>],
          inside |-> FALSE, over |-> FALSE]

CopyInit == ProxyInit /\ stack = <<>> /\ built = 0 /\ job = NoJob

Build ==
  /\ stack = <<>> /\ built < MaxBuilt
  /\ \/ \E path \in Path, x \in Assigned : \E r \in Results(path, x) :
          Does({r.memory}) /\ overflowed' = r.over
     \/ \E path \in Path : Forget(path)
     \/ clearDocument
  /\ built' = built + 1
  /\ job' = NoJob
  /\ UNCHANGED <<it, last, stack>>
----------------------------------------------------------------------------
Loop(v, s, d) ==
  [dst |-> d, pending |-> NULL_SLOT,
   it |-> [of |-> s, at |-> v[s].head, next |-> NextOf(v, v[s].head)]]

(* The copier is given s: a scalar is set, of a collection an empty one is *)
(* made, which is then filled.                                             *)
Entered(m, s, d) ==
  IF isCollection(m.var, s)
  THEN LET n == [clear(m, d) EXCEPT !.var[d].type = m.var[s].type]
       IN {[memory |-> n, over |-> overflowed, loop |-> <<Loop(n.var, s, d)>>]}
  ELSE LET x == m.var[s].type
       IN {[memory |-> n, over |-> overflowed \/ n.var[d].type # x, loop |-> <<>>]
             : n \in set(m, d, x)}

Copy(src, dst) ==
  /\ job = NoJob
  /\ src \notin Below(var, Children(var, dst))
  /\ src # dst \/ isCollection(var, src)
  /\ \E e \in Entered(Memory, src, dst) :
       Does({e.memory}) /\ overflowed' = e.over /\ stack' = e.loop
  /\ job' = [src |-> src, dst |-> dst, before |-> Val(src, N + 2), over |-> overflowed,
             inside |-> dst \in Below(var, Children(var, src))]
  /\ UNCHANGED <<it, last, built>>

Top == Last(stack)
Outer == Front(stack)

(* A step of the loop of the collection copied last. *)
Stepping ==
  /\ stack # <<>>
  /\ UNCHANGED <<it, last, built, job>>

Moved(f) ==
  [f EXCEPT !.it = IF var[f.dst].type = "array" THEN next(@) ELSE next(next(@)),
            !.pending = NULL_SLOT]

(* An item has been copied: the loop goes on, or returns false. *)
After(ok) == IF ok THEN Append(Outer, Moved(Top)) ELSE Outer

Waiting(s) == Append(Outer, [Top EXCEPT !.pending = s])

OutOfSlots == overflowed' = TRUE /\ stack' = Outer /\ UNCHANGED <<var, free, lost>>

CopyElement ==
  /\ Stepping /\ Top.it.at # NULL_SLOT
  /\ Top.pending = NULL_SLOT /\ var[Top.dst].type = "array"
  /\ \/ free = {} /\ OutOfSlots
     \/ /\ free # {}
        /\ LET s == Min(free)
           IN \E e \in Entered(allocVariant(Memory), Top.it.at, s) :
                /\ overflowed' = e.over
                /\ IF e.loop = <<>>
                   THEN /\ Does({LinkedOrFreed(e.memory, Top.dst, s, ~e.over)})
                        /\ stack' = After(~e.over)
                   ELSE Does({e.memory}) /\ stack' = Waiting(s) \o e.loop

(* The member is made first, then set. *)
CopyMember ==
  /\ Stepping /\ Top.it.at # NULL_SLOT
  /\ Top.pending = NULL_SLOT /\ var[Top.dst].type = "object"
  /\ \E m \in getOrAddMember(Memory, Top.dst, var[Top.it.at].type) :
       LET f == findKey(m.var, Top.dst, var[Top.it.at].type)
       IN IF f = <<>>
          THEN Does({m}) /\ overflowed' = TRUE /\ stack' = Outer
          ELSE LET d == m.var[f[1]].next
               IN \E e \in Entered(m, m.var[Top.it.at].next, d) :
                    /\ Does({e.memory})
                    /\ overflowed' = e.over
                    /\ stack' = IF e.loop = <<>> THEN After(~e.over) ELSE Waiting(d) \o e.loop

(* The collection in an item has been copied, as far as it went. *)
Resume ==
  /\ Stepping /\ Top.pending # NULL_SLOT
  /\ Does({IF var[Top.dst].type = "object" THEN Memory
           ELSE LinkedOrFreed(Memory, Top.dst, Top.pending, ~overflowed)})
  /\ stack' = After(~overflowed)
  /\ UNCHANGED overflowed

Return ==
  /\ Stepping /\ Top.it.at = NULL_SLOT /\ Top.pending = NULL_SLOT
  /\ stack' = Outer
  /\ UNCHANGED <<var, free, lost, overflowed>>

CopyStep == CopyElement \/ CopyMember \/ Resume \/ Return

CopyNext == Build \/ (\E s, d \in Places : Copy(s, d)) \/ CopyStep

----------------------------------------------------------------------------
Done == job # NoJob /\ stack = <<>>

(* When set() answers true the copy is the whole value, and the value that *)
(* was copied has not changed (JsonArray::set, JsonObject::set).           *)
TrueMeansCopied ==
  Done /\ ~overflowed /\ ~job.inside /\ job.src # job.dst =>
    Val(job.dst, N + 2) = job.before /\ Val(job.src, N + 2) = job.before

(* The source of a copy stays what it was, although the copy reads it while*)
(* slots are taken and freed, and even if the memory runs out.             *)
SourceKept ==
  job # NoJob /\ ~job.inside /\ job.src # job.dst => Val(job.src, N + 2) = job.before

(* A copy that gives up half way leaves every slot in the document, in the *)
(* element that waits for the rest of it, free, or lost to a member.       *)
CopyAccounted ==
  LET waits == {stack[i].pending : i \in {j \in DOMAIN stack : var[stack[j].dst].type = "array"}}
                 \ {NULL_SLOT}
      used == Below(var, Children(var, Root) \cup waits)
  IN used \cap free = {} /\ used \cap lost = {} /\ used \cup free \cup lost = Slot
=============================================================================
