----------------------------- MODULE JsonMemory -----------------------------
(***************************************************************************)
(* The memory of a JsonDocument, its ResourceManager: the slots in their   *)
(* pools and the strings.                                                  *)
(*                                                                         *)
(* A slot is known by its id, which is narrow and wraps; the list of pools *)
(* starts in the document itself and moves to the heap when it grows.      *)
(*                                                                         *)
(* Strings are nodes that variants share by counting their references      *)
(* (StringPool).  Two scratch strings become nodes: the one the JSON       *)
(* parser appends to (StringBuilder) and the one the MessagePack parser    *)
(* reads into (StringBuffer).  An allocation may fail at any time.         *)
(*                                                                         *)
(* Slots and strings share no state: each has a specification of its own.  *)
(***************************************************************************)
EXTENDS Integers, Sequences, FiniteSets

CONSTANTS
    Doc,              \* the documents
    IdCount,          \* 2 ^ (8 * ARDUINOJSON_SLOT_ID_SIZE)
    PoolCapacity,     \* ARDUINOJSON_POOL_CAPACITY
    InitialPools,     \* ARDUINOJSON_INITIAL_POOL_COUNT
    Failing,          \* the allocator may fail
    Shrinking,        \* shrinkToFit() is called
    MaxFree           \* bound on the length of the free list

\* Capacities divide the number of ids: powers of two, in all configurations.
PoolsAssumption ==
    /\ IdCount \in Nat \ {0} /\ PoolCapacity \in 2 .. IdCount
    /\ (IdCount % PoolCapacity) = 0
    /\ InitialPools \in Nat \ {0} /\ MaxFree \in Nat
    /\ Failing \in BOOLEAN /\ Shrinking \in BOOLEAN

NULL_SLOT == IdCount - 1
maxPools  == NULL_SLOT \div PoolCapacity + 1

VARIABLES
    list,             \* the MemoryPoolList of each document
    overflowed,       \* of each document
    \* history
    live,             \* of each document: the slots in use, [id, place]
    full              \* the last allocation was refused though the allocator worked

poolVars == <<list, overflowed, live, full>>

\* A pool: capacity_, usage_ and whether slots_ is allocated.
NoPool == [cap |-> 0, usage |-> 0, slots |-> FALSE]

\* pre is preallocatedPools_, heap the array that replaces it.
EmptyList == [pre |-> [k \in 1 .. InitialPools |-> NoPool], heap |-> <<>>, onHeap |-> FALSE,
              count |-> 0, capacity |-> InitialPools, free |-> <<>>]

Pools(l) == IF l.onHeap THEN l.heap ELSE l.pre
SetPool(l, k, p) == IF l.onHeap THEN [l EXCEPT !.heap[k] = p] ELSE [l EXCEPT !.pre[k] = p]

PoolsInit ==
    /\ list = [d \in Doc |-> EmptyList] /\ overflowed = [d \in Doc |-> FALSE]
    /\ live = [d \in Doc |-> {}] /\ full = FALSE
-----------------------------------------------------------------------------
\* getSlot(): the place an id stands for, as the pool's and the slot's index.
Place(id) == [pool |-> id \div PoolCapacity, index |-> id % PoolCapacity]

\* MemoryPool::allocSlot() in the last pool has room.
Room(l) == l.count > 0 /\ LET p == Pools(l)[l.count] IN p.slots /\ p.usage < p.cap

\* allocFromLastPool(): the slot, its id and the list without it.
Taken(l) ==
    LET p == Pools(l)[l.count]
    IN  [place |-> [pool |-> l.count - 1, index |-> p.usage],
         id    |-> ((l.count - 1) * PoolCapacity + p.usage) % IdCount,
         list  |-> SetPool(l, l.count, [p EXCEPT !.usage = @ + 1])]

\* increaseCapacity(): the list of pools moves to, or within, the heap.
increaseCapacity(l) ==
    LET n == (2 * l.capacity) % IdCount
    IN  [l EXCEPT !.onHeap = TRUE, !.capacity = n,
                  !.heap = [k \in 1 .. n |-> IF k <= l.capacity THEN Pools(l)[k] ELSE NoPool]]

MayGrow(l, fails) == l.count < l.capacity \/ (l.capacity # maxPools /\ "list" \notin fails)

\* Mutant: the last pool is as large as the others.
addPoolWhole(l, fails) ==
    LET g == IF l.count = l.capacity THEN increaseCapacity(l) ELSE l
        n == g.count + 1
    IN  SetPool([g EXCEPT !.count = n], n,
                IF "pool" \in fails THEN NoPool
                ELSE [cap |-> PoolCapacity, usage |-> 0, slots |-> TRUE])

\* addPool(): the last pool is smaller, for the sake of NULL_SLOT.  The pool
\* counts even when its slots could not be allocated.
addPool(l, fails) ==
    LET g == IF l.count = l.capacity THEN increaseCapacity(l) ELSE l
        n == g.count + 1
        c == IF n = maxPools THEN PoolCapacity - 1 ELSE PoolCapacity
    IN  SetPool([g EXCEPT !.count = n], n,
                IF "pool" \in fails THEN NoPool ELSE [cap |-> c, usage |-> 0, slots |-> TRUE])

fromFreeList(l) ==
    [id |-> l.free[1], place |-> Place(l.free[1]), list |-> [l EXCEPT !.free = Tail(@)]]

Gives(d, s) ==
    /\ list' = [list EXCEPT ![d] = s.list]
    /\ live' = [live EXCEPT ![d] = @ \cup {[id |-> s.id, place |-> s.place]}]
    /\ full' = FALSE
    /\ UNCHANGED overflowed

Refuses(d, l, fails) ==
    /\ list' = [list EXCEPT ![d] = l]
    /\ overflowed' = [overflowed EXCEPT ![d] = TRUE]
    /\ full' = (fails = {})
    /\ UNCHANGED live

\* allocSlot(), with the allocations that fail during it.
allocVariant(d, fails) ==
    LET l == list[d]
    IN  \/ l.free # <<>> /\ Gives(d, fromFreeList(l))
        \/ l.free = <<>> /\ Room(l) /\ Gives(d, Taken(l))
        \/ /\ l.free = <<>> /\ ~ Room(l)
           /\ \/ ~ MayGrow(l, fails) /\ Refuses(d, l, fails)
              \/ /\ MayGrow(l, fails)
                 /\ LET g == addPool(l, fails)
                    IN  IF Room(g) THEN Gives(d, Taken(g)) ELSE Refuses(d, g, fails)

freeVariant(d, s) ==
    /\ Len(list[d].free) < MaxFree
    /\ list' = [list EXCEPT ![d].free = <<s.id>> \o @]
    /\ live' = [live EXCEPT ![d] = @ \ {s}]
    /\ full' = FALSE
    /\ UNCHANGED overflowed

clearPools(d) ==
    /\ list' = [list EXCEPT ![d] = EmptyList]
    /\ overflowed' = [overflowed EXCEPT ![d] = FALSE]
    /\ live' = [live EXCEPT ![d] = {}]
    /\ full' = FALSE

\* The last pool keeps what it has, and a list on the heap the pools it has.
Shrunk(l, fails) ==
    LET last == Pools(l)[l.count]
        s    == IF l.count > 0 /\ last.slots /\ "pool" \notin fails
                THEN SetPool(l, l.count, [last EXCEPT !.cap = last.usage]) ELSE l
    IN  IF s.onHeap /\ s.count # s.capacity
        THEN [s EXCEPT !.heap = SubSeq(@, 1, s.count), !.capacity = s.count] ELSE s

shrinkToFit(d, fails) ==
    /\ Shrinking
    /\ list' = [list EXCEPT ![d] = Shrunk(@, fails)]
    /\ full' = FALSE
    /\ UNCHANGED <<overflowed, live>>

\* swap(): what l is after it takes over the pools of other; those that are
\* preallocated are copied.
withPools(l, other) ==
    [other EXCEPT !.heap = IF other.onHeap THEN @ ELSE <<>>,
                  !.pre = IF other.onHeap THEN l.pre
                          ELSE [k \in 1 .. InitialPools |->
                                  IF k <= other.count \/ ~ l.onHeap
                                  THEN other.pre[k] ELSE l.pre[k]]]

swap(d, e) ==
    /\ list' = [list EXCEPT ![d] = withPools(list[d], list[e]), ![e] = withPools(list[e], list[d])]
    /\ overflowed' = [overflowed EXCEPT ![d] = overflowed[e], ![e] = overflowed[d]]
    /\ live' = [live EXCEPT ![d] = live[e], ![e] = live[d]]
    /\ full' = FALSE

Fails == IF Failing THEN SUBSET {"pool", "list"} ELSE {{}}

PoolsNext ==
    \/ \E d \in Doc, fails \in Fails : allocVariant(d, fails) \/ shrinkToFit(d, fails)
    \/ \E d \in Doc : clearPools(d)
    \/ \E d \in Doc : \E s \in live[d] : freeVariant(d, s)
    \/ \E d, e \in Doc : d # e /\ swap(d, e)

PoolsSpec == PoolsInit /\ [][PoolsNext]_poolVars
-----------------------------------------------------------------------------
\* getSlot(): the id of a slot in use finds that slot, in a pool that has it.
IdFindsSlot ==
    \A d \in Doc : \A s \in live[d] :
        /\ s.id # NULL_SLOT /\ Place(s.id) = s.place
        /\ s.place.pool < list[d].count
        /\ s.place.index < Pools(list[d])[s.place.pool + 1].usage

\* The ids of the slots that were ever handed out.
HandedOut(l) ==
    UNION {{(k - 1) * PoolCapacity + i : i \in 0 .. Pools(l)[k].usage - 1} : k \in 1 .. l.count}

FreeIds(l) == {l.free[i] : i \in DOMAIN l.free}
LiveIds(d) == {s.id : s \in live[d]}

\* The free list of MemoryPoolList: every slot that was ever handed out is either
\* in use or on it, once.
NoSlotLost ==
    \A d \in Doc :
        /\ \A i, j \in DOMAIN list[d].free : list[d].free[i] = list[d].free[j] => i = j
        /\ FreeIds(list[d]) \cap LiveIds(d) = {}
        /\ FreeIds(list[d]) \cup LiveIds(d) = HandedOut(list[d])

\* The slots of a document, through all that is allocated, freed, cleared,
\* swapped and shrunk.
SlotsAgree == IdFindsSlot /\ NoSlotLost

\* The test "Try overflow pool counter": while the allocator works, a slot is
\* refused only when all the ids are in use.
RefusedOnlyWhenFull == full => \E d \in Doc : Cardinality(live[d]) = NULL_SLOT

\* Configuration.hpp, slot_id_size: "32-bit arch => up to 65535 slots", "8-bit and
\* 16-bit archs => up to 255 slots"; and the same test: now all allocations should
\* fail.
UpToNullSlot == \A d \in Doc : Cardinality(live[d]) <= NULL_SLOT
-----------------------------------------------------------------------------

CONSTANTS
    Char,             \* characters, none of them NUL
    Holder,           \* the variants that hold a string
    Block,            \* what the allocator can give
    tinyStringMaxLength,
    initialCapacity,  \* StringBuilder::initialCapacity
    maxLength,        \* StringNode::maxLength
    Maker             \* of "builder" and "buffer", those that are used

StringsAssumption ==
    /\ tinyStringMaxLength \in Nat /\ initialCapacity \in Nat
    /\ maxLength \in Nat /\ maxLength >= initialCapacity
    /\ Maker \subseteq {"builder", "buffer"}
    /\ IsFiniteSet(Holder) /\ "none" \notin Block

VARIABLES
    strings,          \* the nodes of the pool, whose order is of no account
    node,             \* what each block holds: text, length_ and references
    variant,          \* of each holder: its type and, for its kind, text or block
    scratch,          \* node_ and size_ of each maker
    \* history
    said              \* the text that each holder was last given

stringVars == <<strings, node, variant, scratch, said>>

NoBlock == "none"

\* Of the texts that are too long, those of one letter are enough.
GivenText == (UNION {[1 .. n -> Char] : n \in 0 .. maxLength})
             \cup {[k \in 1 .. maxLength + 1 |-> c] : c \in Char}
Unused == [text |-> <<>>, length |-> -1, refs |-> 0]
Null == [type |-> "null", text |-> <<>>, at |-> NoBlock]
Idle == [at |-> NoBlock, size |-> 0]

StringsInit ==
    /\ strings = {} /\ node = [b \in Block |-> Unused]
    /\ variant = [h \in Holder |-> Null] /\ said = [h \in Holder |-> <<>>]
    /\ scratch = [m \in {"builder", "buffer"} |-> Idle]
-----------------------------------------------------------------------------
FreeBlocks == {b \in Block : node[b] = Unused}

\* StringNode::create(): the block that a text of n characters gets, if any.
create(n) == IF n > maxLength THEN {} ELSE FreeBlocks

isTinyString(s) == Len(s) <= tinyStringMaxLength

\* StringPool::get(): the nodes with this text.
get(s) == {b \in strings : node[b].text = s}

\* A state s = [strings, node]; dereference() gives the last reference back.
Pool == [strings |-> strings, node |-> node]

dereference(p, b) ==
    IF p.node[b].refs > 1 THEN [p EXCEPT !.node[b].refs = @ - 1]
    ELSE [p EXCEPT !.strings = @ \ {b}, !.node[b] = Unused]

OwnsNode(h) == variant[h].type \in {"owned", "raw"}

Cleared(h) == IF OwnsNode(h) THEN dereference(Pool, variant[h].at) ELSE Pool

Becomes(p, h, v, s) ==
    /\ strings' = p.strings /\ node' = p.node
    /\ variant' = [variant EXCEPT ![h] = v]
    /\ said' = [said EXCEPT ![h] = s]

clearVariant(h) == Becomes(Cleared(h), h, Null, <<>>) /\ UNCHANGED scratch

\* ResourceManager::clear(): the pool is emptied, of the makers' nodes none.
clearAll ==
    /\ strings' = {}
    /\ node' = [b \in Block |-> IF b \in strings THEN Unused ELSE node[b]]
    /\ variant' = [h \in Holder |-> Null] /\ said' = [h \in Holder |-> <<>>]
    /\ UNCHANGED scratch

TinyV(s) == [type |-> "tiny", text |-> s, at |-> NoBlock]
NodeV(type, b) == [type |-> type, text |-> <<>>, at |-> b]

\* Mutant: the reference to a string that is there already is not counted.
sharedUncounted(p, h, type, b, s) == Becomes(p, h, NodeV(type, b), s)

\* A string that the pool has is shared.
shared(p, h, type, b, s) ==
    Becomes([p EXCEPT !.node[b].refs = @ + 1], h, NodeV(type, b), s)

\* StringPool::add(): a string that the pool has is shared, another gets a node,
\* and without memory the holder stays null.
saveString(p, h, type, s) ==
    LET same == {b \in p.strings : p.node[b].text = s}
        made == IF Len(s) > maxLength THEN {} ELSE {b \in Block : p.node[b] = Unused}
    IN  \/ \E b \in same : shared(p, h, type, b, s)
        \/ /\ same = {}
           /\ \/ \E b \in made :
                     Becomes([strings |-> p.strings \cup {b},
                              node |-> [p.node EXCEPT ![b] =
                                          [text |-> s, length |-> Len(s), refs |-> 1]]],
                             h, NodeV(type, b), s)
              \/ Becomes(p, h, Null, <<>>)

\* setString(): what the holder has is cleared first.
setString(h, s) ==
    /\ UNCHANGED scratch
    /\ IF isTinyString(s) THEN Becomes(Cleared(h), h, TinyV(s), s)
                          ELSE saveString(Cleared(h), h, "owned", s)

\* serialized(): a raw string is never kept in the variant itself.
setRawString(h, s) ==
    UNCHANGED scratch /\ saveString(Cleared(h), h, "raw", s)

\* A Printable prints into a StringBuilder of its own, whose node is given up
\* when the pool has the string, and when memory runs out while it grows.
convertToJson(h, s) ==
    LET p    == Cleared(h)
        free == {b \in Block : p.node[b] = Unused}
    IN  /\ UNCHANGED scratch
        /\ \/ free # {} /\ isTinyString(s) /\ Becomes(p, h, TinyV(s), s)
           \/ free # {} /\ ~ isTinyString(s) /\ saveString(p, h, "owned", s)
           \/ Becomes(p, h, Null, <<>>)

-----------------------------------------------------------------------------
\* A maker takes, changes or gives up its node.
Scratch(m, at, size, n) ==
    /\ m \in Maker
    /\ scratch' = [scratch EXCEPT ![m] = [at |-> at, size |-> size]] /\ node' = n
    /\ UNCHANGED <<strings, variant, said>>

Fresh(n) == [text |-> <<>>, length |-> n, refs |-> 1]
Gone(b) == [node EXCEPT ![b] = Unused]
Written(m) == SubSeq(node[scratch[m].at].text, 1, scratch[m].size)

\* StringBuilder::startString()
startString ==
    LET at == scratch["builder"].at
    IN  \/ at # NoBlock /\ Scratch("builder", at, 0, node)
        \/ /\ at = NoBlock
           /\ \/ \E b \in create(initialCapacity) :
                     Scratch("builder", b, 0, [node EXCEPT ![b] = Fresh(initialCapacity)])
              \/ Scratch("builder", NoBlock, 0, node)

\* StringBuilder::append(): the node grows, or is given up.
append(c) ==
    LET s    == scratch["builder"]
        text == Append(Written("builder"), c)
        n    == IF s.size = node[s.at].length THEN 2 * s.size + 1 ELSE node[s.at].length
    IN  /\ s.at # NoBlock
        /\ \/ /\ n <= maxLength
              /\ Scratch("builder", s.at, s.size + 1,
                         [node EXCEPT ![s.at].text = text, ![s.at].length = n])
           \/ s.size = node[s.at].length /\ Scratch("builder", NoBlock, s.size, Gone(s.at))

\* StringBuffer::reserve() and the bytes that are read: all, or some of them.
reserve(s, read) ==
    LET at   == scratch["buffer"].at
        keep == at # NoBlock /\ Len(s) <= node[at].length
        n    == IF at # NoBlock /\ ~ keep THEN Gone(at) ELSE node
    IN  \/ /\ keep
           /\ Scratch("buffer", at, Len(s), [n EXCEPT ![at].text = SubSeq(s, 1, read)])
        \/ /\ ~ keep
           /\ \/ \E b \in {c \in Block : n[c] = Unused /\ Len(s) <= maxLength} :
                     Scratch("buffer", b, Len(s),
                             [n EXCEPT ![b] = [Fresh(Len(s)) EXCEPT !.text = SubSeq(s, 1, read)]])
              \/ Scratch("buffer", NoBlock, scratch["buffer"].size, n)

\* The node of the maker, cut to its size, becomes a node of the pool.
HandsOver(m, h, type) ==
    LET b == scratch[m].at
        s == Written(m)
    IN  /\ Becomes([strings |-> strings \cup {b},
                    node |-> [node EXCEPT ![b] = [text |-> s, length |-> Len(s), refs |-> 1]]],
                   h, NodeV(type, b), s)
        /\ scratch' = [scratch EXCEPT ![m].at = NoBlock]

\* save() of either maker and saveRaw(), on a variant that is null: a string that
\* the pool has is shared and the node kept for the next string.
Saves(m, h, type) ==
    LET s    == Written(m)
        tiny == type = "owned" /\ isTinyString(s)
    IN  \/ tiny /\ Becomes(Pool, h, TinyV(s), s) /\ UNCHANGED scratch
        \/ ~ tiny /\ UNCHANGED scratch /\ \E b \in get(s) : shared(Pool, h, type, b, s)
        \/ ~ tiny /\ get(s) = {} /\ HandsOver(m, h, type)

save(m, h) ==
    /\ m \in Maker /\ scratch[m].at # NoBlock
    /\ Len(node[scratch[m].at].text) >= scratch[m].size
    /\ variant[h].type = "null"
    /\ Saves(m, h, "owned") \/ (m = "buffer" /\ Saves(m, h, "raw"))

\* The destructor of either maker.
Destroy(m) ==
    /\ scratch[m].at # NoBlock
    /\ Scratch(m, NoBlock, 0, Gone(scratch[m].at))

\* asString(), asRawString(): the text up to the length that the node has; what
\* was not written there is no character.
asString(h) ==
    LET n == node[variant[h].at]
    IN  IF OwnsNode(h)
        THEN [k \in 1 .. n.length |-> IF k \in DOMAIN n.text THEN n.text[k] ELSE NoBlock]
        ELSE variant[h].text

StringsNext ==
    \/ \E h \in Holder : \/ clearVariant(h)
                      \/ \E s \in GivenText : \/ setString(h, s) \/ setRawString(h, s)
                                          \/ convertToJson(h, s)
    \/ clearAll
    \/ startString \/ \E c \in Char : append(c)
    \/ \E s \in GivenText : \E read \in {0, Len(s)} : reserve(s, read)
    \/ \E m \in Maker : Destroy(m) \/ \E h \in Holder : save(m, h)

StringsSpec == StringsInit /\ [][StringsNext]_stringVars
-----------------------------------------------------------------------------
\* StringPool: the references of a node are the variants that hold it, so none is
\* freed that is held and none is kept that is not.
ReferencesRight ==
    \A b \in strings :
        /\ node[b].refs = Cardinality({h \in Holder : OwnsNode(h) /\ variant[h].at = b})
        /\ node[b].refs > 0

\* StringPool::get(): a text is stored once.
StoredOnce == \A b, c \in strings : node[b].text = node[c].text => b = c

\* A holder reads what it was given, whatever the makers have done with their
\* nodes since (asString(), asRawString()).
ReadsAsGiven == \A h \in Holder : asString(h) = said[h]

\* resize(), dereference(), reserve(): a block that is allocated is in the pool or
\* with a maker, also after an allocation that failed.
NothingLeaks ==
    \A b \in Block :
        node[b] # Unused => b \in strings \cup {scratch[m].at : m \in Maker}

\* The strings of a document, through all that is made, shared and cleared.
StringsAgree == ReferencesRight /\ StoredOnce /\ ReadsAsGiven /\ NothingLeaks
=============================================================================
