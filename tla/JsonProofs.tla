------------------------------ MODULE JsonProofs ------------------------------
(***************************************************************************)
(* Proofs about JsonMemory: the reference counts of the strings and the    *)
(* texts that variants read, for any texts, variants, blocks and failures; *)
(* the ids and the free list of the slots, for any width of the ids and    *)
(* any capacity of the pools.                                              *)
(***************************************************************************)
EXTENDS JsonMemory, FiniteSetTheorems, SequenceTheorems, TLAPS
NodeType == [text : Seq(Char), length : Int, refs : Nat]
VariantType == [type : {"null", "tiny", "owned", "raw"}, text : Seq(Char),
                at : Block \cup {NoBlock}]

\* The variants that hold the string of block b.
HoldersOf(v, b) == {h \in Holder : v[h].type \in {"owned", "raw"} /\ v[h].at = b}

\* What a variant holds is in the pool and is what it was given ...
HeldRight(st, nd, v, sd) ==
    \A h \in Holder :
        IF v[h].type \in {"owned", "raw"}
        THEN v[h].at \in st /\ sd[h] = nd[v[h].at].text
        ELSE sd[h] = v[h].text

\* ... and what the pool has is held, as often as it says, and is there once.
CountedRight(st, nd, v) ==
    \A b \in st :
        /\ nd[b].refs = Cardinality(HoldersOf(v, b))
        /\ nd[b].refs > 0
        /\ nd[b].length = Len(nd[b].text)

TextsDiffer(st, nd) == \A b, c \in st : nd[b].text = nd[c].text => b = c

Shares(st, nd, v, sd) ==
    /\ st \subseteq Block /\ nd \in [Block -> NodeType]
    /\ v \in [Holder -> VariantType] /\ sd \in [Holder -> Seq(Char)]
    /\ HeldRight(st, nd, v, sd)
    /\ CountedRight(st, nd, v)
    /\ TextsDiffer(st, nd)

Makers == {"builder", "buffer"}

\* The nodes of the makers are in use and not in the pool, and nothing else is in
\* use but in the pool.
Kept(st, nd, sc) ==
    /\ sc \in [Makers -> [at : Block \cup {NoBlock}, size : Nat]]
    /\ \A m \in Makers :
          sc[m].at # NoBlock => m \in Maker /\ sc[m].at \notin st /\ nd[sc[m].at].refs > 0
    /\ sc["builder"].at # NoBlock => sc["builder"].at # sc["buffer"].at
    /\ sc["builder"].at # NoBlock => sc["builder"].size <= Len(nd[sc["builder"].at].text)
    /\ \A b \in Block : nd[b] # Unused =>
          b \in st \/ b = sc["builder"].at \/ b = sc["buffer"].at

StringsInv ==
    /\ Shares(strings, node, variant, said)
    /\ Kept(strings, node, scratch)

LEMMA HoldersFinite ==
  ASSUME StringsAssumption, NEW v, NEW b
  PROVE  IsFiniteSet(HoldersOf(v, b)) /\ Cardinality(HoldersOf(v, b)) \in Nat
BY FS_Subset, FS_CardinalityType DEF HoldersOf, StringsAssumption

\* A variant that holds no string of the pool is given another that does not.
LEMMA GivenPlain ==
  ASSUME NEW st, NEW nd, NEW v, NEW sd, Shares(st, nd, v, sd),
         NEW h \in Holder, v[h].type \notin {"owned", "raw"},
         NEW s \in Seq(Char), NEW x \in VariantType,
         x.type \notin {"owned", "raw"}, x.text = s
  PROVE  Shares(st, nd, [v EXCEPT ![h] = x], [sd EXCEPT ![h] = s])
<1>1. PICK w, sw : w = [v EXCEPT ![h] = x] /\ sw = [sd EXCEPT ![h] = s]
  OBVIOUS
<1>2. w \in [Holder -> VariantType] /\ sw \in [Holder -> Seq(Char)]
  BY <1>1 DEF Shares
<1>3. /\ w[h] = x /\ sw[h] = s
      /\ \A g \in Holder \ {h} : w[g] = v[g] /\ sw[g] = sd[g]
  BY <1>1 DEF Shares
<1>4. HeldRight(st, nd, w, sw)
  BY <1>3 DEF HeldRight, Shares
<1>5. \A b : HoldersOf(w, b) = HoldersOf(v, b)
  BY <1>3 DEF HoldersOf
<1>6. CountedRight(st, nd, w)
  BY <1>5 DEF CountedRight, Shares
<1>7. QED
  BY <1>1, <1>2, <1>4, <1>6 DEF Shares

\* Such a variant shares a string of the pool.
LEMMA GivenShared ==
  ASSUME StringsAssumption,
         NEW st, NEW nd, NEW v, NEW sd, Shares(st, nd, v, sd),
         NEW h \in Holder, v[h].type \notin {"owned", "raw"},
         NEW b \in st, NEW type \in {"owned", "raw"}
  PROVE  Shares(st, [nd EXCEPT ![b].refs = @ + 1], [v EXCEPT ![h] = NodeV(type, b)],
                [sd EXCEPT ![h] = nd[b].text])
<1>1. PICK w, sw : w = [v EXCEPT ![h] = NodeV(type, b)] /\ sw = [sd EXCEPT ![h] = nd[b].text]
  OBVIOUS
<1>2. PICK md : md = [nd EXCEPT ![b].refs = @ + 1]
  OBVIOUS
<1>3. b \in Block /\ nd[b] \in NodeType
  BY DEF Shares
<1>14. PICK x : x = [nd[b] EXCEPT !.refs = @ + 1]
  OBVIOUS
<1>15. /\ x \in NodeType /\ x.text = nd[b].text /\ x.length = nd[b].length
       /\ x.refs = nd[b].refs + 1
  BY <1>3, <1>14 DEF NodeType
<1>16. md = [nd EXCEPT ![b] = x]
  BY <1>2, <1>14
<1>4. /\ md \in [Block -> NodeType]
      /\ \A c \in Block : md[c].text = nd[c].text /\ md[c].length = nd[c].length
      /\ md[b].refs = nd[b].refs + 1
      /\ \A c \in Block : c # b => md[c].refs = nd[c].refs
  BY <1>3, <1>15, <1>16 DEF Shares
<1>5. NodeV(type, b) \in VariantType
  BY <1>3 DEF NodeV, VariantType
<1>6. w \in [Holder -> VariantType] /\ sw \in [Holder -> Seq(Char)]
  BY <1>1, <1>3, <1>5 DEF Shares, NodeType
<1>7. /\ w[h].type = type /\ w[h].at = b /\ sw[h] = nd[b].text
      /\ \A g \in Holder \ {h} : w[g] = v[g] /\ sw[g] = sd[g]
  BY <1>1 DEF Shares, NodeV
<1>8. HeldRight(st, md, w, sw)
  BY <1>3, <1>4, <1>7 DEF HeldRight, Shares
<1>9. /\ HoldersOf(w, b) = HoldersOf(v, b) \cup {h} /\ h \notin HoldersOf(v, b)
      /\ \A c : c # b => HoldersOf(w, c) = HoldersOf(v, c)
  BY <1>7 DEF HoldersOf
<1>10. Cardinality(HoldersOf(w, b)) = Cardinality(HoldersOf(v, b)) + 1
  <2>1. IsFiniteSet(HoldersOf(v, b))
    BY HoldersFinite
  <2>2. PICK S : S = HoldersOf(v, b)
    OBVIOUS
  <2>3. HoldersOf(w, b) = S \cup {h} /\ h \notin S /\ IsFiniteSet(S)
    BY <1>9, <2>1, <2>2
  <2>4. Cardinality(S \cup {h}) = Cardinality(S) + 1
    BY <2>3, FS_AddElement
  <2>5. QED
    BY <2>2, <2>3, <2>4
<1>11. CountedRight(st, md, w)
  <2>1. ASSUME NEW c \in st
        PROVE  /\ md[c].refs = Cardinality(HoldersOf(w, c)) /\ md[c].refs > 0
               /\ md[c].length = Len(md[c].text)
    <3>1. /\ nd[c].refs = Cardinality(HoldersOf(v, c)) /\ nd[c].refs > 0
          /\ nd[c].length = Len(nd[c].text) /\ c \in Block
      BY DEF CountedRight, Shares
    <3>2. md[c].length = Len(md[c].text)
      BY <1>4, <3>1
    <3>3. CASE c = b
      BY <1>3, <1>4, <1>10, <3>1, <3>2, <3>3 DEF NodeType
    <3>4. CASE c # b
      BY <1>4, <1>9, <3>1, <3>2, <3>4
    <3>5. QED
      BY <3>3, <3>4
  <2>2. QED
    BY <2>1 DEF CountedRight
<1>12. TextsDiffer(st, md)
  BY <1>4 DEF TextsDiffer, Shares
<1>13. QED
  BY <1>1, <1>2, <1>4, <1>6, <1>8, <1>11, <1>12 DEF Shares

\* Such a variant gets a node that was not in the pool, for a text that was not.
LEMMA GivenNew ==
  ASSUME StringsAssumption,
         NEW st, NEW nd, NEW v, NEW sd, Shares(st, nd, v, sd),
         NEW h \in Holder, v[h].type \notin {"owned", "raw"},
         NEW b \in Block, b \notin st, NEW type \in {"owned", "raw"},
         NEW s \in Seq(Char), \A c \in st : nd[c].text # s
  PROVE  Shares(st \cup {b}, [nd EXCEPT ![b] = [text |-> s, length |-> Len(s), refs |-> 1]],
                [v EXCEPT ![h] = NodeV(type, b)], [sd EXCEPT ![h] = s])
<1>1. PICK w, sw : w = [v EXCEPT ![h] = NodeV(type, b)] /\ sw = [sd EXCEPT ![h] = s]
  OBVIOUS
<1>2. PICK x : x = [text |-> s, length |-> Len(s), refs |-> 1]
  OBVIOUS
<1>3. PICK md : md = [nd EXCEPT ![b] = x]
  OBVIOUS
<1>4. x \in NodeType /\ x.text = s /\ x.length = Len(s) /\ x.refs = 1
  BY <1>2 DEF NodeType
<1>5. /\ md \in [Block -> NodeType] /\ md[b] = x
      /\ \A c \in Block : c # b => md[c] = nd[c]
  BY <1>3, <1>4 DEF Shares
<1>6. NodeV(type, b) \in VariantType
  BY DEF NodeV, VariantType
<1>7. w \in [Holder -> VariantType] /\ sw \in [Holder -> Seq(Char)]
  BY <1>1, <1>6 DEF Shares
<1>8. /\ w[h].type = type /\ w[h].at = b /\ sw[h] = s
      /\ \A g \in Holder \ {h} : w[g] = v[g] /\ sw[g] = sd[g]
  BY <1>1 DEF Shares, NodeV
<1>9. st \subseteq Block
  BY DEF Shares
<1>10. HeldRight(st \cup {b}, md, w, sw)
  <2>1. ASSUME NEW g \in Holder \ {h}
        PROVE  IF w[g].type \in {"owned", "raw"}
               THEN w[g].at \in st \cup {b} /\ sw[g] = md[w[g].at].text
               ELSE sw[g] = w[g].text
    <3>1. IF v[g].type \in {"owned", "raw"}
          THEN v[g].at \in st /\ sd[g] = nd[v[g].at].text
          ELSE sd[g] = v[g].text
      BY DEF Shares, HeldRight
    <3>2. QED
      BY <1>5, <1>8, <1>9, <3>1
  <2>2. QED
    BY <1>4, <1>5, <1>8, <2>1 DEF HeldRight
<1>11. /\ HoldersOf(w, b) = HoldersOf(v, b) \cup {h}
       /\ \A c : c # b => HoldersOf(w, c) = HoldersOf(v, c)
  BY <1>8 DEF HoldersOf
<1>12. HoldersOf(v, b) = {}
  BY DEF HoldersOf, Shares, HeldRight
<1>13. Cardinality(HoldersOf(w, b)) = 1
  <2>1. HoldersOf(w, b) = {h}
    BY <1>11, <1>12
  <2>2. QED
    BY <2>1, FS_Singleton
<1>14. CountedRight(st \cup {b}, md, w)
  <2>1. ASSUME NEW c \in st
        PROVE  /\ md[c].refs = Cardinality(HoldersOf(w, c)) /\ md[c].refs > 0
               /\ md[c].length = Len(md[c].text)
    <3>1. /\ nd[c].refs = Cardinality(HoldersOf(v, c)) /\ nd[c].refs > 0
          /\ nd[c].length = Len(nd[c].text)
      BY DEF CountedRight, Shares
    <3>2. QED
      BY <1>5, <1>9, <1>11, <3>1
  <2>2. QED
    BY <1>4, <1>5, <1>13, <2>1 DEF CountedRight
<1>15. TextsDiffer(st \cup {b}, md)
  BY <1>4, <1>5, <1>9 DEF TextsDiffer, Shares
<1>16. QED
  BY <1>1, <1>2, <1>3, <1>5, <1>7, <1>9, <1>10, <1>14, <1>15 DEF Shares

\* clear() of a variant: it holds nothing, and a string that nobody holds is gone.
LEMMA ClearedShares ==
  ASSUME StringsAssumption, Shares(strings, node, variant, said), NEW h \in Holder
  PROVE  \E st, nd :
            /\ Cleared(h) = [strings |-> st, node |-> nd]
            /\ Shares(st, nd, [variant EXCEPT ![h] = Null], [said EXCEPT ![h] = <<>>])
            /\ st \subseteq strings
            /\ \A b \in Block : \/ nd[b] = node[b] /\ (b \in st <=> b \in strings)
                                \/ b \in strings /\ b \in st
                                \/ b \in strings /\ b \notin st /\ nd[b] = Unused
<1>1. Null \in VariantType /\ Null.type \notin {"owned", "raw"} /\ Null.text = <<>>
  BY DEF Null, VariantType
<1>2. <<>> \in Seq(Char)
  OBVIOUS
<1>3. CASE ~ OwnsNode(h)
  <2>1. Cleared(h) = [strings |-> strings, node |-> node]
    BY <1>3 DEF Cleared, Pool
  <2>2. variant[h].type \notin {"owned", "raw"}
    BY <1>3 DEF OwnsNode
  <2>3. Shares(strings, node, [variant EXCEPT ![h] = Null], [said EXCEPT ![h] = <<>>])
    BY <1>1, <1>2, <2>2, GivenPlain
  <2>4. QED
    BY <2>1, <2>3
<1>4. CASE OwnsNode(h)
  <2>1. PICK a : a = variant[h].at
    OBVIOUS
  <2>2. PICK w, sw : w = [variant EXCEPT ![h] = Null] /\ sw = [said EXCEPT ![h] = <<>>]
    OBVIOUS
  <2>3. /\ strings \subseteq Block /\ node \in [Block -> NodeType]
        /\ variant \in [Holder -> VariantType] /\ said \in [Holder -> Seq(Char)]
        /\ HeldRight(strings, node, variant, said)
        /\ CountedRight(strings, node, variant) /\ TextsDiffer(strings, node)
    BY DEF Shares
  <2>4. /\ variant[h].type \in {"owned", "raw"} /\ a \in strings /\ a \in Block
        /\ node[a] \in NodeType
        /\ node[a].refs = Cardinality(HoldersOf(variant, a)) /\ node[a].refs > 0
    BY <1>4, <2>1, <2>3 DEF OwnsNode, HeldRight, CountedRight
  <2>5. w \in [Holder -> VariantType] /\ sw \in [Holder -> Seq(Char)]
    BY <1>1, <1>2, <2>2, <2>3
  <2>6. /\ w[h] = Null /\ sw[h] = <<>>
        /\ \A g \in Holder \ {h} : w[g] = variant[g] /\ sw[g] = said[g]
    BY <2>2, <2>3
  <2>7. /\ HoldersOf(w, a) = HoldersOf(variant, a) \ {h} /\ h \in HoldersOf(variant, a)
        /\ \A c : c # a => HoldersOf(w, c) = HoldersOf(variant, c)
    BY <1>1, <2>1, <2>4, <2>6 DEF HoldersOf
  <2>8. IsFiniteSet(HoldersOf(variant, a))
    BY HoldersFinite
  <2>9. Cardinality(HoldersOf(w, a)) = Cardinality(HoldersOf(variant, a)) - 1
    BY <2>7, <2>8, FS_RemoveElement
  <2>10. CASE node[a].refs > 1
    <3>1. PICK x : x = [node[a] EXCEPT !.refs = @ - 1]
      OBVIOUS
    <3>2. /\ x \in NodeType /\ x.text = node[a].text /\ x.length = node[a].length
          /\ x.refs = node[a].refs - 1
      BY <2>4, <2>10, <3>1 DEF NodeType
    <3>3. PICK nd : nd = [node EXCEPT ![a] = x]
      OBVIOUS
    <3>4. Cleared(h) = [strings |-> strings, node |-> nd]
      BY <1>4, <2>1, <2>10, <3>1, <3>3 DEF Cleared, Pool, dereference
    <3>5. /\ nd \in [Block -> NodeType] /\ nd[a] = x
          /\ \A c \in Block : c # a => nd[c] = node[c]
          /\ \A c \in Block : nd[c].text = node[c].text /\ nd[c].length = node[c].length
      BY <2>3, <2>4, <3>2, <3>3
    <3>6. HeldRight(strings, nd, w, sw)
      <4>1. ASSUME NEW g \in Holder
            PROVE  IF w[g].type \in {"owned", "raw"}
                   THEN w[g].at \in strings /\ sw[g] = nd[w[g].at].text
                   ELSE sw[g] = w[g].text
        <5>1. CASE g = h
          BY <1>1, <2>6, <5>1
        <5>2. CASE g # h
          <6>1. w[g] = variant[g] /\ sw[g] = said[g]
            BY <2>6, <5>2
          <6>2. IF variant[g].type \in {"owned", "raw"}
                THEN variant[g].at \in strings /\ said[g] = node[variant[g].at].text
                ELSE said[g] = variant[g].text
            BY <2>3 DEF HeldRight
          <6>3. QED
            BY <2>3, <3>5, <6>1, <6>2
        <5>3. QED
          BY <5>1, <5>2
      <4>2. QED
        BY <4>1 DEF HeldRight
    <3>7. CountedRight(strings, nd, w)
      <4>1. ASSUME NEW c \in strings
            PROVE  /\ nd[c].refs = Cardinality(HoldersOf(w, c)) /\ nd[c].refs > 0
                   /\ nd[c].length = Len(nd[c].text)
        <5>1. /\ node[c].refs = Cardinality(HoldersOf(variant, c)) /\ node[c].refs > 0
              /\ node[c].length = Len(node[c].text)
          BY <2>3 DEF CountedRight
        <5>2. CASE c = a
          BY <2>4, <2>9, <2>10, <3>2, <3>5, <5>1, <5>2 DEF NodeType
        <5>3. CASE c # a
          BY <2>3, <2>7, <3>5, <5>1, <5>3
        <5>4. QED
          BY <5>2, <5>3
      <4>2. QED
        BY <4>1 DEF CountedRight
    <3>8. TextsDiffer(strings, nd)
      BY <2>3, <3>5 DEF TextsDiffer
    <3>9. Shares(strings, nd, w, sw)
      BY <2>3, <2>5, <3>5, <3>6, <3>7, <3>8 DEF Shares
    <3>10. \A b \in Block : nd[b] = node[b] \/ b \in strings
      BY <2>4, <3>5
    <3>11. QED
      BY <2>2, <3>4, <3>9, <3>10
  <2>11. CASE ~ (node[a].refs > 1)
    <3>1. PICK st, nd : st = strings \ {a} /\ nd = [node EXCEPT ![a] = Unused]
      OBVIOUS
    <3>2. Cleared(h) = [strings |-> st, node |-> nd]
      BY <1>4, <2>1, <2>11, <3>1 DEF Cleared, Pool, dereference
    <3>3. Unused \in NodeType
      BY DEF Unused, NodeType
    <3>4. /\ nd \in [Block -> NodeType] /\ nd[a] = Unused
          /\ \A c \in Block : c # a => nd[c] = node[c]
      BY <2>3, <2>4, <3>1, <3>3
    <3>5. HoldersOf(w, a) = {}
      <4>1. Cardinality(HoldersOf(w, a)) = 0
        BY <2>4, <2>9, <2>11 DEF NodeType
      <4>2. IsFiniteSet(HoldersOf(w, a))
        BY HoldersFinite
      <4>3. QED
        BY <4>1, <4>2, FS_EmptySet
    <3>6. HeldRight(st, nd, w, sw)
      <4>1. ASSUME NEW g \in Holder
            PROVE  IF w[g].type \in {"owned", "raw"}
                   THEN w[g].at \in st /\ sw[g] = nd[w[g].at].text
                   ELSE sw[g] = w[g].text
        <5>1. CASE g = h
          BY <1>1, <2>6, <5>1
        <5>2. CASE g # h
          <6>1. w[g] = variant[g] /\ sw[g] = said[g]
            BY <2>6, <5>2
          <6>2. IF variant[g].type \in {"owned", "raw"}
                THEN variant[g].at \in strings /\ said[g] = node[variant[g].at].text
                ELSE said[g] = variant[g].text
            BY <2>3 DEF HeldRight
          <6>3. w[g].type \in {"owned", "raw"} => w[g].at # a
            BY <3>5 DEF HoldersOf
          <6>4. QED
            BY <2>3, <3>1, <3>4, <6>1, <6>2, <6>3
        <5>3. QED
          BY <5>1, <5>2
      <4>2. QED
        BY <4>1 DEF HeldRight
    <3>7. CountedRight(st, nd, w)
      BY <2>3, <2>7, <3>1, <3>4 DEF CountedRight
    <3>8. TextsDiffer(st, nd)
      BY <2>3, <3>1, <3>4 DEF TextsDiffer
    <3>9. Shares(st, nd, w, sw)
      BY <2>3, <2>5, <3>1, <3>4, <3>6, <3>7, <3>8 DEF Shares
    <3>10. /\ st \subseteq strings
           /\ \A b \in Block : \/ nd[b] = node[b] /\ (b \in st <=> b \in strings)
                               \/ b \in strings /\ b \notin st /\ nd[b] = Unused
      BY <2>4, <3>1, <3>4
    <3>11. QED
      BY <2>2, <3>2, <3>9, <3>10
  <2>12. QED
    BY <2>10, <2>11
<1>5. QED
  BY <1>3, <1>4

\* The two ways out of ClearedShares that matter to the makers.
Released(st, nd) ==
    /\ st \subseteq strings
    /\ \A b \in Block : \/ nd[b] = node[b] /\ (b \in st <=> b \in strings)
                        \/ b \in strings /\ b \in st
                        \/ b \in strings /\ b \notin st /\ nd[b] = Unused

\* The makers keep theirs while a variant gives up its string ...
LEMMA ReleasedKeeps ==
  ASSUME StringsAssumption, NEW st, NEW nd, Kept(strings, node, scratch), Released(st, nd),
         nd \in [Block -> NodeType]
  PROVE  Kept(st, nd, scratch)
<1>1. \A m \in Makers : scratch[m] \in [at : Block \cup {NoBlock}, size : Nat]
  BY DEF Kept
<1>2. ASSUME NEW m \in Makers, scratch[m].at # NoBlock
      PROVE  /\ m \in Maker /\ scratch[m].at \notin st
             /\ nd[scratch[m].at] = node[scratch[m].at]
             /\ nd[scratch[m].at].refs > 0
  <2>1. scratch[m].at \in Block
    BY <1>1, <1>2
  <2>2. /\ m \in Maker /\ scratch[m].at \notin strings /\ node[scratch[m].at].refs > 0
    BY <1>2 DEF Kept
  <2>3. QED
    BY <2>1, <2>2 DEF Released
<1>3. ASSUME NEW b \in Block, nd[b] # Unused
      PROVE  b \in st \/ b = scratch["builder"].at \/ b = scratch["buffer"].at
  BY <1>3 DEF Released, Kept
<1>4. scratch["builder"].at # NoBlock =>
        scratch["builder"].size <= Len(nd[scratch["builder"].at].text)
  BY <1>2 DEF Kept, Makers
<1>5. QED
  BY <1>2, <1>3, <1>4 DEF Kept

\* ... while another node of the pool is written ...
LEMMA PoolChangeKeeps ==
  ASSUME NEW st, NEW nd \in [Block -> NodeType], NEW sc, Kept(st, nd, sc),
         NEW b \in st, NEW x, st \subseteq Block
  PROVE  Kept(st, [nd EXCEPT ![b] = x], sc)
<1>1. PICK md : md = [nd EXCEPT ![b] = x]
  OBVIOUS
<1>2. md[b] = x /\ \A c \in Block : c # b => md[c] = nd[c]
  BY <1>1
<1>3. \A m \in Makers : sc[m] \in [at : Block \cup {NoBlock}, size : Nat]
  BY DEF Kept
<1>4. ASSUME NEW m \in Makers, sc[m].at # NoBlock
      PROVE  /\ m \in Maker /\ sc[m].at \notin st
             /\ md[sc[m].at] = nd[sc[m].at]
             /\ md[sc[m].at].refs > 0
  <2>1. sc[m].at \in Block /\ sc[m].at # b
    BY <1>3, <1>4 DEF Kept
  <2>2. m \in Maker /\ sc[m].at \notin st /\ nd[sc[m].at].refs > 0
    BY <1>4 DEF Kept
  <2>3. QED
    BY <1>2, <2>1, <2>2
<1>5. ASSUME NEW c \in Block, md[c] # Unused
      PROVE  c \in st \/ c = sc["builder"].at \/ c = sc["buffer"].at
  BY <1>2, <1>5 DEF Kept
<1>6. sc["builder"].at # NoBlock =>
        sc["builder"].size <= Len(md[sc["builder"].at].text)
  BY <1>4 DEF Kept, Makers
<1>7. QED
  BY <1>1, <1>4, <1>5, <1>6 DEF Kept

\* ... and while the pool gets a block that was not in use.
LEMMA PoolGrowthKeeps ==
  ASSUME NEW st, NEW nd \in [Block -> NodeType], NEW sc, Kept(st, nd, sc),
         NEW b \in Block, nd[b] = Unused, NEW x
  PROVE  Kept(st \cup {b}, [nd EXCEPT ![b] = x], sc)
<1>1. PICK md : md = [nd EXCEPT ![b] = x]
  OBVIOUS
<1>2. md[b] = x /\ \A c \in Block : c # b => md[c] = nd[c]
  BY <1>1
<1>3. \A m \in Makers : sc[m] \in [at : Block \cup {NoBlock}, size : Nat]
  BY DEF Kept
<1>4. ASSUME NEW m \in Makers, sc[m].at # NoBlock
      PROVE  /\ m \in Maker /\ sc[m].at \notin st \cup {b}
             /\ md[sc[m].at] = nd[sc[m].at]
             /\ md[sc[m].at].refs > 0
  <2>1. m \in Maker /\ sc[m].at \notin st /\ nd[sc[m].at].refs > 0
    BY <1>4 DEF Kept
  <2>2. sc[m].at \in Block /\ sc[m].at # b
    BY <1>3, <1>4, <2>1 DEF Unused
  <2>3. QED
    BY <1>2, <2>1, <2>2
<1>5. ASSUME NEW c \in Block, md[c] # Unused
      PROVE  c \in st \cup {b} \/ c = sc["builder"].at \/ c = sc["buffer"].at
  BY <1>2, <1>5 DEF Kept
<1>6. sc["builder"].at # NoBlock =>
        sc["builder"].size <= Len(md[sc["builder"].at].text)
  BY <1>4 DEF Kept, Makers
<1>7. QED
  BY <1>1, <1>4, <1>5, <1>6 DEF Kept

\* The nodes of the makers are no business of the pool.
LEMMA MakersApart ==
  ASSUME NEW st, NEW nd, NEW v, NEW sd, Shares(st, nd, v, sd),
         NEW b \in Block, b \notin st, NEW x \in NodeType
  PROVE  Shares(st, [nd EXCEPT ![b] = x], v, sd)
<1>1. PICK md : md = [nd EXCEPT ![b] = x]
  OBVIOUS
<1>2. /\ st \subseteq Block /\ nd \in [Block -> NodeType]
      /\ v \in [Holder -> VariantType] /\ sd \in [Holder -> Seq(Char)]
  BY DEF Shares
<1>3. md \in [Block -> NodeType] /\ \A c \in st : md[c] = nd[c]
  BY <1>1, <1>2
<1>4. HeldRight(st, md, v, sd)
  <2>1. ASSUME NEW h \in Holder
        PROVE  IF v[h].type \in {"owned", "raw"}
               THEN v[h].at \in st /\ sd[h] = md[v[h].at].text
               ELSE sd[h] = v[h].text
    <3>1. IF v[h].type \in {"owned", "raw"}
          THEN v[h].at \in st /\ sd[h] = nd[v[h].at].text
          ELSE sd[h] = v[h].text
      BY DEF Shares, HeldRight
    <3>2. QED
      BY <1>3, <3>1
  <2>2. QED
    BY <2>1 DEF HeldRight
<1>5. CountedRight(st, md, v)
  BY <1>3 DEF CountedRight, Shares
<1>6. TextsDiffer(st, md)
  BY <1>3 DEF TextsDiffer, Shares
<1>7. QED
  BY <1>1, <1>2, <1>3, <1>4, <1>5, <1>6 DEF Shares

\* A maker gets a node, or writes to its own.
LEMMA MakerSets ==
  ASSUME StringsAssumption, NEW st, NEW nd \in [Block -> NodeType], NEW sc,
         Kept(st, nd, sc), NEW m \in Maker, NEW b \in Block, b \notin st,
         b = sc[m].at \/ (sc[m].at = NoBlock /\ nd[b] = Unused),
         NEW x \in NodeType, x.refs > 0, NEW size \in Nat,
         m = "builder" => size <= Len(x.text)
  PROVE  Kept(st, [nd EXCEPT ![b] = x], [sc EXCEPT ![m] = [at |-> b, size |-> size]])
<1>1. PICK md, y, sm : /\ md = [nd EXCEPT ![b] = x]
                       /\ y = [at |-> b, size |-> size]
                       /\ sm = [sc EXCEPT ![m] = y]
  OBVIOUS
<1>2. m \in Makers /\ NoBlock \notin Block
  BY DEF StringsAssumption, Makers, NoBlock
<1>3. /\ sc \in [Makers -> [at : Block \cup {NoBlock}, size : Nat]]
      /\ \A k \in Makers :
            sc[k].at # NoBlock => k \in Maker /\ sc[k].at \notin st /\ nd[sc[k].at].refs > 0
      /\ sc["builder"].at # NoBlock => sc["builder"].at # sc["buffer"].at
  BY DEF Kept
<1>4. y \in [at : Block \cup {NoBlock}, size : Nat] /\ y.at = b /\ y.size = size
  BY <1>1
<1>5. /\ sm \in [Makers -> [at : Block \cup {NoBlock}, size : Nat]]
      /\ sm[m] = y /\ \A k \in Makers : k # m => sm[k] = sc[k]
  BY <1>1, <1>2, <1>3, <1>4
<1>6. md[b] = x /\ \A c \in Block : c # b => md[c] = nd[c]
  BY <1>1
<1>7. ASSUME NEW k \in Makers, k # m, sc[k].at # NoBlock
      PROVE  /\ k \in Maker /\ sc[k].at \in Block /\ sc[k].at # b /\ sc[k].at \notin st
             /\ md[sc[k].at] = nd[sc[k].at] /\ md[sc[k].at].refs > 0
  <2>1. k \in Maker /\ sc[k].at \in Block /\ sc[k].at \notin st /\ nd[sc[k].at].refs > 0
    BY <1>3, <1>7
  <2>2. sc[k].at # b
    <3>1. CASE b = sc[m].at
      BY <1>2, <1>3, <1>7, <3>1 DEF Makers
    <3>2. CASE nd[b] = Unused
      BY <2>1, <3>2 DEF Unused
    <3>3. QED
      BY <3>1, <3>2
  <2>3. QED
    BY <1>6, <2>1, <2>2
<1>8. ASSUME NEW k \in Makers, sm[k].at # NoBlock
      PROVE  k \in Maker /\ sm[k].at \notin st /\ md[sm[k].at].refs > 0
  <2>1. CASE k = m
    BY <1>4, <1>5, <1>6, <2>1
  <2>2. CASE k # m
    BY <1>5, <1>7, <1>8, <2>2
  <2>3. QED
    BY <2>1, <2>2
<1>9. sm["builder"].at # NoBlock => sm["builder"].at # sm["buffer"].at
  <2>1. CASE m = "builder"
    BY <1>2, <1>4, <1>5, <1>7, <2>1 DEF Makers
  <2>2. CASE m = "buffer"
    BY <1>4, <1>5, <1>7, <2>2 DEF Makers
  <2>3. QED
    BY <1>2, <2>1, <2>2 DEF Makers
<1>10. sm["builder"].at # NoBlock =>
         sm["builder"].size <= Len(md[sm["builder"].at].text)
  <2>1. CASE m = "builder"
    BY <1>4, <1>5, <1>6, <2>1
  <2>2. CASE m = "buffer"
    <3>1. sm["builder"] = sc["builder"]
      BY <1>5, <2>2 DEF Makers
    <3>2. sc["builder"].at # NoBlock => md[sc["builder"].at] = nd[sc["builder"].at]
      BY <1>7, <2>2 DEF Makers
    <3>3. sc["builder"].at # NoBlock => sc["builder"].size <= Len(nd[sc["builder"].at].text)
      BY DEF Kept
    <3>4. QED
      BY <3>1, <3>2, <3>3
  <2>3. QED
    BY <1>2, <2>1, <2>2 DEF Makers
<1>11. ASSUME NEW c \in Block, md[c] # Unused
       PROVE  c \in st \/ c = sm["builder"].at \/ c = sm["buffer"].at
  <2>1. CASE c = b
    BY <1>2, <1>4, <1>5, <2>1 DEF Makers
  <2>2. CASE c # b
    <3>1. c \in st \/ c = sc["builder"].at \/ c = sc["buffer"].at
      BY <1>6, <1>11, <2>2 DEF Kept
    <3>2. c # sc[m].at
      BY <1>2, <2>2
    <3>3. QED
      BY <1>2, <1>5, <3>1, <3>2 DEF Makers
  <2>3. QED
    BY <2>1, <2>2
<1>12. QED
  BY <1>1, <1>5, <1>8, <1>9, <1>10, <1>11 DEF Kept

\* A maker gives its node up, if it has one.
LEMMA MakerDrops ==
  ASSUME StringsAssumption, NEW st, NEW nd \in [Block -> NodeType], NEW sc,
         Kept(st, nd, sc), NEW m \in Makers, NEW size \in Nat, NEW md,
         md = IF sc[m].at = NoBlock THEN nd ELSE [nd EXCEPT ![sc[m].at] = Unused]
  PROVE  Kept(st, md, [sc EXCEPT ![m] = [at |-> NoBlock, size |-> size]])
<1>1. PICK y, sm : y = [at |-> NoBlock, size |-> size] /\ sm = [sc EXCEPT ![m] = y]
  OBVIOUS
<1>2. NoBlock \notin Block
  BY DEF StringsAssumption, NoBlock
<1>3. /\ sc \in [Makers -> [at : Block \cup {NoBlock}, size : Nat]]
      /\ \A k \in Makers :
            sc[k].at # NoBlock => k \in Maker /\ sc[k].at \notin st /\ nd[sc[k].at].refs > 0
      /\ sc["builder"].at # NoBlock => sc["builder"].at # sc["buffer"].at
  BY DEF Kept
<1>4. y \in [at : Block \cup {NoBlock}, size : Nat] /\ y.at = NoBlock
  BY <1>1
<1>5. /\ sm \in [Makers -> [at : Block \cup {NoBlock}, size : Nat]]
      /\ sm[m] = y /\ \A k \in Makers : k # m => sm[k] = sc[k]
  BY <1>1, <1>3, <1>4
<1>6. \A c \in Block : IF c = sc[m].at THEN md[c] = Unused ELSE md[c] = nd[c]
  BY <1>2
<1>7. ASSUME NEW k \in Makers, sm[k].at # NoBlock
      PROVE  /\ k # m /\ sm[k] = sc[k] /\ k \in Maker /\ sm[k].at \notin st
             /\ md[sm[k].at] = nd[sm[k].at] /\ md[sm[k].at].refs > 0
  <2>1. k # m /\ sm[k] = sc[k]
    BY <1>4, <1>5, <1>7
  <2>2. sc[k].at \in Block /\ k \in Maker /\ sc[k].at \notin st /\ nd[sc[k].at].refs > 0
    BY <1>3, <1>7, <2>1
  <2>3. sc[k].at # sc[m].at
    BY <1>3, <1>7, <2>1 DEF Makers
  <2>4. QED
    BY <1>6, <2>1, <2>2, <2>3
<1>8. sm["builder"].at # NoBlock => sm["builder"].at # sm["buffer"].at
  BY <1>3, <1>4, <1>5 DEF Makers
<1>9. sm["builder"].at # NoBlock =>
        sm["builder"].size <= Len(md[sm["builder"].at].text)
  <2>1. SUFFICES ASSUME sm["builder"].at # NoBlock
                 PROVE  sm["builder"].size <= Len(md[sm["builder"].at].text)
    OBVIOUS
  <2>2. sm["builder"] = sc["builder"] /\ md[sm["builder"].at] = nd[sm["builder"].at]
    BY <1>7, <2>1 DEF Makers
  <2>3. QED
    BY <2>1, <2>2 DEF Kept
<1>10. ASSUME NEW c \in Block, md[c] # Unused
       PROVE  c \in st \/ c = sm["builder"].at \/ c = sm["buffer"].at
  <2>1. c # sc[m].at /\ md[c] = nd[c]
    BY <1>6, <1>10
  <2>2. c \in st \/ c = sc["builder"].at \/ c = sc["buffer"].at
    BY <1>10, <2>1 DEF Kept
  <2>3. QED
    BY <1>5, <2>1, <2>2 DEF Makers
<1>11. QED
  BY <1>1, <1>5, <1>7, <1>8, <1>9, <1>10 DEF Kept

LEMMA GivenTexts ==
  ASSUME StringsAssumption, NEW s \in GivenText
  PROVE  s \in Seq(Char) /\ Len(s) \in Nat
<1>1. CASE \E n \in 0 .. maxLength : s \in [1 .. n -> Char]
  BY <1>1
<1>2. CASE \E c \in Char : s = [k \in 1 .. maxLength + 1 |-> c]
  <2>1. PICK c \in Char : s = [k \in 1 .. maxLength + 1 |-> c]
    BY <1>2
  <2>2. PICK n \in Nat : n = maxLength + 1
    BY DEF StringsAssumption
  <2>3. s \in [1 .. n -> Char]
    BY <2>1, <2>2
  <2>4. QED
    BY <2>2, <2>3
<1>3. QED
  BY <1>1, <1>2 DEF GivenText

\* What a variant has before it is given something: nothing.
Emptied(st, nd, h) ==
    /\ Shares(st, nd, [variant EXCEPT ![h] = Null], [said EXCEPT ![h] = <<>>])
    /\ Kept(st, nd, scratch)

LEMMA ClearedEmptied ==
  ASSUME StringsAssumption, StringsInv, NEW h \in Holder
  PROVE  \E st, nd : Cleared(h) = [strings |-> st, node |-> nd] /\ Emptied(st, nd, h)
<1>1. PICK st, nd :
        /\ Cleared(h) = [strings |-> st, node |-> nd]
        /\ Shares(st, nd, [variant EXCEPT ![h] = Null], [said EXCEPT ![h] = <<>>])
        /\ Released(st, nd)
  BY ClearedShares DEF StringsInv, Released
<1>2. nd \in [Block -> NodeType]
  BY <1>1 DEF Shares
<1>3. Kept(st, nd, scratch)
  BY <1>1, <1>2, ReleasedKeeps DEF StringsInv
<1>4. QED
  BY <1>1, <1>3 DEF Emptied

\* The same of a variant that is null already.
LEMMA NullEmptied ==
  ASSUME StringsInv, NEW h \in Holder, variant[h].type = "null"
  PROVE  Emptied(strings, node, h)
<1>1. Null \in VariantType /\ Null.type \notin {"owned", "raw"} /\ Null.text = <<>>
  BY DEF Null, VariantType
<1>2. <<>> \in Seq(Char)
  OBVIOUS
<1>3. variant[h].type \notin {"owned", "raw"}
  OBVIOUS
<1>4. Shares(strings, node, [variant EXCEPT ![h] = Null], [said EXCEPT ![h] = <<>>])
  BY <1>1, <1>2, <1>3, GivenPlain DEF StringsInv
<1>5. QED
  BY <1>4 DEF Emptied, StringsInv

LEMMA EmptiedFacts ==
  ASSUME NEW st, NEW nd, NEW h \in Holder, Emptied(st, nd, h), StringsInv
  PROVE  /\ st \subseteq Block /\ nd \in [Block -> NodeType] /\ Kept(st, nd, scratch)
         /\ \A b \in st : nd[b].refs > 0
         /\ \A x : /\ [[variant EXCEPT ![h] = Null] EXCEPT ![h] = x] = [variant EXCEPT ![h] = x]
                   /\ [[said EXCEPT ![h] = <<>>] EXCEPT ![h] = x] = [said EXCEPT ![h] = x]
         /\ [variant EXCEPT ![h] = Null][h].type \notin {"owned", "raw"}
<1>1. variant \in [Holder -> VariantType] /\ said \in [Holder -> Seq(Char)]
  BY DEF StringsInv, Shares
<1>2. \A x : /\ [[variant EXCEPT ![h] = Null] EXCEPT ![h] = x] = [variant EXCEPT ![h] = x]
             /\ [[said EXCEPT ![h] = <<>>] EXCEPT ![h] = x] = [said EXCEPT ![h] = x]
  BY <1>1
<1>3. [variant EXCEPT ![h] = Null][h].type \notin {"owned", "raw"}
  BY <1>1 DEF Null
<1>4. QED
  BY <1>2, <1>3 DEF Emptied, Shares, CountedRight

\* The variant is given a string of its own, or null ...
LEMMA BecomesPlain ==
  ASSUME StringsInv, NEW st, NEW nd, NEW h \in Holder, Emptied(st, nd, h),
         NEW s \in Seq(Char), NEW x \in VariantType, x.type \notin {"owned", "raw"}, x.text = s,
         Becomes([strings |-> st, node |-> nd], h, x, s), scratch' = scratch
  PROVE  StringsInv'
<1>1. /\ strings' = st /\ node' = nd
      /\ variant' = [[variant EXCEPT ![h] = Null] EXCEPT ![h] = x]
      /\ said' = [[said EXCEPT ![h] = <<>>] EXCEPT ![h] = s]
  BY EmptiedFacts DEF Becomes
<1>2. [variant EXCEPT ![h] = Null][h].type \notin {"owned", "raw"}
  BY EmptiedFacts
<1>3. Shares(strings', node', variant', said')
  BY <1>1, <1>2, GivenPlain DEF Emptied
<1>4. QED
  BY <1>1, <1>3 DEF Emptied, StringsInv

\* ... or shares one of the pool ...
LEMMA BecomesShared ==
  ASSUME StringsAssumption, StringsInv, NEW st, NEW nd, NEW h \in Holder, Emptied(st, nd, h),
         NEW b \in st, NEW type \in {"owned", "raw"},
         shared([strings |-> st, node |-> nd], h, type, b, nd[b].text), scratch' = scratch
  PROVE  StringsInv'
<1>1. PICK md, x : md = [nd EXCEPT ![b] = x] /\ x = [nd[b] EXCEPT !.refs = @ + 1]
  OBVIOUS
<1>2. md = [nd EXCEPT ![b].refs = @ + 1]
  BY <1>1
<1>3. [[strings |-> st, node |-> nd] EXCEPT !.node[b].refs = @ + 1]
        = [strings |-> st, node |-> md]
  BY <1>2
<1>4. /\ strings' = st /\ node' = md
      /\ variant' = [[variant EXCEPT ![h] = Null] EXCEPT ![h] = NodeV(type, b)]
      /\ said' = [[said EXCEPT ![h] = <<>>] EXCEPT ![h] = nd[b].text]
  BY <1>3, EmptiedFacts DEF Becomes, shared
<1>5. [variant EXCEPT ![h] = Null][h].type \notin {"owned", "raw"}
  BY EmptiedFacts
<1>6. Shares(strings', node', variant', said')
  BY <1>2, <1>4, <1>5, GivenShared DEF Emptied
<1>7. /\ st \subseteq Block /\ nd \in [Block -> NodeType] /\ Kept(st, nd, scratch)
      /\ nd[b] \in NodeType /\ nd[b].refs > 0
  BY EmptiedFacts
<1>8. x # Unused
  <2>1. x.refs = nd[b].refs + 1
    BY <1>1, <1>7 DEF NodeType
  <2>2. QED
    BY <1>7, <2>1 DEF Unused, NodeType
<1>9. Kept(st, md, scratch)
  BY <1>1, <1>7, <1>8, PoolChangeKeeps
<1>10. QED
  BY <1>4, <1>6, <1>9 DEF StringsInv

\* ... or gets a node for a text that the pool has not.
LEMMA BecomesNew ==
  ASSUME StringsAssumption, StringsInv, NEW st, NEW nd, NEW h \in Holder, Emptied(st, nd, h),
         NEW b \in Block, nd[b] = Unused, NEW type \in {"owned", "raw"},
         NEW s \in Seq(Char), \A c \in st : nd[c].text # s,
         Becomes([strings |-> st \cup {b},
                  node |-> [nd EXCEPT ![b] = [text |-> s, length |-> Len(s), refs |-> 1]]],
                 h, NodeV(type, b), s), scratch' = scratch
  PROVE  StringsInv'
<1>1. PICK md, x : md = [nd EXCEPT ![b] = x] /\ x = [text |-> s, length |-> Len(s), refs |-> 1]
  OBVIOUS
<1>2. /\ strings' = st \cup {b} /\ node' = md
      /\ variant' = [[variant EXCEPT ![h] = Null] EXCEPT ![h] = NodeV(type, b)]
      /\ said' = [[said EXCEPT ![h] = <<>>] EXCEPT ![h] = s]
  BY <1>1, EmptiedFacts DEF Becomes
<1>3. /\ st \subseteq Block /\ nd \in [Block -> NodeType] /\ Kept(st, nd, scratch)
      /\ \A c \in st : nd[c].refs > 0
      /\ [variant EXCEPT ![h] = Null][h].type \notin {"owned", "raw"}
  BY EmptiedFacts
<1>4. b \notin st
  BY <1>3 DEF Unused
<1>5. Shares(strings', node', variant', said')
  BY <1>1, <1>2, <1>3, <1>4, GivenNew DEF Emptied
<1>6. x # Unused
  BY <1>1 DEF Unused
<1>7. Kept(st \cup {b}, md, scratch)
  BY <1>1, <1>3, <1>6, PoolGrowthKeeps
<1>8. QED
  BY <1>2, <1>5, <1>7 DEF StringsInv

LEMMA SavedString ==
  ASSUME StringsAssumption, StringsInv, NEW st, NEW nd, NEW h \in Holder, Emptied(st, nd, h),
         NEW type \in {"owned", "raw"}, NEW s \in Seq(Char),
         saveString([strings |-> st, node |-> nd], h, type, s), scratch' = scratch
  PROVE  StringsInv'
<1>1. CASE \E b \in st : /\ nd[b].text = s
                         /\ shared([strings |-> st, node |-> nd], h, type, b, s)
  BY <1>1, BecomesShared
<1>2. CASE /\ \A c \in st : nd[c].text # s
           /\ \E b \in Block :
                 /\ nd[b] = Unused
                 /\ Becomes([strings |-> st \cup {b},
                             node |-> [nd EXCEPT ![b] =
                                         [text |-> s, length |-> Len(s), refs |-> 1]]],
                            h, NodeV(type, b), s)
  BY <1>2, BecomesNew
<1>3. CASE Becomes([strings |-> st, node |-> nd], h, Null, <<>>)
  <2>1. Null \in VariantType /\ Null.type \notin {"owned", "raw"} /\ Null.text = <<>>
    BY DEF Null, VariantType
  <2>2. <<>> \in Seq(Char)
    OBVIOUS
  <2>3. QED
    BY <1>3, <2>1, <2>2, BecomesPlain
<1>4. QED
  BY <1>1, <1>2, <1>3 DEF saveString

\* What a variant is given.
LEMMA GivingKeeps ==
  ASSUME StringsAssumption, StringsInv, NEW h \in Holder, NEW s \in GivenText,
         clearVariant(h) \/ setString(h, s) \/ setRawString(h, s) \/ convertToJson(h, s)
  PROVE  StringsInv'
<1>1. PICK st, nd : Cleared(h) = [strings |-> st, node |-> nd] /\ Emptied(st, nd, h)
  BY ClearedEmptied
<1>2. s \in Seq(Char) /\ <<>> \in Seq(Char)
  BY GivenTexts
<1>3. /\ Null \in VariantType /\ Null.type \notin {"owned", "raw"} /\ Null.text = <<>>
      /\ TinyV(s) \in VariantType /\ TinyV(s).type \notin {"owned", "raw"} /\ TinyV(s).text = s
  BY <1>2 DEF Null, TinyV, VariantType
<1>4. scratch' = scratch
  BY DEF clearVariant, setString, setRawString, convertToJson
<1>5. CASE Becomes(Cleared(h), h, Null, <<>>)
  BY <1>1, <1>2, <1>3, <1>4, <1>5, BecomesPlain
<1>6. CASE Becomes(Cleared(h), h, TinyV(s), s)
  BY <1>1, <1>2, <1>3, <1>4, <1>6, BecomesPlain
<1>7. ASSUME NEW type \in {"owned", "raw"}, saveString(Cleared(h), h, type, s)
      PROVE  StringsInv'
  BY <1>1, <1>2, <1>4, <1>7, SavedString
<1>8. CASE clearVariant(h)
  BY <1>5, <1>8 DEF clearVariant
<1>9. CASE setString(h, s)
  BY <1>6, <1>7, <1>9 DEF setString
<1>10. CASE setRawString(h, s)
  BY <1>7, <1>10 DEF setRawString
<1>11. CASE convertToJson(h, s)
  BY <1>5, <1>6, <1>7, <1>11 DEF convertToJson
<1>12. QED
  BY <1>8, <1>9, <1>10, <1>11

LEMMA AllClearedKeeps ==
  ASSUME StringsAssumption, StringsInv, clearAll
  PROVE  StringsInv'
<1>1. /\ strings' = {} /\ scratch' = scratch
      /\ node' = [b \in Block |-> IF b \in strings THEN Unused ELSE node[b]]
      /\ variant' = [h \in Holder |-> Null] /\ said' = [h \in Holder |-> <<>>]
  BY DEF clearAll
<1>2. node \in [Block -> NodeType] /\ Kept(strings, node, scratch)
  BY DEF StringsInv, Shares
<1>3. Unused \in NodeType /\ Null \in VariantType /\ <<>> \in Seq(Char)
  BY DEF Unused, NodeType, Null, VariantType
<1>4. Null.type = "null" /\ Null.text = <<>>
  BY DEF Null
<1>5. node' \in [Block -> NodeType]
  BY <1>1, <1>2, <1>3
<1>6. variant' \in [Holder -> VariantType] /\ said' \in [Holder -> Seq(Char)]
  BY <1>1, <1>3
<1>7. HeldRight(strings', node', variant', said')
  BY <1>1, <1>4 DEF HeldRight
<1>8. CountedRight(strings', node', variant') /\ TextsDiffer(strings', node')
  BY <1>1 DEF CountedRight, TextsDiffer
<1>9. Shares(strings', node', variant', said')
  BY <1>1, <1>5, <1>6, <1>7, <1>8 DEF Shares
<1>10. Released({}, node')
  BY <1>1 DEF Released
<1>11. Kept({}, node', scratch)
  BY <1>2, <1>5, <1>10, ReleasedKeeps
<1>12. QED
  BY <1>1, <1>9, <1>11 DEF StringsInv

\* What the makers do with their nodes.
LEMMA ScratchSets ==
  ASSUME StringsAssumption, StringsInv, NEW m \in Maker, NEW b \in Block, b \notin strings,
         b = scratch[m].at \/ (scratch[m].at = NoBlock /\ node[b] = Unused),
         NEW x \in NodeType, x.refs > 0, NEW size \in Nat,
         m = "builder" => size <= Len(x.text),
         NEW n, n = [node EXCEPT ![b] = x], Scratch(m, b, size, n)
  PROVE  StringsInv'
<1>1. node \in [Block -> NodeType]
  BY DEF StringsInv, Shares
<1>2. Shares(strings, n, variant, said)
  BY MakersApart DEF StringsInv
<1>3. Kept(strings, n, [scratch EXCEPT ![m] = [at |-> b, size |-> size]])
  BY <1>1, MakerSets DEF StringsInv
<1>4. QED
  BY <1>2, <1>3 DEF Scratch, StringsInv

LEMMA ScratchDrops ==
  ASSUME StringsAssumption, StringsInv, NEW m \in Maker, NEW size \in Nat,
         NEW n, n = IF scratch[m].at = NoBlock THEN node
                    ELSE [node EXCEPT ![scratch[m].at] = Unused],
         Scratch(m, NoBlock, size, n)
  PROVE  StringsInv'
<1>1. node \in [Block -> NodeType] /\ Unused \in NodeType /\ m \in Makers
  BY DEF StringsInv, Shares, Unused, NodeType, StringsAssumption, Makers
<1>2. Shares(strings, n, variant, said)
  <2>1. CASE scratch[m].at = NoBlock
    BY <2>1 DEF StringsInv
  <2>2. CASE scratch[m].at # NoBlock
    <3>1. scratch[m].at \in Block /\ scratch[m].at \notin strings
      BY <1>1, <2>2 DEF StringsInv, Kept
    <3>2. QED
      BY <1>1, <2>2, <3>1, MakersApart DEF StringsInv
  <2>3. QED
    BY <2>1, <2>2
<1>3. Kept(strings, n, [scratch EXCEPT ![m] = [at |-> NoBlock, size |-> size]])
  BY <1>1, MakerDrops DEF StringsInv
<1>4. QED
  BY <1>2, <1>3 DEF Scratch, StringsInv

\* What is known of a maker that has a node.
LEMMA MakerFacts ==
  ASSUME StringsInv, NEW m \in Makers
  PROVE  /\ scratch[m].size \in Nat /\ scratch[m].at \in Block \cup {NoBlock}
         /\ scratch[m].at # NoBlock =>
              /\ m \in Maker /\ scratch[m].at \notin strings
              /\ node[scratch[m].at] \in NodeType /\ node[scratch[m].at].refs > 0
              /\ m = "builder" => scratch[m].size <= Len(node[scratch[m].at].text)
<1>1. node \in [Block -> NodeType] /\ Kept(strings, node, scratch)
  BY DEF StringsInv, Shares
<1>2. scratch[m] \in [at : Block \cup {NoBlock}, size : Nat]
  BY <1>1 DEF Kept
<1>3. QED
  BY <1>1, <1>2 DEF Kept

\* A text that is cut to what was written.
LEMMA CutText ==
  ASSUME NEW t \in Seq(Char), NEW n \in Nat, n <= Len(t)
  PROVE  /\ SubSeq(t, 1, n) \in Seq(Char) /\ Len(SubSeq(t, 1, n)) = n
         /\ \A c \in Char : /\ Append(SubSeq(t, 1, n), c) \in Seq(Char)
                            /\ Len(Append(SubSeq(t, 1, n), c)) = n + 1
<1>1. SubSeq(t, 1, n) \in Seq(Char)
  BY SubSeqProperties
<1>2. Len(SubSeq(t, 1, n)) = n
  BY SubSeqProperties
<1>3. QED
  BY <1>1, <1>2, AppendProperties

LEMMA FreshNode ==
  ASSUME NEW n \in Nat
  PROVE  Fresh(n) \in NodeType /\ Fresh(n).refs > 0 /\ Len(Fresh(n).text) = 0
BY DEF Fresh, NodeType

LEMMA UnusedNotInPool ==
  ASSUME StringsInv, NEW b \in Block, node[b] = Unused
  PROVE  b \notin strings
BY DEF StringsInv, Shares, CountedRight, Unused

LEMMA StartKeeps ==
  ASSUME StringsAssumption, StringsInv, startString
  PROVE  StringsInv'
<1>1. PICK at : at = scratch["builder"].at
  OBVIOUS
<1>2. "builder" \in Makers
  BY DEF Makers
<1>3. "builder" \in Maker
  BY DEF startString, Scratch
<1>4. CASE at # NoBlock /\ Scratch("builder", at, 0, node)
  <2>1. PICK x : x = node[at]
    OBVIOUS
  <2>2. /\ at \in Block /\ at \notin strings /\ x \in NodeType /\ x.refs > 0
    BY <1>1, <1>2, <1>4, <2>1, MakerFacts
  <2>3. node = [node EXCEPT ![at] = x]
    BY <2>1, <2>2 DEF StringsInv, Shares
  <2>4. 0 <= Len(x.text) /\ 0 \in Nat
    BY <2>2 DEF NodeType
  <2>5. QED
    BY <1>1, <1>3, <1>4, <2>2, <2>3, <2>4, ScratchSets
<1>5. CASE /\ at = NoBlock
           /\ \E b \in create(initialCapacity) :
                 Scratch("builder", b, 0, [node EXCEPT ![b] = Fresh(initialCapacity)])
  <2>1. PICK b \in create(initialCapacity) :
               Scratch("builder", b, 0, [node EXCEPT ![b] = Fresh(initialCapacity)])
    BY <1>5
  <2>2. b \in Block /\ node[b] = Unused
    BY DEF create, FreeBlocks
  <2>3. b \notin strings
    BY <2>2, UnusedNotInPool
  <2>4. PICK x : x = Fresh(initialCapacity)
    OBVIOUS
  <2>5. x \in NodeType /\ x.refs > 0 /\ 0 <= Len(x.text)
    BY <2>4, FreshNode DEF StringsAssumption
  <2>6. QED
    BY <1>1, <1>3, <1>5, <2>1, <2>2, <2>3, <2>4, <2>5, ScratchSets
<1>6. CASE at = NoBlock /\ Scratch("builder", NoBlock, 0, node)
  BY <1>1, <1>3, <1>6, ScratchDrops
<1>7. QED
  BY <1>1, <1>4, <1>5, <1>6 DEF startString

LEMMA AppendKeeps ==
  ASSUME StringsAssumption, StringsInv, NEW c \in Char, append(c)
  PROVE  StringsInv'
<1>1. PICK at, size, x, n :
        /\ at = scratch["builder"].at /\ size = scratch["builder"].size /\ x = node[at]
        /\ n = IF size = x.length THEN 2 * size + 1 ELSE x.length
  OBVIOUS
<1>2. "builder" \in Makers /\ at # NoBlock
  BY <1>1 DEF Makers, append
<1>3. /\ size \in Nat /\ at \in Block /\ "builder" \in Maker /\ at \notin strings
      /\ x \in NodeType /\ x.refs > 0 /\ size <= Len(x.text)
  BY <1>1, <1>2, MakerFacts
<1>4. PICK text : text = Append(SubSeq(x.text, 1, size), c)
  OBVIOUS
<1>5. text \in Seq(Char) /\ Len(text) = size + 1
  BY <1>3, <1>4, CutText DEF NodeType
<1>6. n \in Int
  BY <1>1, <1>3 DEF NodeType
<1>7. CASE Scratch("builder", at, size + 1, [node EXCEPT ![at].text = text, ![at].length = n])
  <2>1. PICK y : y = [x EXCEPT !.text = text, !.length = n]
    OBVIOUS
  <2>2. y \in NodeType /\ y.refs > 0 /\ y.text = text
    BY <1>3, <1>5, <1>6, <2>1 DEF NodeType
  <2>3. node \in [Block -> NodeType]
    BY DEF StringsInv, Shares
  <2>4. [node EXCEPT ![at].text = text, ![at].length = n] = [node EXCEPT ![at] = y]
    BY <1>1, <1>3, <2>1, <2>3
  <2>5. size + 1 \in Nat /\ size + 1 <= Len(y.text)
    BY <1>3, <1>5, <2>2
  <2>6. QED
    BY <1>1, <1>3, <1>7, <2>2, <2>4, <2>5, ScratchSets
<1>8. CASE Scratch("builder", NoBlock, size, Gone(at))
  BY <1>1, <1>2, <1>3, <1>8, ScratchDrops DEF Gone
<1>9. QED
  BY <1>1, <1>4, <1>7, <1>8 DEF append, Written

LEMMA ReserveKeeps ==
  ASSUME StringsAssumption, StringsInv, NEW s \in GivenText, NEW read \in {0, Len(s)},
         reserve(s, read)
  PROVE  StringsInv'
<1>1. PICK at, keep : /\ at = scratch["buffer"].at
                      /\ keep = (at # NoBlock /\ Len(s) <= node[at].length)
  OBVIOUS
<1>2. "buffer" \in Makers /\ "buffer" \in Maker
  BY DEF Makers, reserve, Scratch
<1>3. s \in Seq(Char) /\ Len(s) \in Nat
  BY GivenTexts
<1>4. PICK t : t = SubSeq(s, 1, read)
  OBVIOUS
<1>5. t \in Seq(Char)
  <2>1. read \in Nat /\ read <= Len(s)
    BY <1>3
  <2>2. QED
    BY <1>3, <1>4, <2>1, CutText
<1>6. node \in [Block -> NodeType] /\ scratch["buffer"].size \in Nat
  BY <1>2, MakerFacts DEF StringsInv, Shares
<1>7. CASE /\ at # NoBlock
           /\ Scratch("buffer", at, Len(s), [node EXCEPT ![at].text = t])
  <2>1. PICK x : x = [node[at] EXCEPT !.text = t]
    OBVIOUS
  <2>2. at \in Block /\ at \notin strings /\ node[at] \in NodeType /\ node[at].refs > 0
    BY <1>1, <1>2, <1>7, MakerFacts
  <2>3. x \in NodeType /\ x.refs > 0
    BY <1>5, <2>1, <2>2 DEF NodeType
  <2>4. [node EXCEPT ![at].text = t] = [node EXCEPT ![at] = x]
    BY <1>6, <2>1, <2>2
  <2>5. QED
    BY <1>1, <1>2, <1>3, <1>7, <2>2, <2>3, <2>4, ScratchSets
<1>8. ASSUME NEW n, n = IF at = NoBlock THEN node ELSE [node EXCEPT ![at] = Unused],
             Scratch("buffer", NoBlock, scratch["buffer"].size, n)
      PROVE  StringsInv'
  BY <1>1, <1>2, <1>6, <1>8, ScratchDrops
<1>9. ASSUME NEW n, n = IF at = NoBlock THEN node ELSE [node EXCEPT ![at] = Unused],
             NEW b \in Block, n[b] = Unused,
             Scratch("buffer", b, Len(s), [n EXCEPT ![b] = [Fresh(Len(s)) EXCEPT !.text = t]])
      PROVE  StringsInv'
  <2>1. PICK x : x = [Fresh(Len(s)) EXCEPT !.text = t]
    OBVIOUS
  <2>2. x \in NodeType /\ x.refs > 0
    BY <1>3, <1>5, <2>1 DEF Fresh, NodeType
  <2>3. Shares(strings, node, variant, said) /\ Kept(strings, node, scratch)
    BY DEF StringsInv
  <2>4. at \in Block \cup {NoBlock} /\ (at # NoBlock => at \notin strings)
    BY <1>1, <1>2, MakerFacts
  <2>5. Unused \in NodeType
    BY DEF Unused, NodeType
  <2>6. Shares(strings, n, variant, said) /\ n \in [Block -> NodeType]
    <3>1. CASE at = NoBlock
      BY <1>6, <1>9, <2>3, <3>1
    <3>2. CASE at # NoBlock
      BY <1>6, <1>9, <2>3, <2>4, <2>5, <3>2, MakersApart
    <3>3. QED
      BY <3>1, <3>2
  <2>7. PICK sc : sc = [scratch EXCEPT !["buffer"] = [at |-> NoBlock, size |-> 0]]
    OBVIOUS
  <2>8. Kept(strings, n, sc)
    BY <1>1, <1>2, <1>6, <1>9, <2>3, <2>7, MakerDrops
  <2>9. sc["buffer"].at = NoBlock
    BY <1>2, <2>3, <2>7 DEF Kept
  <2>10. b \notin strings
    BY <1>9, <2>6 DEF Shares, CountedRight, Unused
  <2>11. Shares(strings, [n EXCEPT ![b] = x], variant, said)
    BY <1>9, <2>2, <2>6, <2>10, MakersApart
  <2>12. Kept(strings, [n EXCEPT ![b] = x],
              [sc EXCEPT !["buffer"] = [at |-> b, size |-> Len(s)]])
    BY <1>2, <1>3, <1>9, <2>2, <2>6, <2>8, <2>9, <2>10, MakerSets
  <2>13. [sc EXCEPT !["buffer"] = [at |-> b, size |-> Len(s)]]
           = [scratch EXCEPT !["buffer"] = [at |-> b, size |-> Len(s)]]
    BY <2>3, <2>7 DEF Kept
  <2>14. /\ scratch' = [scratch EXCEPT !["buffer"] = [at |-> b, size |-> Len(s)]]
         /\ node' = [n EXCEPT ![b] = x]
         /\ strings' = strings /\ variant' = variant /\ said' = said
    BY <1>9, <2>1 DEF Scratch
  <2>15. QED
    BY <2>11, <2>12, <2>13, <2>14 DEF StringsInv
<1>10. PICK n : n = IF at # NoBlock /\ ~ keep THEN Gone(at) ELSE node
  OBVIOUS
<1>11. CASE keep
  <2>1. n = node
    BY <1>10, <1>11
  <2>2. Scratch("buffer", at, Len(s), [n EXCEPT ![at].text = t])
    BY <1>1, <1>4, <1>10, <1>11 DEF reserve
  <2>3. QED
    BY <1>1, <1>7, <1>11, <2>1, <2>2
<1>12. CASE ~ keep
  <2>1. n = IF at = NoBlock THEN node ELSE [node EXCEPT ![at] = Unused]
    BY <1>10, <1>12 DEF Gone
  <2>2. \/ \E b \in Block :
              /\ n[b] = Unused
              /\ Scratch("buffer", b, Len(s),
                         [n EXCEPT ![b] = [Fresh(Len(s)) EXCEPT !.text = t]])
        \/ Scratch("buffer", NoBlock, scratch["buffer"].size, n)
    BY <1>1, <1>4, <1>10, <1>12 DEF reserve
  <2>3. QED
    BY <1>8, <1>9, <2>1, <2>2
<1>13. QED
  BY <1>11, <1>12

\* A maker's string is saved.
LEMMA SaveKeeps ==
  ASSUME StringsAssumption, StringsInv, NEW m \in Maker, NEW h \in Holder, save(m, h)
  PROVE  StringsInv'
<1>1. PICK at, t : at = scratch[m].at /\ t = Written(m)
  OBVIOUS
<1>2. m \in Makers /\ at # NoBlock /\ variant[h].type = "null"
  BY <1>1 DEF save, StringsAssumption, Makers
<1>3. /\ at \in Block /\ at \notin strings /\ node[at] \in NodeType /\ node[at].refs > 0
      /\ scratch[m].size \in Nat
  BY <1>1, <1>2, MakerFacts
<1>4. t \in Seq(Char)
  <2>1. scratch[m].size <= Len(node[at].text)
    BY <1>1, <1>3 DEF save, NodeType
  <2>2. QED
    BY <1>1, <1>3, <2>1, CutText DEF Written, NodeType
<1>5. Emptied(strings, node, h)
  BY <1>2, NullEmptied
<1>6. ASSUME NEW type \in {"owned", "raw"}, Saves(m, h, type)
      PROVE  StringsInv'
  <2>1. CASE Becomes(Pool, h, TinyV(t), t) /\ scratch' = scratch
    <3>1. TinyV(t) \in VariantType /\ TinyV(t).type \notin {"owned", "raw"} /\ TinyV(t).text = t
      BY <1>4 DEF TinyV, VariantType
    <3>2. QED
      BY <1>4, <1>5, <2>1, <3>1, BecomesPlain DEF Pool
  <2>2. CASE /\ scratch' = scratch
             /\ \E b \in strings : node[b].text = t /\ shared(Pool, h, type, b, t)
    BY <1>5, <2>2, BecomesShared DEF Pool
  <2>3. CASE /\ \A b \in strings : node[b].text # t
             /\ HandsOver(m, h, type)
    <3>1. PICK x, nd : /\ x = [text |-> t, length |-> Len(t), refs |-> 1]
                       /\ nd = [node EXCEPT ![at] = x]
      OBVIOUS
    <3>2. /\ strings' = strings \cup {at} /\ node' = nd
          /\ variant' = [variant EXCEPT ![h] = NodeV(type, at)]
          /\ said' = [said EXCEPT ![h] = t]
          /\ scratch' = [scratch EXCEPT ![m].at = NoBlock]
      BY <1>1, <2>3, <3>1 DEF HandsOver, Becomes
    <3>3. variant[h].type \notin {"owned", "raw"}
      BY <1>2
    <3>4. Shares(strings', node', variant', said')
      BY <1>3, <1>4, <2>3, <3>1, <3>2, <3>3, GivenNew DEF StringsInv
    <3>5. node \in [Block -> NodeType] /\ Kept(strings, node, scratch) /\ Unused \in NodeType
      BY DEF StringsInv, Shares, Unused, NodeType
    <3>6. PICK sc, nu : /\ sc = [scratch EXCEPT ![m] = [at |-> NoBlock, size |-> scratch[m].size]]
                        /\ nu = [node EXCEPT ![at] = Unused]
      OBVIOUS
    <3>7. nu \in [Block -> NodeType] /\ nu[at] = Unused
      BY <1>3, <3>5, <3>6
    <3>8. Kept(strings, nu, sc)
      BY <1>1, <1>2, <1>3, <3>5, <3>6, MakerDrops
    <3>9. x # Unused
      BY <3>1 DEF Unused
    <3>10. Kept(strings \cup {at}, [nu EXCEPT ![at] = x], sc)
      BY <1>3, <3>7, <3>8, <3>9, PoolGrowthKeeps
    <3>11. [nu EXCEPT ![at] = x] = nd
      BY <3>1, <3>5, <3>6
    <3>12. sc = [scratch EXCEPT ![m].at = NoBlock]
      <4>1. scratch \in [Makers -> [at : Block \cup {NoBlock}, size : Nat]]
        BY <3>5 DEF Kept
      <4>2. scratch[m] = [at |-> scratch[m].at, size |-> scratch[m].size]
        BY <1>2, <4>1
      <4>3. [scratch[m] EXCEPT !.at = NoBlock] = [at |-> NoBlock, size |-> scratch[m].size]
        BY <4>2
      <4>4. QED
        BY <3>6, <4>3
    <3>13. QED
      BY <3>2, <3>4, <3>10, <3>11, <3>12 DEF StringsInv
  <2>4. QED
    BY <1>1, <1>6, <2>1, <2>2, <2>3 DEF Saves, get, Pool
<1>7. QED
  BY <1>6 DEF save

LEMMA DestroyKeeps ==
  ASSUME StringsAssumption, StringsInv, NEW m \in Maker, Destroy(m)
  PROVE  StringsInv'
BY ScratchDrops DEF Destroy, Gone

\* What the invariant means for a reader.
LEMMA StringsAgreed ==
  ASSUME StringsAssumption, StringsInv
  PROVE  StringsAgree
<1>1. /\ strings \subseteq Block /\ node \in [Block -> NodeType]
      /\ variant \in [Holder -> VariantType] /\ said \in [Holder -> Seq(Char)]
      /\ HeldRight(strings, node, variant, said)
      /\ CountedRight(strings, node, variant) /\ TextsDiffer(strings, node)
  BY DEF StringsInv, Shares
<1>2. ReferencesRight
  BY <1>1 DEF ReferencesRight, CountedRight, HoldersOf, OwnsNode
<1>3. StoredOnce
  BY <1>1 DEF StoredOnce, TextsDiffer
<1>4. ReadsAsGiven
  <2>1. ASSUME NEW h \in Holder
        PROVE  asString(h) = said[h]
    <3>1. CASE OwnsNode(h)
      <4>1. PICK n : n = node[variant[h].at]
        OBVIOUS
      <4>2. variant[h].at \in strings /\ said[h] = n.text
        BY <1>1, <3>1, <4>1 DEF HeldRight, OwnsNode
      <4>3. n.length = Len(n.text) /\ n.text \in Seq(Char)
        BY <1>1, <4>1, <4>2 DEF CountedRight, NodeType
      <4>4. asString(h) = [k \in 1 .. Len(n.text) |-> n.text[k]]
        BY <3>1, <4>1, <4>3 DEF asString
      <4>5. n.text = [k \in 1 .. Len(n.text) |-> n.text[k]]
        BY <4>3
      <4>6. QED
        BY <4>2, <4>4, <4>5
    <3>2. CASE ~ OwnsNode(h)
      BY <1>1, <3>2 DEF asString, HeldRight, OwnsNode
    <3>3. QED
      BY <3>1, <3>2
  <2>2. QED
    BY <2>1 DEF ReadsAsGiven
<1>5. NothingLeaks
  <2>1. ASSUME NEW b \in Block, node[b] # Unused
        PROVE  b \in strings \cup {scratch[m].at : m \in Maker}
    <3>1. b \in strings \/ b = scratch["builder"].at \/ b = scratch["buffer"].at
      BY <2>1 DEF StringsInv, Kept
    <3>2. b # NoBlock
      BY DEF StringsAssumption, NoBlock
    <3>3. \A m \in Makers : scratch[m].at # NoBlock => m \in Maker
      BY DEF StringsInv, Kept
    <3>4. QED
      BY <3>1, <3>2, <3>3 DEF Makers
  <2>2. QED
    BY <2>1 DEF NothingLeaks
<1>6. QED
  BY <1>2, <1>3, <1>4, <1>5 DEF StringsAgree

\* For any strings, variants, sizes and failing allocations: the references of a
\* string are the variants that hold it, a text is stored once and read as it was
\* given, and no block is forgotten (StringPool, StringBuilder, StringBuffer).
THEOREM StringsCorrect ==
  ASSUME StringsAssumption
  PROVE  StringsSpec => []StringsAgree
<1>1. StringsInit => StringsInv
  <2>1. SUFFICES ASSUME StringsInit PROVE StringsInv
    OBVIOUS
  <2>2. /\ strings = {} /\ node = [b \in Block |-> Unused]
        /\ variant = [h \in Holder |-> Null] /\ said = [h \in Holder |-> <<>>]
        /\ scratch = [m \in Makers |-> Idle]
    BY <2>1 DEF StringsInit, Makers
  <2>3. Unused \in NodeType /\ Null \in VariantType /\ <<>> \in Seq(Char)
    BY DEF Unused, NodeType, Null, VariantType
  <2>4. Null.type = "null" /\ Null.text = <<>>
    BY DEF Null
  <2>5. HeldRight(strings, node, variant, said)
    BY <2>2, <2>4 DEF HeldRight
  <2>6. CountedRight(strings, node, variant) /\ TextsDiffer(strings, node)
    BY <2>2 DEF CountedRight, TextsDiffer
  <2>7. node \in [Block -> NodeType]
    BY <2>2, <2>3
  <2>8. variant \in [Holder -> VariantType] /\ said \in [Holder -> Seq(Char)]
    BY <2>2, <2>3
  <2>9. Shares(strings, node, variant, said)
    BY <2>2, <2>5, <2>6, <2>7, <2>8 DEF Shares
  <2>10. Idle \in [at : Block \cup {NoBlock}, size : Nat] /\ Idle.at = NoBlock
    BY DEF Idle
  <2>11. \A m \in Makers : scratch[m].at = NoBlock
    BY <2>2, <2>10
  <2>12. scratch \in [Makers -> [at : Block \cup {NoBlock}, size : Nat]]
    BY <2>2, <2>10
  <2>13. Kept(strings, node, scratch)
    BY <2>2, <2>11, <2>12 DEF Kept, Makers
  <2>14. QED
    BY <2>9, <2>13 DEF StringsInv
<1>2. StringsInv /\ [StringsNext]_stringVars => StringsInv'
  <2>1. SUFFICES ASSUME StringsInv, [StringsNext]_stringVars PROVE StringsInv'
    OBVIOUS
  <2>2. ASSUME NEW h \in Holder, clearVariant(h) PROVE StringsInv'
    <3>1. <<>> \in [1 .. 0 -> Char] /\ 0 \in 0 .. maxLength
      BY DEF StringsAssumption
    <3>2. <<>> \in GivenText
      BY <3>1 DEF GivenText
    <3>3. QED
      BY <2>1, <2>2, <3>2, GivingKeeps
  <2>3. ASSUME NEW h \in Holder, NEW s \in GivenText,
               setString(h, s) \/ setRawString(h, s) \/ convertToJson(h, s)
        PROVE  StringsInv'
    BY <2>1, <2>3, GivingKeeps
  <2>4. ASSUME NEW m \in Maker, Destroy(m) \/ \E h \in Holder : save(m, h)
        PROVE  StringsInv'
    BY <2>1, <2>4, SaveKeeps, DestroyKeeps
  <2>5. CASE clearAll \/ startString
    BY <2>1, <2>5, AllClearedKeeps, StartKeeps
  <2>6. CASE \E c \in Char : append(c)
    BY <2>1, <2>6, AppendKeeps
  <2>7. CASE \E s \in GivenText : \E read \in {0, Len(s)} : reserve(s, read)
    BY <2>1, <2>7, ReserveKeeps
  <2>8. CASE UNCHANGED stringVars
    BY <2>1, <2>8 DEF stringVars, StringsInv
  <2>9. QED
    BY <2>1, <2>2, <2>3, <2>4, <2>5, <2>6, <2>7, <2>8 DEF StringsNext
<1>3. StringsInv => StringsAgree
  BY StringsAgreed
<1>4. QED
  BY <1>1, <1>2, <1>3, PTL DEF StringsSpec
-----------------------------------------------------------------------------
(***************************************************************************)
(* Slots.  While a list has no more than maxPools pools, its ids are below *)
(* NULL_SLOT and tell pool and index apart; those that were handed out are *)
(* in use or free, once.                                                   *)
(***************************************************************************)

\* A product with a positive factor is not below the other factor.
LEMMA ProductGrows ==
    ASSUME NEW a \in Nat, NEW b \in Nat, b >= 1
    PROVE  a * b >= a
<1>1. a * b = a * (b - 1) + a
  OBVIOUS
<1>2. a * (b - 1) >= 0
  OBVIOUS
<1> QED
  BY <1>1, <1>2

\* The quotient and the remainder of a * c + r.
LEMMA QuotientOf ==
    ASSUME NEW a \in Nat, NEW c \in Nat \ {0}, NEW r \in 0 .. c - 1
    PROVE  /\ (a * c + r) \div c = a
           /\ ((a * c + r) % c) = r
<1>1. PICK q \in Int : q = (a * c + r) \div c
  OBVIOUS
<1>2. PICK s \in Int : s = ((a * c + r) % c)
  OBVIOUS
<1>3. a * c + r = q * c + s /\ s >= 0 /\ s < c
  BY <1>1, <1>2
<1>4. (a - q) * c = s - r /\ (q - a) * c = r - s
  BY <1>3
<1>5. a - q < 1
  <2>1. CASE a - q >= 1
    <3>1. (a - q) * c >= c
      BY <2>1, ProductGrows
    <3> QED
      BY <3>1, <1>3, <1>4
  <2> QED
    BY <2>1
<1>6. q - a < 1
  <2>1. CASE q - a >= 1
    <3>1. (q - a) * c >= c
      BY <2>1, ProductGrows
    <3> QED
      BY <3>1, <1>3, <1>4
  <2> QED
    BY <2>1
<1>7. q = a
  BY <1>5, <1>6
<1>8. s = r
  BY <1>3, <1>7
<1> QED
  BY <1>1, <1>2, <1>7, <1>8

\* The ids: as many pools as fit, the last of them without NULL_SLOT.
LEMMA IdsFit ==
    ASSUME PoolsAssumption
    PROVE  /\ maxPools \in Nat /\ maxPools * PoolCapacity = IdCount
           /\ maxPools >= 1 /\ 2 * maxPools <= IdCount
<1> USE DEF PoolsAssumption
<1>1. PICK q \in Int : q = IdCount \div PoolCapacity
  OBVIOUS
<1>2. IdCount = q * PoolCapacity
  BY <1>1
<1>3. q >= 1
  <2>1. CASE q <= 0
    <3>1. (0 - q) * PoolCapacity >= 0
      BY <2>1
    <3> QED
      BY <3>1, <1>2
  <2> QED
    BY <2>1
<1>4. NULL_SLOT = (q - 1) * PoolCapacity + (PoolCapacity - 1)
  BY <1>2 DEF NULL_SLOT
<1>5. NULL_SLOT \div PoolCapacity = q - 1
  BY <1>3, <1>4, QuotientOf
<1>6. maxPools = q
  BY <1>5 DEF maxPools
<1>7. 2 * q <= q * PoolCapacity
  <2>1. q * (PoolCapacity - 2) >= 0
    BY <1>3
  <2> QED
    BY <2>1
<1> QED
  BY <1>2, <1>3, <1>6, <1>7

\* The id of the slot i of pool k.
IdOf(k, i) == (k - 1) * PoolCapacity + i

\* A slot in one of maxPools pools has an id of its own, which is not NULL_SLOT.
LEMMA IdIsRight ==
    ASSUME PoolsAssumption,
           NEW k \in 1 .. maxPools, NEW i \in 0 .. PoolCapacity - 1,
           k = maxPools => i < PoolCapacity - 1
    PROVE  /\ IdOf(k, i) \in 0 .. NULL_SLOT - 1
           /\ (IdOf(k, i) % IdCount) = IdOf(k, i)
           /\ Place(IdOf(k, i)) = [pool |-> k - 1, index |-> i]
<1>1. /\ PoolCapacity \in Nat \ {0} /\ IdCount \in Nat \ {0} /\ k - 1 \in Nat
      /\ maxPools \in Nat
  BY IdsFit DEF PoolsAssumption
<1>2. Place(IdOf(k, i)) = [pool |-> k - 1, index |-> i]
  BY <1>1, QuotientOf DEF IdOf, Place
<1>3. (k - 1) * PoolCapacity >= 0
  BY <1>1
<1>4. IdOf(k, i) < NULL_SLOT
  <2>1. CASE k = maxPools
    <3>1. (k - 1) * PoolCapacity = IdCount - PoolCapacity
      BY <2>1, <1>1, IdsFit
    <3> QED
      BY <3>1, <2>1, <1>1 DEF IdOf, NULL_SLOT
  <2>2. CASE k < maxPools
    <3>1. PICK m \in Nat : m = maxPools - 1 - k
      BY <2>2, <1>1
    <3>2. (m + k + 1) * PoolCapacity = IdCount
      BY <3>1, <1>1, IdsFit
    <3>3. m * PoolCapacity >= 0
      BY <1>1
    <3>4. (m + k + 1) * PoolCapacity = m * PoolCapacity + (k - 1) * PoolCapacity + 2 * PoolCapacity
      BY <1>1
    <3> QED
      BY <3>2, <3>3, <3>4, <1>1 DEF IdOf, NULL_SLOT
  <2> QED
    BY <2>1, <2>2, <1>1
<1>5. IdOf(k, i) \in 0 .. NULL_SLOT - 1
  BY <1>1, <1>3, <1>4 DEF IdOf, NULL_SLOT
<1>6. (IdOf(k, i) % IdCount) = IdOf(k, i)
  BY <1>1, <1>5 DEF NULL_SLOT
<1> QED
  BY <1>2, <1>5, <1>6

PoolType == [cap : Nat, usage : Nat, slots : BOOLEAN]

\* A pool with room for its slots, of which the last has no NULL_SLOT.
Sized(p, k) ==
    /\ p \in PoolType /\ p.usage <= p.cap /\ p.cap <= PoolCapacity
    /\ k = maxPools => p.cap <= PoolCapacity - 1

Shaped(l) ==
    l = [pre |-> l.pre, heap |-> l.heap, onHeap |-> l.onHeap, count |-> l.count,
         capacity |-> l.capacity, free |-> l.free]

\* A list has as many pools as its capacity says, and those that count are sized.
Arranged(l) ==
    /\ Shaped(l) /\ l.onHeap \in BOOLEAN
    /\ l.count \in Nat /\ l.capacity \in Nat /\ l.count <= l.capacity
    /\ ~ l.onHeap => l.capacity = InitialPools
    /\ l.onHeap => l.count >= 1
    /\ Pools(l) = [k \in 1 .. l.capacity |-> Pools(l)[k]]
    /\ \A k \in 1 .. l.count : Sized(Pools(l)[k], k)

\* What lists differ in may not be seen from the slots that they gave.
SameSlots(l, m) ==
    /\ m.free = l.free /\ l.count <= m.count
    /\ \A k \in 1 .. l.count : Pools(m)[k].usage = Pools(l)[k].usage
    /\ \A k \in l.count + 1 .. m.count : Pools(m)[k].usage = 0

\* An id that was handed out is that of a slot in use.
LEMMA HandedOutIs ==
    ASSUME NEW l, NEW x
    PROVE  x \in HandedOut(l) <=>
             \E k \in 1 .. l.count : \E i \in 0 .. Pools(l)[k].usage - 1 : x = IdOf(k, i)
BY DEF HandedOut, IdOf

LEMMA HandedOutSame ==
    ASSUME NEW l, NEW m, SameSlots(l, m), l.count \in Nat, m.count \in Nat
    PROVE  HandedOut(m) = HandedOut(l)
<1>1. ASSUME NEW x \in HandedOut(l) PROVE x \in HandedOut(m)
  <2>1. PICK k \in 1 .. l.count : \E i \in 0 .. Pools(l)[k].usage - 1 : x = IdOf(k, i)
    BY <1>1, HandedOutIs
  <2>2. k \in 1 .. m.count /\ Pools(m)[k].usage = Pools(l)[k].usage
    BY <2>1 DEF SameSlots
  <2> QED
    BY <2>1, <2>2, HandedOutIs
<1>2. ASSUME NEW x \in HandedOut(m) PROVE x \in HandedOut(l)
  <2>1. PICK k \in 1 .. m.count : \E i \in 0 .. Pools(m)[k].usage - 1 : x = IdOf(k, i)
    BY <1>2, HandedOutIs
  <2>2. k \in 1 .. l.count
    <3>1. CASE k > l.count
      <4>1. k \in l.count + 1 .. m.count
        BY <3>1, <2>1
      <4>2. Pools(m)[k].usage = 0
        BY <4>1 DEF SameSlots
      <4>3. 0 .. Pools(m)[k].usage - 1 = {}
        BY <4>2
      <4> QED
        BY <4>3, <2>1
    <3> QED
      BY <3>1, <2>1
  <2>3. Pools(m)[k].usage = Pools(l)[k].usage
    BY <2>2 DEF SameSlots
  <2> QED
    BY <2>1, <2>2, <2>3, HandedOutIs
<1> QED
  BY <1>1, <1>2

\* An id that was handed out is below NULL_SLOT and names its slot.
LEMMA HandedOutRight ==
    ASSUME PoolsAssumption, NEW l, Arranged(l), l.count <= maxPools, NEW x \in HandedOut(l)
    PROVE  /\ x \in 0 .. NULL_SLOT - 1
           /\ Place(x).pool \in 0 .. l.count - 1
           /\ Place(x).index \in 0 .. Pools(l)[Place(x).pool + 1].usage - 1
<1>1. PICK k \in 1 .. l.count : \E i \in 0 .. Pools(l)[k].usage - 1 : x = IdOf(k, i)
  BY HandedOutIs
<1>2. PICK i \in 0 .. Pools(l)[k].usage - 1 : x = IdOf(k, i)
  BY <1>1
<1>3. l.count \in Nat /\ Sized(Pools(l)[k], k)
  BY <1>1 DEF Arranged
<1>4. /\ Pools(l)[k].usage \in Nat /\ Pools(l)[k].cap \in Nat
      /\ Pools(l)[k].usage <= Pools(l)[k].cap /\ Pools(l)[k].cap <= PoolCapacity
      /\ k = maxPools => Pools(l)[k].cap <= PoolCapacity - 1
  BY <1>3 DEF Sized, PoolType
<1>5. /\ PoolCapacity \in Nat /\ maxPools \in Nat
  BY IdsFit DEF PoolsAssumption
<1>6. /\ k \in 1 .. maxPools /\ i \in 0 .. PoolCapacity - 1
      /\ k = maxPools => i < PoolCapacity - 1
  BY <1>1, <1>2, <1>3, <1>4, <1>5
<1>7. /\ IdOf(k, i) \in 0 .. NULL_SLOT - 1
      /\ Place(IdOf(k, i)) = [pool |-> k - 1, index |-> i]
  BY <1>6, IdIsRight
<1>8. Place(x).pool = k - 1 /\ Place(x).index = i
  BY <1>2, <1>7
<1>9. Place(x).pool + 1 = k
  BY <1>1, <1>3, <1>8
<1> QED
  BY <1>1, <1>2, <1>3, <1>7, <1>8, <1>9

\* The next slot of the last pool.
LEMMA TakenRight ==
    ASSUME PoolsAssumption, NEW l, Arranged(l), l.count <= maxPools, Room(l)
    PROVE  /\ Arranged(Taken(l).list)
           /\ Taken(l).list.count = l.count /\ Taken(l).list.capacity = l.capacity
           /\ Taken(l).list.free = l.free
           /\ Taken(l).id \in 0 .. NULL_SLOT - 1
           /\ Taken(l).place = Place(Taken(l).id)
           /\ Taken(l).id \notin HandedOut(l)
           /\ HandedOut(Taken(l).list) = HandedOut(l) \cup {Taken(l).id}
<1>1. /\ l.count \in Nat /\ l.capacity \in Nat /\ l.count <= l.capacity /\ l.count \in 1 .. l.count
      /\ Sized(Pools(l)[l.count], l.count)
  <2>1. l.count > 0
    BY DEF Room
  <2>2. l.count \in Nat /\ l.capacity \in Nat /\ l.count <= l.capacity
    BY DEF Arranged
  <2>3. l.count \in 1 .. l.count
    BY <2>1, <2>2
  <2> QED
    BY <2>2, <2>3 DEF Arranged
<1>2. PICK p : p = Pools(l)[l.count]
  OBVIOUS
<1>3. p \in PoolType /\ p.usage < p.cap
  BY <1>1, <1>2 DEF Room, Sized
<1>4. PICK q : q = [p EXCEPT !.usage = @ + 1]
  OBVIOUS
<1>5. q \in PoolType /\ q.usage = p.usage + 1 /\ q.cap = p.cap
  BY <1>3, <1>4 DEF PoolType
<1>6. Sized(q, l.count)
  <2>1. p.usage \in Nat /\ p.cap \in Nat
    BY <1>3 DEF PoolType
  <2> QED
    BY <2>1, <1>1, <1>2, <1>3, <1>5 DEF Sized
<1>7. PICK m : m = SetPool(l, l.count, q)
  OBVIOUS
<1>8. /\ Shaped(m) /\ m.count = l.count /\ m.capacity = l.capacity /\ m.free = l.free
      /\ m.onHeap = l.onHeap
      /\ Pools(m) = [Pools(l) EXCEPT ![l.count] = q]
  <2>1. Shaped(l)
    BY DEF Arranged
  <2>2. CASE l.onHeap
    <3>1. m = [l EXCEPT !.heap[l.count] = q]
      BY <1>7, <2>2 DEF SetPool
    <3>2. m = [l EXCEPT !.heap = [l.heap EXCEPT ![l.count] = q]]
      BY <3>1, <2>1 DEF Shaped
    <3> QED
      BY <3>2, <2>1, <2>2 DEF Shaped, Pools
  <2>3. CASE ~ l.onHeap
    <3>1. m = [l EXCEPT !.pre[l.count] = q]
      BY <1>7, <2>3 DEF SetPool
    <3>2. m = [l EXCEPT !.pre = [l.pre EXCEPT ![l.count] = q]]
      BY <3>1, <2>1 DEF Shaped
    <3> QED
      BY <3>2, <2>1, <2>3 DEF Shaped, Pools
  <2> QED
    BY <2>2, <2>3
<1>9. Pools(l) = [k \in 1 .. l.capacity |-> Pools(l)[k]]
  BY DEF Arranged
<1>10. Pools(m) = [k \in 1 .. m.capacity |-> Pools(m)[k]]
  BY <1>8, <1>9
<1>11. /\ Pools(m)[l.count] = q
       /\ \A k \in 1 .. l.count : k # l.count => Pools(m)[k] = Pools(l)[k]
  BY <1>1, <1>8, <1>9
<1>12. Arranged(m)
  <2>1. ASSUME NEW k \in 1 .. m.count PROVE Sized(Pools(m)[k], k)
    BY <2>1, <1>6, <1>8, <1>11 DEF Arranged
  <2> QED
    BY <2>1, <1>1, <1>8, <1>10 DEF Arranged
<1>13. PICK x : x = IdOf(l.count, p.usage)
  OBVIOUS
<1>14. /\ PoolCapacity \in Nat /\ maxPools \in Nat
  BY IdsFit DEF PoolsAssumption
<1>15. /\ l.count \in 1 .. maxPools /\ p.usage \in 0 .. PoolCapacity - 1
       /\ l.count = maxPools => p.usage < PoolCapacity - 1
  <2>1. p.usage \in Nat /\ p.cap \in Nat
    BY <1>3 DEF PoolType
  <2> QED
    BY <2>1, <1>1, <1>2, <1>3, <1>14 DEF Sized
<1>16. /\ x \in 0 .. NULL_SLOT - 1 /\ (x % IdCount) = x
       /\ Place(x) = [pool |-> l.count - 1, index |-> p.usage]
  BY <1>13, <1>15, IdIsRight
<1>17. Taken(l).id = x /\ Taken(l).place = Place(x) /\ Taken(l).list = m
  <2>1. Taken(l) = [place |-> [pool |-> l.count - 1, index |-> p.usage],
                    id |-> (IdOf(l.count, p.usage) % IdCount), list |-> m]
    BY <1>2, <1>4, <1>7 DEF Taken, IdOf
  <2> QED
    BY <2>1, <1>13, <1>16
<1>18. x \notin HandedOut(l)
  <2> SUFFICES ASSUME x \in HandedOut(l) PROVE FALSE
    OBVIOUS
  <2>1. Place(x).index \in 0 .. Pools(l)[Place(x).pool + 1].usage - 1
    BY HandedOutRight
  <2>2. Place(x).pool + 1 = l.count /\ Place(x).index = p.usage
    BY <1>16, <1>1
  <2>3. p.usage \in 0 .. p.usage - 1
    BY <2>1, <2>2, <1>2
  <2> QED
    BY <2>3, <1>15
<1>19. HandedOut(m) = HandedOut(l) \cup {x}
  <2>0. p.usage \in Nat
    BY <1>3 DEF PoolType
  <2>1. ASSUME NEW y \in HandedOut(m) PROVE y \in HandedOut(l) \cup {x}
    <3>1. PICK k \in 1 .. m.count : \E i \in 0 .. Pools(m)[k].usage - 1 : y = IdOf(k, i)
      BY <2>1, HandedOutIs
    <3>2. CASE k = l.count
      <4>1. PICK i \in 0 .. p.usage : y = IdOf(l.count, i)
        BY <3>1, <3>2, <1>5, <1>11, <2>0
      <4>2. CASE i = p.usage
        BY <4>1, <4>2, <1>13
      <4>3. CASE i # p.usage
        <5>1. i \in 0 .. Pools(l)[l.count].usage - 1
          BY <4>1, <4>3, <1>2, <2>0
        <5> QED
          BY <5>1, <4>1, <1>1, HandedOutIs
      <4> QED
        BY <4>2, <4>3
    <3>3. CASE k # l.count
      <4>1. k \in 1 .. l.count /\ Pools(m)[k] = Pools(l)[k]
        BY <3>1, <3>3, <1>8, <1>11
      <4> QED
        BY <3>1, <4>1, HandedOutIs
    <3> QED
      BY <3>2, <3>3
  <2>2. ASSUME NEW y \in HandedOut(l) PROVE y \in HandedOut(m)
    <3>1. PICK k \in 1 .. l.count : \E i \in 0 .. Pools(l)[k].usage - 1 : y = IdOf(k, i)
      BY <2>2, HandedOutIs
    <3>2. PICK i \in 0 .. Pools(l)[k].usage - 1 : y = IdOf(k, i)
      BY <3>1
    <3>3. i \in 0 .. Pools(m)[k].usage - 1
      <4>1. CASE k = l.count
        BY <4>1, <3>2, <1>2, <1>5, <1>11, <2>0
      <4>2. CASE k # l.count
        <5>1. Pools(m)[k] = Pools(l)[k]
          BY <4>2, <3>1, <1>11
        <5> QED
          BY <5>1, <3>2
      <4> QED
        BY <4>1, <4>2
    <3>4. k \in 1 .. m.count
      BY <3>1, <1>8
    <3> QED
      BY <3>2, <3>3, <3>4, HandedOutIs
  <2>3. x \in HandedOut(m)
    <3>1. p.usage \in 0 .. Pools(m)[l.count].usage - 1
      BY <1>5, <1>11, <2>0
    <3>2. l.count \in 1 .. m.count
      BY <1>1, <1>8
    <3> QED
      BY <3>1, <3>2, <1>13, HandedOutIs
  <2> QED
    BY <2>1, <2>2, <2>3
<1>20. Taken(l).list.count = l.count /\ Taken(l).list.capacity = l.capacity /\ Taken(l).list.free = l.free
  BY <1>8, <1>17
<1> QED
  BY <1>12, <1>16, <1>17, <1>18, <1>19, <1>20

\* A pool is written into its place.
LEMMA SetPoolIs ==
    ASSUME NEW l, NEW k, NEW q, Shaped(l), l.onHeap \in BOOLEAN
    PROVE  /\ Shaped(SetPool(l, k, q))
           /\ SetPool(l, k, q).count = l.count /\ SetPool(l, k, q).capacity = l.capacity
           /\ SetPool(l, k, q).free = l.free /\ SetPool(l, k, q).onHeap = l.onHeap
           /\ Pools(SetPool(l, k, q)) = [Pools(l) EXCEPT ![k] = q]
<1>1. PICK m : m = SetPool(l, k, q)
  OBVIOUS
<1>2. CASE l.onHeap
  <2>1. m = [l EXCEPT !.heap = [l.heap EXCEPT ![k] = q]]
    BY <1>1, <1>2 DEF SetPool, Shaped
  <2> QED
    BY <1>1, <1>2, <2>1 DEF Shaped, Pools
<1>3. CASE ~ l.onHeap
  <2>1. m = [l EXCEPT !.pre = [l.pre EXCEPT ![k] = q]]
    BY <1>1, <1>3 DEF SetPool, Shaped
  <2> QED
    BY <1>1, <1>3, <2>1 DEF Shaped, Pools
<1> QED
  BY <1>2, <1>3

\* The list of pools on the heap: the pools that were there, and room for more.
LEMMA IncreasedRight ==
    ASSUME PoolsAssumption, NEW l, Arranged(l), l.count = l.capacity,
           l.capacity # maxPools, l.count <= maxPools
    PROVE  /\ Arranged(increaseCapacity(l))
           /\ SameSlots(l, increaseCapacity(l))
           /\ increaseCapacity(l).count = l.count
           /\ increaseCapacity(l).capacity = 2 * l.capacity
           /\ l.count > 0
<1>1. /\ l.count \in Nat /\ l.capacity \in Nat /\ Shaped(l) /\ l.onHeap \in BOOLEAN
  BY DEF Arranged
<1>2. /\ maxPools \in Nat /\ 2 * maxPools <= IdCount /\ IdCount \in Nat
  BY IdsFit DEF PoolsAssumption
<1>3. ((2 * l.capacity) % IdCount) = 2 * l.capacity
  BY <1>1, <1>2
<1>4. PICK m : m = increaseCapacity(l)
  OBVIOUS
<1>5. PICK h : h = [k \in 1 .. 2 * l.capacity |-> IF k <= l.capacity THEN Pools(l)[k] ELSE NoPool]
  OBVIOUS
<1>6. m = [l EXCEPT !.onHeap = TRUE, !.capacity = 2 * l.capacity, !.heap = h]
  BY <1>3, <1>4, <1>5 DEF increaseCapacity
<1>7. /\ Shaped(m) /\ m.count = l.count /\ m.capacity = 2 * l.capacity /\ m.free = l.free
  BY <1>1, <1>6 DEF Shaped
<1>8. m.onHeap = TRUE /\ m.heap = h
  BY <1>1, <1>6 DEF Shaped
<1>9. Pools(m) = h
  BY <1>8 DEF Pools
<1>10. \A k \in 1 .. l.count : Pools(m)[k] = Pools(l)[k]
  BY <1>1, <1>5, <1>9
<1>11. l.count > 0
  BY <1>1 DEF Arranged, PoolsAssumption
<1>12. Arranged(m)
  <2>1. ASSUME NEW k \in 1 .. m.count PROVE Sized(Pools(m)[k], k)
    BY <2>1, <1>7, <1>10 DEF Arranged
  <2>2. Pools(m) = [k \in 1 .. m.capacity |-> Pools(m)[k]]
    BY <1>5, <1>7, <1>9
  <2>3. m.onHeap \in BOOLEAN /\ m.onHeap
    BY <1>8
  <2>4. m.count \in Nat /\ m.capacity \in Nat /\ m.count <= m.capacity /\ m.count >= 1
    BY <1>1, <1>7, <1>11
  <2> QED
    BY <2>1, <2>2, <2>3, <2>4, <1>7 DEF Arranged
<1>13. SameSlots(l, m)
  BY <1>1, <1>7, <1>10 DEF SameSlots
<1> QED
  BY <1>4, <1>7, <1>11, <1>12, <1>13

\* A pool more, whose slots may be missing.
LEMMA AddedRight ==
    ASSUME PoolsAssumption, NEW l, NEW fails, Arranged(l), MayGrow(l, fails),
           l.count + 1 <= maxPools
    PROVE  /\ Arranged(addPool(l, fails))
           /\ SameSlots(l, addPool(l, fails))
           /\ addPool(l, fails).count = l.count + 1
           /\ addPool(l, fails).capacity \in {l.capacity, 2 * l.capacity}
           /\ addPool(l, fails).capacity # l.capacity => l.capacity # maxPools
<1>1. /\ l.count \in Nat /\ l.capacity \in Nat /\ l.count <= l.capacity /\ Shaped(l)
      /\ maxPools \in Nat
  BY IdsFit DEF Arranged
<1>2. PICK g : g = IF l.count = l.capacity THEN increaseCapacity(l) ELSE l
  OBVIOUS
<1>3. /\ Arranged(g) /\ SameSlots(l, g) /\ g.count = l.count /\ g.count < g.capacity
      /\ g.capacity \in {l.capacity, 2 * l.capacity}
      /\ g.capacity # l.capacity => l.capacity # maxPools
  <2>1. CASE l.count = l.capacity
    <3>1. l.capacity # maxPools /\ l.count <= maxPools
      BY <2>1, <1>1 DEF MayGrow
    <3>2. g = increaseCapacity(l)
      BY <2>1, <1>2
    <3> QED
      BY <3>1, <3>2, <2>1, <1>1, IncreasedRight
  <2>2. CASE l.count # l.capacity
    <3>1. g = l
      BY <2>2, <1>2
    <3>2. SameSlots(l, l)
      BY <1>1 DEF SameSlots
    <3> QED
      BY <3>1, <3>2, <2>2, <1>1
  <2> QED
    BY <2>1, <2>2
<1>4. PICK n : n = g.count + 1
  OBVIOUS
<1>4a. n = l.count + 1
  BY <1>3, <1>4
<1>5. PICK h : h = [g EXCEPT !.count = n]
  OBVIOUS
<1>6. /\ Shaped(h) /\ h.count = n /\ h.capacity = g.capacity /\ h.free = g.free
      /\ h.onHeap = g.onHeap /\ Pools(h) = Pools(g)
  <2>1. Shaped(g)
    BY <1>3 DEF Arranged
  <2>2. /\ h.count = n /\ h.capacity = g.capacity /\ h.free = g.free
        /\ h.onHeap = g.onHeap /\ h.pre = g.pre /\ h.heap = g.heap /\ Shaped(h)
    BY <1>5, <2>1 DEF Shaped
  <2> QED
    BY <2>2 DEF Pools
<1>7. PICK c : c = IF n = maxPools THEN PoolCapacity - 1 ELSE PoolCapacity
  OBVIOUS
<1>8. PICK q : q = IF "pool" \in fails THEN NoPool ELSE [cap |-> c, usage |-> 0, slots |-> TRUE]
  OBVIOUS
<1>9. Sized(q, n) /\ q.usage = 0
  <2>1. c \in Nat /\ c <= PoolCapacity /\ (n = maxPools => c <= PoolCapacity - 1) /\ PoolCapacity - 1 >= 0
    BY <1>7 DEF PoolsAssumption
  <2>2. CASE "pool" \in fails
    BY <2>1, <2>2, <1>8 DEF NoPool, Sized, PoolType, PoolsAssumption
  <2>3. CASE "pool" \notin fails
    BY <2>1, <2>3, <1>8 DEF Sized, PoolType
  <2> QED
    BY <2>2, <2>3
<1>10. PICK m : m = SetPool(h, n, q)
  OBVIOUS
<1>11. m = addPool(l, fails)
  BY <1>2, <1>4, <1>5, <1>7, <1>8, <1>10 DEF addPool
<1>12. h.onHeap \in BOOLEAN
  BY <1>3, <1>6 DEF Arranged
<1>13. /\ Shaped(m) /\ m.count = n /\ m.capacity = g.capacity /\ m.free = g.free
       /\ m.onHeap = g.onHeap /\ Pools(m) = [Pools(g) EXCEPT ![n] = q]
  BY <1>6, <1>10, <1>12, SetPoolIs
<1>14. Pools(g) = [k \in 1 .. g.capacity |-> Pools(g)[k]] /\ g.capacity \in Nat
  BY <1>3 DEF Arranged
<1>15. Pools(m) = [k \in 1 .. m.capacity |-> Pools(m)[k]]
  BY <1>13, <1>14
<1>16. /\ Pools(m)[n] = q
       /\ \A k \in 1 .. l.count : Pools(m)[k] = Pools(g)[k]
  BY <1>1, <1>3, <1>4a, <1>13, <1>14
<1>17. Arranged(m)
  <2>1. ASSUME NEW k \in 1 .. m.count PROVE Sized(Pools(m)[k], k)
    <3>1. CASE k = n
      BY <3>1, <1>9, <1>16
    <3>2. CASE k # n
      <4>1. k \in 1 .. l.count
        BY <2>1, <3>2, <1>1, <1>4a, <1>13
      <4> QED
        BY <4>1, <1>3, <1>16 DEF Arranged
    <3> QED
      BY <3>1, <3>2
  <2>2. /\ m.count \in Nat /\ m.capacity \in Nat /\ m.count <= m.capacity
    BY <1>1, <1>3, <1>4a, <1>13, <1>14
  <2>3. /\ ~ m.onHeap => m.capacity = InitialPools
        /\ m.onHeap => m.count >= 1
    BY <1>1, <1>3, <1>4a, <1>13 DEF Arranged
  <2>4. m.onHeap \in BOOLEAN
    BY <1>3, <1>13 DEF Arranged
  <2> QED
    BY <2>1, <2>2, <2>3, <2>4, <1>13, <1>15 DEF Arranged
<1>18. SameSlots(l, m)
  <2>1. \A k \in l.count + 1 .. m.count : k = n
    BY <1>1, <1>4a, <1>13
  <2>2. m.free = l.free /\ l.count <= m.count
    BY <1>1, <1>3, <1>4a, <1>13 DEF SameSlots
  <2>3. \A k \in 1 .. l.count : Pools(m)[k].usage = Pools(l)[k].usage
    BY <1>3, <1>16 DEF SameSlots
  <2> QED
    BY <2>1, <2>2, <2>3, <1>9, <1>16 DEF SameSlots
<1> QED
  BY <1>3, <1>4a, <1>11, <1>13, <1>17, <1>18

\* shrinkToFit() keeps every slot.
LEMMA ShrunkRight ==
    ASSUME PoolsAssumption, NEW l, NEW fails, Arranged(l)
    PROVE  /\ Arranged(Shrunk(l, fails))
           /\ SameSlots(l, Shrunk(l, fails))
           /\ Shrunk(l, fails).count = l.count
<1>1. /\ l.count \in Nat /\ l.capacity \in Nat /\ l.count <= l.capacity /\ Shaped(l)
      /\ l.onHeap \in BOOLEAN
  BY DEF Arranged
<1>2. PICK last : last = Pools(l)[l.count]
  OBVIOUS
<1>3. PICK q : q = [last EXCEPT !.cap = last.usage]
  OBVIOUS
<1>4. PICK s : s = IF l.count > 0 /\ last.slots /\ "pool" \notin fails
                   THEN SetPool(l, l.count, q) ELSE l
  OBVIOUS
<1>5. Pools(l) = [k \in 1 .. l.capacity |-> Pools(l)[k]]
  BY DEF Arranged
<1>6. /\ Arranged(s) /\ SameSlots(l, s) /\ s.count = l.count /\ s.capacity = l.capacity
      /\ s.onHeap = l.onHeap
  <2>1. CASE l.count > 0 /\ last.slots /\ "pool" \notin fails
    <3>1. l.count \in 1 .. l.count /\ l.count \in 1 .. l.capacity
      BY <2>1, <1>1
    <3>2. Sized(last, l.count)
      BY <3>1, <1>2 DEF Arranged
    <3>3. q.usage = last.usage /\ Sized(q, l.count)
      <4>1. last \in PoolType
        BY <3>2 DEF Sized
      <4>2. /\ last.usage \in Nat /\ last.cap \in Nat /\ q \in PoolType
            /\ q.usage = last.usage /\ q.cap = last.usage
        BY <4>1, <1>3 DEF PoolType
      <4>3. PoolCapacity \in Nat
        BY DEF PoolsAssumption
      <4>4. /\ q.usage <= q.cap /\ q.cap <= PoolCapacity
            /\ l.count = maxPools => q.cap <= PoolCapacity - 1
        BY <3>2, <4>2, <4>3 DEF Sized
      <4> QED
        BY <4>2, <4>4 DEF Sized
    <3>4. s = SetPool(l, l.count, q)
      BY <2>1, <1>4
    <3>5. /\ Shaped(s) /\ s.count = l.count /\ s.capacity = l.capacity /\ s.free = l.free
          /\ s.onHeap = l.onHeap /\ Pools(s) = [Pools(l) EXCEPT ![l.count] = q]
      BY <3>4, <1>1, SetPoolIs
    <3>6. Pools(s) = [k \in 1 .. s.capacity |-> Pools(s)[k]]
      BY <3>5, <1>5
    <3>7. /\ Pools(s)[l.count] = q
          /\ \A k \in 1 .. l.count : k # l.count => Pools(s)[k] = Pools(l)[k]
      BY <3>1, <3>5, <1>1, <1>5
    <3>8. \A k \in 1 .. s.count : Sized(Pools(s)[k], k)
      BY <3>3, <3>5, <3>7 DEF Arranged
    <3>9. Arranged(s)
      BY <3>5, <3>6, <3>8, <1>1 DEF Arranged
    <3>10. SameSlots(l, s)
      BY <3>3, <3>5, <3>7, <1>1, <1>2 DEF SameSlots
    <3> QED
      BY <3>5, <3>9, <3>10
  <2>2. CASE ~ (l.count > 0 /\ last.slots /\ "pool" \notin fails)
    <3>1. s = l
      BY <2>2, <1>4
    <3>2. SameSlots(l, l)
      BY <1>1 DEF SameSlots
    <3> QED
      BY <3>1, <3>2
  <2> QED
    BY <2>1, <2>2
<1>7. PICK m : m = IF s.onHeap /\ s.count # s.capacity
                   THEN [s EXCEPT !.heap = SubSeq(s.heap, 1, s.count), !.capacity = s.count]
                   ELSE s
  OBVIOUS
<1>8. m = Shrunk(l, fails)
  BY <1>2, <1>3, <1>4, <1>7 DEF Shrunk
<1>9. CASE s.onHeap /\ s.count # s.capacity
  <2>1. m = [s EXCEPT !.heap = SubSeq(s.heap, 1, s.count), !.capacity = s.count]
    BY <1>7, <1>9
  <2>2. Shaped(s)
    BY <1>6 DEF Arranged
  <2>3. /\ Shaped(m) /\ m.heap = SubSeq(s.heap, 1, s.count) /\ m.capacity = s.count
        /\ m.count = s.count /\ m.free = s.free /\ m.onHeap = s.onHeap
    BY <2>1, <2>2 DEF Shaped
  <2>4. Pools(m) = SubSeq(s.heap, 1, s.count) /\ Pools(s) = s.heap
    BY <2>3, <1>9 DEF Pools
  <2>5. s.heap = [k \in 1 .. s.capacity |-> s.heap[k]]
    BY <2>4, <1>6 DEF Arranged
  <2>6. PICK R : R = {s.heap[k] : k \in 1 .. s.capacity}
    OBVIOUS
  <2>7. s.heap \in Seq(R) /\ Len(s.heap) = s.capacity
    <3>1. s.capacity \in Nat /\ s.heap \in [1 .. s.capacity -> R]
      BY <2>5, <2>6, <1>1, <1>6
    <3> QED
      BY <3>1, LenProperties, SeqDef
  <2>8. /\ SubSeq(s.heap, 1, s.count) = [k \in 1 .. s.count |-> s.heap[k]]
    BY <2>7, <1>1, <1>6
  <2>9. \A k \in 1 .. m.count : Pools(m)[k] = Pools(s)[k]
    BY <2>3, <2>4, <2>8
  <2>10. Arranged(m)
    <3>1. Pools(m) = [k \in 1 .. m.capacity |-> Pools(m)[k]]
      BY <2>3, <2>4, <2>8
    <3>2. \A k \in 1 .. m.count : Sized(Pools(m)[k], k)
      BY <2>3, <2>9, <1>6 DEF Arranged
    <3>3. m.onHeap /\ m.count >= 1 /\ m.count \in Nat /\ m.capacity \in Nat /\ m.count <= m.capacity
      BY <2>3, <1>1, <1>6, <1>9 DEF Arranged
    <3> QED
      BY <2>3, <3>1, <3>2, <3>3 DEF Arranged
  <2>11. SameSlots(l, m)
    BY <2>3, <2>9, <1>1, <1>6 DEF SameSlots
  <2> QED
    BY <2>3, <2>10, <2>11, <1>6, <1>8
<1>10. CASE ~ (s.onHeap /\ s.count # s.capacity)
  BY <1>6, <1>7, <1>8, <1>10
<1> QED
  BY <1>9, <1>10

\* swap(): a list takes over the slots of the other.
LEMMA TakenOverRight ==
    ASSUME PoolsAssumption, NEW l, NEW m, Arranged(m)
    PROVE  /\ Arranged(withPools(l, m))
           /\ SameSlots(m, withPools(l, m))
           /\ withPools(l, m).count = m.count /\ withPools(l, m).capacity = m.capacity
<1>1. /\ m.count \in Nat /\ m.capacity \in Nat /\ m.count <= m.capacity /\ Shaped(m)
      /\ m.onHeap \in BOOLEAN
  BY DEF Arranged
<1>2. PICK w : w = withPools(l, m)
  OBVIOUS
<1>3. Pools(m) = [k \in 1 .. m.capacity |-> Pools(m)[k]]
  BY DEF Arranged
<1>4. CASE m.onHeap
  <2>1. w = [m EXCEPT !.heap = m.heap, !.pre = l.pre]
    BY <1>2, <1>4 DEF withPools
  <2>2. /\ Shaped(w) /\ w.count = m.count /\ w.capacity = m.capacity /\ w.free = m.free
        /\ w.onHeap = m.onHeap /\ w.heap = m.heap
    BY <2>1, <1>1 DEF Shaped
  <2>3. Pools(w) = Pools(m)
    BY <2>2, <1>4 DEF Pools
  <2>4. SameSlots(m, w)
    BY <2>2, <2>3, <1>1 DEF SameSlots
  <2>5. w.onHeap \in BOOLEAN /\ w.onHeap /\ w.count >= 1
    BY <2>2, <1>1, <1>4 DEF Arranged
  <2>6. Pools(w) = [k \in 1 .. w.capacity |-> Pools(w)[k]]
    BY <2>2, <2>3, <1>3
  <2>7. \A k \in 1 .. w.count : Sized(Pools(w)[k], k)
    BY <2>2, <2>3 DEF Arranged
  <2>8. Arranged(w)
    BY <2>2, <2>5, <2>6, <2>7, <1>1 DEF Arranged
  <2> QED
    BY <2>2, <2>4, <2>8, <1>2
<1>5. CASE ~ m.onHeap
  <2>1. PICK p : p = [k \in 1 .. InitialPools |-> IF k <= m.count \/ ~ l.onHeap
                                                  THEN m.pre[k] ELSE l.pre[k]]
    OBVIOUS
  <2>2. w = [m EXCEPT !.heap = <<>>, !.pre = p]
    BY <2>1, <1>2, <1>5 DEF withPools
  <2>3. /\ Shaped(w) /\ w.count = m.count /\ w.capacity = m.capacity /\ w.free = m.free
        /\ w.onHeap = m.onHeap /\ w.pre = p
    BY <2>2, <1>1 DEF Shaped
  <2>4. Pools(w) = p /\ Pools(m) = m.pre /\ m.capacity = InitialPools
    BY <2>3, <1>5 DEF Pools, Arranged
  <2>5. \A k \in 1 .. m.count : Pools(w)[k] = Pools(m)[k]
    BY <2>1, <2>4, <1>1
  <2>6. Pools(w) = [k \in 1 .. w.capacity |-> Pools(w)[k]]
    BY <2>1, <2>3, <2>4
  <2>7. \A k \in 1 .. w.count : Sized(Pools(w)[k], k)
    BY <2>3, <2>5 DEF Arranged
  <2>8. Arranged(w)
    BY <2>3, <2>4, <2>6, <2>7, <1>1, <1>5 DEF Arranged
  <2>9. SameSlots(m, w)
    BY <2>3, <2>5, <1>1 DEF SameSlots
  <2> QED
    BY <2>3, <2>8, <2>9, <1>2
<1> QED
  BY <1>4, <1>5

\* What is true of every list, however many pools it has.
Formed(l) == Shaped(l) /\ l.onHeap \in BOOLEAN /\ l.count \in Nat

\* The slots that were handed out are in use, with their ids, or free, once.
Accounted(l, S) ==
    /\ l.free \in Seq(Nat)
    /\ \A i, j \in DOMAIN l.free : l.free[i] = l.free[j] => i = j
    /\ \A s \in S : s = [id |-> s.id, place |-> Place(s.id)]
    /\ FreeIds(l) \cap {s.id : s \in S} = {}
    /\ FreeIds(l) \cup {s.id : s \in S} = HandedOut(l)

\* While a list has no more than maxPools pools, its slots are accounted for.
SlotsInv ==
    /\ list = [d \in Doc |-> list[d]] /\ live = [d \in Doc |-> live[d]]
    /\ \A d \in Doc : /\ Formed(list[d])
                      /\ list[d].count <= maxPools =>
                           Arranged(list[d]) /\ Accounted(list[d], live[d])

LEMMA AccountedSame ==
    ASSUME NEW l, NEW m, NEW S, SameSlots(l, m), l.count \in Nat, m.count \in Nat,
           Accounted(l, S)
    PROVE  Accounted(m, S)
<1>1. m.free = l.free /\ HandedOut(m) = HandedOut(l)
  BY HandedOutSame DEF SameSlots
<1>2. FreeIds(m) = FreeIds(l)
  BY <1>1 DEF FreeIds
<1> QED
  BY <1>1, <1>2 DEF Accounted

\* The fields that a step keeps, in every list.
LEMMA TakenForm ==
    ASSUME NEW l, Formed(l)
    PROVE  Formed(Taken(l).list) /\ Taken(l).list.count = l.count
<1>1. PICK q : q = [Pools(l)[l.count] EXCEPT !.usage = @ + 1]
  OBVIOUS
<1>2. Taken(l).list = SetPool(l, l.count, q)
  BY <1>1 DEF Taken
<1> QED
  BY <1>2, SetPoolIs DEF Formed

LEMMA AddedForm ==
    ASSUME NEW l, NEW fails, Formed(l)
    PROVE  Formed(addPool(l, fails)) /\ addPool(l, fails).count = l.count + 1
<1>1. PICK g : g = IF l.count = l.capacity THEN increaseCapacity(l) ELSE l
  OBVIOUS
<1>2. Formed(g) /\ g.count = l.count
  <2>1. CASE l.count = l.capacity
    <3>1. PICK n : n = (2 * l.capacity) % IdCount
      OBVIOUS
    <3>2. PICK h : h = [k \in 1 .. n |-> IF k <= l.capacity THEN Pools(l)[k] ELSE NoPool]
      OBVIOUS
    <3>3. g = [l EXCEPT !.onHeap = TRUE, !.capacity = n, !.heap = h]
      BY <1>1, <2>1, <3>1, <3>2 DEF increaseCapacity
    <3>4. Shaped(g) /\ g.count = l.count
      BY <3>3 DEF Formed, Shaped
    <3>5. g.onHeap
      BY <3>3 DEF Formed, Shaped
    <3> QED
      BY <3>4, <3>5 DEF Formed
  <2>2. CASE l.count # l.capacity
    BY <1>1, <2>2
  <2> QED
    BY <2>1, <2>2
<1>3. PICK n : n = g.count + 1
  OBVIOUS
<1>4. PICK h : h = [g EXCEPT !.count = n]
  OBVIOUS
<1>5. Shaped(h) /\ h.count = n /\ h.onHeap = g.onHeap
  BY <1>2, <1>4 DEF Formed, Shaped
<1>6. PICK c : c = IF n = maxPools THEN PoolCapacity - 1 ELSE PoolCapacity
  OBVIOUS
<1>7. PICK q : q = IF "pool" \in fails THEN NoPool ELSE [cap |-> c, usage |-> 0, slots |-> TRUE]
  OBVIOUS
<1>8. addPool(l, fails) = SetPool(h, n, q)
  BY <1>1, <1>3, <1>4, <1>6, <1>7 DEF addPool
<1>9. h.onHeap \in BOOLEAN
  BY <1>2, <1>5 DEF Formed
<1>10. /\ Shaped(addPool(l, fails)) /\ addPool(l, fails).count = n
       /\ addPool(l, fails).onHeap = g.onHeap
  BY <1>5, <1>8, <1>9, SetPoolIs
<1>11. n = l.count + 1 /\ n \in Nat
  BY <1>2, <1>3 DEF Formed
<1> QED
  BY <1>2, <1>10, <1>11 DEF Formed

LEMMA ShrunkForm ==
    ASSUME NEW l, NEW fails, Formed(l)
    PROVE  Formed(Shrunk(l, fails)) /\ Shrunk(l, fails).count = l.count
<1>1. PICK q : q = [Pools(l)[l.count] EXCEPT !.cap = Pools(l)[l.count].usage]
  OBVIOUS
<1>2. PICK s : s = IF l.count > 0 /\ Pools(l)[l.count].slots /\ "pool" \notin fails
                   THEN SetPool(l, l.count, q) ELSE l
  OBVIOUS
<1>3. Formed(s) /\ s.count = l.count
  <2>1. CASE s = l
    BY <2>1
  <2>2. CASE s = SetPool(l, l.count, q)
    BY <2>2, SetPoolIs DEF Formed
  <2> QED
    BY <1>2, <2>1, <2>2
<1>4. PICK h : h = SubSeq(s.heap, 1, s.count)
  OBVIOUS
<1>5. Shrunk(l, fails) = IF s.onHeap /\ s.count # s.capacity
                         THEN [s EXCEPT !.heap = h, !.capacity = s.count] ELSE s
  BY <1>1, <1>2, <1>4 DEF Shrunk
<1>6. CASE s.onHeap /\ s.count # s.capacity
  <2>1. Shrunk(l, fails) = [s EXCEPT !.heap = h, !.capacity = s.count]
    BY <1>5, <1>6
  <2>2. /\ Shaped(Shrunk(l, fails)) /\ Shrunk(l, fails).count = s.count
        /\ Shrunk(l, fails).onHeap = s.onHeap
    BY <1>3, <2>1 DEF Formed, Shaped
  <2> QED
    BY <1>3, <2>2 DEF Formed
<1>7. CASE ~ (s.onHeap /\ s.count # s.capacity)
  BY <1>3, <1>5, <1>7
<1> QED
  BY <1>6, <1>7

LEMMA TakenOverForm ==
    ASSUME NEW l, NEW m, Formed(m)
    PROVE  Formed(withPools(l, m)) /\ withPools(l, m).count = m.count
<1>1. PICK h : h = IF m.onHeap THEN m.heap ELSE <<>>
  OBVIOUS
<1>2. PICK p : p = IF m.onHeap THEN l.pre
                   ELSE [k \in 1 .. InitialPools |-> IF k <= m.count \/ ~ l.onHeap
                                                    THEN m.pre[k] ELSE l.pre[k]]
  OBVIOUS
<1>3. withPools(l, m) = [m EXCEPT !.heap = h, !.pre = p]
  BY <1>1, <1>2 DEF withPools
<1>4. /\ Shaped(withPools(l, m)) /\ withPools(l, m).count = m.count
      /\ withPools(l, m).onHeap = m.onHeap
  BY <1>3 DEF Formed, Shaped
<1> QED
  BY <1>4 DEF Formed

LEMMA IdsWith ==
    ASSUME NEW S, NEW x, NEW p
    PROVE  {s.id : s \in S \cup {[id |-> x, place |-> p]}} = {s.id : s \in S} \cup {x}
<1>1. PICK t : t = [id |-> x, place |-> p]
  OBVIOUS
<1>2. t.id = x
  BY <1>1
<1>3. {s.id : s \in S \cup {t}} = {s.id : s \in S} \cup {t.id}
  OBVIOUS
<1> QED
  BY <1>1, <1>2, <1>3

\* A slot of the last pool goes into use.
LEMMA TakenAccounted ==
    ASSUME PoolsAssumption, NEW l, NEW S, Arranged(l), l.count <= maxPools, Room(l),
           Accounted(l, S)
    PROVE  Accounted(Taken(l).list, S \cup {[id |-> Taken(l).id, place |-> Taken(l).place]})
<1>1. PICK x : x = Taken(l).id
  OBVIOUS
<1>2. PICK m : m = Taken(l).list
  OBVIOUS
<1>3. PICK T : T = S \cup {[id |-> x, place |-> Place(x)]}
  OBVIOUS
<1>4. /\ m.free = l.free /\ x \notin HandedOut(l) /\ HandedOut(m) = HandedOut(l) \cup {x}
      /\ Taken(l).place = Place(x)
  BY <1>1, <1>2, TakenRight
<1>5. FreeIds(m) = FreeIds(l)
  BY <1>4 DEF FreeIds
<1>6. {s.id : s \in T} = {s.id : s \in S} \cup {x}
  BY <1>3, IdsWith
<1>7. x \notin FreeIds(l)
  BY <1>4 DEF Accounted
<1>8. \A s \in T : s = [id |-> s.id, place |-> Place(s.id)]
  BY <1>3 DEF Accounted
<1>9. FreeIds(m) \cap {s.id : s \in T} = {}
  BY <1>5, <1>6, <1>7 DEF Accounted
<1>10. FreeIds(m) \cup {s.id : s \in T} = HandedOut(m)
  BY <1>4, <1>5, <1>6 DEF Accounted
<1>11. Accounted(m, T)
  BY <1>4, <1>8, <1>9, <1>10 DEF Accounted
<1> QED
  BY <1>1, <1>2, <1>3, <1>4, <1>11

\* Only the free list changes.
LEMMA FreeListOnly ==
    ASSUME NEW l, NEW f, Formed(l)
    PROVE  /\ Formed([l EXCEPT !.free = f])
           /\ [l EXCEPT !.free = f].free = f
           /\ [l EXCEPT !.free = f].count = l.count
           /\ HandedOut([l EXCEPT !.free = f]) = HandedOut(l)
           /\ Arranged(l) => Arranged([l EXCEPT !.free = f])
<1>1. PICK m : m = [l EXCEPT !.free = f]
  OBVIOUS
<1>2. /\ Shaped(m) /\ m.free = f /\ m.count = l.count /\ m.capacity = l.capacity
      /\ m.onHeap = l.onHeap /\ m.pre = l.pre /\ m.heap = l.heap
  BY <1>1 DEF Formed, Shaped
<1>3. Pools(m) = Pools(l)
  BY <1>2 DEF Pools
<1>4. HandedOut(m) = HandedOut(l)
  BY <1>2, <1>3 DEF HandedOut
<1>5. Formed(m)
  BY <1>2 DEF Formed
<1>6. ASSUME Arranged(l) PROVE Arranged(m)
  BY <1>2, <1>3, <1>6 DEF Arranged
<1> QED
  BY <1>1, <1>2, <1>4, <1>5, <1>6

\* The first slot of the free list goes into use.
LEMMA FromFreeListAccounted ==
    ASSUME NEW l, NEW S, Formed(l), l.free # <<>>, Accounted(l, S)
    PROVE  /\ fromFreeList(l).list = [l EXCEPT !.free = Tail(l.free)]
           /\ Accounted(fromFreeList(l).list,
                        S \cup {[id |-> fromFreeList(l).id, place |-> fromFreeList(l).place]})
<1>1. PICK f : f = Tail(l.free)
  OBVIOUS
<1>2. PICK m : m = [l EXCEPT !.free = f]
  OBVIOUS
<1>3. PICK x : x = l.free[1]
  OBVIOUS
<1>4. l.free \in Seq(Nat)
  BY DEF Accounted
<1>5. /\ f \in Seq(Nat) /\ Len(f) = Len(l.free) - 1 /\ Len(l.free) \in Nat \ {0}
      /\ \A i \in 1 .. Len(f) : f[i] = l.free[i + 1]
  BY <1>1, <1>4
<1>6. DOMAIN f = 1 .. Len(f) /\ DOMAIN l.free = 1 .. Len(l.free)
  BY <1>4, <1>5
<1>7. m.free = f /\ HandedOut(m) = HandedOut(l)
  BY <1>2, FreeListOnly
<1>8. fromFreeList(l).id = x /\ fromFreeList(l).place = Place(x) /\ fromFreeList(l).list = m
  BY <1>1, <1>2, <1>3 DEF fromFreeList
<1>9. \A i, j \in 1 .. Len(l.free) : l.free[i] = l.free[j] => i = j
  BY <1>6 DEF Accounted
<1>10. \A i, j \in DOMAIN f : f[i] = f[j] => i = j
  BY <1>5, <1>6, <1>9, SMTT(30)
<1>11. FreeIds(l) = FreeIds(m) \cup {x}
  <2>1. ASSUME NEW y \in FreeIds(l) PROVE y \in FreeIds(m) \cup {x}
    <3>1. PICK i \in 1 .. Len(l.free) : y = l.free[i]
      BY <2>1, <1>6 DEF FreeIds
    <3>2. CASE i = 1
      BY <3>1, <3>2, <1>3
    <3>3. CASE i # 1
      <4>1. i - 1 \in 1 .. Len(f) /\ f[i - 1] = y
        BY <3>1, <3>3, <1>5
      <4> QED
        BY <4>1, <1>6, <1>7 DEF FreeIds
    <3> QED
      BY <3>2, <3>3
  <2>2. ASSUME NEW y \in FreeIds(m) PROVE y \in FreeIds(l)
    <3>1. PICK i \in 1 .. Len(f) : y = f[i]
      BY <2>2, <1>6, <1>7 DEF FreeIds
    <3>2. i + 1 \in 1 .. Len(l.free) /\ l.free[i + 1] = y
      BY <3>1, <1>5
    <3> QED
      BY <3>2, <1>6 DEF FreeIds
  <2>3. x \in FreeIds(l)
    <3>1. 1 \in 1 .. Len(l.free)
      BY <1>5
    <3> QED
      BY <3>1, <1>3, <1>6 DEF FreeIds
  <2> QED
    BY <2>1, <2>2, <2>3
<1>12. x \notin FreeIds(m)
  <2> SUFFICES ASSUME x \in FreeIds(m) PROVE FALSE
    OBVIOUS
  <2>1. PICK i \in 1 .. Len(f) : x = f[i]
    BY <1>6, <1>7 DEF FreeIds
  <2>2. i + 1 \in 1 .. Len(l.free) /\ 1 \in 1 .. Len(l.free)
    BY <2>1, <1>5
  <2>4. l.free[i + 1] = l.free[1]
    BY <2>1, <1>3, <1>5
  <2>5. i + 1 = 1
    BY <2>2, <2>4, <1>9
  <2> QED
    BY <2>1, <2>5
<1>13. PICK T : T = S \cup {[id |-> x, place |-> Place(x)]}
  OBVIOUS
<1>14. {s.id : s \in T} = {s.id : s \in S} \cup {x}
  BY <1>13, IdsWith
<1>15. \A s \in T : s = [id |-> s.id, place |-> Place(s.id)]
  BY <1>13 DEF Accounted
<1>16. /\ FreeIds(m) \cap {s.id : s \in T} = {}
       /\ FreeIds(m) \cup {s.id : s \in T} = HandedOut(m)
  BY <1>7, <1>11, <1>12, <1>14 DEF Accounted
<1>17. Accounted(m, T)
  BY <1>5, <1>7, <1>10, <1>15, <1>16 DEF Accounted
<1> QED
  BY <1>1, <1>2, <1>8, <1>13, <1>17

\* A slot in use becomes the first of the free list.
LEMMA FreedAccounted ==
    ASSUME PoolsAssumption, NEW l, NEW S, NEW s \in S, Formed(l), Arranged(l),
           l.count <= maxPools, Accounted(l, S)
    PROVE  Accounted([l EXCEPT !.free = <<s.id>> \o l.free], S \ {s})
<1>1. PICK x : x = s.id
  OBVIOUS
<1>2. PICK f : f = <<x>> \o l.free
  OBVIOUS
<1>3. PICK m : m = [l EXCEPT !.free = f]
  OBVIOUS
<1>4. x \in HandedOut(l)
  BY <1>1 DEF Accounted
<1>5. x \in Nat
  <2>1. x \in 0 .. NULL_SLOT - 1
    BY <1>4, HandedOutRight
  <2> QED
    BY <2>1
<1>6. l.free \in Seq(Nat)
  BY DEF Accounted
<1>7. /\ f \in Seq(Nat) /\ Len(f) = Len(l.free) + 1 /\ Len(l.free) \in Nat
      /\ f[1] = x
      /\ \A i \in 1 .. Len(l.free) : f[i + 1] = l.free[i]
  BY <1>2, <1>5, <1>6, SMTT(30)
<1>8. DOMAIN f = 1 .. Len(f) /\ DOMAIN l.free = 1 .. Len(l.free)
  BY <1>6, <1>7
<1>9. m.free = f /\ HandedOut(m) = HandedOut(l)
  BY <1>3, FreeListOnly
<1>10. x \notin FreeIds(l)
  BY <1>1 DEF Accounted
<1>11. FreeIds(m) = FreeIds(l) \cup {x}
  <2>1. ASSUME NEW y \in FreeIds(m) PROVE y \in FreeIds(l) \cup {x}
    <3>1. PICK i \in 1 .. Len(f) : y = f[i]
      BY <2>1, <1>8, <1>9 DEF FreeIds
    <3>2. CASE i = 1
      BY <3>1, <3>2, <1>7
    <3>3. CASE i # 1
      <4>1. PICK j \in 1 .. Len(l.free) : j + 1 = i
        <5>1. i - 1 \in 1 .. Len(l.free) /\ (i - 1) + 1 = i
          BY <3>1, <3>3, <1>7
        <5> QED
          BY <5>1
      <4>2. f[j + 1] = l.free[j]
        BY <1>7
      <4> QED
        BY <3>1, <4>1, <4>2, <1>8 DEF FreeIds
    <3> QED
      BY <3>2, <3>3
  <2>2. ASSUME NEW y \in FreeIds(l) PROVE y \in FreeIds(m)
    <3>1. PICK i \in 1 .. Len(l.free) : y = l.free[i]
      BY <2>2, <1>8 DEF FreeIds
    <3>2. i + 1 \in 1 .. Len(f) /\ f[i + 1] = y
      BY <3>1, <1>7, SMTT(30)
    <3> QED
      BY <3>2, <1>8, <1>9 DEF FreeIds
  <2>3. x \in FreeIds(m)
    <3>1. 1 \in 1 .. Len(f)
      BY <1>7
    <3> QED
      BY <3>1, <1>7, <1>8, <1>9 DEF FreeIds
  <2> QED
    BY <2>1, <2>2, <2>3
<1>12. \A i, j \in DOMAIN f : f[i] = f[j] => i = j
  <2> SUFFICES ASSUME NEW i \in 1 .. Len(f), NEW j \in 1 .. Len(f), f[i] = f[j], i < j PROVE FALSE
    BY <1>7, <1>8
  <2>1. j - 1 \in 1 .. Len(l.free) /\ f[(j - 1) + 1] = l.free[j - 1] /\ (j - 1) + 1 = j
    BY <1>7
  <2>2. f[j] = l.free[j - 1]
    BY <2>1
  <2>3. CASE i = 1
    <3>1. l.free[j - 1] = x
      BY <2>2, <2>3, <1>7
    <3> QED
      BY <3>1, <2>1, <1>8, <1>10 DEF FreeIds
  <2>4. CASE i # 1
    <3>1. i - 1 \in 1 .. Len(l.free) /\ f[(i - 1) + 1] = l.free[i - 1] /\ (i - 1) + 1 = i
      BY <2>4, <1>7, SMTT(30)
    <3>2. l.free[i - 1] = l.free[j - 1]
      BY <2>2, <3>1
    <3>3. i - 1 = j - 1
      BY <2>1, <3>1, <3>2, <1>8 DEF Accounted
    <3> QED
      BY <3>3
  <2> QED
    BY <2>3, <2>4
<1>13. \A t \in S : t # s => t.id # x
  <2> SUFFICES ASSUME NEW t \in S, t.id = x PROVE t = s
    OBVIOUS
  <2>1. t = [id |-> x, place |-> Place(x)]
    BY DEF Accounted
  <2>2. s = [id |-> x, place |-> Place(x)]
    BY <1>1 DEF Accounted
  <2> QED
    BY <2>1, <2>2
<1>14. {t.id : t \in S \ {s}} = {t.id : t \in S} \ {x}
  BY <1>1, <1>13
<1>15. /\ FreeIds(m) \cap {t.id : t \in S \ {s}} = {}
       /\ FreeIds(m) \cup {t.id : t \in S \ {s}} = HandedOut(m)
  <2>1. x \in {t.id : t \in S}
    BY <1>1
  <2> QED
    BY <2>1, <1>9, <1>11, <1>14 DEF Accounted
<1>16. Accounted(m, S \ {s})
  BY <1>7, <1>9, <1>12, <1>15 DEF Accounted
<1> QED
  BY <1>1, <1>2, <1>3, <1>16

\* A list l with the slots S in use.
Fine(l, S) ==
    /\ Formed(l)
    /\ l.count <= maxPools => Arranged(l) /\ Accounted(l, S)

LEMMA EmptyFine ==
    ASSUME PoolsAssumption
    PROVE  Fine(EmptyList, {}) /\ EmptyList.capacity = InitialPools /\ EmptyList.count = 0
<1>1. /\ Shaped(EmptyList) /\ EmptyList.onHeap = FALSE /\ EmptyList.count = 0
      /\ EmptyList.capacity = InitialPools /\ EmptyList.free = <<>>
      /\ EmptyList.pre = [k \in 1 .. InitialPools |-> NoPool]
  BY DEF EmptyList, Shaped
<1>2. Pools(EmptyList) = [k \in 1 .. InitialPools |-> NoPool]
  BY <1>1 DEF Pools
<1>3. Pools(EmptyList) = [k \in 1 .. EmptyList.capacity |-> Pools(EmptyList)[k]]
  BY <1>1, <1>2
<1>4. 1 .. EmptyList.count = {} /\ InitialPools \in Nat
  BY <1>1 DEF PoolsAssumption
<1>5. Arranged(EmptyList)
  <2>1. EmptyList.onHeap \in BOOLEAN /\ ~ EmptyList.onHeap
    BY <1>1
  <2>2. /\ EmptyList.count \in Nat /\ EmptyList.capacity \in Nat
        /\ EmptyList.count <= EmptyList.capacity
    BY <1>1, <1>4
  <2>3. \A k \in 1 .. EmptyList.count : Sized(Pools(EmptyList)[k], k)
    BY <1>4
  <2> QED
    BY <2>1, <2>2, <2>3, <1>1, <1>3 DEF Arranged
<1>6. HandedOut(EmptyList) = {}
  BY <1>4, HandedOutIs
<1>7. FreeIds(EmptyList) = {}
  BY <1>1 DEF FreeIds
<1>8. {s.id : s \in {}} = {}
  OBVIOUS
<1>9. Accounted(EmptyList, {})
  BY <1>1, <1>6, <1>7, <1>8 DEF Accounted
<1>10. Formed(EmptyList)
  BY <1>5 DEF Arranged, Formed
<1> QED
  BY <1>1, <1>5, <1>9, <1>10 DEF Fine

\* What the refused and the granted allocation leave.
LEMMA AllocFine ==
    ASSUME PoolsAssumption, NEW l, NEW S, NEW fails, NEW m, NEW T, Fine(l, S),
           \/ /\ l.free # <<>> /\ m = fromFreeList(l).list
              /\ T = S \cup {[id |-> fromFreeList(l).id, place |-> fromFreeList(l).place]}
           \/ /\ Room(l) /\ m = Taken(l).list
              /\ T = S \cup {[id |-> Taken(l).id, place |-> Taken(l).place]}
           \/ m = l /\ T = S
           \/ /\ MayGrow(l, fails) /\ m = addPool(l, fails) /\ T = S
           \/ /\ MayGrow(l, fails) /\ Room(addPool(l, fails))
              /\ m = Taken(addPool(l, fails)).list
              /\ T = S \cup {[id |-> Taken(addPool(l, fails)).id,
                              place |-> Taken(addPool(l, fails)).place]}
    PROVE  Fine(m, T)
<1>1. Formed(l) /\ l.count \in Nat /\ maxPools \in Nat
  BY IdsFit DEF Fine, Formed
<1>2. CASE /\ l.free # <<>> /\ m = fromFreeList(l).list
           /\ T = S \cup {[id |-> fromFreeList(l).id, place |-> fromFreeList(l).place]}
  <2>1. m = [l EXCEPT !.free = Tail(l.free)]
    BY <1>2 DEF fromFreeList
  <2>2. Formed(m) /\ m.count = l.count /\ (Arranged(l) => Arranged(m))
    BY <1>1, <2>1, FreeListOnly
  <2>3. ASSUME m.count <= maxPools PROVE Arranged(m) /\ Accounted(m, T)
    <3>1. Arranged(l) /\ Accounted(l, S)
      BY <2>2, <2>3 DEF Fine
    <3>2. Accounted(m, T)
      BY <3>1, <1>1, <1>2, FromFreeListAccounted
    <3> QED
      BY <2>2, <3>1, <3>2
  <2> QED
    BY <2>2, <2>3 DEF Fine
<1>3. ASSUME NEW g, Fine(g, S), Room(g), m = Taken(g).list,
             T = S \cup {[id |-> Taken(g).id, place |-> Taken(g).place]}
      PROVE  Fine(m, T)
  <2>1. Formed(m) /\ m.count = g.count
    BY <1>3, TakenForm DEF Fine
  <2>2. ASSUME m.count <= maxPools PROVE Arranged(m) /\ Accounted(m, T)
    <3>1. Arranged(g) /\ Accounted(g, S) /\ g.count <= maxPools
      BY <1>3, <2>1, <2>2 DEF Fine
    <3>2. Arranged(m)
      BY <3>1, <1>3, TakenRight
    <3>3. Accounted(m, T)
      BY <3>1, <1>3, TakenAccounted
    <3> QED
      BY <3>2, <3>3
  <2> QED
    BY <2>1, <2>2 DEF Fine
<1>4. ASSUME MayGrow(l, fails) PROVE Fine(addPool(l, fails), S)
  <2>1. PICK g : g = addPool(l, fails)
    OBVIOUS
  <2>2. Formed(g) /\ g.count = l.count + 1
    BY <1>1, <2>1, AddedForm
  <2>3. ASSUME g.count <= maxPools PROVE Arranged(g) /\ Accounted(g, S)
    <3>1. l.count <= maxPools /\ l.count + 1 <= maxPools
      BY <1>1, <2>2, <2>3
    <3>2. Arranged(l) /\ Accounted(l, S)
      BY <3>1 DEF Fine
    <3>3. Arranged(g) /\ SameSlots(l, g)
      BY <3>1, <3>2, <1>4, <2>1, AddedRight
    <3>4. g.count \in Nat
      BY <2>2 DEF Formed
    <3>5. Accounted(g, S)
      BY <3>2, <3>3, <3>4, <1>1, AccountedSame
    <3> QED
      BY <3>3, <3>5
  <2> QED
    BY <2>1, <2>2, <2>3 DEF Fine
<1> QED
  BY <1>2, <1>3, <1>4

\* A step moves one document, or two of them.
LEMMA FineStep ==
    ASSUME NEW m, NEW T, NEW d \in Doc, SlotsInv, Fine(m, T),
           list' = [list EXCEPT ![d] = m], live' = [live EXCEPT ![d] = T]
    PROVE  SlotsInv'
<1>1. list' = [e \in Doc |-> IF e = d THEN m ELSE list[e]]
  BY DEF SlotsInv
<1>2. live' = [e \in Doc |-> IF e = d THEN T ELSE live[e]]
  BY DEF SlotsInv
<1>3. ASSUME NEW e \in Doc PROVE Fine(list'[e], live'[e])
  <2>1. CASE e = d
    BY <2>1, <1>1, <1>2
  <2>2. CASE e # d
    <3>1. list'[e] = list[e] /\ live'[e] = live[e]
      BY <2>2, <1>1, <1>2
    <3> QED
      BY <3>1 DEF SlotsInv, Fine
  <2> QED
    BY <2>1, <2>2
<1>4. list' = [e \in Doc |-> list'[e]] /\ live' = [e \in Doc |-> live'[e]]
  BY <1>1, <1>2
<1> QED
  BY <1>3, <1>4 DEF SlotsInv, Fine

\* The slots that allocSlot() gives, or what it leaves when it refuses.
LEMMA AllocCases ==
    ASSUME NEW d \in Doc, NEW fails, allocVariant(d, fails), SlotsInv
    PROVE  \E m, T :
             /\ list' = [list EXCEPT ![d] = m] /\ live' = [live EXCEPT ![d] = T]
             /\ \/ /\ list[d].free # <<>> /\ m = fromFreeList(list[d]).list
                   /\ T = live[d] \cup {[id |-> fromFreeList(list[d]).id,
                                         place |-> fromFreeList(list[d]).place]}
                \/ /\ Room(list[d]) /\ m = Taken(list[d]).list
                   /\ T = live[d] \cup {[id |-> Taken(list[d]).id,
                                         place |-> Taken(list[d]).place]}
                \/ m = list[d] /\ T = live[d]
                \/ /\ MayGrow(list[d], fails) /\ m = addPool(list[d], fails) /\ T = live[d]
                \/ /\ MayGrow(list[d], fails) /\ Room(addPool(list[d], fails))
                   /\ m = Taken(addPool(list[d], fails)).list
                   /\ T = live[d] \cup {[id |-> Taken(addPool(list[d], fails)).id,
                                         place |-> Taken(addPool(list[d], fails)).place]}
<1> DEFINE l == list[d]
<1>1. ASSUME NEW s, Gives(d, s)
      PROVE  /\ list' = [list EXCEPT ![d] = s.list]
             /\ live' = [live EXCEPT ![d] = live[d] \cup {[id |-> s.id, place |-> s.place]}]
  BY <1>1 DEF Gives, SlotsInv
<1>2. ASSUME NEW m, Refuses(d, m, fails)
      PROVE  list' = [list EXCEPT ![d] = m] /\ live' = [live EXCEPT ![d] = live[d]]
  <2>1. list' = [list EXCEPT ![d] = m] /\ live' = live
    BY <1>2 DEF Refuses
  <2>2. live = [live EXCEPT ![d] = live[d]]
    BY DEF SlotsInv
  <2> QED
    BY <2>1, <2>2
<1>3. \/ l.free # <<>> /\ Gives(d, fromFreeList(l))
      \/ Room(l) /\ Gives(d, Taken(l))
      \/ Refuses(d, l, fails)
      \/ /\ MayGrow(l, fails) /\ Room(addPool(l, fails)) /\ Gives(d, Taken(addPool(l, fails)))
      \/ /\ MayGrow(l, fails) /\ Refuses(d, addPool(l, fails), fails)
  BY DEF allocVariant
<1>4. CASE l.free # <<>> /\ Gives(d, fromFreeList(l))
  BY <1>4, <1>1
<1>5. CASE Room(l) /\ Gives(d, Taken(l))
  BY <1>5, <1>1
<1>6. CASE Refuses(d, l, fails)
  BY <1>6, <1>2
<1>7. CASE MayGrow(l, fails) /\ Room(addPool(l, fails)) /\ Gives(d, Taken(addPool(l, fails)))
  BY <1>7, <1>1
<1>8. CASE MayGrow(l, fails) /\ Refuses(d, addPool(l, fails), fails)
  BY <1>8, <1>2
<1> QED
  BY <1>3, <1>4, <1>5, <1>6, <1>7, <1>8

\* Whatever is allocated, freed, shrunk, cleared and swapped.
LEMMA SlotsStep ==
    ASSUME PoolsAssumption, SlotsInv, [PoolsNext]_poolVars
    PROVE  SlotsInv'
<1>0. \A d \in Doc : Fine(list[d], live[d])
  BY DEF SlotsInv, Fine
<1>1. ASSUME NEW d \in Doc, NEW fails \in Fails, allocVariant(d, fails) PROVE SlotsInv'
  <2>1. PICK m, T :
             /\ list' = [list EXCEPT ![d] = m] /\ live' = [live EXCEPT ![d] = T]
             /\ \/ /\ list[d].free # <<>> /\ m = fromFreeList(list[d]).list
                   /\ T = live[d] \cup {[id |-> fromFreeList(list[d]).id,
                                         place |-> fromFreeList(list[d]).place]}
                \/ /\ Room(list[d]) /\ m = Taken(list[d]).list
                   /\ T = live[d] \cup {[id |-> Taken(list[d]).id,
                                         place |-> Taken(list[d]).place]}
                \/ m = list[d] /\ T = live[d]
                \/ /\ MayGrow(list[d], fails) /\ m = addPool(list[d], fails) /\ T = live[d]
                \/ /\ MayGrow(list[d], fails) /\ Room(addPool(list[d], fails))
                   /\ m = Taken(addPool(list[d], fails)).list
                   /\ T = live[d] \cup {[id |-> Taken(addPool(list[d], fails)).id,
                                         place |-> Taken(addPool(list[d], fails)).place]}
    BY <1>1, AllocCases
  <2>2. Fine(m, T)
    BY <2>1, <1>0, AllocFine
  <2> QED
    BY <2>1, <2>2, FineStep
<1>2. ASSUME NEW d \in Doc, NEW fails \in Fails, shrinkToFit(d, fails) PROVE SlotsInv'
  <2>1. PICK m : m = Shrunk(list[d], fails)
    OBVIOUS
  <2>2. list' = [list EXCEPT ![d] = m] /\ live' = [live EXCEPT ![d] = live[d]]
    BY <1>2, <2>1 DEF shrinkToFit, SlotsInv
  <2>3. Formed(m) /\ m.count = list[d].count /\ Formed(list[d])
    BY <1>0, <2>1, ShrunkForm DEF Fine
  <2>4. ASSUME m.count <= maxPools PROVE Arranged(m) /\ Accounted(m, live[d])
    <3>1. Arranged(list[d]) /\ Accounted(list[d], live[d])
      BY <1>0, <2>3, <2>4 DEF Fine
    <3>2. Arranged(m) /\ SameSlots(list[d], m)
      BY <2>1, <3>1, ShrunkRight
    <3>3. Accounted(m, live[d])
      BY <2>3, <3>1, <3>2, AccountedSame DEF Formed
    <3> QED
      BY <3>2, <3>3
  <2>5. Fine(m, live[d])
    BY <2>3, <2>4 DEF Fine
  <2> QED
    BY <2>2, <2>5, FineStep
<1>3. ASSUME NEW d \in Doc, clearPools(d) PROVE SlotsInv'
  <2>1. list' = [list EXCEPT ![d] = EmptyList] /\ live' = [live EXCEPT ![d] = {}]
    BY <1>3 DEF clearPools
  <2> QED
    BY <2>1, EmptyFine, FineStep
<1>4. ASSUME NEW d \in Doc, NEW s \in live[d], freeVariant(d, s) PROVE SlotsInv'
  <2>1. PICK m : m = [list[d] EXCEPT !.free = <<s.id>> \o list[d].free]
    OBVIOUS
  <2>2. list' = [list EXCEPT ![d] = m] /\ live' = [live EXCEPT ![d] = live[d] \ {s}]
    BY <1>4, <2>1 DEF freeVariant, SlotsInv
  <2>3. Formed(list[d])
    BY <1>0 DEF Fine
  <2>4. Formed(m) /\ m.count = list[d].count /\ (Arranged(list[d]) => Arranged(m))
    BY <2>1, <2>3, FreeListOnly
  <2>5. ASSUME m.count <= maxPools PROVE Arranged(m) /\ Accounted(m, live[d] \ {s})
    <3>1. Arranged(list[d]) /\ Accounted(list[d], live[d]) /\ list[d].count <= maxPools
      BY <1>0, <2>4, <2>5 DEF Fine
    <3>2. Accounted(m, live[d] \ {s})
      BY <3>1, <1>4, <2>1, <2>3, FreedAccounted
    <3> QED
      BY <3>1, <3>2, <2>4
  <2>6. Fine(m, live[d] \ {s})
    BY <2>4, <2>5 DEF Fine
  <2> QED
    BY <2>2, <2>6, FineStep
<1>5. ASSUME NEW d \in Doc, NEW e \in Doc, d # e, swap(d, e) PROVE SlotsInv'
  <2>1. ASSUME NEW a \in Doc, NEW b \in Doc PROVE Fine(withPools(list[a], list[b]), live[b])
    <3>1. PICK m : m = withPools(list[a], list[b])
      OBVIOUS
    <3>2. Formed(m) /\ m.count = list[b].count /\ Formed(list[b])
      BY <1>0, <3>1, TakenOverForm DEF Fine
    <3>3. ASSUME m.count <= maxPools PROVE Arranged(m) /\ Accounted(m, live[b])
      <4>1. Arranged(list[b]) /\ Accounted(list[b], live[b])
        BY <1>0, <3>2, <3>3 DEF Fine
      <4>2. Arranged(m) /\ SameSlots(list[b], m)
        BY <3>1, <4>1, TakenOverRight
      <4>3. Accounted(m, live[b])
        BY <3>2, <4>1, <4>2, AccountedSame DEF Formed
      <4> QED
        BY <4>2, <4>3
    <3> QED
      BY <3>1, <3>2, <3>3 DEF Fine
  <2>2. PICK m : m = [list EXCEPT ![d] = withPools(list[d], list[e])]
    OBVIOUS
  <2>3. PICK T : T = [live EXCEPT ![d] = live[e]]
    OBVIOUS
  <2>4. /\ list' = [c \in Doc |-> IF c = e THEN withPools(list[e], list[d])
                                  ELSE IF c = d THEN withPools(list[d], list[e]) ELSE list[c]]
        /\ live' = [c \in Doc |-> IF c = e THEN live[d] ELSE IF c = d THEN live[e] ELSE live[c]]
    BY <1>5 DEF swap, SlotsInv
  <2>5. ASSUME NEW c \in Doc PROVE Fine(list'[c], live'[c])
    <3>1. CASE c = e
      BY <3>1, <2>1, <2>4
    <3>2. CASE c # e /\ c = d
      BY <3>2, <2>1, <2>4
    <3>3. CASE c # e /\ c # d
      BY <3>3, <1>0, <2>4
    <3> QED
      BY <3>1, <3>2, <3>3
  <2>6. list' = [c \in Doc |-> list'[c]] /\ live' = [c \in Doc |-> live'[c]]
    BY <2>4
  <2> QED
    BY <2>5, <2>6 DEF SlotsInv, Fine
<1>6. CASE UNCHANGED poolVars
  <2>1. list' = list /\ live' = live
    BY <1>6 DEF poolVars
  <2>2. \A d \in Doc : Fine(list'[d], live'[d])
    BY <1>0, <2>1
  <2>3. list' = [d \in Doc |-> list'[d]] /\ live' = [d \in Doc |-> live'[d]]
    BY <2>1 DEF SlotsInv
  <2> QED
    BY <2>2, <2>3 DEF SlotsInv, Fine
<1> QED
  BY <1>1, <1>2, <1>3, <1>4, <1>5, <1>6 DEF PoolsNext

LEMMA SlotsStart ==
    ASSUME PoolsAssumption, PoolsInit
    PROVE  SlotsInv
<1>1. list = [d \in Doc |-> EmptyList] /\ live = [d \in Doc |-> {}]
  BY DEF PoolsInit
<1>2. \A d \in Doc : Fine(list[d], live[d])
  BY <1>1, EmptyFine
<1> QED
  BY <1>1, <1>2 DEF SlotsInv, Fine

\* What the invariant says of one document.
LEMMA SlotsRight ==
    ASSUME PoolsAssumption, NEW d \in Doc, Arranged(list[d]), list[d].count <= maxPools,
           Accounted(list[d], live[d])
    PROVE  /\ \A s \in live[d] :
                /\ s.id # NULL_SLOT /\ Place(s.id) = s.place
                /\ s.place.pool < list[d].count
                /\ s.place.index < Pools(list[d])[s.place.pool + 1].usage
           /\ \A i, j \in DOMAIN list[d].free : list[d].free[i] = list[d].free[j] => i = j
           /\ FreeIds(list[d]) \cap LiveIds(d) = {}
           /\ FreeIds(list[d]) \cup LiveIds(d) = HandedOut(list[d])
<1>1. ASSUME NEW s \in live[d]
      PROVE  /\ s.id # NULL_SLOT /\ Place(s.id) = s.place
             /\ s.place.pool < list[d].count
             /\ s.place.index < Pools(list[d])[s.place.pool + 1].usage
  <2>1. PICK x : x = s.id
    OBVIOUS
  <2>2. x \in HandedOut(list[d]) /\ s.place = Place(x)
    BY <2>1 DEF Accounted
  <2>3. /\ x \in 0 .. NULL_SLOT - 1
        /\ Place(x).pool \in 0 .. list[d].count - 1
        /\ Place(x).index \in 0 .. Pools(list[d])[Place(x).pool + 1].usage - 1
    BY <2>2, HandedOutRight
  <2>4. list[d].count \in Nat /\ NULL_SLOT \in Int
    BY DEF Arranged, NULL_SLOT, PoolsAssumption
  <2>5. Pools(list[d])[Place(x).pool + 1].usage \in Nat
    <3>1. Place(x).pool + 1 \in 1 .. list[d].count
      BY <2>3, <2>4
    <3> QED
      BY <3>1 DEF Arranged, Sized, PoolType
  <2> QED
    BY <2>1, <2>2, <2>3, <2>4, <2>5
<1> QED
  BY <1>1 DEF Accounted, LiveIds

\* While the list of a document has no more than maxPools pools, the id of a slot
\* in use finds that slot, and no slot is lost or handed out twice, whatever has
\* been allocated, freed, shrunk, cleared and swapped before (MemoryPoolList).
THEOREM SlotsWithinMaxPools ==
    ASSUME PoolsAssumption
    PROVE  PoolsSpec =>
             [](\A d \in Doc : list[d].count <= maxPools =>
                  /\ \A s \in live[d] :
                       /\ s.id # NULL_SLOT /\ Place(s.id) = s.place
                       /\ s.place.pool < list[d].count
                       /\ s.place.index < Pools(list[d])[s.place.pool + 1].usage
                  /\ \A i, j \in DOMAIN list[d].free : list[d].free[i] = list[d].free[j] => i = j
                  /\ FreeIds(list[d]) \cap LiveIds(d) = {}
                  /\ FreeIds(list[d]) \cup LiveIds(d) = HandedOut(list[d]))
<1>1. PoolsInit => SlotsInv
  BY SlotsStart
<1>2. SlotsInv /\ [PoolsNext]_poolVars => SlotsInv'
  BY SlotsStep
<1>3. SlotsInv =>
        \A d \in Doc : list[d].count <= maxPools =>
          /\ \A s \in live[d] :
               /\ s.id # NULL_SLOT /\ Place(s.id) = s.place
               /\ s.place.pool < list[d].count
               /\ s.place.index < Pools(list[d])[s.place.pool + 1].usage
          /\ \A i, j \in DOMAIN list[d].free : list[d].free[i] = list[d].free[j] => i = j
          /\ FreeIds(list[d]) \cap LiveIds(d) = {}
          /\ FreeIds(list[d]) \cup LiveIds(d) = HandedOut(list[d])
  <2> SUFFICES ASSUME SlotsInv, NEW d \in Doc, list[d].count <= maxPools
               PROVE  /\ \A s \in live[d] :
                           /\ s.id # NULL_SLOT /\ Place(s.id) = s.place
                           /\ s.place.pool < list[d].count
                           /\ s.place.index < Pools(list[d])[s.place.pool + 1].usage
                      /\ \A i, j \in DOMAIN list[d].free : list[d].free[i] = list[d].free[j] => i = j
                      /\ FreeIds(list[d]) \cap LiveIds(d) = {}
                      /\ FreeIds(list[d]) \cup LiveIds(d) = HandedOut(list[d])
    OBVIOUS
  <2>1. Arranged(list[d]) /\ Accounted(list[d], live[d])
    BY DEF SlotsInv
  <2> QED
    BY <2>1, SlotsRight
<1> QED
  BY <1>1, <1>2, <1>3, PTL DEF PoolsSpec

\* The capacities that a list which is never shrunk can have: they double until
\* they are maxPools (4, 8, 16 for ids of 8 bits; 4, 8, ..., 512 for 16 bits).
Doubling(C) ==
    /\ InitialPools \in C
    /\ \A c \in C : c \in Nat /\ c <= maxPools /\ (c # maxPools => 2 * c \in C)

CapacityInv(C) ==
    \A d \in Doc : list[d].count <= maxPools /\ list[d].capacity \in C

LEMMA CapacityStep ==
    ASSUME PoolsAssumption, ~ Shrinking, NEW C, Doubling(C), SlotsInv, CapacityInv(C),
           [PoolsNext]_poolVars
    PROVE  CapacityInv(C)'
<1>0. /\ \A d \in Doc : Arranged(list[d]) /\ Formed(list[d])
      /\ list = [d \in Doc |-> list[d]]
  BY DEF SlotsInv, CapacityInv
<1>1. ASSUME NEW d \in Doc, NEW m, list' = [list EXCEPT ![d] = m],
             m.count <= maxPools, m.capacity \in C
      PROVE  CapacityInv(C)'
  <2>1. list' = [e \in Doc |-> IF e = d THEN m ELSE list[e]]
    BY <1>0, <1>1
  <2>2. ASSUME NEW e \in Doc PROVE list'[e].count <= maxPools /\ list'[e].capacity \in C
    <3>1. CASE e = d
      BY <3>1, <2>1, <1>1
    <3>2. CASE e # d
      <4>1. list'[e] = list[e]
        BY <3>2, <2>1
      <4> QED
        BY <4>1 DEF CapacityInv
    <3> QED
      BY <3>1, <3>2
  <2> QED
    BY <2>2 DEF CapacityInv
<1>2. ASSUME NEW d \in Doc, NEW fails, MayGrow(list[d], fails)
      PROVE  /\ Arranged(addPool(list[d], fails))
             /\ addPool(list[d], fails).count <= maxPools
             /\ addPool(list[d], fails).capacity \in C
  <2>1. PICK l : l = list[d]
    OBVIOUS
  <2>2. /\ Arranged(l) /\ l.count \in Nat /\ l.capacity \in Nat /\ l.count <= l.capacity
        /\ l.capacity \in C /\ l.capacity <= maxPools /\ maxPools \in Nat
        /\ l.capacity # maxPools => 2 * l.capacity \in C
    BY <1>0, <2>1, IdsFit DEF Arranged, CapacityInv, Doubling
  <2>3. l.count + 1 <= maxPools
    BY <1>2, <2>1, <2>2 DEF MayGrow
  <2>4. /\ Arranged(addPool(l, fails)) /\ addPool(l, fails).count = l.count + 1
        /\ addPool(l, fails).capacity \in {l.capacity, 2 * l.capacity}
        /\ addPool(l, fails).capacity # l.capacity => l.capacity # maxPools
    BY <1>2, <2>1, <2>2, <2>3, AddedRight
  <2> QED
    BY <2>1, <2>2, <2>3, <2>4
<1>3. ASSUME NEW l, Arranged(l), Room(l), l.count <= maxPools, l.capacity \in C
      PROVE  Taken(l).list.count <= maxPools /\ Taken(l).list.capacity \in C
  BY <1>3, TakenRight
<1>4. ASSUME NEW l, NEW f, Formed(l)
      PROVE  [l EXCEPT !.free = f].count = l.count /\ [l EXCEPT !.free = f].capacity = l.capacity
  BY <1>4 DEF Formed, Shaped
<1>5. ASSUME NEW d \in Doc, NEW fails \in Fails, allocVariant(d, fails) PROVE CapacityInv(C)'
  <2>1. PICK m, T :
             /\ list' = [list EXCEPT ![d] = m] /\ live' = [live EXCEPT ![d] = T]
             /\ \/ /\ list[d].free # <<>> /\ m = fromFreeList(list[d]).list
                   /\ T = live[d] \cup {[id |-> fromFreeList(list[d]).id,
                                         place |-> fromFreeList(list[d]).place]}
                \/ /\ Room(list[d]) /\ m = Taken(list[d]).list
                   /\ T = live[d] \cup {[id |-> Taken(list[d]).id,
                                         place |-> Taken(list[d]).place]}
                \/ m = list[d] /\ T = live[d]
                \/ /\ MayGrow(list[d], fails) /\ m = addPool(list[d], fails) /\ T = live[d]
                \/ /\ MayGrow(list[d], fails) /\ Room(addPool(list[d], fails))
                   /\ m = Taken(addPool(list[d], fails)).list
                   /\ T = live[d] \cup {[id |-> Taken(addPool(list[d], fails)).id,
                                         place |-> Taken(addPool(list[d], fails)).place]}
    BY <1>5, AllocCases
  <2>2. /\ Arranged(list[d]) /\ Formed(list[d]) /\ list[d].count <= maxPools
        /\ list[d].capacity \in C
    BY <1>0 DEF CapacityInv
  <2>3. m.count <= maxPools /\ m.capacity \in C
    <3>1. CASE m = fromFreeList(list[d]).list
      <4>1. m = [list[d] EXCEPT !.free = Tail(list[d].free)]
        BY <3>1 DEF fromFreeList
      <4> QED
        BY <4>1, <2>2, <1>4
    <3>2. CASE Room(list[d]) /\ m = Taken(list[d]).list
      BY <3>2, <2>2, <1>3
    <3>3. CASE m = list[d]
      BY <3>3, <2>2
    <3>4. CASE MayGrow(list[d], fails) /\ m = addPool(list[d], fails)
      BY <3>4, <1>2
    <3>5. CASE /\ MayGrow(list[d], fails) /\ Room(addPool(list[d], fails))
               /\ m = Taken(addPool(list[d], fails)).list
      BY <3>5, <1>2, <1>3
    <3> QED
      BY <2>1, <3>1, <3>2, <3>3, <3>4, <3>5
  <2> QED
    BY <2>1, <2>3, <1>1
<1>6. ASSUME NEW d \in Doc, clearPools(d) PROVE CapacityInv(C)'
  <2>1. list' = [list EXCEPT ![d] = EmptyList]
    BY <1>6 DEF clearPools
  <2>2. EmptyList.count <= maxPools /\ EmptyList.capacity \in C
    BY EmptyFine, IdsFit DEF Doubling
  <2> QED
    BY <2>1, <2>2, <1>1
<1>7. ASSUME NEW d \in Doc, NEW s \in live[d], freeVariant(d, s) PROVE CapacityInv(C)'
  <2>1. list' = [list EXCEPT ![d] = [list[d] EXCEPT !.free = <<s.id>> \o list[d].free]]
    BY <1>0, <1>7 DEF freeVariant
  <2>2. Formed(list[d]) /\ list[d].count <= maxPools /\ list[d].capacity \in C
    BY <1>0 DEF CapacityInv
  <2> QED
    BY <2>1, <2>2, <1>1, <1>4
<1>8. ASSUME NEW d \in Doc, NEW e \in Doc, d # e, swap(d, e) PROVE CapacityInv(C)'
  <2>1. ASSUME NEW a \in Doc, NEW b \in Doc
        PROVE  /\ withPools(list[a], list[b]).count <= maxPools
               /\ withPools(list[a], list[b]).capacity \in C
    <3>1. Arranged(list[b]) /\ list[b].count <= maxPools /\ list[b].capacity \in C
      BY <1>0 DEF CapacityInv
    <3>2. /\ withPools(list[a], list[b]).count = list[b].count
          /\ withPools(list[a], list[b]).capacity = list[b].capacity
      BY <3>1, TakenOverRight
    <3> QED
      BY <3>1, <3>2
  <2>2. list' = [c \in Doc |-> IF c = e THEN withPools(list[e], list[d])
                               ELSE IF c = d THEN withPools(list[d], list[e]) ELSE list[c]]
    BY <1>0, <1>8 DEF swap
  <2>3. ASSUME NEW c \in Doc PROVE list'[c].count <= maxPools /\ list'[c].capacity \in C
    <3>1. CASE c = e
      BY <3>1, <2>1, <2>2
    <3>2. CASE c # e /\ c = d
      BY <3>2, <2>1, <2>2
    <3>3. CASE c # e /\ c # d
      <4>1. list'[c] = list[c]
        BY <3>3, <2>2
      <4> QED
        BY <4>1 DEF CapacityInv
    <3> QED
      BY <3>1, <3>2, <3>3
  <2> QED
    BY <2>3 DEF CapacityInv
<1>9. CASE UNCHANGED poolVars
  BY <1>9 DEF poolVars, CapacityInv
<1>10. ASSUME NEW d \in Doc, NEW fails \in Fails, shrinkToFit(d, fails) PROVE CapacityInv(C)'
  BY <1>10 DEF shrinkToFit
<1> QED
  BY <1>5, <1>6, <1>7, <1>8, <1>9, <1>10 DEF PoolsNext

\* Where shrinkToFit() is not called, and the capacities double to maxPools as they
\* do in every configuration of ArduinoJson, the ids never run out of their width:
\* the id of a slot in use finds it, and every slot is in use or free, once.
THEOREM SlotsCorrect ==
    ASSUME PoolsAssumption, ~ Shrinking, NEW C, Doubling(C)
    PROVE  PoolsSpec => []SlotsAgree
<1>1. PoolsInit => SlotsInv /\ CapacityInv(C)
  <2> SUFFICES ASSUME PoolsInit PROVE SlotsInv /\ CapacityInv(C)
    OBVIOUS
  <2>1. list = [d \in Doc |-> EmptyList]
    BY DEF PoolsInit
  <2>2. EmptyList.count <= maxPools /\ EmptyList.capacity \in C
    BY EmptyFine, IdsFit DEF Doubling
  <2> QED
    BY <2>1, <2>2, SlotsStart DEF CapacityInv
<1>2. SlotsInv /\ CapacityInv(C) /\ [PoolsNext]_poolVars => SlotsInv' /\ CapacityInv(C)'
  BY SlotsStep, CapacityStep
<1>3. SlotsInv /\ CapacityInv(C) => SlotsAgree
  <2> SUFFICES ASSUME SlotsInv, CapacityInv(C) PROVE SlotsAgree
    OBVIOUS
  <2>1. \A d \in Doc : /\ Arranged(list[d]) /\ list[d].count <= maxPools
                       /\ Accounted(list[d], live[d])
    BY DEF SlotsInv, CapacityInv
  <2>2. IdFindsSlot
    BY <2>1, SlotsRight DEF IdFindsSlot
  <2>3. NoSlotLost
    BY <2>1, SlotsRight DEF NoSlotLost
  <2> QED
    BY <2>2, <2>3 DEF SlotsAgree
<1> QED
  BY <1>1, <1>2, <1>3, PTL DEF PoolsSpec
=============================================================================
