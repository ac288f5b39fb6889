------------------------------- MODULE JsonMC --------------------------------
(* The document of ArduinoJson, and the texts that it is read from and     *)
(* written to: the parts side by side, as in WiFiMC.  Of each the smallest *)
(* sizes that have every case; where two cases need sizes of their own     *)
(* they are two parts.                                                     *)
EXTENDS JsonMemory, TLC

CONSTANTS
    Parts,     \* the parts that this run lets run
    holder1, holder2,   \* of strings
    block1, block2      \* what the allocator gives for them

VARIABLES
    part,     \* the part that runs; the others rest where they start
    otherList, otherOverflowed, otherLive, otherFull,
    bufStrings, bufNode, bufVariant, bufScratch, bufSaid,
    slots, free, lost, it,
    docSlots, docFree, docLost, docIt, docOverflowed, last, stack, built, job,
    value, given, lhs, rhs,
    number,
    float, integer,
    input     \* of the JSON parts characters, of the MessagePack parts bytes

\* Which block the allocator gives, and which variant holds, is all the same.
Symmetry == Permutations(Block) \cup Permutations(Holder)

\* The slots of part "pools" and the strings of part "built" are those of
\* JsonMemory itself.

\* Few ids, until none is left.
FullPools == INSTANCE JsonMemory WITH
    list <- otherList, overflowed <- otherOverflowed, live <- otherLive,
    full <- otherFull, Doc <- {"d"},
    IdCount <- 8, PoolCapacity <- 2, InitialPools <- 1, Failing <- FALSE,
    Shrinking <- FALSE, MaxFree <- 3

\* Two documents that are swapped, and shrunk.
TwoPools == INSTANCE JsonMemory WITH
    list <- otherList, overflowed <- otherOverflowed, live <- otherLive,
    full <- otherFull, Doc <- {"d", "e"},
    IdCount <- 4, PoolCapacity <- 2, InitialPools <- 1, Failing <- TRUE,
    Shrinking <- TRUE, MaxFree <- 1

\* Longer strings, for the MessagePack reader.
Buffered == INSTANCE JsonMemory WITH
    strings <- bufStrings, node <- bufNode, variant <- bufVariant,
    scratch <- bufScratch, said <- bufSaid,
    Char <- {"a"}, maxLength <- 3, Maker <- {"buffer"}

Values == INSTANCE JsonCollections WITH
    var <- slots, N <- 3, Key <- {"k1", "k2"}, Owned <- {"k2"},
    Scalar <- {"big", "k1"}, Index <- {0, 1}

\* More members, and no values but collections.
Loops == INSTANCE JsonCollections WITH
    var <- docSlots, free <- docFree, lost <- docLost, it <- docIt,
    N <- 4, Key <- {"k1", "k2"}, Owned <- {}, Scalar <- {},
    Index <- {}

Proxies == INSTANCE JsonDocument WITH
    var <- docSlots, free <- docFree, lost <- docLost, it <- docIt,
    N <- 4, Key <- {"k1", "k2"}, Owned <- {"k2"},
    Scalar <- {"k2"}, Index <- {1}, Assigned <- {"k2"},
    overflowed <- docOverflowed, MaxPath <- 2, MaxBuilt <- 0

Copies == INSTANCE JsonDocument WITH
    var <- docSlots, free <- docFree, lost <- docLost, it <- docIt,
    N <- 5, Key <- {"k2"}, Owned <- {"k2"},
    Scalar <- {"int", "k2"}, Index <- {1}, Assigned <- {"int", "k2"},
    overflowed <- docOverflowed, MaxPath <- 2, MaxBuilt <- 2

Scalars == INSTANCE JsonVariant WITH
    var <- value, Narrow <- 2, Word <- 3, Long <- 5, FloatBits <- 2,
    DoubleBits <- 3, MaxExponent <- 7, Char <- {1, 2},
    Item <- {[type |-> "null", val |-> 0], [type |-> "bool", val |-> 1]},
    Key <- {"a", "b"}

Numbers == INSTANCE JsonNumber WITH
    text <- number, MaxUint <- 63, MantissaMax <- 15, ExponentMax <- 4,
    FloatMantissaMax <- 7, FloatExponentMax <- 2,
    Alphabet <- {"0", "3", "6", ".", "-", "e"}, MaxLength <- 6

Floats == INSTANCE JsonFloat WITH
    value <- float, DoublePlaces <- 3, FloatPlaces <- 2, Positive <- 3,
    Negative <- -2, MaxIndex <- 2, Digit <- {0, 1, 4, 5, 9}, MaxDigits <- 4,
    Lowest <- -7, Highest <- 3, IntegerBits <- 8

InObject == <<"{", "a", ":", "0", ",">>
InKey == <<"{", "\"">>
InArray == <<"[", "\"", "a">>

\* Filters that keep all, nothing, elements, and members by name and by "*".
Keeps == [type |-> "boolean", is |-> "true", in |-> <<>>]
Drops == [type |-> "boolean", is |-> "false", in |-> <<>>]
OfArray(l) == [type |-> "array", is |-> "", in |-> [i \in DOMAIN l |-> [key |-> <<>>, value |-> l[i]]]]
OfObject(l) == [type |-> "object", is |-> "", in |-> l]
FilterSet ==
    {[type |-> "null", is |-> "null", in |-> <<>>], Keeps, OfArray(<<>>),
     OfArray(<<Keeps>>), OfObject(<<>>),
     OfObject(<<[key |-> <<"a">>, value |-> Keeps]>>),
     OfObject(<<[key |-> <<"*">>, value |-> OfArray(<<Keeps>>)]>>),
     OfObject(<<[key |-> <<"a">>, value |-> Drops], [key |-> <<"*">>, value |-> Keeps]>>)}

\* The messages that a part makes: what they begin with, what they are made of
\* and how long they get.
StartOf ==
    ("members" :> InObject) @@ ("written keys" :> InKey) @@ ("written" :> InArray)
      @@ [p \in Parts |-> <<>>]

AlphabetOf ==
    ("grammar" :> {"[", "]", "{", "}", ",", ":", "'", "0"}) @@
    ("members" :> {"}", ":", ",", "a", "b", "0", "[", "]"}) @@
    ("quoted"  :> {"'", "\\", "n", "u", "l", " ", "[", "]"}) @@
    ("written keys" :> {"{", "}", ",", ":", "\"", "\\", "n", "0"}) @@
    ("written" :> {"[", "]", "\"", "\\", "/", "n", ",", " "}) @@
    \* every shape of header with something that may follow it
    ("bytes" :> {1, 129, 145, 161, 192, 193, 195, 196, 202, 203, 204, 205, 208,
                 209, 212, 217, 220, 255}) @@
    \* longer messages of arrays, maps, strings and numbers
    ("nested bytes" :> {1, 129, 146, 161, 203, 217, 222, 255})

LengthOf ==
    ("grammar" :> 5) @@ ("members" :> 9) @@ ("quoted" :> 5) @@
    ("written keys" :> 7) @@ ("written" :> 8) @@
    ("bytes" :> 3) @@ ("nested bytes" :> 5)

ReadParts    == {"grammar", "members", "quoted"}
WrittenParts == {"written keys", "written"}
PackedParts  == {"bytes", "nested bytes"}

\* nesting_ comes round at the second level.
Texts == INSTANCE JsonText WITH
    Alphabet <- UNION {AlphabetOf[p] : p \in ReadParts \cup WrittenParts}, MaxLength <- 9,
    Start <- <<>>, NumberSize <- 2, NestingLimit <- 2, NestingWidth <- 2,
    Filters <- FilterSet

Bytes == INSTANCE MsgPack WITH
    Byte <- UNION {AlphabetOf[p] : p \in PackedParts}, MaxLength <- 5, NestingLimit <- 2,
    IntBytes <- 1, FloatBytes <- 1, DoubleBytes <- 2, MaxString <- 4

otherVars == <<otherList, otherOverflowed, otherLive, otherFull>>
bufVars == <<bufStrings, bufNode, bufVariant, bufScratch, bufSaid>>
slotVars == <<slots, free, lost, it>>
docVars == <<docSlots, docFree, docLost, docIt>>
copyVars == <<docOverflowed, last, stack, built, job>>
valueVars == <<value, given>>
pairVars == <<lhs, rhs>>
floatVars == <<float, integer>>
vars ==
    <<part, poolVars, otherVars, stringVars, bufVars, slotVars, docVars, copyVars, valueVars, pairVars,
      number, floatVars, input>>

Init ==
    /\ part \in Parts
    /\ PoolsInit
    /\ IF part = "two pools" THEN TwoPools!PoolsInit ELSE FullPools!PoolsInit
    /\ StringsInit
    /\ Buffered!StringsInit
    /\ Values!Init
    /\ IF part = "copies" THEN Copies!Init ELSE Proxies!Init
    /\ docOverflowed = FALSE /\ last = Proxies!Nothing
    /\ stack = <<>> /\ built = 0 /\ job = Proxies!NoJob
    /\ Scalars!Init
    /\ Numbers!Init
    /\ IF part = "floats" THEN Floats!Init ELSE float = [m |-> 0, x |-> 0, double |-> TRUE] /\ integer = 0
    /\ input = StartOf[part]

\* The message of the part grows within the part's bounds.
Grows ==
    /\ part \in ReadParts \cup WrittenParts \cup PackedParts
    /\ IF part \in PackedParts THEN Bytes!Next ELSE Texts!Next
    /\ Len(input') <= LengthOf[part]
    /\ input'[Len(input')] \in AlphabetOf[part]

\* What is bounded by its constants alone may stop there.
Next ==
    /\ part' = part
    /\ IF part = "pools" THEN PoolsNext ELSE UNCHANGED poolVars
    /\ CASE part = "full pools" -> FullPools!PoolsNext
         [] part = "two pools"  -> TwoPools!PoolsNext
         [] OTHER               -> UNCHANGED otherVars
    /\ IF part = "built" THEN StringsNext ELSE UNCHANGED stringVars
    /\ IF part = "buffered" THEN Buffered!StringsNext ELSE UNCHANGED bufVars
    /\ IF part = "collections" THEN Values!Next ELSE UNCHANGED slotVars
    /\ CASE part = "loops"   -> Loops!Next /\ UNCHANGED copyVars
         [] part = "proxies" -> Proxies!ProxyNext /\ UNCHANGED <<stack, built, job>>
         [] part = "copies"  -> Copies!CopyNext \/ UNCHANGED <<docVars, copyVars>>
         [] OTHER            -> UNCHANGED <<docVars, copyVars>>
    /\ CASE part = "scalars" -> Scalars!Next
         [] part = "pairs"   -> Scalars!assign \/ UNCHANGED <<valueVars, pairVars>>
         [] OTHER            -> UNCHANGED <<valueVars, pairVars>>
    /\ IF part = "numbers" THEN Numbers!Next \/ UNCHANGED number ELSE UNCHANGED number
    /\ IF part = "floats" THEN Floats!Next \/ UNCHANGED floatVars ELSE UNCHANGED floatVars
    /\ Grows \/ UNCHANGED input

ASSUME JsonAssumption ==
    /\ PoolsAssumption /\ FullPools!PoolsAssumption /\ TwoPools!PoolsAssumption
    /\ StringsAssumption /\ Buffered!StringsAssumption
    /\ Scalars!WidthsAssumption
    /\ Floats!FormatAssumption
    /\ Bytes!MsgPackAssumption

Spec == Init /\ [][Next]_vars
-----------------------------------------------------------------------------
\* The memory: with few ids a slot is refused only when all are in use, shrinking
\* and swapping lose none, the reader's long strings are as those of JsonMemory.
\* The document: every slot is in it once, free, or lost to a member, lists are
\* well linked, and a loop that removes what it stands on visits every item once;
\* set() and copies have done what they say, the source of a copy stays what it was
\* and a copy that gives up loses no slot.  Values: a number is read back as stored,
\* as 0 if it is out of range, and as FALSE only if it is 0; comparisons go by value
\* and are the same from both sides.
DocumentAgrees ==
    /\ part = "two pools" => TwoPools!SlotsAgree
    /\ part = "full pools" => FullPools!RefusedOnlyWhenFull
    /\ part = "buffered" => Buffered!StringsAgree
    /\ part = "collections" => Values!SlotsAccounted /\ Values!WellLinked
    /\ part = "loops" => Loops!LoopVisitsAll
    /\ part = "proxies" => Proxies!TrueMeansThere
    /\ part = "copies" => /\ Copies!TrueMeansCopied
                          /\ Copies!SourceKept
                          /\ Copies!CopyAccounted
    /\ part = "scalars" => /\ Scalars!ReadsBack
                           /\ Scalars!NeverWraps
                           /\ Scalars!FoundWhereItFits
                           /\ Scalars!FalseMeansZero
    /\ part = "pairs" => /\ Scalars!Mirrored
                         /\ Scalars!NumbersByValue
                         /\ Scalars!EqualMeansSame
                         /\ Scalars!WithValue

\* A step changes the value that it names and no other: the slots implement the
\* document of JsonValue, an assignment through a path changes what the path
\* names, a copy of a scalar has the same representation.
OnlyNamedChanges ==
    /\ Values!ImplementsDocument
    /\ Proxies!OthersKept
    /\ Scalars!CopyIsTheSame

\* A text is accepted exactly when it has the form of a value, and read as that
\* value, numbers to the digits they can hold; filters project and end where
\* reading ends; what is called incomplete can go on and nothing is read after the
\* end; what is written, pretty or not, is read back, and a cut is noticed.
TextsAgree ==
    /\ part = "numbers" => /\ Numbers!IntegersExact /\ Numbers!FloatsClose
                           /\ Numbers!LimitsOnlyBeyond /\ Numbers!AcceptsNumbers
    /\ part = "floats" => /\ Floats!NearestText
                          /\ Floats!ShortestText
                          /\ Floats!IntegersReadBack
    /\ part \in ReadParts => Texts!ReadsTheValue /\ Texts!FiltersProject
    /\ part \in {"grammar", "members"} => Texts!IncompleteCanGoOn
    /\ part \in WrittenParts => Texts!TextReadsBack /\ Texts!PrettyIsTheSame
    /\ part \in PackedParts => Bytes!FilterOnlyKeeps /\ Bytes!WritesWhatItRead

\* The verdict on what has been read does not change with what comes.
VerdictKept ==
    [][/\ part \in {"grammar", "members"} => Texts!SettledStays
       /\ part \in PackedParts => Bytes!EndedStays]_input
==============================================================================
