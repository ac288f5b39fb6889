SPECIFICATION Spec
CONSTANTS
    Parts = {"pools", "full pools", "two pools", "built", "buffered", "collections", "loops", "proxies", "copies", "scalars", "pairs", "numbers", "floats", "grammar", "members", "quoted", "written keys", "written", "bytes", "nested bytes"}
    holder1 = holder1
    holder2 = holder2
    block1 = block1
    block2 = block2
    Holder = {holder1, holder2}
    Block = {block1, block2}
    Char = {"a", "b"}
    tinyStringMaxLength = 1
    initialCapacity = 1
    maxLength = 2
    Maker = {"builder"}
    Doc = {"d"}
    IdCount = 16
    PoolCapacity = 4
    InitialPools = 1
    Failing = TRUE
    Shrinking = FALSE
    MaxFree = 2
SYMMETRY Symmetry
INVARIANTS
    SlotsAgree StringsAgree DocumentAgrees TextsAgree
PROPERTIES
    OnlyNamedChanges VerdictKept
