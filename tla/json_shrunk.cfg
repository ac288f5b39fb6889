SPECIFICATION Spec
CONSTANTS
    Parts = {"pools"}
    holder1 = holder1
    holder2 = holder2
    block1 = block1
    block2 = block2
    Holder = {holder1, holder2}
    Block = {block1, block2}
    Char = {"a", "b"}
    tinyStringMaxLength = 1
    initialCapacity = 1
    maxLength = 2
    Maker = {"builder"}
    Doc = {"d"}
    IdCount = 8
    PoolCapacity = 2
    InitialPools = 1
    Failing = FALSE
    Shrinking = TRUE
    MaxFree = 1
INVARIANTS
    UpToNullSlot
