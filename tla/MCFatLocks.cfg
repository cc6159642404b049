CONSTANTS
    a = a
    b = b
    h1 = h1
    h2 = h2
    h3 = h3
    NEntries = 3
    FAT_EOF = 255
    BlockSize = 1
    EntriesPerBlock = 2
    UINT = 16
    Names <- TwoNames
    ValidNames <- TwoNames
    Handles = {h1, h2, h3}
    Renames <- Swaps
    Lengths = {1}
    Seeks <- Rewind
SPECIFICATION Spec
SYMMETRY HandleSymmetry
CONSTRAINTS AllWritable SizesTo1
INVARIANTS
    LocksExclusive
    HandlesAlive
PROPERTIES
    ReadersKeepEntry
    ReadersKeepBlocks
    ImplementsFileLocks
