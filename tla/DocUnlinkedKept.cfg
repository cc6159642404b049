CONSTANTS
    a = a
    b = b
    h1 = h1
    h2 = h2
    h3 = h3
    NEntries = 4
    FAT_EOF = 255
    BlockSize = 2
    EntriesPerBlock = 2
    UINT = 16
    Names <- TwoNames
    ValidNames <- TwoNames
    Handles = {h1, h2}
    Renames <- NoRenames
    Lengths = {1}
    Seeks <- NoSeeks
SPECIFICATION Spec
INVARIANT
    UnlinkedIsOpen
CHECK_DEADLOCK FALSE
