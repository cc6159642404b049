CONSTANTS
    a = a
    b = b
    Processes = {p1, p2}
    NEntries = 5
    FAT_EOF = 255
    BlockSize = 1
    EntriesPerBlock = 2
    UINT = 16
    Names <- TwoNames
    ValidNames <- TwoNames
    Handles = {h1, h2}
    Renames = {}
    Lengths = {1}
    Seeks = {}
    PreemptPoints <- MarkedPoints
SPECIFICATION StepsSpec
SYMMETRY ProcessSymmetry
INVARIANTS
    BlocksOwned
