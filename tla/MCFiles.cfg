CONSTANTS
    a = a
    b = b
    c = c
    Processes = {p1, p2}
    NEntries = 6
    FAT_EOF = 255
    BlockSize = 2
    EntriesPerBlock = 2
    UINT = 32
    Names <- ThreeNames
    ValidNames <- ThreeNames
    Handles = {h1, h2, h3, h4}
    Renames = {}
    Lengths = {2}
    Seeks = {}
    PennosCommands <- UserPrograms
    PennfatCommands <- StandaloneCommands
    MaxCommands = 3
    Image <- TwoFiles
    Chunk = 2
    Host = host
    NoHandle = nohandle
SPECIFICATION FilesSpec
INVARIANTS
    NoLeak
    CopyComplete
PROPERTIES
    ProgramsEnd
