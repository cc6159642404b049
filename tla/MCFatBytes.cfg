CONSTANTS
    a = a
    b = b
    h1 = h1
    h2 = h2
    NEntries = 4
    FAT_EOF = 255
    BlockSize = 2
    EntriesPerBlock = 1
    UINT = 16
    Names <- TwoNames
    ValidNames <- TwoNames
    Handles = {h1, h2}
    Renames <- OntoB
    Lengths = {3}
    Strings <- ABlockAndAHalf
    Seeks <- ToSecond
SPECIFICATION BytesSpec
SYMMETRY HandleSymmetry
VIEW WithoutAnswer
CONSTRAINTS OthersWritable SizesTo4 OffsetsTo3
INVARIANTS
    TypeOK
    ChainsIntact
    
    NamesUnique
PROPERTIES
    ImplementsByteFiles
