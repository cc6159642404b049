CONSTANT
    MaxLength = 6
SPECIFICATION Spec
INVARIANTS
    RejectsAsReference
    ParsesAsReference
    WithinBuffer
PROPERTY
    ParseEnds
CHECK_DEADLOCK FALSE
