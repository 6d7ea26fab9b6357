\* Requests at and around every boundary of the arithmetic.
SPECIFICATION Spec
CONSTANTS
    GB = 4
    Half = 32
    Default = 2
    Bytes <- MCBytes
    Nil = Nil
INVARIANTS
    AskedIsMet
    ResizeIsGrowth
    ServedIsEnough
