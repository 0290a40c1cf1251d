CONSTANTS
    LbaMax = 3
    ChunkSectors = 2
    Capacity = 1
    Payloads = {d1, d2}
    Zeroes = Zeroes
    Torn = Torn
    NoPayload = NoPayload
    ReadError = ReadError
    NoCall = NoCall
    NotInserting = NotInserting
    MaxSeq = 4
    MaxErrors = 1
SPECIFICATION Spec
INVARIANTS PayloadKept OrderMatchesCache RamBounded SpanExact SpanNotOlder
PROPERTY IsAMap
SYMMETRY PayloadSymmetry
