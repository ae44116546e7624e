\* Chunked calls beside set_key, close_handle and a mapped call; mappings of one
\* size and of several.
SPECIFICATION LibSpec
CONSTANTS
    t1 = t1
    t2 = t2
    Thread = {t1, t2}
    Letters = 7
    EncChunk = 2
    DecChunk = 3
    MaxLength = 5
    Requests <- EncryptAnyDecryptShort
    MaxCalls = 2
    KeySums = {1, 3}
    MayClose = TRUE
    CopyFaults = TRUE
    Mapper = {t1, t2}
    Page = 4
    Header = 1
    Limit = 9
    Sizes = {3, 4, 8, 9}
    Top = 7
    MaxMaps = 2
INVARIANTS
    ChunksInStep
    SuccessIsComplete
    UnmapStays
    HeldIsMapped
    LeakIsExact
CHECK_DEADLOCK FALSE
