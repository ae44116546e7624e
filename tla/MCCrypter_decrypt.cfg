\* One thread decrypts messages longer than a chunk.
SPECIFICATION LibSpec
CONSTANTS
    t1 = t1
    t2 = t2
    Thread = {t1}
    Letters = 7
    EncChunk = 2
    DecChunk = 3
    MaxLength = 5
    Requests <- DecryptAny
    MaxCalls = 2
    KeySums = {1}
    MayClose = FALSE
    CopyFaults = FALSE
    Mapper = {t1, t2}
    Page = 4
    Header = 1
    Limit = 9
    Sizes = {3, 4, 8, 9}
    Top = 7
    MaxMaps = 0
INVARIANTS
    DoesAsNamed
CHECK_DEADLOCK FALSE
