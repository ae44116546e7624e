\* Two threads on files of their own, every mode of MMIO and DMA; a processor
\* for each of them.
SPECIFICATION FairSpec
CONSTANTS
    t1 = t1
    t2 = t2
    t3 = t3
    h1 = h1
    h2 = h2
    h3 = h3
    None = None
    Thread = {t1, t2}
    Handle = {h1, h2}
    HandleOf <- Private
    Letters = 3
    NCpu = 2
    KeyCalls <- OneSetsKey
    ConfigCalls <- MmioBesideDma
    OpCalls <- EncryptBesideDecrypt
    HeapBytes = {1}
    MapUsers = {}
    Signalled = {}
    CopyFaults = FALSE
INVARIANTS
    EveryCallIsCorrect
    FreeMeansAtRest
    DmaTargetAllocated
    ResultIsReady
PROPERTIES
    TransferUndisturbed
    ImplementsServiceSafely
    ImplementsService
    EveryCallReturns
