\* One file for both threads, whose key one of them changes; mapped calls, stores
\* through the mapping, copy faults and signals.  Once the lock is lost all
\* threads may end up spinning, so deadlock is not an error.
SPECIFICATION Spec
CONSTANTS
    t1 = t1
    t2 = t2
    t3 = t3
    h1 = h1
    h2 = h2
    h3 = h3
    None = None
    Thread = {t1, t2}
    Handle = {h1}
    HandleOf <- Shared
    Letters = 3
    NCpu = 2
    KeyCalls <- OneSetsKey
    ConfigCalls <- ModesOnlyOn
    OpCalls <- MappedOnlyBesidePlain
    HeapBytes = {1}
    MapUsers = {t1}
    Signalled = {t1, t2}
    CopyFaults = TRUE
INVARIANTS
    MutualExclusion
    CleanCallIsCorrect
    IndInv
CHECK_DEADLOCK FALSE
