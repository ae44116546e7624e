\* A mapped call among others.  The threads end up stuck: the liveness
\* property reports it, not the deadlock check.
SPECIFICATION FairSpec
CONSTANTS
    t1 = t1
    t2 = t2
    t3 = t3
    h1 = h1
    h2 = h2
    h3 = h3
    None = None
    Thread = {t1, t2}
    Handle = {h1, h2}
    HandleOf <- Private
    Letters = 1
    NCpu = 2
    KeyCalls <- NoKeys
    ConfigCalls <- ModesOnlyOn
    OpCalls <- MappedBesidePlain
    HeapBytes = {1}
    MapUsers = {}
    Signalled = {}
    CopyFaults = FALSE
PROPERTIES
    EveryCallReturns
CHECK_DEADLOCK FALSE
