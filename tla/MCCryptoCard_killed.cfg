\* A signal hits one thread; the calls of the other are looked at.
SPECIFICATION Spec
CONSTANTS
    t1 = t1
    t2 = t2
    t3 = t3
    h1 = h1
    h2 = h2
    h3 = h3
    None = None
    Thread = {t1, t2}
    Handle = {h1, h2}
    HandleOf <- Private
    Letters = 3
    NCpu = 2
    KeyCalls <- NoKeys
    ConfigCalls <- ModesOnlyOn
    OpCalls <- EncryptBesideDecrypt
    HeapBytes = {1}
    MapUsers = {}
    Signalled = {t1}
    CopyFaults = FALSE
INVARIANTS
    EveryCallIsCorrect
