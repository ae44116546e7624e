\* What PROMOTE_VMA copies, in the same systems.
SPECIFICATION TestSpec
CONSTANTS
    t0 = t0
    t1 = t1
    Thread = {t0, t1}
    Systems <- MCSystems
    Suite <- MCSuite
    NONE = NONE
INVARIANT
    PromotesAllocated
CHECK_DEADLOCK FALSE
