\* Every program of Assignment_2, and any calls of one or two threads.
SPECIFICATION TestSpec
CONSTANTS
    t0 = t0
    t1 = t1
    Thread = {t0, t1}
    Systems <- MCSystems
    Suite <- MCSuite
    NONE = NONE
INVARIANTS
    MoveDelivers
    NothingLost
    Verdicts
PROPERTIES
    HoleIsLowest
    FailureChangesNothing
    PromotionFindsRun
    IoctlReturns
CHECK_DEADLOCK FALSE
