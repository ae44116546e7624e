\* Each driver with its test programs, and with any calls.
SPECIFICATION TestSpec
CONSTANTS
    m = m
    u = u
    n = n
    BAD = BAD
    NONE = NONE
    Task = {m, u, n}
    Systems <- MCSystems
    Suite <- MCSuite
INVARIANTS
    Verdicts
PROPERTIES
    AnswersOwnChoice
    AnswersGlobal
    CountIsPlausible
    StackAnswerIsMember
    ReadReturns
CHECK_DEADLOCK FALSE
