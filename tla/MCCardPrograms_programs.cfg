\* The evaluation programs and benchmarks of the card.
SPECIFICATION FairSpec
CONSTANTS
    MaxRounds <- MCRounds
    MaxForks = 2
    MaxIoctls <- MCIoctls
    Tests <- MCTests
    Processors = 2
INVARIANTS
    TypeOK
    FailuresAreExplained
    MessageComesBack
    MappedNeverEnds
PROPERTIES
    ProgramsEnd
CHECK_DEADLOCK FALSE
