SPECIFICATION Spec
CONSTANTS
    Drivers = {"part1", "part2", "part3", "btplus", "ptextract", "simplecdev", "cryptocard"}
    Client = {a, b}
    Failing <- MCAny
    MaxLoads = 2
    MaxLost = 2
INVARIANTS TypeOK RefsCoverOpens ReferenceKeepsModule AbsentLeaves CounterIsExact
CHECK_DEADLOCK FALSE
