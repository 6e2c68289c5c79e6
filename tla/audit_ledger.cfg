SPECIFICATION Spec
CONSTANTS
    None = None
    Fact = {f1, f2, f3, f4}
    Thread = {th1, th2}
    CheckpointEvery = 2
INVARIANTS
    TypeOK
    LedgerVerifies
    CheckpointsHold
    ReturnedSurvives
PROPERTY ImplementsAppendOnlyChain
CHECK_DEADLOCK FALSE
