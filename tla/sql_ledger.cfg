SPECIFICATION FairSpec
CONSTANTS
    None = None
    Fact = {f1, f2, f3}
    Thread = {th1, th2, th3}
    Dialects = {"sqlite", "postgresql", "other"}
    LockingDialects = {"sqlite", "postgresql"}
INVARIANTS
    TypeOK
    LedgerVerifies
    NeverCollides
PROPERTIES
    ImplementsAppendOnlyChain
    AppendReturns
CHECK_DEADLOCK FALSE
