SPECIFICATION Spec
CONSTANTS
    None = None
    Thread = {th1, th2, th3}
    EventId = {e1, e2}
    Outcome = {"approved", "rejected"}
    Object = {o1, o2, o3}
    MaxCalls = 4
SYMMETRY MCSymmetry
INVARIANTS
    TypeOK
    NeverInflated
    NothingForgotten
CHECK_DEADLOCK FALSE
