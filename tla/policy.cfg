SPECIFICATION Spec
CONSTANTS
    None = None
    Boundaries <- MCBoundaries
    Event <- MCEvent
    Rule <- MCRule
INVARIANTS
    CriticalNeedsHuman
    DefaultsCoverHighRisk
    ExecutionIsEarned
    ClimbingNeverTightens
CHECK_DEADLOCK FALSE
