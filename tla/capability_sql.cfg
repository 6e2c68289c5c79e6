SPECIFICATION Spec
CONSTANTS
    None = None
    agent = agent
    workflow = workflow
    draft = draft
    send = send
    amount = amount
    TokenId = {t1, t2}
    Thread = {th1, th2}
    Grant <- MCGrant
    Request <- MCRequest
    TTL <- MCTTL
    Backend = "sql"
    MaxTime = 2
    MaxCalls = 2
    Skew = 1
    Purging = TRUE
SYMMETRY MCSymmetry
INVARIANTS
    TypeOK
    OnceOnly
    NoLateRun
PROPERTIES
    OnlyScopedUse
    ImplementsOnceOnlyGrant
CHECK_DEADLOCK FALSE
