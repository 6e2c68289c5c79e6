SPECIFICATION FairSpec
CONSTANTS
    None = None
    agent = agent
    workflow = workflow
    draft = draft
    send = send
    amount = amount
    TokenId = {t1}
    Thread = {th1, th2}
    Grant <- MCSendGrant
    Request <- MCSmallRequest
    TTL <- MCTTL
    Backend = "memory"
    MaxTime = 1
    MaxCalls = 3
    Skew = 0
    Purging = FALSE
INVARIANT RefusalReasonTrue
PROPERTY CallReturns
CHECK_DEADLOCK FALSE
