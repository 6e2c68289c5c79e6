SPECIFICATION Spec
CONSTANTS
    None = None
    agent = agent
    workflow = workflow
    draft = draft
    send = send
    amount = amount
    TokenId = {t1}
    Thread = {th1, th2}
    Grant <- MCSendGrant
    Request <- MCSmallRequest
    TTL <- MCTTL
    Backend = "memory"
    MaxTime = 2
    MaxCalls = 2
    Skew = 0
    Purging = TRUE
INVARIANT OnceOnly
CHECK_DEADLOCK FALSE
