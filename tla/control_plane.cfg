SPECIFICATION Spec
CONSTANTS
    None = None
    bot = bot
    workflow = workflow
    owner = owner
    reviewer = reviewer
    n1 = n1
    th1 = th1
    th2 = th2
    p1 = p1
    p2 = p2
    Wiring = {"sql", "memory"}
    Thread = {th1, th2}
    Replica = {p1, p2}
    ReplicaOf <- OnePerReplica
    Agent = {bot}
    Human = {owner, reviewer}
    Workflow = {workflow}
    Authority <- Internal
    EventId = {e1, e2}
    TokenId = {t1, t2}
    RuleId = {r1, r2}
    Grant <- MCGrant
    EventBody <- ExecutingEvent
    RuleBody <- ConditionalRule
    Registration <- BottomOrConditional
    Outcome = {"approved"}
    Strict = FALSE
    MaxRequests = 4
    Backend = "sql"
SYMMETRY MCSymmetry
INVARIANTS
    TypeOK
    OneTokenPerNonce
    FencedProposalNeverMints
    NoUnauditedExecution
    IncidentEndsRules
    WhatWasProposedMayRun
CHECK_DEADLOCK FALSE
