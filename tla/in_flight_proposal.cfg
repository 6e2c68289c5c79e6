SPECIFICATION Spec
CONSTANTS
    None = None
    bot = bot
    workflow = workflow
    owner = owner
    reviewer = reviewer
    n1 = n1
    th1 = th1
    th2 = th2
    p1 = p1
    p2 = p2
    Wiring = {"sql"}
    Thread = {th1, th2}
    Replica = {p1, p2}
    ReplicaOf <- OnePerReplica
    Agent = {bot}
    Human = {owner, reviewer}
    Workflow = {workflow}
    Authority <- Internal
    EventId = {e1, e2}
    TokenId = {t1, t2}
    RuleId = {r1}
    Grant <- MCGrant
    EventBody <- ExecutingEvent
    RuleBody <- ConditionalRule
    Registration <- AtTheBottom
    Outcome = {}
    Strict = TRUE
    MaxRequests = 4
    Backend = "sql"
SYMMETRY MCSymmetry
PROPERTY NoExecutionAfterIncident
CHECK_DEADLOCK FALSE
