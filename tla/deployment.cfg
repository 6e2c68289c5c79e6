SPECIFICATION Spec
CONSTANTS
    None = None
    bot = bot
    workflow = workflow
    alice = alice
    bob = bob
    gateway = gateway
    n1 = n1
    n2 = n2
    Process = {p1, p2}
    Agent = {bot}
    Human = {alice, bob}
    EventBody <- MCEvents
    RuleBody <- MCRules
    TokenId = {t1, t2}
    Credential <- MCCredentials
    Deployed <- EverySetting
    MaxStarts = 3
    MaxRequests = 5
SYMMETRY MCSymmetry
INVARIANTS
    TypeOK
    SingleUse
    WithdrawalLasts
    EventRunsOnce
    ExecutionTracesToAdmin
    SeparationOfDuties
    EveryReplicaVerifies
CHECK_DEADLOCK FALSE
