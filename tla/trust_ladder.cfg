SPECIFICATION LadderSpec
CONSTANTS
    None = None
    Authorities = {"schedule", "communicate_externally", "grant_access", "delete_data"}
    Current = {0, 3, 5}
    MaxClean = 130
    MaxModified = 4
    MaxRejections = 4
    MaxEscalations = 1
    MaxEvidenceRequests = 1
    MaxIncidents = 1
INVARIANTS
    LiftsRestOnCleanApprovals
    ProposalTakesEffect
PROPERTY ApprovalNeverLowers
CHECK_DEADLOCK FALSE
