---------------------------- MODULE TrustLadder ----------------------------
(***************************************************************************)
(* How the recommendation for one scope moves while its history grows, one *)
(* decision or incident at a time (DelegationMemory, one thread, and       *)
(* AutonomyRecommendationEngine).  The level stored for the agent does not *)
(* change: approving the proposed rule never writes it.  What the rule the *)
(* engine proposes would do is evaluated by the policy engine itself.      *)
(***************************************************************************)
EXTENDS Trust, Policy

CONSTANTS
    Authorities,    \* authority classes of interest
    Current,        \* levels that may be stored for the agent
    MaxClean,       \* bounds: decisions of each kind, incidents
    MaxModified,
    MaxRejections,
    MaxEscalations,
    MaxEvidenceRequests,
    MaxIncidents

ASSUME LadderAssumption ==
    /\ Authorities \subseteq AuthorityClass
    /\ Current \subseteq AutonomyLevel
    /\ {MaxClean, MaxModified, MaxRejections, MaxEscalations, MaxEvidenceRequests,
        MaxIncidents} \subseteq Nat
    /\ None \notin BOOLEAN
    /\ None \notin [agent : {"agent"}, workflow : {"workflow"}, authority : AuthorityClass,
                    level : AutonomyLevel, guards : SUBSET GUARDS,
                    conditions : {[evidence_required |-> Equals(TRUE)]},
                    sample_rate : Nat, active : BOOLEAN]

VARIABLES authority, current, stats

ladderVars == <<authority, current, stats>>

LadderInit ==
    /\ authority \in Authorities
    /\ current \in Current
    /\ stats = NewStats

RecordDecision(outcome) ==
    /\ stats' = Counted(stats, outcome)
    /\ UNCHANGED <<authority, current>>

\* An approval with a rule made of it counts like one without.
Approve ==
    /\ stats.clean < MaxClean
    /\ \E outcome \in {"approved", "converted_to_delegation_rule"} : RecordDecision(outcome)

Modify == stats.modified < MaxModified /\ RecordDecision("modified_and_approved")
Reject == stats.rejections < MaxRejections /\ RecordDecision("rejected")
Escalate == stats.escalations < MaxEscalations /\ RecordDecision("escalated")

RequestEvidence ==
    /\ stats.evidence_requests < MaxEvidenceRequests
    /\ RecordDecision("more_evidence_requested")

Incident ==
    /\ stats.incidents < MaxIncidents
    /\ stats' = WithIncident(stats)
    /\ UNCHANGED <<authority, current>>

LadderNext == Approve \/ Modify \/ Reject \/ Escalate \/ RequestEvidence \/ Incident

LadderSpec == LadderInit /\ [][LadderNext]_ladderVars

-----------------------------------------------------------------------------
Recommended == Recommend(current, stats, authority)

Proposed == ProposesRule(current, Recommended)

\* A bug: one guard is called by a name the guard registry does not have.
ProposedRuleMisspelt(level) ==
    [agent |-> "agent", workflow |-> "workflow", authority |-> authority,
     level |-> level, conditions |-> [evidence_required |-> Equals(TRUE)],
     guards |-> {"missing_evidence", "low_confidence", "external_effect",
                 "irreversible", "anomaly_detected", "policy_boundary_matched"},
     sample_rate |-> 20, active |-> TRUE]

\* _finalize: the rule a human is asked to approve.  It lifts, so its level is
\* above the rungs that need no sampling rate.
ProposedRule(level) ==
    [agent |-> "agent", workflow |-> "workflow", authority |-> authority,
     level |-> level, conditions |-> [evidence_required |-> Equals(TRUE)],
     guards |-> {"missing_source_evidence", "low_confidence", "external_effect",
                 "irreversible", "anomaly_detected", "policy_boundary_matched"},
     sample_rate |-> IF level >= EXECUTE_WITH_SAMPLING THEN 20 ELSE 0,
     active |-> TRUE]

\* What the agent may want to do once the rule is approved: a plain action that
\* declares its evidence, and actions that show one sign of danger each.
PlainAction ==
    [agent |-> "agent", workflow |-> "workflow", authority |-> authority,
     requires_execution |-> TRUE, metadata |-> [evidence_required |-> TRUE],
     evidence |-> 1, confidence |-> 80, risky_text |-> FALSE]

DangerousActions ==
    {[PlainAction EXCEPT !.evidence = 0], [PlainAction EXCEPT !.confidence = 60]}
    \cup {[PlainAction EXCEPT !.metadata = [key \in {"evidence_required", flag} |-> TRUE]]
            : flag \in {"external_effect", "irreversible", "anomaly"}}

StatusUnder(rule, action) ==
    Evaluate(default_boundary_rules, action, current,
             IF Matches(rule, action) THEN rule ELSE None).status

\* Trust is earned by clean approvals alone: after an incident nothing is
\* proposed, however good the history before and after it; a proposal above the
\* last rung that needs approval rests on at least sixteen clean approvals, and
\* on nineteen times as many as there are decisions of any other kind for full
\* delegation (the lower bound of the clean rate, TRUST_MODEL.md).
LiftsRestOnCleanApprovals ==
    Proposed =>
        /\ stats.incidents = 0
        /\ stats.clean >= 16
        /\ Recommended = DELEGATED_AUTHORITY =>
              stats.clean >= 19 * (total_decisions(stats) - stats.clean)

\* The rule the engine proposes does what its reason says, if a human approves
\* it as it is: approve_delegation_rule accepts it, the plain actions of a class
\* of low or medium risk proceed under it, and no action that shows a sign of
\* danger proceeds without a human.
ProposalTakesEffect ==
    Proposed =>
        LET rule == ProposedRule(Recommended) IN
        /\ rule.level <= autonomy_ceiling_for(authority)
        /\ base_risk_for(authority) \in {"low", "medium"} =>
              StatusUnder(rule, PlainAction) \in Proceeding
        /\ \A action \in DangerousActions :
              StatusUnder(rule, action) \notin Proceeding

\* For an agent that has earned no execution yet, one more clean approval never
\* lowers the recommendation.
ApprovalNeverLowers ==
    [][current <= EXECUTE_WITH_APPROVAL /\ stats'.clean > stats.clean =>
          Recommended' >= Recommended]_ladderVars

=============================================================================
