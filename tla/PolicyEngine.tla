---------------------------- MODULE PolicyEngine ----------------------------
(***************************************************************************)
(* The decision of the policy engine on any one request: an event, the     *)
(* level stored for its agent and the delegation rule found for it.        *)
(***************************************************************************)
EXTENDS Policy

CONSTANTS
    Boundaries,     \* lists of boundary rules an engine is built with
    Event,          \* events that may be proposed
    Rule            \* delegation rules that may be found

\* A hard boundary blocks, escalates or asks for approval (PolicyEngine's
\* docstring, step 1); the type of its status would admit one that allows.
ASSUME PolicyAssumption ==
    /\ \A bs \in Boundaries : \A i \in DOMAIN bs :
          /\ DOMAIN bs \subseteq Nat
          /\ bs[i].status \in AutonomyStatus \ Proceeding
    /\ \A e \in Event : /\ e.authority \in AuthorityClass
                        /\ e.requires_execution \in BOOLEAN
    /\ \A r \in Rule : r.level \in AutonomyLevel

VARIABLES boundaries, event, level, rule, decision

vars == <<boundaries, event, level, rule, decision>>

Matching(e, r) ==
    r.agent = e.agent /\ r.workflow = e.workflow /\ r.authority = e.authority

Init ==
    /\ boundaries \in Boundaries
    /\ event \in Event
    /\ level \in AutonomyLevel
    /\ rule \in {None} \cup {r \in Rule : Matching(event, r)}
    /\ decision = None

Decide ==
    /\ decision = None
    /\ decision' = Evaluate(boundaries, event, level, rule)
    /\ UNCHANGED <<boundaries, event, level, rule>>

Next == Decide

Spec == Init /\ [][Next]_vars

-----------------------------------------------------------------------------
Proceeds == decision # None /\ decision.status \in Proceeding

\* No amount of earned or delegated autonomy lets an event of a critical class
\* execute without a human, even in an engine built without boundary rules
\* (ontology.py: critical classes top out at EXECUTE_WITH_APPROVAL).
CriticalNeedsHuman ==
    Proceeds /\ event.requires_execution =>
        base_risk_for(event.authority) # "critical"

\* The default boundary rules leave no high or critical class to the ladder:
\* not even an event that declares it needs no execution gets a token.
DefaultsCoverHighRisk ==
    Proceeds /\ boundaries = default_boundary_rules =>
        base_risk_for(event.authority) \in {"low", "medium"}

\* Execution proceeds only if the level stored for the agent allows it, or a
\* rule allows it all of whose guards are known and clear: a guard the engine
\* cannot evaluate never helps (conditions.py, fail-closed).
ExecutionIsEarned ==
    Proceeds /\ event.requires_execution =>
        \/ level >= EXECUTE_WITH_SAMPLING
        \/ /\ rule # None
           /\ rule.level >= EXECUTE_WITH_SAMPLING
           /\ \A g \in rule.guards : g \in GUARDS /\ ~Fires(g, event)

Permissiveness ==
    [blocked |-> 0, escalate |-> 1, approval_required |-> 2, sample_review |-> 3,
     allowed |-> 4]

\* Climbing the ladder never costs an agent: without an anomaly, an execution
\* is decided at least as permissively as it would be at any lower level, with
\* the same rule (guards that fire at a low level included).
ClimbingNeverTightens ==
    decision # None /\ event.requires_execution /\ ~Flag(event, "anomaly") =>
        \A lower \in 0 .. level :
            Permissiveness[Evaluate(boundaries, event, lower, rule).status]
                <= Permissiveness[decision.status]

=============================================================================
