--------------------------- MODULE MCControlPlane ---------------------------
(***************************************************************************)
(* Instances of ControlPlane for TLC: two threads, one agent, one or two   *)
(* authority classes of one workflow, rules up to conditional autonomy     *)
(* with a condition the event's metadata meets.                            *)
(***************************************************************************)
EXTENDS ControlPlane, TLC

CONSTANTS bot, workflow, owner, reviewer, n1, th1, th2, p1, p2

OnePerReplica == th1 :> p1 @@ th2 :> p2

\* Low and medium base risk.
Internal == {"modify_internal_record"}
InternalAndExternal == {"modify_internal_record", "communicate_externally"}

Event(authority) ==
    [agent |-> bot, workflow |-> workflow, authority |-> authority,
     requires_execution |-> TRUE, metadata |-> [amount |-> 5], evidence |-> 1,
     confidence |-> 80, risky_text |-> FALSE, owner |-> owner, nonce |-> n1]

ExecutingEvent == {Event(a) : a \in Authority}

Rule(authority, level) ==
    [agent |-> bot, workflow |-> workflow, authority |-> authority,
     level |-> level, conditions |-> [amount |-> Bounds(None, 10)], guards |-> {"missing_source_evidence"},
     sample_rate |-> 20, active |-> TRUE]

ConditionalRule == {Rule(a, CONDITIONAL_AUTONOMY) : a \in Authority}

\* The API registers at the bottom of the ladder; a library caller may store
\* levels with the agent.
Registered(level) ==
    [agent |-> bot,
     record |-> [owner |-> owner, level |-> [task \in Task |-> level],
                 workflows |-> {workflow}, active |-> TRUE, incidents |-> 0]]

AtTheBottom == {Registered(OBSERVE_ONLY)}
AlreadyConditional == {Registered(CONDITIONAL_AUTONOMY)}
BottomOrConditional == AtTheBottom \cup AlreadyConditional

MCGrant == {GrantFor(e, rule) : e \in EventBody, rule \in RuleBody \cup {None}}

MCSymmetry ==
    Permutations(EventId) \cup Permutations(TokenId) \cup Permutations(RuleId)

=============================================================================
