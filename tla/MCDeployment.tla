---------------------------- MODULE MCDeployment ----------------------------
(***************************************************************************)
(* Instances of Deployment for TLC: one agent, an event and a rule of a    *)
(* class that can be delegated and of one that needs separation of duties. *)
(***************************************************************************)
EXTENDS Deployment, TLC

CONSTANTS bot, workflow, alice, bob, gateway, n1, n2

\* The ledger's file is only looked at where there is no database, the
\* development secret only where there is no identity provider.
EverySetting == {s \in Settings : /\ s.database => ~s.ledger_path
                                  /\ s.oidc => s.dev_secret}

Event(authority, nonce) ==
    [agent |-> bot, workflow |-> workflow, authority |-> authority,
     requires_execution |-> TRUE, metadata |-> << >>, evidence |-> 1,
     confidence |-> 80, risky_text |-> FALSE, owner |-> alice, nonce |-> nonce]

MCEvents == {Event("modify_internal_record", n1), Event("grant_access", n2)}

Rule(authority, level) ==
    [agent |-> bot, workflow |-> workflow, authority |-> authority,
     level |-> level, conditions |-> << >>, guards |-> {"missing_source_evidence"},
     sample_rate |-> 0, active |-> TRUE]

MCRules == {Rule("modify_internal_record", CONDITIONAL_AUTONOMY),
            Rule("grant_access", EXECUTE_WITH_APPROVAL)}

\* An owner who may approve, a colleague who may do everything, the gateway of
\* the agents: each with a token of the identity provider and a homemade one.
MCCredentials ==
    {[method |-> m, subject |-> who[1], roles |-> who[2]] :
        m \in {"oidc", "dev-hmac"},
        who \in {<<alice, {"autonomy_admin", "approver"}>>, <<bob, {"admin"}>>,
                 <<gateway, {"agent_gateway"}>>}}

MCSymmetry == Permutations(Process) \cup Permutations(TokenId)

=============================================================================
