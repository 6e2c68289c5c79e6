--------------------------- MODULE MCPolicyEngine ---------------------------
(***************************************************************************)
(* Every authority class and every level, with events that do and do not   *)
(* set off each guard, and rules with no guard, the guards the             *)
(* recommendation engine proposes, and a guard nobody implements.          *)
(***************************************************************************)
EXTENDS PolicyEngine, TLC

MCMetadata ==
    { << >>, "anomaly" :> TRUE, "external_effect" :> TRUE, "irreversible" :> TRUE,
      "_approved_workflows" :> {"billing"} }

MCEvent ==
    [agent : {"agent"}, workflow : {"sales"}, authority : AuthorityClass,
     requires_execution : BOOLEAN, metadata : MCMetadata, evidence : {0, 1},
     confidence : {40, 80}, risky_text : {FALSE}]

ProposedGuards ==
    {"missing_source_evidence", "low_confidence", "external_effect",
     "irreversible", "anomaly_detected", "policy_boundary_matched"}

MCGuards == {{}, ProposedGuards, {"outside_known_workflow"}, {"weekend"}}

MCRule ==
    [agent : {"agent"}, workflow : {"sales"}, authority : AuthorityClass,
     level : {3, 5, 7}, conditions : {<< >>}, guards : MCGuards,
     sample_rate : {10}, active : {TRUE}]

MCBoundaries == {<< >>, default_boundary_rules}

=============================================================================
