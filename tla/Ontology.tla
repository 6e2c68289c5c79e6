------------------------------ MODULE Ontology ------------------------------
(***************************************************************************)
(* The authority ontology (core/ontology.py, the enumerations of           *)
(* core/models.py): which authority classes there are, what they can       *)
(* affect, how risky they are and how far autonomy over them may go.       *)
(* Rungs of the autonomy ladder are the integers 0..7 of AutonomyLevel.    *)
(***************************************************************************)
EXTENDS Integers, FiniteSetsExt

AuthorityClass ==
    {"observe", "search", "summarize", "classify", "score", "recommend",
     "draft", "modify_internal_record", "modify_external_record",
     "communicate_internally", "communicate_externally", "schedule",
     "commit_commercial_position", "offer_pricing_or_discount",
     "change_legal_position", "spend_money", "transfer_value", "grant_access",
     "revoke_access", "delete_data", "modify_production_system",
     "bind_organization", "escalate_to_human"}

AutonomyLevel == 0 .. 7
OBSERVE_ONLY == 0
DRAFT == 2
EXECUTE_WITH_APPROVAL == 3
EXECUTE_WITH_SAMPLING == 4
CONDITIONAL_AUTONOMY == 5
EXCEPTION_BASED_SUPERVISION == 6
DELEGATED_AUTHORITY == 7

RiskLevel == {"low", "medium", "high", "critical"}

RISK_ORDER == [low |-> 1, medium |-> 2, high |-> 3, critical |-> 4]

max_risk(r, s) == IF RISK_ORDER[s] > RISK_ORDER[r] THEN s ELSE r

CONSEQUENCE_RANK ==
    [informational |-> 0, internal_only |-> 1, internal_record_change |-> 2,
     external_facing |-> 3, reputational |-> 3, customer_impacting |-> 4,
     security_sensitive |-> 5, financial |-> 5, regulated |-> 5,
     production_impacting |-> 6, legal |-> 6, irreversible |-> 7]

\* AUTHORITY_TO_CONSEQUENCE, grouped by value.
consequences_for(a) ==
    CASE a \in {"observe", "search", "summarize", "escalate_to_human"} ->
             {"informational"}
      [] a \in {"classify", "score", "recommend", "draft",
                "communicate_internally"} -> {"internal_only"}
      [] a \in {"modify_internal_record", "schedule"} -> {"internal_record_change"}
      [] a = "modify_external_record" -> {"external_facing"}
      [] a = "communicate_externally" -> {"external_facing", "reputational"}
      [] a \in {"commit_commercial_position", "offer_pricing_or_discount"} ->
             {"customer_impacting", "financial"}
      [] a = "change_legal_position" -> {"legal", "regulated"}
      [] a = "spend_money" -> {"financial"}
      [] a = "transfer_value" -> {"financial", "irreversible"}
      [] a = "grant_access" -> {"security_sensitive"}
      [] a = "revoke_access" -> {"security_sensitive", "customer_impacting"}
      [] a = "delete_data" -> {"irreversible", "production_impacting"}
      [] a = "modify_production_system" -> {"production_impacting"}
      [] a = "bind_organization" -> {"legal", "financial"}

consequence_rank(a) == Max({CONSEQUENCE_RANK[c] : c \in consequences_for(a)})

\* BASE_RISK_BY_AUTHORITY, grouped by value; every class it omits here is low.
CriticalRisk == {"change_legal_position", "transfer_value", "delete_data",
                 "modify_production_system", "bind_organization"}

HighRisk == {"commit_commercial_position", "offer_pricing_or_discount",
             "spend_money", "grant_access", "revoke_access"}

MediumRisk == {"modify_external_record", "communicate_externally"}

base_risk_for(a) ==
    IF a \in CriticalRisk THEN "critical"
    ELSE IF a \in HighRisk THEN "high"
    ELSE IF a \in MediumRisk THEN "medium"
    ELSE "low"

\* A bug: the ceiling of critical classes one rung too high.
CriticalWithSampling ==
    [low |-> DELEGATED_AUTHORITY, medium |-> CONDITIONAL_AUTONOMY,
     high |-> EXECUTE_WITH_SAMPLING, critical |-> EXECUTE_WITH_SAMPLING]

MAX_AUTONOMY_BY_RISK ==
    [low |-> DELEGATED_AUTHORITY, medium |-> CONDITIONAL_AUTONOMY,
     high |-> EXECUTE_WITH_SAMPLING, critical |-> EXECUTE_WITH_APPROVAL]

HARD_BLOCKED_AUTHORITIES == {"change_legal_position", "bind_organization"}

autonomy_ceiling_for(a) ==
    IF a \in HARD_BLOCKED_AUTHORITIES THEN OBSERVE_ONLY
    ELSE MAX_AUTONOMY_BY_RISK[base_risk_for(a)]

SEPARATION_OF_DUTIES_AUTHORITIES ==
    {"offer_pricing_or_discount", "spend_money", "transfer_value",
     "grant_access", "revoke_access", "delete_data", "modify_production_system"}

requires_separation_of_duties(a) == a \in SEPARATION_OF_DUTIES_AUTHORITIES

NON_STATE_AUTHORITIES ==
    {"observe", "search", "summarize", "classify", "score", "recommend",
     "draft", "escalate_to_human"}

is_non_state(a) == a \in NON_STATE_AUTHORITIES

=============================================================================
