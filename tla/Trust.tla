------------------------------- MODULE Trust -------------------------------
(***************************************************************************)
(* Earned trust: the statistics delegation memory keeps per scope          *)
(* (core/trust.py, TrustStats of core/models.py) and the autonomy level    *)
(* the recommendation engine reads out of them (core/recommendations.py).  *)
(* Rates are compared as integers: x / n <= p / 100 is 100 x <= p n.       *)
(***************************************************************************)
EXTENDS Ontology

ApprovalOutcome == {"approved", "rejected", "modified_and_approved",
                    "more_evidence_requested", "escalated",
                    "converted_to_delegation_rule"}

TrustStats == [clean : Nat, modified : Nat, rejections : Nat, escalations : Nat,
               evidence_requests : Nat, incidents : Nat]

NewStats == [clean |-> 0, modified |-> 0, rejections |-> 0, escalations |-> 0,
             evidence_requests |-> 0, incidents |-> 0]

total_decisions(s) ==
    s.clean + s.modified + s.rejections + s.escalations + s.evidence_requests

\* A bug: a rejection takes back a clean approval.
CountedAsPenalty(s, outcome) ==
    IF outcome \in {"approved", "converted_to_delegation_rule"}
      THEN [s EXCEPT !.clean = @ + 1] ELSE [s EXCEPT !.clean = @ - 1]

\* The counter an outcome bumps: every outcome is terminal for its event.
Counted(s, outcome) ==
    CASE outcome \in {"approved", "converted_to_delegation_rule"} ->
             [s EXCEPT !.clean = @ + 1]
      [] outcome = "modified_and_approved" -> [s EXCEPT !.modified = @ + 1]
      [] outcome = "rejected" -> [s EXCEPT !.rejections = @ + 1]
      [] outcome = "escalated" -> [s EXCEPT !.escalations = @ + 1]
      [] outcome = "more_evidence_requested" ->
             [s EXCEPT !.evidence_requests = @ + 1]

WithIncident(s) == [s EXCEPT !.incidents = @ + 1]

(***************************************************************************)
(* wilson_lower_bound(clean, n) >= percent / 100, with z = 1.96.  For a    *)
(* proportion p and a bound t the score interval's lower end is at least t *)
(* exactly if p >= t and (p - t)^2 >= z^2 t (1 - t) / n; z^2 is 2401 / 625.*)
(***************************************************************************)
CeilDiv(x, y) == (x + y - 1) \div y

LowerBoundAtLeast(clean, n, percent) ==
    LET excess == 100 * clean - percent * n IN
    /\ n > 0
    /\ excess >= 0
    /\ excess * excess >= CeilDiv(2401 * percent * (100 - percent) * n, 625)

(***************************************************************************)
(* AutonomyRecommendationEngine.recommend.                                 *)
(***************************************************************************)
Never == 1000000000

SAMPLES_BY_RISK ==
    [low      |-> <<8, 20, 50, 120>>,
     medium   |-> <<20, 60, 150, 400>>,
     high     |-> <<60, 200, Never, Never>>,
     critical |-> <<Never, Never, Never, Never>>]

LB_THRESHOLDS == <<80, 88, 93, 95>>
MAX_EDIT_RATE == <<20, 10, 5, 3>>

\* The four rungs above approval, as indices into the tables.
Rung == 1 .. 4
LevelOfRung(i) == EXECUTE_WITH_APPROVAL + i

\* Two bugs: edited work supports a rung like clean work; only the rung the
\* sample size points at is looked at.
SupportedByEdits(s, authority, i) ==
    /\ LevelOfRung(i) <= autonomy_ceiling_for(authority)
    /\ total_decisions(s) >= SAMPLES_BY_RISK[base_risk_for(authority)][i]
    /\ LowerBoundAtLeast(s.clean + s.modified, total_decisions(s), LB_THRESHOLDS[i])
    /\ 100 * s.modified <= MAX_EDIT_RATE[i] * total_decisions(s)

SupportsAtItsSize(s, authority, i) ==
    /\ LevelOfRung(i) <= autonomy_ceiling_for(authority)
    /\ total_decisions(s) >= SAMPLES_BY_RISK[base_risk_for(authority)][i]
    /\ i < 4 => total_decisions(s) < SAMPLES_BY_RISK[base_risk_for(authority)][i + 1]
    /\ LowerBoundAtLeast(s.clean, total_decisions(s), LB_THRESHOLDS[i])
    /\ 100 * s.modified <= MAX_EDIT_RATE[i] * total_decisions(s)

Supports(s, authority, i) ==
    /\ LevelOfRung(i) <= autonomy_ceiling_for(authority)
    /\ total_decisions(s) >= SAMPLES_BY_RISK[base_risk_for(authority)][i]
    /\ LowerBoundAtLeast(s.clean, total_decisions(s), LB_THRESHOLDS[i])
    /\ 100 * s.modified <= MAX_EDIT_RATE[i] * total_decisions(s)

RejectedTooOften(s, authority) ==
    /\ total_decisions(s) >= SAMPLES_BY_RISK[base_risk_for(authority)][1]
    /\ 4 * s.rejections >= total_decisions(s)

Lower(x, y) == IF x < y THEN x ELSE y
Higher(x, y) == IF x > y THEN x ELSE y

\* Incidents first, then rejections, then the highest supported rung; the
\* result is clamped to the ceiling.
Recommend(current, s, authority) ==
    LET supported == {i \in Rung : Supports(s, authority, i)}
        target ==
            IF s.incidents > 0 \/ RejectedTooOften(s, authority)
              THEN Lower(current, EXECUTE_WITH_APPROVAL)
            ELSE IF supported = {} THEN current
            ELSE Higher(current, LevelOfRung(Max(supported)))
    IN  Lower(target, autonomy_ceiling_for(authority))

\* A rule is proposed, for a human to approve, when the level would rise.
ProposesRule(current, recommended) == recommended > current

=============================================================================
