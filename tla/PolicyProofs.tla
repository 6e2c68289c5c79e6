---------------------------- MODULE PolicyProofs ----------------------------
(***************************************************************************)
(* What is proved about the policy engine, for every set of events and     *)
(* delegation rules and every list of boundary rules; and about the rules  *)
(* that the recommendation engine proposes to it, for every history of     *)
(* decisions (TrustLadder).  The two machines share no variable.           *)
(***************************************************************************)
EXTENDS PolicyEngine, TrustLadder, PolicyLemmas

(***************************************************************************)
(* The request does not change, and the decision is the engine's.          *)
(***************************************************************************)
Decided ==
    /\ boundaries \in Boundaries
    /\ event \in Event
    /\ level \in AutonomyLevel
    /\ rule \in Rule \cup {None}
    /\ decision # None => decision = Evaluate(boundaries, event, level, rule)

\* Every decision the machine holds is the engine's decision on its request.
LEMMA AlwaysDecided == Spec => []Decided
<1>1. Init => Decided
  BY DEF Init, Decided
<1>2. Decided /\ [Next]_vars => Decided'
  BY DEF Decided, Next, Decide, vars
<1> QED
  BY <1>1, <1>2, PTL DEF Spec

(***************************************************************************)
(* Evaluate on the inputs of the machine.                                  *)
(***************************************************************************)

\* An event a boundary rule matches never proceeds.
LEMMA BoundaryStops ==
    ASSUME NEW bs \in Boundaries, NEW e, NEW l, NEW r,
           BoundariesMatching(bs, e) # {}
    PROVE  Evaluate(bs, e, l, r).status \in AutonomyStatus \ Proceeding
<1> DEFINE hit == BoundariesMatching(bs, e)
<1> DEFINE first == CHOOSE i \in hit : \A j \in hit : i <= j
<1>1. hit \subseteq DOMAIN bs /\ hit \subseteq Nat
  BY PolicyAssumption DEF BoundariesMatching
<1>2. \E i \in hit : \A j \in hit : i <= j
  BY <1>1, LeastNatural
<1>3. first \in hit
  BY <1>2
<1>4. bs[first].status \in AutonomyStatus \ Proceeding
  BY <1>1, <1>3, PolicyAssumption
<1>5. Evaluate(bs, e, l, r).status = bs[first].status
  BY DEF Evaluate, Decision
<1> QED
  BY <1>4, <1>5

\* The effective level is a rung, at most the ceiling, and at most what was
\* earned or delegated.
LEMMA Effective ==
    ASSUME NEW e, e.authority \in AuthorityClass, NEW l \in AutonomyLevel,
           NEW r \in Rule \cup {None}
    PROVE  /\ EffectiveLevel(e, l, r) \in AutonomyLevel
           /\ EffectiveLevel(e, l, r) <= autonomy_ceiling_for(e.authority)
           /\ EffectiveLevel(e, l, r) <= IF RuleLifts(l, r) THEN r.level ELSE l
<1>1. autonomy_ceiling_for(e.authority) \in AutonomyLevel
  BY Ceilings
<1>2. (IF RuleLifts(l, r) THEN r.level ELSE l) \in AutonomyLevel
  BY PolicyAssumption DEF RuleLifts
<1> QED
  BY <1>1, <1>2 DEF EffectiveLevel, AutonomyLevel

(***************************************************************************)
(* The theorems.                                                           *)
(***************************************************************************)

\* No level and no rule lets an event of a critical class execute without a
\* human, whatever boundary rules the engine was built with.
THEOREM CriticalIsNeverExecuted == Spec => []CriticalNeedsHuman
<1>1. Decided => CriticalNeedsHuman
  <2> SUFFICES ASSUME Decided, Proceeds, event.requires_execution,
                      base_risk_for(event.authority) = "critical"
               PROVE  FALSE
    BY DEF CriticalNeedsHuman
  <2>0. /\ decision.status = Evaluate(boundaries, event, level, rule).status
        /\ decision.status \in Proceeding
        /\ boundaries \in Boundaries /\ level \in AutonomyLevel
        /\ rule \in Rule \cup {None}
        /\ event.authority \in AuthorityClass /\ event.requires_execution = TRUE
    BY PolicyAssumption DEF Decided, Proceeds
  <2>1. BoundariesMatching(boundaries, event) = {}
    BY <2>0, BoundaryStops
  <2>2. ~Stopped(event, level, rule)
    BY <2>0, <2>1, GuardStops DEF Stopped, Proceeding
  <2>3. decision.status = LadderStatus(event, level, rule)
    BY <2>0, <2>1, <2>2, LadderDecides
  <2>4. /\ EffectiveLevel(event, level, rule) \in AutonomyLevel
        /\ EffectiveLevel(event, level, rule) <= EXECUTE_WITH_APPROVAL
    BY <2>0, Effective, Ceilings DEF AutonomyLevel, EXECUTE_WITH_APPROVAL
  <2>5. LadderStatus(event, level, rule) = "approval_required"
    <3>1. \A risk, sample :
            status_for_level(event, EffectiveLevel(event, level, rule), risk,
                             sample).status = "approval_required"
      BY <2>0, <2>4, Rungs
    <3> QED
      BY <3>1, Zenon DEF LadderStatus
  <2> QED
    BY <2>0, <2>3, <2>5 DEF Proceeding
<1> QED
  BY <1>1, AlwaysDecided, PTL

\* An execution that proceeds was earned by the agent's stored level, or
\* delegated by a rule none of whose guards is unknown or fires.
THEOREM ExecutionAlwaysEarned == Spec => []ExecutionIsEarned
<1>1. Decided => ExecutionIsEarned
  <2> SUFFICES ASSUME Decided, Proceeds, event.requires_execution,
                      ~(level >= EXECUTE_WITH_SAMPLING)
               PROVE  /\ rule # None
                      /\ rule.level >= EXECUTE_WITH_SAMPLING
                      /\ \A g \in rule.guards : g \in GUARDS /\ ~Fires(g, event)
    BY DEF ExecutionIsEarned
  <2>0. /\ decision.status = Evaluate(boundaries, event, level, rule).status
        /\ decision.status \in Proceeding
        /\ boundaries \in Boundaries /\ level \in AutonomyLevel
        /\ rule \in Rule \cup {None}
        /\ event.authority \in AuthorityClass /\ event.requires_execution = TRUE
    BY PolicyAssumption DEF Decided, Proceeds
  <2>1. BoundariesMatching(boundaries, event) = {}
    BY <2>0, BoundaryStops
  <2>2. ~Stopped(event, level, rule)
    BY <2>0, <2>1, GuardStops DEF Stopped, Proceeding
  <2>3. decision.status = LadderStatus(event, level, rule)
    BY <2>0, <2>1, <2>2, LadderDecides
  <2>4. EffectiveLevel(event, level, rule) \in AutonomyLevel
    BY <2>0, Effective
  <2>5. EffectiveLevel(event, level, rule) > EXECUTE_WITH_APPROVAL
    <3>1. EffectiveLevel(event, level, rule) <= EXECUTE_WITH_APPROVAL =>
            \A risk, sample :
              status_for_level(event, EffectiveLevel(event, level, rule), risk,
                               sample).status = "approval_required"
      BY <2>0, <2>4, Rungs
    <3>2. EffectiveLevel(event, level, rule) <= EXECUTE_WITH_APPROVAL =>
            LadderStatus(event, level, rule) = "approval_required"
      BY <3>1, Zenon DEF LadderStatus
    <3> QED
      BY <2>0, <2>3, <2>4, <3>2
         DEF Proceeding, AutonomyLevel, EXECUTE_WITH_APPROVAL
  <2>6. RuleLifts(level, rule)
    BY <2>0, <2>4, <2>5, Effective
       DEF AutonomyLevel, EXECUTE_WITH_APPROVAL, EXECUTE_WITH_SAMPLING
  <2>7. rule # None /\ rule \in Rule /\ rule.level \in AutonomyLevel
    BY <2>0, <2>6, PolicyAssumption DEF RuleLifts
  <2>8. rule.level >= EXECUTE_WITH_SAMPLING
    BY <2>0, <2>4, <2>5, <2>6, <2>7, Effective
       DEF AutonomyLevel, EXECUTE_WITH_APPROVAL, EXECUTE_WITH_SAMPLING
  <2>9. evaluate_guards(rule.guards, event) = {}
    BY <2>2, <2>6 DEF Stopped
  <2> QED
    BY <2>7, <2>8, <2>9 DEF evaluate_guards
<1> QED
  BY <1>1, AlwaysDecided, PTL

\* With the default boundary rules nothing of a high or critical class
\* proceeds, not even what declares that it needs no execution.
THEOREM HighRiskNeverProceeds == Spec => []DefaultsCoverHighRisk
<1>1. Decided => DefaultsCoverHighRisk
  <2> SUFFICES ASSUME Decided, Proceeds, boundaries = default_boundary_rules,
                      base_risk_for(event.authority) \notin {"low", "medium"}
               PROVE  FALSE
    BY DEF DefaultsCoverHighRisk
  <2>1. /\ decision.status = Evaluate(boundaries, event, level, rule).status
        /\ decision.status \in Proceeding
        /\ boundaries \in Boundaries
        /\ event.authority \in AuthorityClass
    BY PolicyAssumption DEF Decided, Proceeds
  <2>2. event.authority \in CriticalRisk \cup HighRisk
    BY <2>1 DEF base_risk_for
  <2>3. \E i \in 1 .. 5 : event.authority \in default_boundary_rules[i].authorities
    BY <2>2 DEF CriticalRisk, HighRisk, default_boundary_rules, Boundary
  <2>4. /\ DOMAIN default_boundary_rules = 1 .. 5
        /\ \A i \in 1 .. 5 : default_boundary_rules[i].conditions = << >>
    BY DEF default_boundary_rules, Boundary
  <2>5. BoundariesMatching(boundaries, event) # {}
    BY <2>3, <2>4 DEF BoundariesMatching, BoundaryMatches
  <2> QED
    BY <2>1, <2>5, BoundaryStops
<1> QED
  BY <1>1, AlwaysDecided, PTL

\* Without an anomaly, an execution is decided at least as permissively as at
\* any lower level with the same rule.
THEOREM ClimbingIsSafe == Spec => []ClimbingNeverTightens
<1>1. Decided => ClimbingNeverTightens
  <2> SUFFICES ASSUME Decided, decision # None, event.requires_execution,
                      ~Flag(event, "anomaly"), NEW lower \in 0 .. level
               PROVE  Permissiveness[Evaluate(boundaries, event, lower, rule).status]
                        <= Permissiveness[decision.status]
    BY DEF ClimbingNeverTightens
  <2> DEFINE Status(l) == Evaluate(boundaries, event, l, rule).status
             Earned(l) == EffectiveLevel(event, l, rule)
  <2>1. /\ decision.status = Status(level)
        /\ boundaries \in Boundaries /\ level \in AutonomyLevel
        /\ rule \in Rule \cup {None}
        /\ event.authority \in AuthorityClass /\ event.requires_execution = TRUE
    BY PolicyAssumption DEF Decided
  <2>2. lower \in AutonomyLevel /\ lower <= level
    BY <2>1 DEF AutonomyLevel
  <2>3. CASE BoundariesMatching(boundaries, event) # {}
    <3>1. Status(lower) = Status(level)
      BY <2>3 DEF Evaluate, Decision
    <3>2. Status(level) \in AutonomyStatus
      BY <2>1, <2>3, BoundaryStops
    <3> QED
      BY <2>1, <3>1, <3>2 DEF Permissiveness, AutonomyStatus
  <2>4. CASE BoundariesMatching(boundaries, event) = {}
    <3>1. RuleLifts(level, rule) => RuleLifts(lower, rule)
      BY <2>1, <2>2, PolicyAssumption DEF RuleLifts, AutonomyLevel
    <3>2. \A l \in AutonomyLevel :
             Status(l) = IF Stopped(event, l, rule) THEN "approval_required"
                         ELSE LadderStatus(event, l, rule)
      BY <2>4, GuardStops, LadderDecides DEF Stopped
    <3>3. \A l \in AutonomyLevel :
             LadderStatus(event, l, rule) =
               IF Earned(l) <= EXECUTE_WITH_APPROVAL THEN "approval_required"
               ELSE IF Earned(l) = EXECUTE_WITH_SAMPLING THEN "sample_review"
               ELSE "allowed"
      <4> SUFFICES ASSUME NEW l \in AutonomyLevel
                   PROVE  LadderStatus(event, l, rule) =
                            IF Earned(l) <= EXECUTE_WITH_APPROVAL
                              THEN "approval_required"
                            ELSE IF Earned(l) = EXECUTE_WITH_SAMPLING
                              THEN "sample_review"
                            ELSE "allowed"
        OBVIOUS
      <4>1. Earned(l) \in AutonomyLevel
        BY <2>1, Effective
      <4>2. \A risk, sample :
              status_for_level(event, Earned(l), risk, sample).status =
                IF Earned(l) <= EXECUTE_WITH_APPROVAL THEN "approval_required"
                ELSE IF Earned(l) = EXECUTE_WITH_SAMPLING THEN "sample_review"
                ELSE "allowed"
        BY <2>1, <4>1, Rungs
      <4> QED
        BY <4>2, Zenon DEF LadderStatus
    <3>4. Earned(lower) \in AutonomyLevel /\ Earned(level) \in AutonomyLevel
      BY <2>1, <2>2, Effective
    <3>5. Earned(lower) <= Earned(level)
      <4>1. autonomy_ceiling_for(event.authority) \in AutonomyLevel
        BY <2>1, Ceilings
      <4>2. rule # None => rule.level \in AutonomyLevel
        BY <2>1, PolicyAssumption
      <4> QED
        BY <2>1, <2>2, <4>1, <4>2 DEF EffectiveLevel, RuleLifts, AutonomyLevel
    <3>6. Stopped(event, level, rule) => Stopped(event, lower, rule)
      BY <3>1 DEF Stopped
    <3> DEFINE low == Status(lower)
               high == Status(level)
    <3>7. /\ low \in {"approval_required", "sample_review", "allowed"}
          /\ high \in {"approval_required", "sample_review", "allowed"}
          /\ high = "approval_required" => low = "approval_required"
          /\ high = "sample_review" => low # "allowed"
      BY <2>1, <2>2, <3>2, <3>3, <3>4, <3>5, <3>6
         DEF AutonomyLevel, EXECUTE_WITH_APPROVAL, EXECUTE_WITH_SAMPLING
    <3> QED
      BY <2>1, <3>7 DEF Permissiveness
  <2> QED
    BY <2>3, <2>4
<1> QED
  BY <1>1, AlwaysDecided, PTL

(***************************************************************************)
(* The rungs a history supports.                                           *)
(***************************************************************************)
LEMMA HighestRung ==
    ASSUME NEW S, S \subseteq Rung, S # {}
    PROVE  Max(S) \in S /\ \A i \in S : i <= Max(S)
<1>1. \E i \in S : \A j \in S : i >= j
  <2>1. CASE 4 \in S
    BY <2>1 DEF Rung
  <2>2. CASE 4 \notin S /\ 3 \in S
    BY <2>2 DEF Rung
  <2>3. CASE 4 \notin S /\ 3 \notin S /\ 2 \in S
    BY <2>3 DEF Rung
  <2>4. CASE S \subseteq {1}
    <3>1. PICK i \in S : TRUE
      OBVIOUS
    <3>2. \A j \in S : j = 1
      BY <2>4
    <3> QED
      BY <3>1, <3>2
  <2> QED
    BY <2>1, <2>2, <2>3, <2>4 DEF Rung
<1> QED
  BY <1>1 DEF Max, Rung

\* The decisions a rung asks for and its thresholds.
LEMMA Thresholds ==
    ASSUME NEW a, NEW i \in Rung
    PROVE  /\ SAMPLES_BY_RISK[base_risk_for(a)][i] \in Nat
           /\ SAMPLES_BY_RISK[base_risk_for(a)][i] >=
                 SAMPLES_BY_RISK[base_risk_for(a)][1]
           /\ SAMPLES_BY_RISK[base_risk_for(a)][i] >= IF i = 1 THEN 8 ELSE 20
           /\ LB_THRESHOLDS[i] \in {80, 88, 93, 95}
           /\ LB_THRESHOLDS[i] = 80 <=> i = 1
           /\ i = 4 => LB_THRESHOLDS[i] = 95
           /\ MAX_EDIT_RATE[i] \in Nat
<1>1. base_risk_for(a) \in {"low", "medium", "high", "critical"}
  BY DEF base_risk_for
<1>2. \A j \in Rung :
         /\ SAMPLES_BY_RISK.low[j] \in Nat /\ SAMPLES_BY_RISK.medium[j] \in Nat
         /\ SAMPLES_BY_RISK.high[j] \in Nat /\ SAMPLES_BY_RISK.critical[j] \in Nat
         /\ SAMPLES_BY_RISK.low[j] >= IF j = 1 THEN 8 ELSE 20
         /\ SAMPLES_BY_RISK.medium[j] >= 20
         /\ SAMPLES_BY_RISK.high[j] >= 60
         /\ SAMPLES_BY_RISK.critical[j] = Never
  BY DEF SAMPLES_BY_RISK, Rung, Never
<1>3. /\ SAMPLES_BY_RISK.low[1] = 8 /\ SAMPLES_BY_RISK.medium[1] = 20
      /\ SAMPLES_BY_RISK.high[1] = 60 /\ SAMPLES_BY_RISK.critical[1] = Never
      /\ Never >= 20
  BY DEF SAMPLES_BY_RISK, Never
<1>4. /\ LB_THRESHOLDS[i] \in {80, 88, 93, 95}
      /\ LB_THRESHOLDS[i] = 80 <=> i = 1
      /\ i = 4 => LB_THRESHOLDS[i] = 95
      /\ MAX_EDIT_RATE[i] \in Nat
  BY DEF LB_THRESHOLDS, MAX_EDIT_RATE, Rung
<1> QED
  BY <1>1, <1>2, <1>3, <1>4

\* The total counts the three kinds of decisions the ladder is about.
LEMMA Totals ==
    ASSUME NEW s \in TrustStats
    PROVE  /\ total_decisions(s) \in Nat
           /\ s.clean \in Nat /\ s.modified \in Nat /\ s.rejections \in Nat
           /\ s.incidents \in Nat
           /\ s.clean + s.modified + s.rejections <= total_decisions(s)
BY DEF TrustStats, total_decisions

Supported(s, a) == {i \in Rung : Supports(s, a, i)}

\* Nothing is proposed after an incident or too many rejections; otherwise the
\* proposed level is the highest rung the history supports.
LEMMA ProposalIsSupported ==
    ASSUME NEW s \in TrustStats, NEW a, NEW l \in AutonomyLevel,
           ProposesRule(l, Recommend(l, s, a))
    PROVE  /\ s.incidents = 0
           /\ ~RejectedTooOften(s, a)
           /\ \E i \in Rung : Supports(s, a, i) /\ Recommend(l, s, a) = 3 + i
<1> DEFINE ceiling == autonomy_ceiling_for(a)
           S == Supported(s, a)
<1>1. ceiling \in Nat /\ l \in Nat /\ s.incidents \in Nat
  BY Ceilings, Totals DEF AutonomyLevel
<1>2. Recommend(l, s, a) =
         Lower(IF s.incidents > 0 \/ RejectedTooOften(s, a) THEN Lower(l, 3)
               ELSE IF S = {} THEN l ELSE Higher(l, 3 + Max(S)), ceiling)
  BY DEF Recommend, Supported, LevelOfRung, EXECUTE_WITH_APPROVAL
<1>3. Recommend(l, s, a) > l
  BY DEF ProposesRule
<1> HIDE DEF ceiling, S
<1>4. /\ ~(s.incidents > 0 \/ RejectedTooOften(s, a))
      /\ S # {}
  BY <1>1, <1>2, <1>3 DEF Lower
<1>5. Max(S) \in S /\ S \subseteq Rung
  BY <1>4, HighestRung DEF S, Supported
<1>6. PICK i \in Rung : i = Max(S) /\ Supports(s, a, i)
  BY <1>5 DEF S, Supported
<1>7. i \in Nat /\ 3 + i <= ceiling
  BY <1>6 DEF Supports, ceiling, LevelOfRung, EXECUTE_WITH_APPROVAL, Rung
<1>8. Recommend(l, s, a) = 3 + i
  BY <1>1, <1>2, <1>3, <1>4, <1>6, <1>7 DEF Lower, Higher
<1> QED
  BY <1>1, <1>4, <1>6, <1>8

\* What a supported rung says of the history.
LEMMA SupportIsClean ==
    ASSUME NEW s \in TrustStats, NEW a, NEW i \in Rung, Supports(s, a, i)
    PROVE  /\ s.clean >= 16
           /\ i = 4 => s.clean >= 19 * (total_decisions(s) - s.clean)
<1> DEFINE n == total_decisions(s)
<1>1. n \in Nat /\ s.clean \in Nat /\ s.clean <= n
  BY Totals
<1>2. LowerBoundAtLeast(s.clean, n, LB_THRESHOLDS[i])
  BY DEF Supports
<1>3. 100 * s.clean - LB_THRESHOLDS[i] * n >= 0
  BY <1>2 DEF LowerBoundAtLeast
<1>4. CASE i = 1
  <2>1. LB_THRESHOLDS[i] = 80
    BY <1>4, Thresholds
  <2> QED
    BY <1>1, <1>2, <1>4, <2>1, SixteenAtLeast
<1>5. CASE i # 1
  <2>1. n >= 20
    BY <1>1, <1>5, Thresholds DEF Supports
  <2>2. LB_THRESHOLDS[i] \in {88, 93, 95} /\ (i = 4 => LB_THRESHOLDS[i] = 95)
    BY <1>5, Thresholds
  <2> HIDE DEF n
  <2>3. PICK t \in {88, 93, 95} : t = LB_THRESHOLDS[i]
    BY <2>2
  <2>4. 100 * s.clean >= t * n
    BY <1>1, <1>3, <2>3
  <2>5. s.clean >= 16
    BY <1>1, <2>1, <2>4
  <2>6. i = 4 => 100 * s.clean >= 95 * n
    BY <2>2, <2>3, <2>4
  <2> QED
    BY <1>1, <2>5, <2>6 DEF n
<1> QED
  BY <1>4, <1>5

(***************************************************************************)
(* One more clean approval.                                                *)
(***************************************************************************)
\* It moves one counter and the total.
LEMMA ApprovalCounts ==
    ASSUME NEW s \in TrustStats, NEW t, t = Counted(s, "approved")
    PROVE  /\ t \in TrustStats
           /\ t.clean = s.clean + 1 /\ t.modified = s.modified
           /\ t.rejections = s.rejections /\ t.incidents = s.incidents
           /\ total_decisions(t) = total_decisions(s) + 1
<1>1. t = [s EXCEPT !.clean = @ + 1]
  BY DEF Counted
<1>2. /\ t \in TrustStats
      /\ t.clean = s.clean + 1 /\ t.modified = s.modified
      /\ t.rejections = s.rejections /\ t.incidents = s.incidents
      /\ t.escalations = s.escalations
      /\ t.evidence_requests = s.evidence_requests
  BY <1>1 DEF TrustStats
<1> QED
  BY <1>2 DEF total_decisions, TrustStats

\* A rung that is supported stays supported.
LEMMA SupportGrows ==
    ASSUME NEW s \in TrustStats, NEW t, t = Counted(s, "approved"),
           NEW a, NEW i \in Rung, Supports(s, a, i)
    PROVE  Supports(t, a, i)
<1> DEFINE n == total_decisions(s)
           samples == SAMPLES_BY_RISK[base_risk_for(a)][i]
<1>1. n \in Nat /\ s.clean \in Nat
  BY Totals
<1>2. total_decisions(t) = n + 1 /\ t.clean = s.clean + 1 /\ t.modified = s.modified
  BY ApprovalCounts
<1>3. n >= samples /\ LowerBoundAtLeast(s.clean, n, LB_THRESHOLDS[i])
      /\ LevelOfRung(i) <= autonomy_ceiling_for(a)
      /\ 100 * s.modified <= MAX_EDIT_RATE[i] * n
  BY DEF Supports
<1>4. samples \in Nat /\ samples >= (IF i = 1 THEN 8 ELSE 20)
      /\ LB_THRESHOLDS[i] \in {80, 88, 93, 95} /\ (LB_THRESHOLDS[i] = 80 <=> i = 1)
      /\ MAX_EDIT_RATE[i] \in Nat
  BY Thresholds
<1>5. n >= IF LB_THRESHOLDS[i] = 80 THEN 8 ELSE 20
  BY <1>1, <1>3, <1>4
<1> HIDE DEF n, samples
<1>6. LowerBoundAtLeast(s.clean + 1, n + 1, LB_THRESHOLDS[i])
  BY <1>1, <1>3, <1>4, <1>5, BoundGrows
<1>7. n + 1 >= samples
  BY <1>1, <1>3, <1>4
<1>8. 100 * s.modified <= MAX_EDIT_RATE[i] * (n + 1)
  <2>1. PICK m \in Nat : m = MAX_EDIT_RATE[i]
    BY <1>4
  <2>2. s.modified \in Nat
    BY Totals
  <2>3. m * (n + 1) = m * n + m
    BY <1>1
  <2> QED
    BY <1>1, <1>3, <2>1, <2>2, <2>3
<1> QED
  BY <1>2, <1>3, <1>6, <1>7, <1>8 DEF Supports, samples

\* Too many rejections stop a low agent from rising; they do not lower it.
LEMMA ApprovalNeverHurts ==
    ASSUME NEW s \in TrustStats, NEW t, t = Counted(s, "approved"), NEW a,
           NEW l \in AutonomyLevel, l <= EXECUTE_WITH_APPROVAL
    PROVE  Recommend(l, t, a) >= Recommend(l, s, a)
<1> DEFINE ceiling == autonomy_ceiling_for(a)
           S == Supported(s, a)
           T == Supported(t, a)
           stopped == s.incidents > 0 \/ RejectedTooOften(s, a)
           stoppedAfter == t.incidents > 0 \/ RejectedTooOften(t, a)
<1>1. ceiling \in Nat /\ l \in Nat /\ l <= 3
  BY Ceilings DEF AutonomyLevel, EXECUTE_WITH_APPROVAL
<1>2. /\ Recommend(l, s, a) =
            Lower(IF stopped THEN Lower(l, 3)
                  ELSE IF S = {} THEN l ELSE Higher(l, 3 + Max(S)), ceiling)
      /\ Recommend(l, t, a) =
            Lower(IF stoppedAfter THEN Lower(l, 3)
                  ELSE IF T = {} THEN l ELSE Higher(l, 3 + Max(T)), ceiling)
  BY DEF Recommend, Supported, LevelOfRung, EXECUTE_WITH_APPROVAL
<1>3. S \subseteq T /\ S \subseteq Rung /\ T \subseteq Rung
  BY SupportGrows DEF Supported
<1>4. stoppedAfter => stopped \/ S = {}
  <2>1. SUFFICES ASSUME stoppedAfter, ~stopped, NEW i \in S PROVE FALSE
    OBVIOUS
  <2>2. t.incidents = s.incidents /\ t.rejections = s.rejections
        /\ total_decisions(t) = total_decisions(s) + 1
    BY ApprovalCounts
  <2>3. RejectedTooOften(t, a)
    BY <2>1, <2>2
  <2>4. total_decisions(s) \in Nat /\ s.rejections \in Nat
    BY Totals
  <2>5. 4 * s.rejections >= total_decisions(s)
    BY <2>2, <2>3, <2>4 DEF RejectedTooOften
  <2>6. i \in Rung /\ Supports(s, a, i)
    BY <1>3, <2>1 DEF Supported
  <2>7. total_decisions(s) >= SAMPLES_BY_RISK[base_risk_for(a)][i]
    BY <2>6 DEF Supports
  <2>8. /\ SAMPLES_BY_RISK[base_risk_for(a)][i] \in Nat
        /\ SAMPLES_BY_RISK[base_risk_for(a)][i] >=
              SAMPLES_BY_RISK[base_risk_for(a)][1]
    BY <2>6, Thresholds
  <2>9. SAMPLES_BY_RISK[base_risk_for(a)][1] \in Nat
    BY Thresholds DEF Rung
  <2>10. RejectedTooOften(s, a)
    BY <2>4, <2>5, <2>7, <2>8, <2>9 DEF RejectedTooOften
  <2> QED
    BY <2>1, <2>10
<1> HIDE DEF ceiling, S, T, stopped, stoppedAfter
<1>5. /\ S # {} => Max(S) \in S
      /\ T # {} => Max(T) \in T /\ \A i \in T : i <= Max(T)
  BY <1>3, HighestRung, Zenon
<1>6. \A i \in Rung : i \in Nat
  BY DEF Rung
<1>7. /\ S # {} => Max(S) \in Nat /\ T # {} /\ Max(S) <= Max(T)
      /\ T # {} => Max(T) \in Nat
  BY <1>3, <1>5, <1>6
<1> QED
  BY <1>1, <1>2, <1>4, <1>7 DEF Lower, Higher

(***************************************************************************)
(* The ladder.                                                             *)
(***************************************************************************)
LadderTypes ==
    /\ authority \in AuthorityClass
    /\ current \in AutonomyLevel
    /\ stats \in TrustStats

\* The statistics are counters, whatever is decided.
LEMMA LadderTyped == LadderSpec => []LadderTypes
<1>1. LadderInit => LadderTypes
  BY LadderAssumption DEF LadderInit, LadderTypes, NewStats, TrustStats
<1>2. LadderTypes /\ [LadderNext]_ladderVars => LadderTypes'
  <2>1. ASSUME NEW s \in TrustStats
        PROVE  /\ WithIncident(s) \in TrustStats
               /\ \A o \in ApprovalOutcome : Counted(s, o) \in TrustStats
    BY DEF WithIncident, Counted, TrustStats, ApprovalOutcome
  <2> QED
    BY <2>1 DEF LadderTypes, LadderNext, Approve, Modify, Reject, Escalate,
                RequestEvidence, Incident, RecordDecision, ladderVars, ApprovalOutcome
<1> QED
  BY <1>1, <1>2, PTL DEF LadderSpec

\* However decisions and incidents follow one another, a rule is proposed only
\* on clean approvals: recommend, over the statistics of apply_decision.
THEOREM TrustRestsOnCleanApprovals == LadderSpec => []LiftsRestOnCleanApprovals
<1>1. LadderTypes => LiftsRestOnCleanApprovals
  <2>1. SUFFICES ASSUME LadderTypes, Proposed
                 PROVE  /\ stats.incidents = 0
                        /\ stats.clean >= 16
                        /\ Recommended = DELEGATED_AUTHORITY =>
                             stats.clean >= 19 * (total_decisions(stats) - stats.clean)
    BY DEF LiftsRestOnCleanApprovals
  <2>2. PICK i \in Rung : /\ Supports(stats, authority, i) /\ Recommended = 3 + i
                          /\ stats.incidents = 0
    BY <2>1, ProposalIsSupported DEF LadderTypes, Proposed, Recommended
  <2>3. Recommended = DELEGATED_AUTHORITY => i = 4
    BY <2>2 DEF Rung, DELEGATED_AUTHORITY
  <2> QED
    BY <2>1, <2>2, <2>3, SupportIsClean DEF LadderTypes
<1> QED
  BY <1>1, LadderTyped, PTL

\* A clean approval never lowers what is recommended for an agent that has no
\* execution of its own yet: recommend, before and after apply_decision.
THEOREM CleanWorkNeverLowers == LadderSpec => ApprovalNeverLowers
<1>1. ASSUME LadderTypes, [LadderNext]_ladderVars, stats'.clean > stats.clean,
             current <= EXECUTE_WITH_APPROVAL
      PROVE  Recommended' >= Recommended
  <2>1. stats.clean \in Nat
    BY <1>1, Totals DEF LadderTypes
  <2>2. /\ WithIncident(stats).clean = stats.clean
        /\ \A o \in {"modified_and_approved", "rejected", "escalated",
                    "more_evidence_requested"} : Counted(stats, o).clean = stats.clean
    BY <1>1 DEF LadderTypes, TrustStats, WithIncident, Counted
  <2>3. stats' # stats /\ stats' # WithIncident(stats)
        /\ \A o \in {"modified_and_approved", "rejected", "escalated",
                    "more_evidence_requested"} : stats' # Counted(stats, o)
    BY <1>1, <2>1, <2>2
  <2>4. stats' = Counted(stats, "approved") /\ current' = current
        /\ authority' = authority
    <3>1. Counted(stats, "converted_to_delegation_rule") = Counted(stats, "approved")
      BY DEF Counted
    <3> QED
      BY <1>1, <2>3, <3>1
      DEF LadderNext, Approve, Modify, Reject, Escalate, RequestEvidence, Incident,
          RecordDecision, ladderVars
  <2>5. PICK t : t = Counted(stats, "approved")
    OBVIOUS
  <2>6. Recommend(current, t, authority) >= Recommend(current, stats, authority)
    BY <1>1, <2>5, ApprovalNeverHurts DEF LadderTypes
  <2> QED
    BY <2>4, <2>5, <2>6 DEF Recommended
<1>2. LadderTypes /\ [LadderNext]_ladderVars =>
        [current <= EXECUTE_WITH_APPROVAL /\ stats'.clean > stats.clean =>
            Recommended' >= Recommended]_ladderVars
  BY <1>1
<1> QED
  BY <1>2, LadderTyped, PTL DEF LadderSpec, ApprovalNeverLowers

(***************************************************************************)
(* What a proposed rule does once it is approved.                          *)
(***************************************************************************)
\* It matches every action it is tried on.
LEMMA RuleApplies ==
    ASSUME NEW l, NEW e \in {PlainAction} \cup DangerousActions
    PROVE  Matches(ProposedRule(l), e)
<1>1. /\ e.workflow = "workflow" /\ e.agent = "agent" /\ e.authority = authority
      /\ "evidence_required" \in DOMAIN e.metadata
      /\ e.metadata["evidence_required"] = TRUE
  BY DEF PlainAction, DangerousActions
<1>2. /\ ProposedRule(l).active /\ ProposedRule(l).workflow = "workflow"
      /\ ProposedRule(l).agent = "agent" /\ ProposedRule(l).authority = authority
      /\ ProposedRule(l).conditions = [evidence_required |-> Equals(TRUE)]
  BY DEF ProposedRule
<1>3. /\ DOMAIN [evidence_required |-> Equals(TRUE)] = {"evidence_required"}
      /\ [evidence_required |-> Equals(TRUE)]["evidence_required"] = Equals(TRUE)
  OBVIOUS
<1>4. Meets(Equals(TRUE), TRUE)
  BY DEF Meets, Equals
<1> QED
  BY <1>1, <1>2, <1>3, <1>4 DEF Matches, MeetsAll, Get

\* Every sign of danger is one of the guards of the rule.
LEMMA DangerIsGuarded ==
    ASSUME NEW l, NEW e \in DangerousActions
    PROVE  evaluate_guards(ProposedRule(l).guards, e) # {}
<1>1. ProposedRule(l).guards =
        {"missing_source_evidence", "low_confidence", "external_effect",
         "irreversible", "anomaly_detected", "policy_boundary_matched"}
  BY DEF ProposedRule
<1>2. CASE e = [PlainAction EXCEPT !.evidence = 0]
  <2>1. e.evidence = 0
    BY <1>2 DEF PlainAction
  <2>2. Fires("missing_source_evidence", e)
    BY <2>1 DEF Fires
  <2> QED
    BY <1>1, <2>2 DEF evaluate_guards
<1>3. CASE e = [PlainAction EXCEPT !.confidence = 60]
  <2>1. e.confidence = 60
    BY <1>3 DEF PlainAction
  <2>2. Fires("low_confidence", e)
    BY <2>1 DEF Fires
  <2> QED
    BY <1>1, <2>2 DEF evaluate_guards
<1>4. ASSUME NEW flag \in {"external_effect", "irreversible", "anomaly"},
             e = [PlainAction EXCEPT
                    !.metadata = [key \in {"evidence_required", flag} |-> TRUE]]
      PROVE  \E g \in {"external_effect", "irreversible", "anomaly_detected"} :
                Fires(g, e)
  <2>1. e.metadata = [key \in {"evidence_required", flag} |-> TRUE]
    BY <1>4 DEF PlainAction
  <2>2. Flag(e, flag)
    BY <2>1 DEF Flag, Get
  <2> QED
    BY <2>2 DEF Fires
<1> QED
  BY <1>1, <1>2, <1>3, <1>4 DEF DangerousActions, evaluate_guards

\* None of them fires for the plain action.
LEMMA PlainIsUnguarded ==
    ASSUME NEW l
    PROVE  /\ evaluate_guards(ProposedRule(l).guards, PlainAction) = {}
           /\ ~Flag(PlainAction, "anomaly")
<1>1. /\ PlainAction.evidence = 1 /\ PlainAction.confidence = 80
      /\ PlainAction.metadata = [evidence_required |-> TRUE]
  BY DEF PlainAction
<1>2. \A key : key # "evidence_required" => ~Flag(PlainAction, key)
  BY <1>1, LadderAssumption DEF Flag, Get
<1>3. \A g \in {"missing_source_evidence", "low_confidence", "external_effect",
                "irreversible", "anomaly_detected", "policy_boundary_matched"} :
         g \in GUARDS /\ ~Fires(g, PlainAction)
  <2>1. ~Fires("missing_source_evidence", PlainAction)
    BY <1>1 DEF Fires
  <2>2. ~Fires("low_confidence", PlainAction)
    BY <1>1 DEF Fires
  <2>3. ~Fires("external_effect", PlainAction)
    BY <1>2 DEF Fires
  <2>4. ~Fires("irreversible", PlainAction)
    BY <1>2 DEF Fires
  <2>5. ~Fires("anomaly_detected", PlainAction)
    BY <1>2 DEF Fires
  <2>6. ~Fires("policy_boundary_matched", PlainAction)
    BY <1>2 DEF Fires
  <2> QED
    BY <2>1, <2>2, <2>3, <2>4, <2>5, <2>6 DEF GUARDS
<1> QED
  BY <1>2, <1>3 DEF evaluate_guards, ProposedRule

\* A proposal raises the agent to a rung above approval, within its ceiling.
LEMMA ProposalLifts ==
    ASSUME LadderTypes, Proposed
    PROVE  /\ Recommended \in AutonomyLevel
           /\ Recommended > EXECUTE_WITH_APPROVAL
           /\ Recommended <= autonomy_ceiling_for(authority)
           /\ RuleLifts(current, ProposedRule(Recommended))
<1>1. PICK i \in Rung : Supports(stats, authority, i) /\ Recommended = 3 + i
  BY ProposalIsSupported DEF LadderTypes, Proposed, Recommended
<1>2. /\ Recommended \in AutonomyLevel /\ Recommended > 3
      /\ Recommended <= autonomy_ceiling_for(authority)
  BY <1>1 DEF Supports, LevelOfRung, Rung, AutonomyLevel, EXECUTE_WITH_APPROVAL
<1>3. Recommended > current
  BY DEF Proposed, ProposesRule
<1> HIDE DEF Recommended
<1>4. PICK r : r = ProposedRule(Recommended)
  OBVIOUS
<1>5. r # None
  <2>1. r \in [agent : {"agent"}, workflow : {"workflow"}, authority : AuthorityClass,
               level : AutonomyLevel, guards : SUBSET GUARDS,
               conditions : {[evidence_required |-> Equals(TRUE)]},
               sample_rate : Nat, active : BOOLEAN]
    <3>1. PICK c : c = [evidence_required |-> Equals(TRUE)]
      OBVIOUS
    <3>2. PICK n \in Nat : n = IF Recommended >= EXECUTE_WITH_SAMPLING THEN 20 ELSE 0
      OBVIOUS
    <3>3. PICK g \in SUBSET GUARDS : g =
            {"missing_source_evidence", "low_confidence", "external_effect",
             "irreversible", "anomaly_detected", "policy_boundary_matched"}
      BY DEF GUARDS
    <3>4. authority \in AuthorityClass
      BY DEF LadderTypes
    <3>5. r = [agent |-> "agent", workflow |-> "workflow", authority |-> authority,
               level |-> Recommended, conditions |-> c, guards |-> g,
               sample_rate |-> n, active |-> TRUE]
      BY <1>4, <3>1, <3>2, <3>3, Zenon DEF ProposedRule
    <3> QED
      BY <1>2, <3>1, <3>4, <3>5
  <2> QED
    BY <2>1, LadderAssumption
<1>6. r.level = Recommended
  BY <1>4 DEF ProposedRule
<1> QED
  BY <1>2, <1>3, <1>4, <1>5, <1>6 DEF RuleLifts, EXECUTE_WITH_APPROVAL

\* A plain action of a class of low or medium risk proceeds under the rule.
LEMMA PlainProceeds ==
    ASSUME LadderTypes, Proposed, base_risk_for(authority) \in {"low", "medium"}
    PROVE  StatusUnder(ProposedRule(Recommended), PlainAction) \in Proceeding
<1>1. PICK r : r = ProposedRule(Recommended)
  OBVIOUS
<1>2. /\ Recommended \in AutonomyLevel /\ Recommended > 3
      /\ Recommended <= autonomy_ceiling_for(authority)
      /\ RuleLifts(current, r) /\ r.level = Recommended
  BY <1>1, ProposalLifts DEF EXECUTE_WITH_APPROVAL, ProposedRule
<1>3. Matches(r, PlainAction)
  BY <1>1, RuleApplies
<1>4. PlainAction.authority = authority /\ PlainAction.requires_execution = TRUE
  BY DEF PlainAction
<1>5. BoundariesMatching(default_boundary_rules, PlainAction) = {}
  <2>1. authority \notin CriticalRisk /\ authority \notin HighRisk
    BY DEF base_risk_for
  <2>2. /\ DOMAIN default_boundary_rules = 1 .. 5
        /\ \A i \in 1 .. 5 :
              /\ default_boundary_rules[i].authorities # {}
              /\ default_boundary_rules[i].authorities
                    \subseteq CriticalRisk \cup HighRisk
    BY DEF default_boundary_rules, Boundary, CriticalRisk, HighRisk
  <2> QED
    BY <1>4, <2>1, <2>2 DEF BoundariesMatching, BoundaryMatches
<1>6. evaluate_guards(r.guards, PlainAction) = {} /\ ~Flag(PlainAction, "anomaly")
  BY <1>1, PlainIsUnguarded
<1>7. EffectiveLevel(PlainAction, current, r) = Recommended
  <2>1. autonomy_ceiling_for(authority) \in AutonomyLevel
    BY Ceilings
  <2> QED
    BY <1>2, <1>4, <2>1 DEF EffectiveLevel, AutonomyLevel
<1>8. \A risk, sample :
         status_for_level(PlainAction, Recommended, risk, sample).status
            \in Proceeding
  <2>1. ASSUME NEW risk, NEW sample
        PROVE  status_for_level(PlainAction, Recommended, risk, sample).status
                  \in Proceeding
    <3>1. PICK n \in AutonomyLevel : n = Recommended /\ n > 3
      BY <1>2
    <3>2. status_for_level(PlainAction, n, risk, sample).status =
             IF n <= EXECUTE_WITH_APPROVAL THEN "approval_required"
             ELSE IF n = EXECUTE_WITH_SAMPLING THEN "sample_review"
             ELSE IF n >= EXCEPTION_BASED_SUPERVISION /\ Flag(PlainAction, "anomaly")
               THEN "escalate"
             ELSE "allowed"
      BY <1>4, Rungs
    <3> QED
      BY <1>6, <3>1, <3>2
      DEF Proceeding, AutonomyLevel, EXECUTE_WITH_APPROVAL, EXECUTE_WITH_SAMPLING
  <2> QED
    BY <2>1
<1>9. Evaluate(default_boundary_rules, PlainAction, current, r).status =
         LadderStatus(PlainAction, current, r)
  BY <1>5, <1>6, LadderDecides DEF Stopped
<1>10. LadderStatus(PlainAction, current, r) \in Proceeding
  BY <1>7, <1>8, Zenon DEF LadderStatus
<1>11. StatusUnder(r, PlainAction) =
         Evaluate(default_boundary_rules, PlainAction, current, r).status
  BY <1>3 DEF StatusUnder
<1> QED
  BY <1>1, <1>9, <1>10, <1>11

\* An action that shows a sign of danger does not proceed under it.
LEMMA DangerousStops ==
    ASSUME LadderTypes, Proposed, NEW e \in DangerousActions
    PROVE  StatusUnder(ProposedRule(Recommended), e) \notin Proceeding
<1>1. PICK r : r = ProposedRule(Recommended)
  OBVIOUS
<1>2. Matches(r, e) /\ RuleLifts(current, r) /\ evaluate_guards(r.guards, e) # {}
  BY <1>1, RuleApplies, ProposalLifts, DangerIsGuarded
<1>3. StatusUnder(r, e) = Evaluate(default_boundary_rules, e, current, r).status
  BY <1>2 DEF StatusUnder
<1>4. CASE BoundariesMatching(default_boundary_rules, e) # {}
  BY <1>1, <1>3, <1>4, DefaultBoundaryStops
<1>5. CASE BoundariesMatching(default_boundary_rules, e) = {}
  BY <1>1, <1>2, <1>3, <1>5, GuardStops DEF Proceeding
<1> QED
  BY <1>4, <1>5

\* The rule of _finalize, put to the policy engine for what the agent may want
\* to do, lets the plain actions proceed and none that shows a sign of danger.
THEOREM ApprovedProposalsTakeEffect == LadderSpec => []ProposalTakesEffect
<1>1. LadderTypes => ProposalTakesEffect
  <2>1. ASSUME LadderTypes, Proposed
        PROVE  ProposedRule(Recommended).level <= autonomy_ceiling_for(authority)
    BY <2>1, ProposalLifts DEF ProposedRule
  <2> QED
    BY <2>1, PlainProceeds, DangerousStops DEF ProposalTakesEffect
<1> QED
  BY <1>1, LadderTyped, PTL

=============================================================================
