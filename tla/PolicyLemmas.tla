---------------------------- MODULE PolicyLemmas ----------------------------
(***************************************************************************)
(* Facts about the operators of Policy, Trust and Ontology that several    *)
(* proofs cite.                                                            *)
(***************************************************************************)
EXTENDS Policy, Trust, FiniteSetTheorems, WellFoundedInduction, TLAPS

\* A non-empty set of natural numbers has a least element: the intervals 0 .. i
\* are finite, and strict inclusion of finite sets is well-founded.
LEMMA LeastNatural ==
    ASSUME NEW S, S \subseteq Nat, S # {}
    PROVE  \E i \in S : \A j \in S : i <= j
<1> DEFINE T == {0 .. i : i \in S}
<1>1. T \subseteq FiniteSubsetsOf(Nat) /\ T # {}
  <2>1. \A i \in S : (0 .. i) \in SUBSET Nat /\ IsFiniteSet(0 .. i)
    BY FS_Interval
  <2> QED
    BY <2>1 DEF FiniteSubsetsOf
<1>2. PICK x \in T : \A y \in T : <<y, x>> \notin StrictSubsetOrdering(Nat)
  BY <1>1, FS_StrictSubsetOrderingWellFounded, WFMin
<1>3. PICK i \in S : x = 0 .. i
  OBVIOUS
<1>4. ASSUME NEW j \in S PROVE i <= j
  <2> SUFFICES ASSUME j < i PROVE FALSE
    OBVIOUS
  <2>1. (0 .. j) \in T /\ (0 .. j) \in SUBSET Nat /\ (0 .. i) \in SUBSET Nat
    OBVIOUS
  <2>2. (0 .. j) \subseteq (0 .. i) /\ i \in 0 .. i /\ i \notin 0 .. j
    OBVIOUS
  <2>3. <<0 .. j, 0 .. i>> \in StrictSubsetOrdering(Nat)
    BY <2>1, <2>2 DEF StrictSubsetOrdering
  <2> QED
    BY <1>2, <1>3, <2>1, <2>3
<1> QED
  BY <1>4

\* The levels of the ladder and the ceilings are small numbers.
LEMMA Ceilings ==
    ASSUME NEW a
    PROVE  /\ autonomy_ceiling_for(a) \in AutonomyLevel
           /\ base_risk_for(a) = "critical"
                => autonomy_ceiling_for(a) <= EXECUTE_WITH_APPROVAL
BY DEF autonomy_ceiling_for, MAX_AUTONOMY_BY_RISK, base_risk_for, AutonomyLevel,
       OBSERVE_ONLY, EXECUTE_WITH_APPROVAL, EXECUTE_WITH_SAMPLING,
       CONDITIONAL_AUTONOMY, DELEGATED_AUTHORITY

(***************************************************************************)
(* The three ways Evaluate decides: a boundary, a guard, the ladder.       *)
(***************************************************************************)

\* None of the default boundary rules lets an event proceed.
LEMMA DefaultBoundaryStops ==
    ASSUME NEW e, NEW l, NEW r,
           BoundariesMatching(default_boundary_rules, e) # {}
    PROVE  Evaluate(default_boundary_rules, e, l, r).status \notin Proceeding
<1> DEFINE hit == BoundariesMatching(default_boundary_rules, e)
           first == CHOOSE i \in hit : \A j \in hit : i <= j
<1>1. /\ DOMAIN default_boundary_rules = 1 .. 5
      /\ \A i \in 1 .. 5 : default_boundary_rules[i].status \notin Proceeding
  BY DEF default_boundary_rules, Boundary, Proceeding
<1>2. hit \subseteq 1 .. 5 /\ hit \subseteq Nat
  BY <1>1 DEF BoundariesMatching
<1>3. \E i \in hit : \A j \in hit : i <= j
  BY <1>2, LeastNatural
<1>4. first \in hit
  BY <1>3
<1>5. default_boundary_rules[first].status \notin Proceeding
  BY <1>1, <1>2, <1>4
<1>6. Evaluate(default_boundary_rules, e, l, r).status =
         default_boundary_rules[first].status
  BY DEF Evaluate, Decision
<1> QED
  BY <1>5, <1>6

\* An event a guard stops needs approval.
LEMMA GuardStops ==
    ASSUME NEW bs, NEW e, NEW l, NEW r,
           BoundariesMatching(bs, e) = {},
           RuleLifts(l, r), evaluate_guards(r.guards, e) # {}
    PROVE  Evaluate(bs, e, l, r).status = "approval_required"
BY DEF Evaluate, Decision

\* Otherwise the ladder decides, at the effective level.
Stopped(e, l, r) == RuleLifts(l, r) /\ evaluate_guards(r.guards, e) # {}

LadderStatus(e, l, r) ==
    status_for_level(e, EffectiveLevel(e, l, r), ClassifiedRisk(e),
                     IF r = None THEN 0 ELSE r.sample_rate).status

LEMMA LadderDecides ==
    ASSUME NEW bs, NEW e, NEW l, NEW r,
           BoundariesMatching(bs, e) = {}, ~Stopped(e, l, r)
    PROVE  Evaluate(bs, e, l, r).status = LadderStatus(e, l, r)
BY DEF Evaluate, Stopped, LadderStatus

\* What an execution gets at each rung: approval up to the fourth, then a
\* sampled review, then it is allowed, or escalated when the top two rungs see
\* an anomaly.
LEMMA Rungs ==
    ASSUME NEW e, e.requires_execution = TRUE, NEW n \in AutonomyLevel,
           NEW risk, NEW sample
    PROVE  status_for_level(e, n, risk, sample).status =
             IF n <= EXECUTE_WITH_APPROVAL THEN "approval_required"
             ELSE IF n = EXECUTE_WITH_SAMPLING THEN "sample_review"
             ELSE IF n >= EXCEPTION_BASED_SUPERVISION /\ Flag(e, "anomaly")
               THEN "escalate"
             ELSE "allowed"
<1> USE DEF AutonomyLevel, OBSERVE_ONLY, DRAFT, EXECUTE_WITH_APPROVAL,
            EXECUTE_WITH_SAMPLING, CONDITIONAL_AUTONOMY,
            EXCEPTION_BASED_SUPERVISION, DELEGATED_AUTHORITY
<1>1. CASE n = 7
  BY <1>1 DEF status_for_level, Decision
<1>2. CASE n = 6
  BY <1>2 DEF status_for_level, Decision
<1>3. CASE n = 5
  BY <1>3 DEF status_for_level, Decision
<1>4. CASE n = 4
  BY <1>4 DEF status_for_level, Decision
<1>5. CASE n = 3
  BY <1>5 DEF status_for_level, Decision
<1>6. CASE n \in 0 .. 2
  BY <1>6 DEF status_for_level, Decision
<1> QED
  BY <1>1, <1>2, <1>3, <1>4, <1>5, <1>6

\* Without a rule, an agent below sampling executes nothing.
LEMMA LowNeedsRule ==
    ASSUME NEW e, e.requires_execution = TRUE, NEW level \in AutonomyLevel,
           level <= EXECUTE_WITH_APPROVAL
    PROVE  Evaluate(default_boundary_rules, e, level, None).status
              \notin Proceeding
<1>1. CASE BoundariesMatching(default_boundary_rules, e) # {}
  BY <1>1, DefaultBoundaryStops
<1>2. CASE BoundariesMatching(default_boundary_rules, e) = {}
  <2> DEFINE n == EffectiveLevel(e, level, None)
  <2>1. ~RuleLifts(level, None)
    BY DEF RuleLifts
  <2>2. Evaluate(default_boundary_rules, e, level, None).status =
           LadderStatus(e, level, None)
    BY <1>2, <2>1, LadderDecides DEF Stopped
  <2>3. n \in AutonomyLevel /\ n <= EXECUTE_WITH_APPROVAL
    BY <2>1, Ceilings DEF EffectiveLevel, AutonomyLevel, EXECUTE_WITH_APPROVAL
  <2>4. \A risk, sample :
           status_for_level(e, n, risk, sample).status = "approval_required"
    BY <2>3, Rungs
  <2>5. LadderStatus(e, level, None) = "approval_required"
    BY <2>4, Zenon DEF LadderStatus
  <2> QED
    BY <2>2, <2>5 DEF Proceeding
<1> QED
  BY <1>1, <1>2

(***************************************************************************)
(* The ontology gives every authority class a rank, the largest of the     *)
(* ranks of what it can affect.                                            *)
(***************************************************************************)
LEMMA RankIsNumber ==
    ASSUME NEW a \in AuthorityClass
    PROVE  consequence_rank(a) \in 0 .. 7
<1> DEFINE S == {CONSEQUENCE_RANK[c] : c \in consequences_for(a)}
           T == {7 - x : x \in S}
<1>1. S \subseteq 0 .. 7 /\ S # {}
  <2>1. /\ DOMAIN CONSEQUENCE_RANK =
              {"informational", "internal_only", "internal_record_change",
               "external_facing", "reputational", "customer_impacting",
               "security_sensitive", "financial", "regulated",
               "production_impacting", "legal", "irreversible"}
        /\ \A c \in DOMAIN CONSEQUENCE_RANK : CONSEQUENCE_RANK[c] \in 0 .. 7
    BY DEF CONSEQUENCE_RANK
  <2>2. consequences_for(a) \subseteq DOMAIN CONSEQUENCE_RANK
        /\ consequences_for(a) # {}
    BY <2>1 DEF consequences_for, AuthorityClass
  <2> HIDE DEF S
  <2>3. \A c \in consequences_for(a) : CONSEQUENCE_RANK[c] \in 0 .. 7
    BY <2>1, <2>2
  <2> QED
    BY <2>2, <2>3 DEF S
<1> HIDE DEF S
<1>2. T \subseteq Nat /\ T # {}
  <2>1. \A x \in 0 .. 7 : 7 - x \in Nat
    OBVIOUS
  <2>2. \A x \in S : 7 - x \in Nat
    BY <1>1, <2>1
  <2>3. PICK x \in S : TRUE
    BY <1>1
  <2>4. 7 - x \in T
    OBVIOUS
  <2> QED
    BY <2>2, <2>4
<1>3. PICK i \in T : \A j \in T : i <= j
  BY <1>2, LeastNatural
<1>4. PICK x \in S : i = 7 - x
  BY <1>3
<1>5. \A y \in S : x >= y
  <2> TAKE y \in S
  <2>1. 7 - y \in T
    OBVIOUS
  <2>2. 7 - x <= 7 - y
    BY <1>3, <1>4, <2>1
  <2>3. x \in 0 .. 7 /\ y \in 0 .. 7
    BY <1>1
  <2> QED
    BY <2>2, <2>3
<1>6. Max(S) \in S
  BY <1>5 DEF Max
<1> QED
  BY <1>1, <1>6 DEF consequence_rank, S

(***************************************************************************)
(* The lower bound of the clean rate.  With x = 100 clean - percent n the  *)
(* bound is met from 625 x^2 = 2401 percent (100 - percent) n on; the only *)
(* products of two unknowns are the squares of x.                          *)
(***************************************************************************)
LEMMA Square ==
    ASSUME NEW x \in Nat, NEW y \in Nat, x <= y
    PROVE  x * x <= y * y
<1>1. x * x <= x * y
  OBVIOUS
<1>2. x * y <= y * y
  OBVIOUS
<1> QED
  BY <1>1, <1>2

LEMMA CeilTimes ==
    ASSUME NEW a \in Nat, NEW b \in Nat
    PROVE  b >= CeilDiv(a, 625) <=> 625 * b >= a
BY DEF CeilDiv

\* What the thresholds of the recommendation engine mean, without division.
Excess(clean, n, percent) == 100 * clean - percent * n

Reached(clean, n, percent) ==
    /\ n > 0 /\ Excess(clean, n, percent) \in Nat
    /\ 625 * (Excess(clean, n, percent) * Excess(clean, n, percent))
          >= 2401 * (percent * (100 - percent)) * n

LEMMA BoundMeans ==
    ASSUME NEW clean \in Nat, NEW n \in Nat, NEW percent \in {80, 88, 93, 95}
    PROVE  LowerBoundAtLeast(clean, n, percent) <=> Reached(clean, n, percent)
<1>1. PICK x \in Int : x = 100 * clean - percent * n
  <2>1. 100 * clean - percent * n \in Int
    BY Z3
  <2> QED
    BY <2>1
<1>2. PICK a \in Nat : a = 2401 * percent * (100 - percent) * n
                       /\ a = 2401 * (percent * (100 - percent)) * n
  BY Z3
<1>3. CASE x < 0
  BY <1>1, <1>3 DEF LowerBoundAtLeast, Reached, Excess
<1>4. CASE x >= 0
  <2>1. PICK b \in Nat : b = x * x
    BY <1>4
  <2>2. b >= CeilDiv(a, 625) <=> 625 * b >= a
    BY CeilTimes
  <2>3. LowerBoundAtLeast(clean, n, percent) <=>
           n > 0 /\ x >= 0 /\ b >= CeilDiv(a, 625)
    BY <1>1, <1>2, <2>1 DEF LowerBoundAtLeast
  <2>4. Reached(clean, n, percent) <=> n > 0 /\ x >= 0 /\ 625 * b >= a
    BY <1>1, <1>2, <1>4, <2>1 DEF Reached, Excess
  <2> QED
    BY <1>4, <2>2, <2>3, <2>4
<1> QED
  BY <1>3, <1>4

\* Sixteen clean decisions in a row are the fewest that reach the first rung.
LEMMA SixteenAtLeast ==
    ASSUME NEW clean \in Nat, NEW n \in Nat, clean <= n,
           LowerBoundAtLeast(clean, n, 80)
    PROVE  clean >= 16
<1>1. Reached(clean, n, 80)
  BY BoundMeans
<1>2. PICK x \in Nat : /\ n > 0 /\ x = 100 * clean - 80 * n
                       /\ 625 * (x * x) >= 2401 * 1600 * n
  <2>1. /\ n > 0 /\ Excess(clean, n, 80) \in Nat
        /\ 625 * (Excess(clean, n, 80) * Excess(clean, n, 80)) >= 2401 * 1600 * n
    BY <1>1 DEF Reached
  <2>2. Excess(clean, n, 80) = 100 * clean - 80 * n
    BY DEF Excess
  <2> QED
    BY <2>1, <2>2
<1>3. x <= 20 * clean
  BY <1>2
<1>4. PICK e \in Nat : e = x * x
  BY <1>3
<1>5. e <= (20 * clean) * (20 * clean)
  BY <1>3, <1>4, Square
<1>6. SUFFICES ASSUME clean <= 15 PROVE FALSE
  OBVIOUS
<1>7. clean * clean <= 15 * clean
  BY <1>6
<1>8. e <= 6000 * clean
  BY <1>5, <1>7
<1>9. 625 * e >= 3841600 * n
  BY <1>2, <1>4
<1> QED
  BY <1>2, <1>8, <1>9

\* One more clean decision keeps a bound that was met, from the sample sizes
\* on that the engine asks for at each threshold.
LEMMA BoundGrows ==
    ASSUME NEW clean \in Nat, NEW n \in Nat, NEW percent \in {80, 88, 93, 95},
           n >= IF percent = 80 THEN 8 ELSE 20,
           LowerBoundAtLeast(clean, n, percent)
    PROVE  LowerBoundAtLeast(clean + 1, n + 1, percent)
<1>1. Reached(clean, n, percent)
  BY BoundMeans
<1>2. PICK x \in Nat : /\ n > 0 /\ x = Excess(clean, n, percent)
                       /\ 625 * (x * x) >= 2401 * (percent * (100 - percent)) * n
  BY <1>1 DEF Reached
<1>3. PICK e \in Nat : e = x * x
  BY <1>2
<1>4. x >= IF percent = 80 THEN 151 ELSE 181
  <2>1. CASE percent = 80
    <3>1. x <= 150 => e <= 150 * 150
      BY <1>2, <1>3, Square
    <3>2. 625 * e >= 2401 * 80 * 20 * 8
      BY <1>2, <1>3, <2>1
    <3> QED
      BY <1>1, <2>1, <3>1, <3>2
  <2>2. CASE percent # 80
    <3>1. x <= 180 => e <= 180 * 180
      BY <1>2, <1>3, Square
    <3>2. 625 * e >= 2401 * 475 * 20
      BY <1>2, <1>3, <2>2
    <3> QED
      BY <1>1, <2>2, <3>1, <3>2
  <2> QED
    BY <2>1, <2>2
<1>5. PICK q \in Nat : q = 100 - percent
  OBVIOUS
<1>6. PICK y \in Nat : y = x + q /\ y = Excess(clean + 1, n + 1, percent)
  <2>1. Excess(clean + 1, n + 1, percent) = x + q
    BY <1>2, <1>5 DEF Excess
  <2> QED
    BY <2>1
<1>7. PICK u \in Nat : u = 2 * (x * q) + q * q
  OBVIOUS
<1>8. y * y = e + u
  BY <1>3, <1>6, <1>7
<1>9. 625 * u >= 2401 * (percent * q)
  BY <1>4, <1>5, <1>7
<1>10. 625 * (y * y) >= 2401 * (percent * (100 - percent)) * (n + 1)
  BY <1>2, <1>3, <1>5, <1>8, <1>9
<1>11. Reached(clean + 1, n + 1, percent)
  BY <1>6, <1>10 DEF Reached
<1> QED
  BY <1>11, BoundMeans

=============================================================================
