----------------------- MODULE DelegationMemoryProofs -----------------------
(***************************************************************************)
(* What is proved about DelegationMemory, for every set of threads, events *)
(* and statistics objects and every bound on the calls.                    *)
(***************************************************************************)
EXTENDS DelegationMemory, FiniteSetTheorems, TLAPS

(***************************************************************************)
(* Counters.                                                               *)
(***************************************************************************)
Approves == {"approved", "converted_to_delegation_rule"}

\* Every outcome is one decision; it is a clean approval or it is not.
LEMMA CountedOnce ==
    ASSUME NEW s \in TrustStats, NEW out \in ApprovalOutcome
    PROVE  /\ Counted(s, out) \in TrustStats
           /\ total_decisions(Counted(s, out)) = total_decisions(s) + 1
           /\ Counted(s, out).clean = s.clean + (IF out \in Approves THEN 1 ELSE 0)
           /\ Counted(s, out).incidents = s.incidents
<1>1. /\ s.clean \in Nat /\ s.modified \in Nat /\ s.rejections \in Nat
      /\ s.escalations \in Nat /\ s.evidence_requests \in Nat /\ s.incidents \in Nat
  BY DEF TrustStats
<1>2. CASE out \in Approves
  <2>1. Counted(s, out) = [s EXCEPT !.clean = @ + 1]
    BY <1>2 DEF Counted, Approves
  <2> QED
    BY <1>1, <1>2, <2>1 DEF TrustStats, total_decisions
<1>3. CASE out = "modified_and_approved"
  <2>1. Counted(s, out) = [s EXCEPT !.modified = @ + 1] /\ out \notin Approves
    BY <1>3 DEF Counted, Approves
  <2> QED
    BY <1>1, <2>1 DEF TrustStats, total_decisions
<1>4. CASE out = "rejected"
  <2>1. Counted(s, out) = [s EXCEPT !.rejections = @ + 1] /\ out \notin Approves
    BY <1>4 DEF Counted, Approves
  <2> QED
    BY <1>1, <2>1 DEF TrustStats, total_decisions
<1>5. CASE out = "escalated"
  <2>1. Counted(s, out) = [s EXCEPT !.escalations = @ + 1] /\ out \notin Approves
    BY <1>5 DEF Counted, Approves
  <2> QED
    BY <1>1, <2>1 DEF TrustStats, total_decisions
<1>6. CASE out = "more_evidence_requested"
  <2>1. Counted(s, out) = [s EXCEPT !.evidence_requests = @ + 1] /\ out \notin Approves
    BY <1>6 DEF Counted, Approves
  <2> QED
    BY <1>1, <2>1 DEF TrustStats, total_decisions
<1> QED
  BY <1>2, <1>3, <1>4, <1>5, <1>6 DEF ApprovalOutcome, Approves

\* An incident is no decision.
LEMMA IncidentCounted ==
    ASSUME NEW s \in TrustStats
    PROVE  /\ WithIncident(s) \in TrustStats
           /\ total_decisions(WithIncident(s)) = total_decisions(s)
           /\ WithIncident(s).clean = s.clean
           /\ WithIncident(s).incidents = s.incidents + 1
BY DEF WithIncident, TrustStats, total_decisions

LEMMA FreshStats ==
    /\ NewStats \in TrustStats /\ total_decisions(NewStats) = 0
    /\ NewStats.clean = 0 /\ NewStats.incidents = 0
BY DEF NewStats, TrustStats, total_decisions

LEMMA StatsNumbers ==
    ASSUME NEW s \in TrustStats
    PROVE  total_decisions(s) \in Nat /\ s.clean \in Nat /\ s.incidents \in Nat
BY DEF TrustStats, total_decisions

(***************************************************************************)
(* The calls under way.                                                    *)
(***************************************************************************)
\* Between get and its return a call holds a constructed object; a decision
\* keeps its outcome, and its event counts as approved from the submission on.
CallsOK ==
    \A th \in Thread :
        /\ pc[th] \in {"install", "returned", "count"} =>
              held[th] \in Object /\ heap[held[th]] # None
        /\ event[th] # None => outcome[th] \in Outcome
        /\ event[th] # None /\ outcome[th] \in Approves => event[th] \in approvals
        /\ pc[th] = "count" => event[th] # None

\* What a step of one thread leaves to the others.
Others(th) ==
    \A u \in Thread : u # th =>
        /\ pc'[u] = pc[u] /\ held'[u] = held[u] /\ event'[u] = event[u]
        /\ outcome'[u] = outcome[u] /\ settled'[u] = settled[u]

\* The statistics object a step writes, if any.
Writes(o, r) == heap' = [heap EXCEPT ![o] = r]

Kept(th) == event'[th] = event[th] /\ outcome'[th] = outcome[th]

SameCall(th) == Kept(th) /\ settled' = settled

LEMMA Written ==
    ASSUME TypeOK, NEW o \in Object, NEW r \in StatsObject, Writes(o, r)
    PROVE  /\ heap' \in [Object -> StatsObject \cup {None}]
           /\ heap'[o] = r /\ r # None
           /\ \A p \in Object : p # o => heap'[p] = heap[p]
           /\ \A p \in Object : heap[p] # None => heap'[p] # None
<1>1. r # None
  BY DelegationAssumption
<1> QED
  BY <1>1 DEF Writes, TypeOK

LEMMA BeginEffect ==
    ASSUME TypeOK, NEW th \in Thread, NEW e \in EventId \cup {None},
           NEW out \in Outcome \cup {None}, Begin(th, e, out)
    PROVE  /\ Others(th) /\ held'[th] = held[th]
           /\ pc[th] = "idle" /\ pc'[th] = "get"
           /\ event'[th] = e /\ outcome'[th] = out /\ settled'[th] = Touched
           /\ stats' = stats /\ heap' = heap
           /\ accepted' = accepted /\ incidents' = incidents
<1>1. /\ pc \in [Thread -> Step] /\ event \in [Thread -> EventId \cup {None}]
      /\ outcome \in [Thread -> Outcome \cup {None}] /\ settled \in [Thread -> BOOLEAN]
  BY DEF TypeOK
<1>2. settled' = [settled EXCEPT ![th] = Touched] /\ Touched \in BOOLEAN
  BY DEF Begin, Touched
<1>3. settled'[th] = Touched /\ \A u \in Thread : u # th => settled'[u] = settled[u]
  <2> HIDE DEF Touched
  <2> QED
    BY <1>1, <1>2
<1> QED
  BY <1>1, <1>3 DEF Begin, Others

LEMMA Went ==
    ASSUME TypeOK, NEW th \in Thread, NEW step, Goto(th, step), settled' = settled,
           NEW o, held' = [held EXCEPT ![th] = o]
    PROVE  /\ Others(th) /\ SameCall(th) /\ pc'[th] = step /\ held'[th] = o
<1>1. pc \in [Thread -> Step] /\ held \in [Thread -> Object \cup {None}]
  BY DEF TypeOK
<1> QED
  BY <1>1 DEF Goto, Others, SameCall, Kept

LEMMA WentHolding ==
    ASSUME TypeOK, NEW th \in Thread, NEW step, Goto(th, step), settled' = settled,
           held' = held
    PROVE  /\ Others(th) /\ SameCall(th) /\ pc'[th] = step /\ held'[th] = held[th]
<1>1. pc \in [Thread -> Step]
  BY DEF TypeOK
<1> QED
  BY <1>1 DEF Goto, Others, SameCall, Kept

LEMMA GetHitEffect ==
    ASSUME TypeOK, NEW th \in Thread, GetHit(th)
    PROVE  /\ Others(th) /\ SameCall(th) /\ pc[th] = "get" /\ pc'[th] = "returned"
           /\ held'[th] = stats /\ stats \in Object /\ heap[stats] # None
           /\ stats' = stats /\ heap' = heap
           /\ approvals' = approvals /\ accepted' = accepted /\ incidents' = incidents
<1>1. stats # None /\ stats \in Object /\ heap[stats] # None
  BY DEF GetHit, TypeOK
<1> QED
  BY <1>1, Went DEF GetHit, history

\* The object a first touch constructs is held by its thread alone.
LEMMA GetMissEffect ==
    ASSUME TypeOK, CallsOK, NEW th \in Thread, NEW o \in Object, GetMiss(th, o)
    PROVE  /\ Others(th) /\ SameCall(th) /\ pc[th] = "get" /\ pc'[th] = "install"
           /\ held'[th] = o /\ stats = None /\ stats' = None
           /\ heap[o] = None /\ Writes(o, [count |-> NewStats, decided |-> {}])
           /\ [count |-> NewStats, decided |-> {}] \in StatsObject
           /\ \A u \in Thread :
                 pc[u] \in {"install", "returned", "count"} => held[u] # o
           /\ approvals' = approvals /\ accepted' = accepted /\ incidents' = incidents
<1>1. [count |-> NewStats, decided |-> {}] \in StatsObject
  BY FreshStats DEF StatsObject
<1>2. heap' = [heap EXCEPT ![o] = [count |-> NewStats, decided |-> {}]]
  BY DEF GetMiss
<1>3. Writes(o, [count |-> NewStats, decided |-> {}])
  BY <1>2 DEF TypeOK, Writes
<1> QED
  BY <1>1, <1>3, Went DEF GetMiss, history, CallsOK

LEMMA InstallEffect ==
    ASSUME TypeOK, CallsOK, NEW th \in Thread, Install(th)
    PROVE  /\ Others(th) /\ SameCall(th) /\ pc[th] = "install" /\ pc'[th] = "returned"
           /\ held'[th] = held[th] /\ stats' = held[th]
           /\ held[th] \in Object /\ heap[held[th]] # None /\ heap' = heap
           /\ approvals' = approvals /\ accepted' = accepted /\ incidents' = incidents
BY WentHolding DEF Install, history, CallsOK

LEMMA RefuseReplayEffect ==
    ASSUME TypeOK, NEW th \in Thread, RefuseReplay(th)
    PROVE  /\ Others(th) /\ SameCall(th) /\ pc[th] = "returned" /\ pc'[th] = "idle"
           /\ held'[th] = held[th] /\ stats' = stats /\ heap' = heap
           /\ approvals' = approvals /\ accepted' = accepted /\ incidents' = incidents
BY WentHolding DEF RefuseReplay, history

\* The object a call holds, as a record.
LEMMA HeldObject ==
    ASSUME TypeOK, CallsOK, NEW th \in Thread,
           pc[th] \in {"install", "returned", "count"}
    PROVE  /\ held[th] \in Object /\ heap[held[th]] # None
           /\ heap[held[th]] \in StatsObject
           /\ heap[held[th]].count \in TrustStats
           /\ heap[held[th]].decided \in SUBSET EventId
<1>1. held[th] \in Object /\ heap[held[th]] # None
  BY DEF CallsOK
<1>2. heap[held[th]] \in StatsObject
  BY <1>1 DEF TypeOK
<1> QED
  BY <1>1, <1>2 DEF StatsObject

LEMMA AppendDecidedEffect ==
    ASSUME TypeOK, CallsOK, NEW th \in Thread, AppendDecided(th),
           NEW o, o = held[th], NEW e, e = event[th]
    PROVE  /\ Others(th) /\ SameCall(th) /\ pc[th] = "returned" /\ pc'[th] = "count"
           /\ held'[th] = o /\ stats' = stats
           /\ e \in EventId /\ e \notin heap[o].decided
           /\ \E r \in StatsObject : /\ Writes(o, r) /\ r.count = heap[o].count
                                     /\ r.decided = heap[o].decided \cup {e}
           /\ approvals' = approvals /\ incidents' = incidents
           /\ accepted' \in [EventId -> Nat]
           /\ accepted'[e] = IF settled[th] THEN accepted[e] + 1 ELSE accepted[e]
           /\ \A d \in EventId : d # e => accepted'[d] = accepted[d]
<1>1. /\ o \in Object /\ heap[o] \in StatsObject
  BY HeldObject DEF AppendDecided
<1>2. e \in EventId
  BY DEF AppendDecided, TypeOK
<1> DEFINE r == [heap[o] EXCEPT !.decided = @ \cup {e}]
<1>3. r \in StatsObject /\ r.count = heap[o].count /\ r.decided = heap[o].decided \cup {e}
  BY <1>1, <1>2 DEF StatsObject
<1>4. heap' = [heap EXCEPT ![o] = r]
  BY DEF AppendDecided
<1> HIDE DEF r
<1>5. Writes(o, r)
  BY <1>1, <1>4 DEF Writes, TypeOK
<1>6. accepted' = [accepted EXCEPT ![e] = IF settled[th] THEN @ + 1 ELSE @]
  BY DEF AppendDecided
<1>7. /\ accepted' \in [EventId -> Nat]
      /\ accepted'[e] = IF settled[th] THEN accepted[e] + 1 ELSE accepted[e]
      /\ \A d \in EventId : d # e => accepted'[d] = accepted[d]
  BY <1>2, <1>6 DEF TypeOK
<1>8. /\ Others(th) /\ SameCall(th) /\ pc[th] = "returned" /\ pc'[th] = "count"
      /\ held'[th] = o /\ stats' = stats /\ approvals' = approvals
      /\ incidents' = incidents /\ e \notin heap[o].decided
  BY WentHolding DEF AppendDecided, Decided
<1> QED
  BY <1>2, <1>3, <1>5, <1>7, <1>8

LEMMA CountOutcomeEffect ==
    ASSUME TypeOK, CallsOK, NEW th \in Thread, CountOutcome(th),
           NEW o, o = held[th]
    PROVE  /\ Others(th) /\ SameCall(th) /\ pc[th] = "count" /\ pc'[th] = "idle"
           /\ held'[th] = o /\ stats' = stats
           /\ \E r \in StatsObject : /\ Writes(o, r) /\ r.decided = heap[o].decided
                                     /\ r.count = Counted(heap[o].count, outcome[th])
           /\ outcome[th] \in ApprovalOutcome
           /\ approvals' = approvals /\ incidents' = incidents /\ accepted' = accepted
<1>1. /\ o \in Object /\ heap[o] \in StatsObject /\ heap[o].count \in TrustStats
  BY HeldObject DEF CountOutcome
<1>2. outcome[th] \in ApprovalOutcome
  BY DelegationAssumption DEF CountOutcome, CallsOK
<1>3. Counted(heap[o].count, outcome[th]) \in TrustStats
  BY <1>1, <1>2, CountedOnce
<1> DEFINE r == [heap[o] EXCEPT !.count = Counted(@, outcome[th])]
<1>4. /\ r \in StatsObject /\ r.decided = heap[o].decided
      /\ r.count = Counted(heap[o].count, outcome[th])
  BY <1>1, <1>3 DEF StatsObject
<1>5. heap' = [heap EXCEPT ![o] = r]
  BY DEF CountOutcome
<1> HIDE DEF r
<1>6. Writes(o, r)
  BY <1>1, <1>5 DEF Writes, TypeOK
<1>7. /\ Others(th) /\ SameCall(th) /\ pc[th] = "count" /\ pc'[th] = "idle"
      /\ held'[th] = o /\ stats' = stats
      /\ approvals' = approvals /\ incidents' = incidents /\ accepted' = accepted
  BY WentHolding DEF CountOutcome, history
<1> QED
  BY <1>2, <1>4, <1>6, <1>7

LEMMA CountIncidentEffect ==
    ASSUME TypeOK, CallsOK, NEW th \in Thread, CountIncident(th),
           NEW o, o = held[th]
    PROVE  /\ Others(th) /\ SameCall(th) /\ pc[th] = "returned" /\ pc'[th] = "idle"
           /\ held'[th] = o /\ stats' = stats
           /\ \E r \in StatsObject : /\ Writes(o, r) /\ r.decided = heap[o].decided
                                     /\ r.count = WithIncident(heap[o].count)
           /\ approvals' = approvals /\ accepted' = accepted
           /\ incidents' = IF settled[th] THEN incidents + 1 ELSE incidents
<1>1. /\ o \in Object /\ heap[o] \in StatsObject /\ heap[o].count \in TrustStats
  BY HeldObject DEF CountIncident
<1>2. WithIncident(heap[o].count) \in TrustStats
  BY <1>1, IncidentCounted
<1> DEFINE r == [heap[o] EXCEPT !.count = WithIncident(@)]
<1>3. /\ r \in StatsObject /\ r.decided = heap[o].decided
      /\ r.count = WithIncident(heap[o].count)
  BY <1>1, <1>2 DEF StatsObject
<1>4. heap' = [heap EXCEPT ![o] = r]
  BY DEF CountIncident
<1> HIDE DEF r
<1>5. Writes(o, r)
  BY <1>1, <1>4 DEF Writes, TypeOK
<1>6. /\ Others(th) /\ SameCall(th) /\ pc[th] = "returned" /\ pc'[th] = "idle"
      /\ held'[th] = o /\ stats' = stats
      /\ approvals' = approvals /\ accepted' = accepted
      /\ incidents' = IF settled[th] THEN incidents + 1 ELSE incidents
  BY WentHolding DEF CountIncident
<1> QED
  BY <1>3, <1>5, <1>6

(***************************************************************************)
(* Type correctness, with the invariant of the calls it needs: installing  *)
(* an object is type correct because the object was constructed.           *)
(***************************************************************************)
LEMMA Moves ==
    ASSUME TypeOK, NEW th \in Thread, NEW step \in Step, Goto(th, step)
    PROVE  /\ pc' \in [Thread -> Step]
           /\ event' \in [Thread -> EventId \cup {None}]
           /\ outcome' \in [Thread -> Outcome \cup {None}]
BY DEF Goto, TypeOK

LEMMA StepNames ==
    /\ "idle" \in Step /\ "get" \in Step /\ "install" \in Step
    /\ "returned" \in Step /\ "count" \in Step
BY DEF Step

LEMMA TypeStep ==
    ASSUME TypeOK, CallsOK, [Next]_vars
    PROVE  TypeOK'
<1>1. ASSUME NEW th \in Thread, NEW e \in EventId \cup {None},
             NEW out \in Outcome \cup {None}, Begin(th, e, out), approvals' \subseteq EventId
      PROVE  TypeOK'
  <2>1. /\ pc' \in [Thread -> Step]
        /\ event' \in [Thread -> EventId \cup {None}]
        /\ outcome' \in [Thread -> Outcome \cup {None}]
        /\ calls' \in Nat
    BY <1>1, StepNames DEF Begin, TypeOK
  <2>2. settled' \in [Thread -> BOOLEAN]
    <3>1. settled' = [settled EXCEPT ![th] = Touched] /\ Touched \in BOOLEAN
      BY <1>1 DEF Begin, Touched
    <3> HIDE DEF Touched
    <3> QED
      BY <3>1 DEF TypeOK
  <2> QED
    BY <1>1, <2>1, <2>2 DEF Begin, TypeOK
<1>2. ASSUME NEW th \in Thread, GetHit(th)
      PROVE  TypeOK'
  <2>1. held' \in [Thread -> Object \cup {None}]
    BY <1>2 DEF GetHit, TypeOK
  <2>2. Goto(th, "returned") /\ UNCHANGED <<stats, heap, calls, history>>
    BY <1>2 DEF GetHit
  <2> QED
    BY <2>1, <2>2, Moves, StepNames DEF TypeOK, history
<1>3. ASSUME NEW th \in Thread, NEW o \in Object, GetMiss(th, o)
      PROVE  TypeOK'
  <2>1. held' \in [Thread -> Object \cup {None}]
    BY <1>3 DEF GetMiss, TypeOK
  <2>2. Goto(th, "install") /\ UNCHANGED <<stats, calls, history>>
    BY <1>3 DEF GetMiss
  <2>3. heap' \in [Object -> StatsObject \cup {None}] /\ stats = None
    BY <1>3, GetMissEffect, Written
  <2> QED
    BY <2>1, <2>2, <2>3, Moves, StepNames DEF TypeOK, history
<1>4. ASSUME NEW th \in Thread, Install(th)
      PROVE  TypeOK'
  <2>1. stats' \in Object /\ heap'[stats'] # None
    BY <1>4, InstallEffect
  <2>2. Goto(th, "returned") /\ UNCHANGED <<heap, held, calls, history>>
    BY <1>4 DEF Install
  <2> QED
    BY <2>1, <2>2, Moves, StepNames DEF TypeOK, history
<1>5. ASSUME NEW th \in Thread, RefuseReplay(th)
      PROVE  TypeOK'
  <2>1. Goto(th, "idle") /\ UNCHANGED <<stats, heap, held, calls, history>>
    BY <1>5 DEF RefuseReplay
  <2> QED
    BY <2>1, Moves, StepNames DEF TypeOK, history
<1>6. ASSUME NEW th \in Thread, AppendDecided(th)
      PROVE  TypeOK'
  <2>1. /\ Goto(th, "count")
        /\ UNCHANGED <<stats, held, calls, approvals, settled, incidents>>
    BY <1>6 DEF AppendDecided
  <2>2. held[th] \in Object
    BY <1>6, HeldObject DEF AppendDecided
  <2>3. /\ \E r \in StatsObject : Writes(held[th], r)
        /\ accepted' \in [EventId -> Nat]
    BY <1>6, AppendDecidedEffect
  <2>4. /\ heap' \in [Object -> StatsObject \cup {None}]
        /\ \A p \in Object : heap[p] # None => heap'[p] # None
    BY <2>2, <2>3, Written
  <2> QED
    BY <2>1, <2>3, <2>4, Moves, StepNames DEF TypeOK
<1>7. ASSUME NEW th \in Thread, CountOutcome(th)
      PROVE  TypeOK'
  <2>1. Goto(th, "idle") /\ UNCHANGED <<stats, held, calls, history>>
    BY <1>7 DEF CountOutcome
  <2>2. held[th] \in Object
    BY <1>7, HeldObject DEF CountOutcome
  <2>3. \E r \in StatsObject : Writes(held[th], r)
    BY <1>7, CountOutcomeEffect
  <2>4. /\ heap' \in [Object -> StatsObject \cup {None}]
        /\ \A p \in Object : heap[p] # None => heap'[p] # None
    BY <2>2, <2>3, Written
  <2> QED
    BY <2>1, <2>4, Moves, StepNames DEF TypeOK, history
<1>8. ASSUME NEW th \in Thread, CountIncident(th)
      PROVE  TypeOK'
  <2>1. /\ Goto(th, "idle")
        /\ UNCHANGED <<stats, held, calls, approvals, settled, accepted>>
        /\ incidents' \in Nat
    BY <1>8 DEF CountIncident, TypeOK
  <2>2. held[th] \in Object
    BY <1>8, HeldObject DEF CountIncident
  <2>3. \E r \in StatsObject : Writes(held[th], r)
    BY <1>8, CountIncidentEffect
  <2>4. /\ heap' \in [Object -> StatsObject \cup {None}]
        /\ \A p \in Object : heap[p] # None => heap'[p] # None
    BY <2>2, <2>3, Written
  <2> QED
    BY <2>1, <2>4, Moves, StepNames DEF TypeOK
<1>9. CASE UNCHANGED vars
  BY <1>9 DEF vars, callVars, history, TypeOK
<1>10. ASSUME NEW th \in Thread, NEW e \in EventId, NEW out \in Outcome,
              ApplyDecision(th, e, out)
       PROVE  TypeOK'
  BY <1>1, <1>10 DEF ApplyDecision, TypeOK
<1>11. ASSUME NEW th \in Thread, RecordIncident(th)
       PROVE  TypeOK'
  BY <1>1, <1>11 DEF RecordIncident, TypeOK
<1> QED
  BY <1>2, <1>3, <1>4, <1>5, <1>6, <1>7, <1>8, <1>9, <1>10, <1>11 DEF Next, Advance

\* The steps of one thread, the calls it begins and the steps within them.
Beginning(th) ==
    \/ \E e \in EventId, out \in Outcome : ApplyDecision(th, e, out)
    \/ RecordIncident(th)

LEMMA Steps ==
    ASSUME [Next]_vars
    PROVE  UNCHANGED vars \/ \E th \in Thread : Beginning(th) \/ Advance(th)
BY DEF Next, Beginning

LEMMA BeginningEffect ==
    ASSUME TypeOK, NEW th \in Thread, Beginning(th)
    PROVE  /\ Others(th) /\ held'[th] = held[th]
           /\ pc[th] = "idle" /\ pc'[th] = "get" /\ settled'[th] = Touched
           /\ stats' = stats /\ heap' = heap
           /\ accepted' = accepted /\ incidents' = incidents
           /\ approvals \subseteq approvals'
           /\ approvals' = approvals \/ \E e \in EventId : approvals' = approvals \cup {e}
           /\ event'[th] # None =>
                 /\ outcome'[th] \in Outcome
                 /\ outcome'[th] \in Approves => event'[th] \in approvals'
<1>1. ASSUME NEW e \in EventId, NEW out \in Outcome, ApplyDecision(th, e, out)
      PROVE  /\ approvals \subseteq approvals'
             /\ approvals' = approvals \/ approvals' = approvals \cup {e}
             /\ out \in Approves => e \in approvals'
             /\ Begin(th, e, out)
  BY <1>1 DEF ApplyDecision, Approves
<1>2. ASSUME RecordIncident(th)
      PROVE  approvals' = approvals /\ Begin(th, None, None)
  BY <1>2 DEF RecordIncident
<1>3. CASE RecordIncident(th)
  BY <1>2, <1>3, BeginEffect
<1>4. ASSUME NEW e \in EventId, NEW out \in Outcome, ApplyDecision(th, e, out)
      PROVE  /\ Others(th) /\ held'[th] = held[th]
             /\ pc[th] = "idle" /\ pc'[th] = "get" /\ settled'[th] = Touched
             /\ stats' = stats /\ heap' = heap
             /\ accepted' = accepted /\ incidents' = incidents
             /\ event'[th] = e /\ outcome'[th] = out
  BY <1>1, <1>4, BeginEffect
<1> QED
  BY <1>1, <1>3, <1>4 DEF Beginning

\* Objects never vanish, and a call that got one keeps it.
LEMMA AdvanceFrame ==
    ASSUME TypeOK, CallsOK, NEW th \in Thread, Advance(th)
    PROVE  /\ Others(th) /\ SameCall(th) /\ approvals' = approvals
           /\ \A p \in Object : heap[p] # None => heap'[p] # None
           /\ pc'[th] \in {"install", "returned", "count"} =>
                 held'[th] \in Object /\ heap'[held'[th]] # None
           /\ pc'[th] = "count" => event'[th] # None
<1>1. CASE GetHit(th)
  BY <1>1, GetHitEffect
<1>2. ASSUME NEW o \in Object, GetMiss(th, o)
      PROVE  /\ Others(th) /\ SameCall(th) /\ approvals' = approvals
             /\ \A p \in Object : heap[p] # None => heap'[p] # None
             /\ pc'[th] = "install"
             /\ held'[th] \in Object /\ heap'[held'[th]] # None
  BY <1>2, GetMissEffect, Written
<1>3. CASE Install(th)
  BY <1>3, InstallEffect
<1>4. CASE RefuseReplay(th)
  BY <1>4, RefuseReplayEffect
<1>5. CASE AppendDecided(th)
  <2>1. held[th] \in Object /\ heap[held[th]] # None
    BY <1>5, HeldObject DEF AppendDecided
  <2>2. /\ Others(th) /\ SameCall(th) /\ approvals' = approvals
        /\ held'[th] = held[th] /\ event[th] \in EventId
        /\ \E r \in StatsObject : Writes(held[th], r)
    BY <1>5, AppendDecidedEffect
  <2>3. \A p \in Object : heap[p] # None => heap'[p] # None
    BY <2>1, <2>2, Written
  <2>4. event[th] # None
    BY <1>5 DEF AppendDecided
  <2> QED
    BY <2>1, <2>2, <2>3, <2>4 DEF SameCall, Kept
<1>6. CASE CountOutcome(th)
  <2>1. held[th] \in Object
    BY <1>6, HeldObject DEF CountOutcome
  <2>2. /\ Others(th) /\ SameCall(th) /\ approvals' = approvals /\ pc'[th] = "idle"
        /\ \E r \in StatsObject : Writes(held[th], r)
    BY <1>6, CountOutcomeEffect
  <2> QED
    BY <2>1, <2>2, Written
<1>7. CASE CountIncident(th)
  <2>1. held[th] \in Object
    BY <1>7, HeldObject DEF CountIncident
  <2>2. /\ Others(th) /\ SameCall(th) /\ approvals' = approvals /\ pc'[th] = "idle"
        /\ \E r \in StatsObject : Writes(held[th], r)
    BY <1>7, CountIncidentEffect
  <2> QED
    BY <2>1, <2>2, Written
<1> QED
  BY <1>1, <1>2, <1>3, <1>4, <1>5, <1>6, <1>7 DEF Advance

LEMMA CallsStep ==
    ASSUME TypeOK, CallsOK, [Next]_vars
    PROVE  CallsOK'
<1> DEFINE OK(u) ==
        /\ pc[u] \in {"install", "returned", "count"} =>
              held[u] \in Object /\ heap[held[u]] # None
        /\ event[u] # None => outcome[u] \in Outcome
        /\ event[u] # None /\ outcome[u] \in Approves => event[u] \in approvals
        /\ pc[u] = "count" => event[u] # None
<1>0. \A u \in Thread : OK(u)
  BY DEF CallsOK
<1>1. CASE UNCHANGED vars
  BY <1>1 DEF vars, callVars, history, CallsOK
<1>2. ASSUME NEW th \in Thread, Beginning(th)
      PROVE  CallsOK'
  <2>1. OK(th)'
    BY <1>2, BeginningEffect
  <2>2. ASSUME NEW u \in Thread, u # th
        PROVE  OK(u)'
    BY <1>0, <1>2, <2>2, BeginningEffect DEF Others
  <2> QED
    BY <2>1, <2>2 DEF CallsOK
<1>3. ASSUME NEW th \in Thread, Advance(th)
      PROVE  CallsOK'
  <2>1. OK(th)'
    BY <1>0, <1>3, AdvanceFrame DEF SameCall, Kept
  <2>2. ASSUME NEW u \in Thread, u # th
        PROVE  OK(u)'
    BY <1>0, <1>3, <2>2, AdvanceFrame DEF Others
  <2> QED
    BY <2>1, <2>2 DEF CallsOK
<1> QED
  BY <1>1, <1>2, <1>3, Steps

LEMMA TypedCalls == Spec => [](TypeOK /\ CallsOK)
<1>1. Init => TypeOK /\ CallsOK
  <2> SUFFICES ASSUME Init
               PROVE  TypeOK /\ CallsOK
    OBVIOUS
  <2>1. TypeOK
    BY StepNames DEF Init, TypeOK
  <2>2. CallsOK
    BY DEF Init, CallsOK
  <2> QED
    BY <2>1, <2>2
<1>2. TypeOK /\ CallsOK /\ [Next]_vars => (TypeOK /\ CallsOK)'
  BY TypeStep, CallsStep
<1> QED
  BY <1>1, <1>2, PTL DEF Spec

\* The dictionary entry, the statistics objects and the calls always have their
\* types, and the entry is always an object that was constructed.
THEOREM TypeCorrect == Spec => []TypeOK
BY TypedCalls, PTL

(***************************************************************************)
(* Trust is never inflated.  The inequality of the property needs to know  *)
(* of the approvals that were appended to the decided events and are still *)
(* to be counted.                                                          *)
(***************************************************************************)
CountingApproval(o) == {th \in Counting(o) : outcome[th] \in Approves}

ObjectOK(o) ==
    /\ IsFiniteSet(heap[o].decided) /\ IsFiniteSet(Counting(o))
    /\ total_decisions(heap[o].count) + Cardinality(Counting(o))
           = Cardinality(heap[o].decided)
    /\ heap[o].count.clean + Cardinality(CountingApproval(o))
           <= Cardinality(heap[o].decided \cap approvals)

CountsOK ==
    /\ IsFiniteSet(approvals)
    /\ \A o \in Object : heap[o] # None => ObjectOK(o)

\* Bookkeeping of one set: an element comes or goes.
LEMMA OneMore ==
    ASSUME NEW S, NEW x, IsFiniteSet(S), x \notin S
    PROVE  /\ IsFiniteSet(S \cup {x}) /\ Cardinality(S \cup {x}) = Cardinality(S) + 1
           /\ Cardinality(S) \in Nat
BY FS_AddElement, FS_CardinalityType

LEMMA OneLess ==
    ASSUME NEW S, NEW x, IsFiniteSet(S), x \in S
    PROVE  /\ IsFiniteSet(S \ {x}) /\ Cardinality(S \ {x}) = Cardinality(S) - 1
           /\ Cardinality(S) \in Nat
BY FS_RemoveElement, FS_CardinalityType

\* An object nobody writes, whose counting calls stay, is as good with more
\* approvals.
LEMMA ObjectStays ==
    ASSUME NEW o, ObjectOK(o), heap'[o] = heap[o],
           heap[o].count \in TrustStats,
           Counting(o)' = Counting(o), CountingApproval(o)' = CountingApproval(o),
           approvals \subseteq approvals'
    PROVE  ObjectOK(o)'
<1>1. heap[o].decided \cap approvals \subseteq heap[o].decided \cap approvals'
  OBVIOUS
<1>2. /\ IsFiniteSet(heap[o].decided \cap approvals')
      /\ IsFiniteSet(heap[o].decided \cap approvals)
  <2>1. IsFiniteSet(heap[o].decided)
    BY DEF ObjectOK
  <2> QED
    BY <2>1, FS_Subset
<1>3. Cardinality(heap[o].decided \cap approvals)
         <= Cardinality(heap[o].decided \cap approvals')
  BY <1>1, <1>2, FS_Subset
<1>4. /\ Cardinality(heap[o].decided \cap approvals) \in Nat
      /\ Cardinality(heap[o].decided \cap approvals') \in Nat
  BY <1>2, FS_CardinalityType
<1>5. /\ heap[o].count.clean \in Nat /\ Cardinality(CountingApproval(o)) \in Nat
  <2>1. IsFiniteSet(CountingApproval(o))
    BY FS_Subset DEF CountingApproval, ObjectOK
  <2> QED
    BY <2>1, FS_CardinalityType, StatsNumbers
<1>6. heap[o].count.clean + Cardinality(CountingApproval(o))
         <= Cardinality(heap[o].decided \cap approvals')
  <2>1. heap[o].count.clean + Cardinality(CountingApproval(o))
           <= Cardinality(heap[o].decided \cap approvals)
    BY DEF ObjectOK
  <2> QED
    BY <1>3, <1>4, <1>5, <2>1
<1> QED
  BY <1>6 DEF ObjectOK

\* How the calls that are counting come and go.
LEMMA CountingSame ==
    ASSUME NEW th \in Thread, Others(th), NEW o,
           ~(pc[th] = "count" /\ held[th] = o), ~(pc'[th] = "count" /\ held'[th] = o)
    PROVE  Counting(o)' = Counting(o) /\ CountingApproval(o)' = CountingApproval(o)
BY DEF Others, Counting, CountingApproval

LEMMA CountingJoins ==
    ASSUME NEW th \in Thread, Others(th), SameCall(th), NEW o,
           pc[th] # "count", pc'[th] = "count", held'[th] = o
    PROVE  /\ th \notin Counting(o) /\ Counting(o)' = Counting(o) \cup {th}
           /\ CountingApproval(o)' = IF outcome[th] \in Approves
                                       THEN CountingApproval(o) \cup {th}
                                       ELSE CountingApproval(o)
BY DEF Others, SameCall, Kept, Counting, CountingApproval

LEMMA CountingLeaves ==
    ASSUME NEW th \in Thread, Others(th), SameCall(th), NEW o,
           pc[th] = "count", pc'[th] # "count", held[th] = o
    PROVE  /\ th \in Counting(o) /\ Counting(o)' = Counting(o) \ {th}
           /\ CountingApproval(o)' = IF outcome[th] \in Approves
                                       THEN CountingApproval(o) \ {th}
                                       ELSE CountingApproval(o)
           /\ outcome[th] \in Approves => th \in CountingApproval(o)
BY DEF Others, SameCall, Kept, Counting, CountingApproval

\* The numbers of one object: cardinalities are numbers, parts are no larger.
LEMMA ObjectNumbers ==
    ASSUME NEW o, ObjectOK(o), heap[o].count \in TrustStats
    PROVE  /\ IsFiniteSet(CountingApproval(o))
           /\ IsFiniteSet(heap[o].decided \cap approvals)
           /\ Cardinality(Counting(o)) \in Nat
           /\ Cardinality(CountingApproval(o)) \in Nat
           /\ Cardinality(heap[o].decided) \in Nat
           /\ Cardinality(heap[o].decided \cap approvals) \in Nat
           /\ total_decisions(heap[o].count) \in Nat
           /\ heap[o].count.clean \in Nat
<1>1. IsFiniteSet(CountingApproval(o)) /\ IsFiniteSet(heap[o].decided \cap approvals)
  BY FS_Subset DEF CountingApproval, ObjectOK
<1>2. IsFiniteSet(Counting(o)) /\ IsFiniteSet(heap[o].decided)
  BY DEF ObjectOK
<1> QED
  BY <1>1, <1>2, FS_CardinalityType, StatsNumbers

\* The effects of the three steps that write an object, on that object.
LEMMA AppendKeepsCounts ==
    ASSUME TypeOK, CallsOK, NEW th \in Thread, AppendDecided(th),
           NEW o \in Object, o = held[th], ObjectOK(o)
    PROVE  ObjectOK(o)'
<1>1. PICK e \in EventId : e = event[th]
  BY DEF AppendDecided, TypeOK
<1>2. /\ Others(th) /\ SameCall(th) /\ pc[th] = "returned" /\ pc'[th] = "count"
      /\ held'[th] = o /\ e \notin heap[o].decided /\ approvals' = approvals
  BY <1>1, AppendDecidedEffect
<1>3. PICK r \in StatsObject : /\ Writes(o, r) /\ r.count = heap[o].count
                               /\ r.decided = heap[o].decided \cup {e}
  BY <1>1, AppendDecidedEffect
<1>4. heap'[o].count = heap[o].count /\ heap'[o].decided = heap[o].decided \cup {e}
  BY <1>3, Written
<1>5. heap[o].count \in TrustStats
  BY <1>2, HeldObject
<1>6. /\ th \notin Counting(o) /\ Counting(o)' = Counting(o) \cup {th}
      /\ CountingApproval(o)' = IF outcome[th] \in Approves
                                  THEN CountingApproval(o) \cup {th}
                                  ELSE CountingApproval(o)
  BY <1>2, CountingJoins
<1>7. /\ IsFiniteSet(heap'[o].decided) /\ IsFiniteSet(Counting(o)')
      /\ Cardinality(heap'[o].decided) = Cardinality(heap[o].decided) + 1
      /\ Cardinality(Counting(o)') = Cardinality(Counting(o)) + 1
  <2>1. IsFiniteSet(heap[o].decided) /\ IsFiniteSet(Counting(o))
    BY DEF ObjectOK
  <2> QED
    BY <1>2, <1>4, <1>6, <2>1, OneMore
<1>8. total_decisions(heap'[o].count) + Cardinality(Counting(o)')
         = Cardinality(heap'[o].decided)
  <2>1. total_decisions(heap[o].count) + Cardinality(Counting(o))
           = Cardinality(heap[o].decided)
    BY DEF ObjectOK
  <2>2. /\ total_decisions(heap[o].count) \in Nat
        /\ Cardinality(Counting(o)) \in Nat /\ Cardinality(heap[o].decided) \in Nat
    BY <1>5, ObjectNumbers
  <2>3. total_decisions(heap'[o].count) = total_decisions(heap[o].count)
    BY <1>4
  <2> QED
    BY <1>7, <2>1, <2>2, <2>3
<1>9. heap'[o].count.clean + Cardinality(CountingApproval(o)')
         <= Cardinality(heap'[o].decided \cap approvals')
  <2>1. heap[o].count.clean + Cardinality(CountingApproval(o))
           <= Cardinality(heap[o].decided \cap approvals)
    BY DEF ObjectOK
  <2>2. /\ IsFiniteSet(CountingApproval(o))
        /\ IsFiniteSet(heap[o].decided \cap approvals)
        /\ Cardinality(CountingApproval(o)) \in Nat
        /\ Cardinality(heap[o].decided \cap approvals) \in Nat
        /\ heap[o].count.clean \in Nat
    BY <1>5, ObjectNumbers
  <2>3. CASE e \in approvals
    <3>1. heap'[o].decided \cap approvals' = (heap[o].decided \cap approvals) \cup {e}
      BY <1>2, <1>4, <2>3
    <3>2. Cardinality(heap'[o].decided \cap approvals')
             = Cardinality(heap[o].decided \cap approvals) + 1
      BY <1>2, <2>2, <3>1, OneMore
    <3>3. \/ Cardinality(CountingApproval(o)') = Cardinality(CountingApproval(o))
          \/ Cardinality(CountingApproval(o)') = Cardinality(CountingApproval(o)) + 1
      <4>1. th \notin CountingApproval(o)
        BY <1>6 DEF CountingApproval
      <4> QED
        BY <1>6, <2>2, <4>1, OneMore
    <3> QED
      BY <1>4, <2>1, <2>2, <3>2, <3>3
  <2>4. CASE e \notin approvals
    <3>1. heap'[o].decided \cap approvals' = heap[o].decided \cap approvals
      BY <1>2, <1>4, <2>4
    <3>2. outcome[th] \notin Approves
      BY <1>1, <2>4, DelegationAssumption DEF CallsOK
    <3>3. CountingApproval(o)' = CountingApproval(o)
      BY <1>6, <3>2
    <3> QED
      BY <1>4, <2>1, <3>1, <3>3
  <2> QED
    BY <2>3, <2>4
<1> QED
  BY <1>7, <1>8, <1>9 DEF ObjectOK

LEMMA CountKeepsCounts ==
    ASSUME TypeOK, CallsOK, NEW th \in Thread, CountOutcome(th),
           NEW o \in Object, o = held[th], ObjectOK(o)
    PROVE  ObjectOK(o)'
<1>1. /\ Others(th) /\ SameCall(th) /\ pc[th] = "count" /\ pc'[th] = "idle"
      /\ outcome[th] \in ApprovalOutcome /\ approvals' = approvals
  BY CountOutcomeEffect
<1>2. PICK r \in StatsObject : /\ Writes(o, r) /\ r.decided = heap[o].decided
                               /\ r.count = Counted(heap[o].count, outcome[th])
  BY CountOutcomeEffect
<1>3. /\ heap'[o].decided = heap[o].decided
      /\ heap'[o].count = Counted(heap[o].count, outcome[th])
  BY <1>2, Written
<1>4. heap[o].count \in TrustStats
  BY <1>1, HeldObject
<1>5. /\ total_decisions(heap'[o].count) = total_decisions(heap[o].count) + 1
      /\ heap'[o].count.clean
            = heap[o].count.clean + (IF outcome[th] \in Approves THEN 1 ELSE 0)
  BY <1>1, <1>3, <1>4, CountedOnce
<1>6. /\ th \in Counting(o) /\ Counting(o)' = Counting(o) \ {th}
      /\ CountingApproval(o)' = IF outcome[th] \in Approves
                                  THEN CountingApproval(o) \ {th}
                                  ELSE CountingApproval(o)
      /\ outcome[th] \in Approves => th \in CountingApproval(o)
  BY <1>1, CountingLeaves
<1>7. /\ IsFiniteSet(heap[o].decided) /\ IsFiniteSet(Counting(o))
      /\ total_decisions(heap[o].count) + Cardinality(Counting(o))
            = Cardinality(heap[o].decided)
      /\ heap[o].count.clean + Cardinality(CountingApproval(o))
            <= Cardinality(heap[o].decided \cap approvals)
  BY DEF ObjectOK
<1>8. IsFiniteSet(Counting(o)') /\ Cardinality(Counting(o)') = Cardinality(Counting(o)) - 1
  BY <1>6, <1>7, OneLess
<1>9. total_decisions(heap'[o].count) + Cardinality(Counting(o)')
         = Cardinality(heap'[o].decided)
  BY <1>3, <1>4, <1>5, <1>7, <1>8, ObjectNumbers
<1>10. Cardinality(CountingApproval(o)')
          = Cardinality(CountingApproval(o)) - (IF outcome[th] \in Approves THEN 1 ELSE 0)
  <2>1. IsFiniteSet(CountingApproval(o)) /\ Cardinality(CountingApproval(o)) \in Nat
    BY <1>4, ObjectNumbers
  <2>2. CASE outcome[th] \in Approves
    BY <1>6, <2>1, <2>2, OneLess
  <2>3. CASE outcome[th] \notin Approves
    BY <1>6, <2>1, <2>3
  <2> QED
    BY <2>2, <2>3
<1>11. heap'[o].count.clean + Cardinality(CountingApproval(o)')
          <= Cardinality(heap'[o].decided \cap approvals')
  <2>1. /\ Cardinality(CountingApproval(o)) \in Nat
        /\ Cardinality(heap[o].decided \cap approvals) \in Nat
        /\ heap[o].count.clean \in Nat
    BY <1>4, ObjectNumbers
  <2>2. heap'[o].count.clean + Cardinality(CountingApproval(o)')
           = heap[o].count.clean + Cardinality(CountingApproval(o))
    BY <1>5, <1>10, <2>1
  <2> QED
    BY <1>1, <1>3, <1>7, <2>2
<1> QED
  BY <1>3, <1>7, <1>8, <1>9, <1>11 DEF ObjectOK

LEMMA IncidentKeepsCounts ==
    ASSUME TypeOK, CallsOK, NEW th \in Thread, CountIncident(th),
           NEW o \in Object, o = held[th], ObjectOK(o)
    PROVE  ObjectOK(o)'
<1>1. /\ Others(th) /\ pc[th] = "returned" /\ pc'[th] = "idle" /\ approvals' = approvals
  BY CountIncidentEffect
<1>2. PICK r \in StatsObject : /\ Writes(o, r) /\ r.decided = heap[o].decided
                               /\ r.count = WithIncident(heap[o].count)
  BY CountIncidentEffect
<1>3. /\ heap'[o].decided = heap[o].decided
      /\ heap'[o].count = WithIncident(heap[o].count)
  BY <1>2, Written
<1>4. /\ total_decisions(heap'[o].count) = total_decisions(heap[o].count)
      /\ heap'[o].count.clean = heap[o].count.clean
  BY <1>1, <1>3, HeldObject, IncidentCounted
<1>5. Counting(o)' = Counting(o) /\ CountingApproval(o)' = CountingApproval(o)
  BY <1>1, CountingSame
<1> QED
  BY <1>1, <1>3, <1>4, <1>5 DEF ObjectOK

\* A fresh object has counted nothing, and nobody counts on it.
LEMMA FreshCounts ==
    ASSUME TypeOK, CallsOK, NEW th \in Thread, NEW o \in Object, GetMiss(th, o)
    PROVE  ObjectOK(o)'
<1> DEFINE r == [count |-> NewStats, decided |-> {}]
<1>1. heap'[o].count = NewStats /\ heap'[o].decided = {}
  <2>1. heap'[o] = r
    BY GetMissEffect, Written
  <2> QED
    BY <2>1
<1>2. Counting(o) = {} /\ CountingApproval(o) = {}
  BY GetMissEffect DEF Counting, CountingApproval
<1>3. Counting(o)' = {} /\ CountingApproval(o)' = {}
  <2>1. /\ Others(th) /\ pc[th] = "get" /\ pc'[th] = "install"
    BY GetMissEffect
  <2> QED
    BY <1>2, <2>1, CountingSame
<1>4. IsFiniteSet({}) /\ Cardinality({}) = 0
  BY FS_EmptySet
<1>5. heap'[o].decided \cap approvals' = {}
  BY <1>1
<1>6. Cardinality(heap'[o].decided \cap approvals') = 0
  BY <1>4, <1>5
<1>7. total_decisions(heap'[o].count) = 0 /\ heap'[o].count.clean = 0
  BY <1>1, FreshStats
<1> QED
  BY <1>1, <1>3, <1>4, <1>6, <1>7 DEF ObjectOK

LEMMA CountsStep ==
    ASSUME TypeOK, CallsOK, CountsOK, [Next]_vars
    PROVE  CountsOK'
<1>1. \A o \in Object : heap[o] # None => heap[o].count \in TrustStats
  BY DEF TypeOK, StatsObject
<1>2. ASSUME NEW th \in Thread, Others(th), NEW o \in Object, heap[o] # None,
             heap'[o] = heap[o], approvals \subseteq approvals',
             ~(pc[th] = "count" /\ held[th] = o), ~(pc'[th] = "count" /\ held'[th] = o)
      PROVE  ObjectOK(o)'
  BY <1>1, <1>2, CountingSame, ObjectStays DEF CountsOK
<1>3. CASE UNCHANGED vars
  <2>1. /\ heap' = heap /\ approvals' = approvals /\ pc' = pc /\ held' = held
        /\ outcome' = outcome
    BY <1>3 DEF vars, callVars, history
  <2> QED
    BY <2>1 DEF CountsOK, ObjectOK, Counting, CountingApproval
<1>4. ASSUME NEW th \in Thread, Beginning(th)
      PROVE  CountsOK'
  <2>1. /\ Others(th) /\ heap' = heap /\ approvals \subseteq approvals'
        /\ pc[th] = "idle" /\ pc'[th] = "get"
    BY <1>4, BeginningEffect
  <2>2. IsFiniteSet(approvals')
    BY <1>4, BeginningEffect, FS_AddElement DEF CountsOK
  <2>3. ASSUME NEW o \in Object, heap'[o] # None
        PROVE  ObjectOK(o)'
    BY <1>2, <2>1, <2>3
  <2> QED
    BY <2>2, <2>3 DEF CountsOK
<1>5. ASSUME NEW th \in Thread, GetHit(th) \/ Install(th) \/ RefuseReplay(th)
      PROVE  CountsOK'
  <2>1. /\ Others(th) /\ heap' = heap /\ approvals' = approvals
        /\ pc[th] # "count" /\ pc'[th] # "count"
    BY <1>5, GetHitEffect, InstallEffect, RefuseReplayEffect
  <2>2. ASSUME NEW o \in Object, heap'[o] # None
        PROVE  ObjectOK(o)'
    BY <1>2, <2>1, <2>2
  <2> QED
    BY <2>1, <2>2 DEF CountsOK
<1>6. ASSUME NEW th \in Thread, NEW p \in Object, GetMiss(th, p)
      PROVE  CountsOK'
  <2>1. /\ Others(th) /\ approvals' = approvals /\ pc[th] = "get" /\ pc'[th] = "install"
        /\ \A o \in Object : o # p => heap'[o] = heap[o]
    BY <1>6, GetMissEffect, Written
  <2>2. ASSUME NEW o \in Object, heap'[o] # None
        PROVE  ObjectOK(o)'
    BY <1>2, <1>6, <2>1, <2>2, FreshCounts
  <2> QED
    BY <2>1, <2>2 DEF CountsOK
<1>7. ASSUME NEW th \in Thread,
             AppendDecided(th) \/ CountOutcome(th) \/ CountIncident(th)
      PROVE  CountsOK'
  <2>1. PICK p \in Object : p = held[th] /\ heap[p] # None
    BY <1>7, HeldObject DEF AppendDecided, CountOutcome, CountIncident
  <2>2. /\ Others(th) /\ approvals' = approvals /\ held'[th] = held[th]
        /\ \E r \in StatsObject : Writes(p, r)
    BY <1>7, <2>1, AppendDecidedEffect, CountOutcomeEffect, CountIncidentEffect
  <2>3. \A o \in Object : o # p => heap'[o] = heap[o]
    BY <2>2, Written
  <2>4. ObjectOK(p)'
    BY <1>7, <2>1, AppendKeepsCounts, CountKeepsCounts, IncidentKeepsCounts DEF CountsOK
  <2>5. ASSUME NEW o \in Object, o # p, heap'[o] # None
        PROVE  ObjectOK(o)'
    BY <1>2, <2>1, <2>2, <2>3, <2>5
  <2> QED
    BY <2>2, <2>4, <2>5 DEF CountsOK
<1> QED
  BY <1>3, <1>4, <1>5, <1>6, <1>7, Steps DEF Advance

\* However the calls of apply_decision and record_incident interleave, no
\* statistics object counts a decision that is not one of its decided events,
\* and none counts more clean approvals than events somebody approved.
THEOREM TrustIsEarned == Spec => []NeverInflated
<1>1. Init => CountsOK
  BY FS_EmptySet DEF Init, CountsOK
<1>2. TypeOK /\ CallsOK /\ CountsOK /\ [Next]_vars => CountsOK'
  BY CountsStep
<1>3. TypeOK /\ CountsOK => NeverInflated
  <2> SUFFICES ASSUME TypeOK, CountsOK, NEW o \in Object, heap[o] # None
               PROVE  /\ total_decisions(heap[o].count) + Cardinality(Counting(o))
                            = Cardinality(heap[o].decided)
                      /\ heap[o].count.clean <= Cardinality(approvals)
    BY DEF NeverInflated
  <2>1. ObjectOK(o) /\ heap[o].count \in TrustStats /\ IsFiniteSet(approvals)
    BY DEF CountsOK, TypeOK, StatsObject
  <2>2. Cardinality(heap[o].decided \cap approvals) <= Cardinality(approvals)
    BY <2>1, FS_Subset
  <2>3. Cardinality(approvals) \in Nat
    BY <2>1, FS_CardinalityType
  <2>4. /\ Cardinality(CountingApproval(o)) \in Nat
        /\ Cardinality(heap[o].decided \cap approvals) \in Nat
        /\ heap[o].count.clean \in Nat
    BY <2>1, ObjectNumbers
  <2> QED
    BY <2>1, <2>2, <2>3, <2>4 DEF ObjectOK
<1> QED
  BY <1>1, <1>2, <1>3, TypedCalls, PTL DEF Spec

(***************************************************************************)
(* What is remembered.  Once the scope is touched its statistics object    *)
(* stays; a call that began afterwards writes to that object, and before   *)
(* the scope is touched nothing was promised.                              *)
(***************************************************************************)
Promised == incidents > 0 \/ \E e \in EventId : accepted[e] > 0

SettledOK ==
    /\ \A th \in Thread : settled[th] /\ pc[th] # "idle" => Touched
    /\ \A th \in Thread :
          settled[th] /\ pc[th] \in {"returned", "count"} => held[th] = stats
    /\ Promised => Touched
    /\ Touched => incidents <= Statistics.incidents
    /\ \A e \in EventId : accepted[e] > 0 => e \in heap[stats].decided
    /\ \A e \in EventId : accepted[e] <= 1

LEMMA TouchedStays ==
    ASSUME TypeOK, CallsOK, Touched, [Next]_vars
    PROVE  Touched' /\ stats' = stats
<1>1. CASE UNCHANGED vars
  BY <1>1 DEF vars, callVars, Touched
<1>2. ASSUME NEW th \in Thread, Beginning(th)
      PROVE  Touched' /\ stats' = stats
  BY <1>2, BeginningEffect DEF Touched, Others
<1>3. ASSUME NEW th \in Thread, Advance(th)
      PROVE  Touched' /\ stats' = stats
  <2>1. /\ Others(th) /\ stats' = stats /\ pc'[th] # "install"
    <3>1. ASSUME NEW o \in Object
          PROVE  ~GetMiss(th, o)
      BY DEF GetMiss, Touched
    <3>2. ~Install(th)
      BY DEF Install, Touched
    <3>3. CASE AppendDecided(th)
      BY <3>3, AppendDecidedEffect
    <3>4. CASE CountOutcome(th) \/ CountIncident(th)
      BY <3>4, CountOutcomeEffect, CountIncidentEffect
    <3>5. CASE GetHit(th) \/ RefuseReplay(th)
      BY <3>5, GetHitEffect, RefuseReplayEffect
    <3> QED
      BY <1>3, <3>1, <3>2, <3>3, <3>4, <3>5 DEF Advance
  <2> QED
    BY <2>1 DEF Touched, Others
<1> QED
  BY <1>1, <1>2, <1>3, Steps

\* Statistics objects only grow.
Grows(o) ==
    /\ heap[o].decided \subseteq heap'[o].decided
    /\ heap[o].count.incidents <= heap'[o].count.incidents

LEMMA ObjectsGrow ==
    ASSUME TypeOK, CallsOK, [Next]_vars, NEW o \in Object, heap[o] # None
    PROVE  Grows(o)
<1>1. heap[o] \in StatsObject /\ heap[o].count \in TrustStats
  BY DEF TypeOK, StatsObject
<1>2. heap[o].count.incidents \in Nat
  BY <1>1, StatsNumbers
<1>3. CASE heap'[o] = heap[o]
  BY <1>2, <1>3 DEF Grows
<1>4. CASE UNCHANGED vars
  BY <1>3, <1>4 DEF vars
<1>5. ASSUME NEW th \in Thread, Beginning(th)
      PROVE  Grows(o)
  BY <1>3, <1>5, BeginningEffect
<1>6. ASSUME NEW th \in Thread, GetHit(th) \/ Install(th) \/ RefuseReplay(th)
      PROVE  Grows(o)
  BY <1>3, <1>6, GetHitEffect, InstallEffect, RefuseReplayEffect
<1>7. ASSUME NEW th \in Thread, NEW p \in Object, GetMiss(th, p)
      PROVE  Grows(o)
  BY <1>3, <1>7, GetMissEffect, Written
<1>8. ASSUME NEW th \in Thread, AppendDecided(th)
      PROVE  Grows(o)
  <2>1. PICK p \in Object : p = held[th]
    BY <1>8, HeldObject DEF AppendDecided
  <2>2. PICK r \in StatsObject : /\ Writes(p, r) /\ r.count = heap[p].count
                                 /\ r.decided = heap[p].decided \cup {event[th]}
    BY <1>8, <2>1, AppendDecidedEffect
  <2> QED
    BY <1>2, <1>3, <2>2, Written DEF Grows
<1>9. ASSUME NEW th \in Thread, CountOutcome(th)
      PROVE  Grows(o)
  <2>1. PICK p \in Object : p = held[th]
    BY <1>9, HeldObject DEF CountOutcome
  <2>2. PICK r \in StatsObject : /\ Writes(p, r) /\ r.decided = heap[p].decided
                                 /\ r.count = Counted(heap[p].count, outcome[th])
    BY <1>9, <2>1, CountOutcomeEffect
  <2>3. outcome[th] \in ApprovalOutcome
    BY <1>9, <2>1, CountOutcomeEffect
  <2>4. CASE o = p
    <3>1. heap'[o].decided = heap[o].decided
          /\ heap'[o].count = Counted(heap[o].count, outcome[th])
      BY <2>2, <2>4, Written
    <3> QED
      BY <1>1, <1>2, <2>3, <3>1, CountedOnce DEF Grows
  <2> QED
    BY <1>3, <2>2, <2>4, Written
<1>10. ASSUME NEW th \in Thread, CountIncident(th)
       PROVE  Grows(o)
  <2>1. PICK p \in Object : p = held[th]
    BY <1>10, HeldObject DEF CountIncident
  <2>2. PICK r \in StatsObject : /\ Writes(p, r) /\ r.decided = heap[p].decided
                                 /\ r.count = WithIncident(heap[p].count)
    BY <1>10, <2>1, CountIncidentEffect
  <2>3. CASE o = p
    <3>1. heap'[o].decided = heap[o].decided
          /\ heap'[o].count = WithIncident(heap[o].count)
      BY <2>2, <2>3, Written
    <3>2. heap'[o].count.incidents = heap[o].count.incidents + 1
      BY <1>1, <3>1, IncidentCounted
    <3> QED
      BY <1>2, <3>1, <3>2 DEF Grows
  <2> QED
    BY <1>3, <2>2, <2>3, Written
<1> QED
  BY <1>4, <1>5, <1>6, <1>7, <1>8, <1>9, <1>10, Steps DEF Advance

\* The calls that began after the first touch.
LEMMA SettledCalls ==
    ASSUME TypeOK, CallsOK, SettledOK, [Next]_vars
    PROVE  \A u \in Thread : settled'[u] =>
              /\ pc'[u] # "idle" => Touched'
              /\ pc'[u] \in {"returned", "count"} => held'[u] = stats'
<1>1. Touched => Touched' /\ stats' = stats
  BY TouchedStays
<1>2. ASSUME NEW u \in Thread, settled'[u], settled[u], pc[u] # "idle",
             pc'[u] = pc[u], held'[u] = held[u]
      PROVE  /\ pc'[u] # "idle" => Touched'
             /\ pc'[u] \in {"returned", "count"} => held'[u] = stats'
  BY <1>1, <1>2 DEF SettledOK
<1>3. CASE UNCHANGED vars
  BY <1>2, <1>3 DEF vars, callVars, history
<1>4. ASSUME NEW th \in Thread, Beginning(th), NEW u \in Thread, settled'[u]
      PROVE  /\ pc'[u] # "idle" => Touched'
             /\ pc'[u] \in {"returned", "count"} => held'[u] = stats'
  BY <1>1, <1>2, <1>4, BeginningEffect DEF Others
<1>5. ASSUME NEW th \in Thread, Advance(th), NEW u \in Thread, settled'[u]
      PROVE  /\ pc'[u] # "idle" => Touched'
             /\ pc'[u] \in {"returned", "count"} => held'[u] = stats'
  <2>1. Others(th) /\ SameCall(th)
    BY <1>5, AdvanceFrame
  <2>2. CASE u # th
    BY <1>2, <1>5, <2>1, <2>2 DEF Others
  <2>3. CASE u = th
    <3>1. settled[th] /\ pc[th] # "idle"
      BY <1>5, <2>1, <2>3 DEF SameCall, Advance, GetHit, GetMiss, Install,
         RefuseReplay, AppendDecided, CountOutcome, CountIncident
    <3>2. Touched /\ Touched' /\ stats' = stats
      BY <1>1, <3>1 DEF SettledOK
    <3>3. pc'[th] \in {"returned", "count"} => held'[th] = stats
      <4>1. CASE GetHit(th)
        BY <4>1, GetHitEffect
      <4>2. CASE AppendDecided(th)
        BY <3>1, <4>2, AppendDecidedEffect DEF SettledOK
      <4>3. CASE CountOutcome(th) \/ CountIncident(th) \/ RefuseReplay(th)
        BY <4>3, CountOutcomeEffect, CountIncidentEffect, RefuseReplayEffect
      <4>4. ~Install(th) /\ ~\E o \in Object : GetMiss(th, o)
        BY <3>2 DEF Install, GetMiss, Touched
      <4> QED
        BY <1>5, <4>1, <4>2, <4>3, <4>4 DEF Advance
    <3> QED
      BY <2>3, <3>2, <3>3
  <2> QED
    BY <2>2, <2>3
<1> QED
  BY <1>2, <1>3, <1>4, <1>5, Steps DEF vars, callVars, history

\* Only a settled call adds to a promise, and writes it where it belongs.
LEMMA IncidentsKept ==
    ASSUME TypeOK, CallsOK, SettledOK, [Next]_vars
    PROVE  \/ incidents' = incidents
           \/ /\ Touched /\ incidents' = incidents + 1
              /\ heap'[stats].count.incidents = heap[stats].count.incidents + 1
<1>1. CASE UNCHANGED vars
  BY <1>1 DEF vars, history
<1>2. ASSUME NEW th \in Thread, Beginning(th)
      PROVE  incidents' = incidents
  BY <1>2, BeginningEffect
<1>3. ASSUME NEW th \in Thread, CountIncident(th), incidents' # incidents
      PROVE  /\ Touched /\ incidents' = incidents + 1
             /\ heap'[stats].count.incidents = heap[stats].count.incidents + 1
  <2>1. PICK p \in Object : p = held[th]
    BY <1>3, HeldObject DEF CountIncident
  <2>2. /\ pc[th] = "returned"
        /\ incidents' = IF settled[th] THEN incidents + 1 ELSE incidents
    BY <1>3, <2>1, CountIncidentEffect
  <2>3. settled[th] /\ Touched /\ p = stats
    BY <1>3, <2>1, <2>2 DEF SettledOK
  <2>4. PICK r \in StatsObject : /\ Writes(p, r) /\ r.decided = heap[p].decided
                                 /\ r.count = WithIncident(heap[p].count)
    BY <1>3, <2>1, CountIncidentEffect
  <2>5. heap'[p].count = WithIncident(heap[p].count) /\ heap[p].count \in TrustStats
    BY <1>3, <2>1, <2>2, <2>4, Written, HeldObject
  <2> QED
    BY <2>2, <2>3, <2>5, IncidentCounted
<1>4. ASSUME NEW th \in Thread, Advance(th), ~CountIncident(th)
      PROVE  incidents' = incidents
  BY <1>4, GetHitEffect, GetMissEffect, InstallEffect, RefuseReplayEffect,
     AppendDecidedEffect, CountOutcomeEffect DEF Advance
<1> QED
  BY <1>1, <1>2, <1>3, <1>4, Steps

LEMMA AcceptedKept ==
    ASSUME TypeOK, CallsOK, SettledOK, [Next]_vars, NEW e \in EventId
    PROVE  \/ accepted'[e] = accepted[e]
           \/ /\ Touched /\ accepted'[e] = accepted[e] + 1
              /\ e \notin heap[stats].decided /\ e \in heap'[stats].decided
<1>1. CASE UNCHANGED vars
  BY <1>1 DEF vars, history
<1>2. ASSUME NEW th \in Thread, Beginning(th)
      PROVE  accepted' = accepted
  BY <1>2, BeginningEffect
<1>3. ASSUME NEW th \in Thread, AppendDecided(th), accepted'[e] # accepted[e]
      PROVE  /\ Touched /\ accepted'[e] = accepted[e] + 1
             /\ e \notin heap[stats].decided /\ e \in heap'[stats].decided
  <2>1. PICK p \in Object : p = held[th]
    BY <1>3, HeldObject DEF AppendDecided
  <2>2. PICK d \in EventId : d = event[th]
    BY <1>3 DEF AppendDecided, TypeOK
  <2>3. /\ pc[th] = "returned" /\ d \notin heap[p].decided
        /\ accepted'[d] = IF settled[th] THEN accepted[d] + 1 ELSE accepted[d]
        /\ e # d => accepted'[e] = accepted[e]
    BY <1>3, <2>1, <2>2, AppendDecidedEffect
  <2>4. e = d /\ settled[th]
    BY <1>3, <2>3
  <2>5. Touched /\ p = stats
    BY <2>1, <2>3, <2>4 DEF SettledOK
  <2>6. PICK r \in StatsObject : /\ Writes(p, r) /\ r.count = heap[p].count
                                 /\ r.decided = heap[p].decided \cup {d}
    BY <1>3, <2>1, <2>2, AppendDecidedEffect
  <2>7. heap'[p].decided = heap[p].decided \cup {d}
    BY <2>6, Written
  <2> QED
    BY <2>3, <2>4, <2>5, <2>7
<1>4. ASSUME NEW th \in Thread, Advance(th), ~AppendDecided(th)
      PROVE  accepted' = accepted
  BY <1>4, GetHitEffect, GetMissEffect, InstallEffect, RefuseReplayEffect,
     CountIncidentEffect, CountOutcomeEffect DEF Advance
<1> QED
  BY <1>1, <1>2, <1>3, <1>4, Steps

LEMMA SettledStep ==
    ASSUME TypeOK, CallsOK, SettledOK, [Next]_vars
    PROVE  SettledOK'
<1>1. Touched => Touched' /\ stats' = stats
  BY TouchedStays
<1>2. TypeOK'
  BY TypeStep
<1>3. incidents \in Nat /\ \A e \in EventId : accepted[e] \in Nat
  BY DEF TypeOK
<1>4. Touched => stats \in Object /\ heap[stats] # None
  BY DEF Touched, TypeOK
<1>5. Touched => Grows(stats) /\ heap[stats].count.incidents \in Nat
                 /\ heap'[stats].count.incidents \in Nat
  <2>1. \A o \in Object : heap[o] # None => heap[o].count.incidents \in Nat
    BY StatsNumbers DEF TypeOK, StatsObject
  <2>2. \A o \in Object : heap'[o] # None => heap'[o].count.incidents \in Nat
    BY <1>2, StatsNumbers DEF TypeOK, StatsObject
  <2>3. Touched => heap'[stats] # None
    BY <1>1, <1>2 DEF TypeOK, Touched
  <2> QED
    BY <1>4, <2>1, <2>2, <2>3, ObjectsGrow
<1>6. Promised' => Touched'
  <2>1. ASSUME ~Touched
        PROVE  ~Promised'
    <3>1. incidents = 0 /\ \A e \in EventId : accepted[e] = 0
      BY <1>3, <2>1 DEF SettledOK, Promised
    <3>2. incidents' = 0
      BY <2>1, <3>1, IncidentsKept
    <3>3. \A e \in EventId : accepted'[e] = 0
      BY <2>1, <3>1, AcceptedKept
    <3> QED
      BY <3>2, <3>3 DEF Promised
  <2> QED
    BY <1>1, <2>1
<1>7. Touched' => incidents' <= Statistics'.incidents
  <2>1. CASE Touched
    <3>1. incidents <= heap[stats].count.incidents
      BY <2>1 DEF SettledOK, Statistics
    <3>2. incidents' <= heap'[stats].count.incidents
      BY <1>3, <1>5, <2>1, <3>1, IncidentsKept DEF Grows
    <3> QED
      BY <1>1, <2>1, <3>2 DEF Statistics
  <2>2. CASE ~Touched /\ Touched'
    <3>1. incidents' = 0
      BY <1>3, <2>2, IncidentsKept DEF SettledOK, Promised
    <3>2. stats' \in Object /\ heap'[stats'] # None
      BY <1>2, <2>2 DEF Touched, TypeOK
    <3>3. heap'[stats'].count.incidents \in Nat
      BY <1>2, <3>2, StatsNumbers DEF TypeOK, StatsObject
    <3> QED
      BY <3>1, <3>3 DEF Statistics
  <2> QED
    BY <2>1, <2>2
<1>8. ASSUME NEW e \in EventId
      PROVE  /\ accepted'[e] > 0 => e \in heap'[stats'].decided
             /\ accepted'[e] <= 1
  <2>1. accepted[e] > 0 => Touched
    BY DEF SettledOK, Promised
  <2>2. CASE accepted'[e] = accepted[e]
    BY <1>1, <1>5, <2>1, <2>2 DEF SettledOK, Grows
  <2>3. CASE /\ Touched /\ accepted'[e] = accepted[e] + 1
             /\ e \notin heap[stats].decided /\ e \in heap'[stats].decided
    <3>1. accepted[e] = 0
      BY <1>3, <2>3 DEF SettledOK
    <3> QED
      BY <1>1, <2>3, <3>1
  <2> QED
    BY <2>2, <2>3, AcceptedKept
<1>9. \A th \in Thread :
         /\ settled'[th] /\ pc'[th] # "idle" => Touched'
         /\ settled'[th] /\ pc'[th] \in {"returned", "count"} => held'[th] = stats'
  BY SettledCalls
<1> QED
  BY <1>6, <1>7, <1>8, <1>9 DEF SettledOK

\* Once a scope has its statistics, a recorded incident stays in them and a
\* decision is accepted once per event, for any number of threads and calls.
THEOREM SettledScopesRemember == Spec => []NothingForgotten
<1>1. Init => SettledOK
  BY DEF Init, SettledOK, Promised, Touched
<1>2. TypeOK /\ CallsOK /\ SettledOK /\ [Next]_vars => SettledOK'
  BY SettledStep
<1>3. SettledOK => NothingForgotten
  <2> SUFFICES ASSUME SettledOK, incidents > 0
               PROVE  Statistics.incidents >= incidents
    BY DEF SettledOK, NothingForgotten, IncidentsRemembered, DecidedOnce
  <2>1. incidents <= Statistics.incidents
    BY DEF SettledOK, Promised
  <2> QED
    BY <2>1
<1> QED
  BY <1>1, <1>2, <1>3, TypedCalls, PTL DEF Spec

=============================================================================
