-------------------------- MODULE DelegationMemory --------------------------
(***************************************************************************)
(* DelegationMemory (core/trust.py) of one process, shared by the threads  *)
(* that serve decisions and incidents about one scope.  Nothing locks it.  *)
(* Under the interpreter's global lock a thread is preempted at calls of   *)
(* functions written in Python and after calls of built-in methods: in     *)
(* get, while the TrustStats object is constructed, and in apply_decision, *)
(* after the event was appended to the decided ones and before the         *)
(* outcome is counted.  These are the steps.  A statistics object that     *)
(* another thread's object replaces in the dictionary stays reachable only *)
(* by the calls that hold it.                                              *)
(***************************************************************************)
EXTENDS Trust

CONSTANTS
    None,
    Thread,     \* request-serving threads of the process
    EventId,    \* events of the scope
    Outcome,    \* outcomes a human may submit
    Object,     \* statistics objects that may be constructed
    MaxCalls    \* bound: calls of apply_decision and record_incident

\* A TrustStats object: its counters and its decided_event_ids.
StatsObject == [count : TrustStats, decided : SUBSET EventId]

ASSUME DelegationAssumption ==
    /\ Outcome \subseteq ApprovalOutcome
    /\ MaxCalls \in Nat
    /\ None \notin Object \cup EventId
    /\ None \notin StatsObject

VARIABLES
    stats,      \* the dictionary at the scope's key: an object or None
    heap,       \* [Object -> [count, decided] or None]: None if not constructed
    pc,         \* [Thread -> the next step, "idle" outside a call]
    held,       \* [Thread -> the object the call holds, or None]
    event,      \* [Thread -> the event of the call; None for an incident]
    outcome,    \* [Thread -> the outcome of the call, or None]
    calls,      \* calls so far
    approvals,  \* history: events whose approval was submitted
    settled,    \* history: [Thread -> the call began after the first touch]
    accepted,   \* history: [EventId -> decisions settled calls accepted]
    incidents   \* history: incidents settled calls recorded

callVars == <<pc, held, event, outcome>>
history == <<approvals, settled, accepted, incidents>>
vars == <<stats, heap, callVars, calls, history>>

Step == {"idle", "get", "install", "returned", "count"}

TypeOK ==
    /\ stats \in Object \cup {None}
    /\ heap \in [Object -> StatsObject \cup {None}]
    /\ pc \in [Thread -> Step]
    /\ held \in [Thread -> Object \cup {None}]
    /\ event \in [Thread -> EventId \cup {None}]
    /\ outcome \in [Thread -> Outcome \cup {None}]
    /\ calls \in Nat
    /\ approvals \subseteq EventId
    /\ settled \in [Thread -> BOOLEAN]
    /\ accepted \in [EventId -> Nat]
    /\ incidents \in Nat
    /\ stats # None => heap[stats] # None

Init ==
    /\ stats = None
    /\ heap = [o \in Object |-> None]
    /\ pc = [th \in Thread |-> "idle"]
    /\ held = [th \in Thread |-> None]
    /\ event = [th \in Thread |-> None]
    /\ outcome = [th \in Thread |-> None]
    /\ calls = 0
    /\ approvals = {}
    /\ settled = [th \in Thread |-> FALSE]
    /\ accepted = [e \in EventId |-> 0]
    /\ incidents = 0

\* The scope has its statistics and no thread is about to replace them.
Touched == stats # None /\ \A th \in Thread : pc[th] # "install"

Begin(th, e, out) ==
    /\ pc[th] = "idle"
    /\ calls < MaxCalls
    /\ calls' = calls + 1
    /\ pc' = [pc EXCEPT ![th] = "get"]
    /\ event' = [event EXCEPT ![th] = e]
    /\ outcome' = [outcome EXCEPT ![th] = out]
    /\ settled' = [settled EXCEPT ![th] = Touched]
    /\ UNCHANGED <<stats, heap, held, accepted, incidents>>

ApplyDecision(th, e, out) ==
    /\ Begin(th, e, out)
    /\ approvals' = IF out \in {"approved", "converted_to_delegation_rule"}
                      THEN approvals \cup {e} ELSE approvals

RecordIncident(th) ==
    /\ Begin(th, None, None)
    /\ UNCHANGED approvals

Goto(th, step) == pc' = [pc EXCEPT ![th] = step] /\ UNCHANGED <<event, outcome>>

(***************************************************************************)
(* get: a missing key is filled with a fresh object, and the dictionary is *)
(* read once more for the result.                                          *)
(***************************************************************************)
GetHit(th) ==
    /\ pc[th] = "get"
    /\ stats # None
    /\ held' = [held EXCEPT ![th] = stats]
    /\ Goto(th, "returned")
    /\ UNCHANGED <<stats, heap, calls, history>>

\* A bug: the dictionary is not tested, every call brings fresh statistics.
GetAnew(th, o) ==
    /\ pc[th] = "get"
    /\ heap[o] = None
    /\ heap' = [heap EXCEPT ![o] = [count |-> NewStats, decided |-> {}]]
    /\ held' = [held EXCEPT ![th] = o]
    /\ Goto(th, "install")
    /\ UNCHANGED <<stats, calls, history>>

GetMiss(th, o) ==
    /\ pc[th] = "get"
    /\ stats = None
    /\ heap[o] = None
    /\ heap' = [heap EXCEPT ![o] = [count |-> NewStats, decided |-> {}]]
    /\ held' = [held EXCEPT ![th] = o]
    /\ Goto(th, "install")
    /\ UNCHANGED <<stats, calls, history>>

Install(th) ==
    /\ pc[th] = "install"
    /\ stats' = held[th]
    /\ Goto(th, "returned")
    /\ UNCHANGED <<heap, held, calls, history>>

(***************************************************************************)
(* The rest of apply_decision and of record_incident, on the object held.  *)
(***************************************************************************)
\* A bug: a decided event is not recognized.
NeverDecided(th) == FALSE

Decided(th) == event[th] \in heap[held[th]].decided

RefuseReplay(th) ==
    /\ pc[th] = "returned"
    /\ event[th] # None
    /\ Decided(th)
    /\ Goto(th, "idle")
    /\ UNCHANGED <<stats, heap, held, calls, history>>

AppendDecided(th) ==
    /\ pc[th] = "returned"
    /\ event[th] # None
    /\ ~Decided(th)
    /\ heap' = [heap EXCEPT ![held[th]].decided = @ \cup {event[th]}]
    /\ accepted' = [accepted EXCEPT ![event[th]] = IF settled[th] THEN @ + 1 ELSE @]
    /\ Goto(th, "count")
    /\ UNCHANGED <<stats, held, calls, approvals, settled, incidents>>

CountOutcome(th) ==
    /\ pc[th] = "count"
    /\ heap' = [heap EXCEPT ![held[th]].count = Counted(@, outcome[th])]
    /\ Goto(th, "idle")
    /\ UNCHANGED <<stats, held, calls, history>>

CountIncident(th) ==
    /\ pc[th] = "returned"
    /\ event[th] = None
    /\ heap' = [heap EXCEPT ![held[th]].count = WithIncident(@)]
    /\ incidents' = IF settled[th] THEN incidents + 1 ELSE incidents
    /\ Goto(th, "idle")
    /\ UNCHANGED <<stats, held, calls, approvals, settled, accepted>>

Advance(th) ==
    \/ GetHit(th)
    \/ \E o \in Object : GetMiss(th, o)
    \/ Install(th)
    \/ RefuseReplay(th)
    \/ AppendDecided(th)
    \/ CountOutcome(th)
    \/ CountIncident(th)

Next == \E th \in Thread :
    \/ \E e \in EventId, out \in Outcome : ApplyDecision(th, e, out)
    \/ RecordIncident(th)
    \/ Advance(th)

Spec == Init /\ [][Next]_vars

-----------------------------------------------------------------------------
Statistics == heap[stats].count

Counting(o) == {th \in Thread : pc[th] = "count" /\ held[th] = o}

\* No interleaving inflates trust: what any statistics object counts is one
\* decision per decided event (less those being counted), and its clean
\* approvals are of distinct events somebody approved.
NeverInflated ==
    \A o \in Object : heap[o] # None =>
        /\ total_decisions(heap[o].count) + Cardinality(Counting(o))
               = Cardinality(heap[o].decided)
        /\ heap[o].count.clean <= Cardinality(approvals)

\* Incidents pin autonomy down (recommendations.py): one that is recorded stays
\* in the scope's statistics.
IncidentsRemembered == incidents > 0 => Statistics.incidents >= incidents

\* A decision is recorded at most once per event (trust.py), however many are
\* submitted at once.
DecidedOnce == \A e \in EventId : accepted[e] <= 1

\* Both for calls that began after the first touch of the scope.  During the
\* first touch an incident or a decided event may be lost with the object that
\* counted it, and that is all that is ever lost.
NothingForgotten == IncidentsRemembered /\ DecidedOnce

=============================================================================
