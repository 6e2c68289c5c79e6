---------------------------- MODULE ControlPlane ----------------------------
(***************************************************************************)
(* EarnedAutonomyControlPlane (core/control_plane.py) on both wirings of    *)
(* build_control_plane_from_settings.                                      *)
(*                                                                         *)
(* "sql": several replicas, each with its own delegation memory, share the *)
(* SQL store (storage/sql.py), the SQL capability state and the SQL audit  *)
(* ledger.  Every store, capability or ledger call is a transaction of its *)
(* own and no transaction spans a handler.  A read returns a copy of the   *)
(* row: what the handler goes on to use is that copy.                      *)
(*                                                                         *)
(* "memory": all threads serve one process, whose InMemoryStore            *)
(* (storage/memory.py) keeps objects in dictionaries.  A read returns the  *)
(* object itself, so handlers change what other handlers hold, and a loop  *)
(* over the rules raises RuntimeError once the dictionary has grown.       *)
(* Threads are preempted as in DelegationMemory, whose own preemption is   *)
(* left to that module.                                                    *)
(*                                                                         *)
(* A handler is a sequence of steps of the thread that serves the request; *)
(* its local variables are the fields of call[thread].  Early returns and  *)
(* exceptions that change nothing are guards.  Only events the agent       *)
(* signed reach propose_event past its first test, so EventBody is the set *)
(* of signed events.                                                       *)
(*                                                                         *)
(* There is no clock here: expiry and purging are Capability's subject, as *)
(* are the steps of an enforcement point; Enforce is one successful call.  *)
(* Without purging the two capability backends agree on every minted       *)
(* token, so one value of Backend serves both wirings.  The ledger is the  *)
(* set of facts written (AuditLedger has the chain).                       *)
(***************************************************************************)
EXTENDS Policy, Trust, CapabilityStore, Sequences

CONSTANTS
    Wiring,         \* the wirings considered
    Thread,         \* request-serving threads
    Replica,        \* processes of the SQL wiring
    ReplicaOf,      \* the replica a thread belongs to on the SQL wiring
    Agent, Human, Workflow, Authority,
    EventId,        \* server-assigned event ids
    EventBody,      \* signed events, with their nonce and human owner
    RuleId,
    RuleBody,       \* rules a human may be asked to approve
    Registration,   \* agent records a registration may carry
    Outcome,        \* approval outcomes a human may submit
    Strict,         \* ControlPlaneConfig.strict_mode
    MaxRequests     \* bound: requests served

Task == Workflow \X Authority
AuthScope == Agent \X Workflow \X Authority

AgentRecord == [owner : Human, level : [Task -> AutonomyLevel],
                workflows : SUBSET Workflow, active : BOOLEAN, incidents : Nat]

RuleRecord ==
    [agent : Agent, workflow : Workflow, authority : Authority,
     level : AutonomyLevel, conditions : {r.conditions : r \in RuleBody},
     guards : SUBSET STRING, sample_rate : Nat, active : BOOLEAN]

ASSUME ControlPlaneAssumption ==
    /\ Wiring \subseteq {"sql", "memory"}
    /\ ReplicaOf \in [Thread -> Replica]
    /\ Authority \subseteq AuthorityClass
    /\ \A e \in EventBody :
          /\ e.agent \in Agent /\ e.workflow \in Workflow
          /\ e.authority \in Authority /\ e.owner \in Human
          /\ {"metadata", "requires_execution"} \subseteq DOMAIN e
          /\ e.requires_execution \in BOOLEAN
    /\ RuleBody \subseteq RuleRecord
    /\ Registration \subseteq [agent : Agent, record : AgentRecord]
    /\ Outcome \subseteq ApprovalOutcome
    /\ Strict \in BOOLEAN
    /\ MaxRequests \in Nat
    /\ Backend = "sql"
    /\ None \notin EventId \cup EventBody \cup RuleRecord \cup AgentRecord \cup Nat

VARIABLES
    wiring,     \* "sql" or "memory", from the settings
    heap,       \* agent objects constructed so far; only the memory wiring has any
    agents,     \* [Agent -> record (sql), index into heap (memory) or None]
    events,     \* [EventId -> event or None]
    rules,      \* [RuleId -> rule or None]
    order,      \* the rules in the order they were inserted
    nonces,     \* claimed <<agent, nonce>> pairs
    memory,     \* [Replica -> [scope -> statistics]]: per process
    decided,    \* [Replica -> [scope -> decided event ids]]: per process
    ledger,     \* facts recorded
    call,       \* [Thread -> handler in progress or None]
    requests,   \* requests served so far
    mintedFor,  \* [TokenId -> event_id of the token or None]
    delivered,  \* tokens returned to their agents
    fenced,     \* history: scopes closed by an incident, no grant since
    quiet       \* history: no grant in the call's scope since it began

tables == <<wiring, events, nonces, mintedFor>>
ruleVars == <<rules, order>>
agentVars == <<agents, heap>>
shared == <<tables, agentVars, ruleVars, delivered>>
local == <<memory, decided>>
history == <<fenced, quiet>>
vars == <<storeVars, shared, local, ledger, call, requests, history>>

EventScope(e) == <<e.agent, e.workflow, e.authority>>
RuleScope(r) == <<r.agent, r.workflow, r.authority>>

\* What a handler sees of an agent it was handed: its copy of the row, or the
\* object as it is now.
AgentSeen(agent) == IF wiring = "memory" THEN heap[agent] ELSE agent

\* The process that serves a thread.
ProcessOf(th) == IF wiring = "sql" THEN ReplicaOf[th]
                                   ELSE CHOOSE p \in Replica : TRUE

TypeOK ==
    /\ StoreTypeOK
    /\ nonces \subseteq {<<e.agent, e.nonce>> : e \in EventBody}
    /\ \A a \in Agent : agents[a] # None =>
          LET agent == AgentSeen(agents[a]) IN
          /\ agent.owner \in Human
          /\ agent.level \in [Task -> AutonomyLevel]
          /\ agent.incidents \in Nat
    /\ events \in [EventId -> EventBody \cup {None}]
    /\ \A r \in RuleId : rules[r] # None <=> \E i \in DOMAIN order : order[i] = r
    /\ memory \in [Replica -> [AuthScope -> TrustStats]]
    /\ decided \in [Replica -> [AuthScope -> SUBSET EventId]]
    /\ mintedFor \in [TokenId -> EventId \cup {None}]
    /\ delivered \subseteq issued
    /\ fenced \subseteq AuthScope

Init ==
    /\ StoreInit
    /\ wiring \in Wiring
    /\ heap = << >>
    /\ order = << >>
    /\ agents = [a \in Agent |-> None]
    /\ events = [id \in EventId |-> None]
    /\ rules = [id \in RuleId |-> None]
    /\ nonces = {}
    /\ memory = [p \in Replica |-> [s \in AuthScope |-> NewStats]]
    /\ decided = [p \in Replica |-> [s \in AuthScope |-> {}]]
    /\ ledger = {}
    /\ call = [th \in Thread |-> None]
    /\ requests = 0
    /\ mintedFor = [t \in TokenId |-> None]
    /\ delivered = {}
    /\ fenced = {}
    /\ quiet = [th \in Thread |-> FALSE]

(***************************************************************************)
(* Threads.                                                                *)
(***************************************************************************)
Begin(th, handler) ==
    /\ call[th] = None
    /\ requests < MaxRequests
    /\ requests' = requests + 1
    /\ call' = [call EXCEPT ![th] = handler]

At(th, op, step) == call[th] # None /\ call[th].op = op /\ call[th].step = step

Goto(th, handler) == call' = [call EXCEPT ![th] = handler] /\ UNCHANGED requests

Continue(th, step) == Goto(th, [call[th] EXCEPT !.step = step])

Return(th) == Goto(th, None)

Audit(fact) == ledger' = ledger \cup {fact}

NewCall(op, step, scope, id, body) ==
    [op |-> op, step |-> step, scope |-> scope, id |-> id, body |-> body,
     agent |-> None, level |-> 0, size |-> 0, tested |-> 0, rule |-> None,
     todo |-> {}, token |-> None, result |-> None]

\* Identifiers are fresh uuids: neither stored nor given to a call in progress.
Unused(op, id) == \A th \in Thread : call[th] # None /\ call[th].op = op =>
                                         call[th].id # id

\* History: a rule approval or a registration grants anew in these scopes.
GrantAnew(scopes) ==
    /\ fenced' = fenced \ scopes
    /\ quiet' = [th \in Thread |->
                    quiet[th] /\ ~(call[th] # None /\ call[th].scope \in scopes)]

-----------------------------------------------------------------------------
(***************************************************************************)
(* register_agent: one write of the whole agent, then the audit record.    *)
(***************************************************************************)
\* A new agent as the store will hold it: a row, or a fresh object.
NewAgent(record) == IF wiring = "memory" THEN Len(heap) + 1 ELSE record

Construct(record) == heap' = IF wiring = "memory" THEN Append(heap, record) ELSE heap

RegisterAgent(th, a, record) ==
    /\ Begin(th, NewCall("register", "audit", None, a, record))
    /\ Construct(record)
    /\ agents' = [agents EXCEPT ![a] = NewAgent(record)]
    /\ GrantAnew({a} \X Workflow \X Authority)
    /\ UNCHANGED <<storeVars, tables, ruleVars, delivered, local, ledger>>

AuditRegistration(th) ==
    /\ At(th, "register", "audit")
    /\ Audit([kind |-> "agent.registered", id |-> call[th].id])
    /\ Return(th)
    /\ UNCHANGED <<storeVars, shared, local, history>>

(***************************************************************************)
(* propose_event.                                                          *)
(***************************************************************************)
AutoCreated(e) ==
    [owner |-> e.owner, level |-> [task \in Task |-> OBSERVE_ONLY],
     workflows |-> {e.workflow}, active |-> TRUE, incidents |-> 0]

\* get_agent; in strict mode an unknown agent cannot transact.
ProposeEvent(th, id, e) ==
    LET agent == agents[e.agent] IN
    /\ events[id] = None
    /\ Unused("propose", id)
    /\ \/ /\ agent = None
          /\ ~Strict
          /\ Construct(AutoCreated(e))
          /\ Begin(th, [NewCall("propose", "create", EventScope(e), id, e)
                          EXCEPT !.agent = NewAgent(AutoCreated(e))])
       \/ /\ agent # None
          /\ AgentSeen(agent).active
          /\ Begin(th, [NewCall("propose", "claim", EventScope(e), id, e)
                          EXCEPT !.agent = agent])
          /\ UNCHANGED heap
    /\ quiet' = [quiet EXCEPT ![th] = EventScope(e) \in fenced]
    /\ UNCHANGED <<storeVars, tables, agents, ruleVars, delivered, local, ledger,
                   fenced>>

AutoCreateAgent(th) ==
    /\ At(th, "propose", "create")
    /\ agents' = [agents EXCEPT ![call[th].body.agent] = call[th].agent]
    /\ Continue(th, "claim")
    /\ UNCHANGED <<storeVars, tables, heap, ruleVars, delivered, local, ledger,
                   history>>

\* A bug: the claim is not checked.
AlwaysFresh(nonce) == TRUE

\* claim_nonce: the unique constraint refuses the second insert.
Fresh(nonce) == nonce \notin nonces

ClaimNonce(th) ==
    LET nonce == <<call[th].body.agent, call[th].body.nonce>> IN
    /\ At(th, "propose", "claim")
    /\ IF Fresh(nonce) THEN Continue(th, "add_event") ELSE Return(th)
    /\ nonces' = nonces \cup {nonce}
    /\ UNCHANGED <<storeVars, wiring, agentVars, events, ruleVars, mintedFor,
                   delivered, local, ledger, history>>

AddEvent(th) ==
    /\ At(th, "propose", "add_event")
    /\ events' = [events EXCEPT ![call[th].id] = call[th].body]
    /\ Continue(th, IF wiring = "sql" THEN "evaluate" ELSE "read_level")
    /\ UNCHANGED <<storeVars, wiring, agentVars, ruleVars, nonces, mintedFor,
                   delivered, local, ledger, history>>

\* matching_rule returns the first match; SQL gives the rows in any order.
MatchingRules(e) == {r \in RuleId : rules[r] # None /\ Matches(rules[r], e)}

FoundRules(e) == IF MatchingRules(e) = {} THEN {None}
                 ELSE {rules[r] : r \in MatchingRules(e)}

\* Python's dict.setdefault.
SetDefault(dict, key, value) ==
    [k \in DOMAIN dict \cup {key} |-> IF k \in DOMAIN dict THEN dict[k] ELSE value]

WithKnownWorkflows(e, agent) ==
    [e EXCEPT !.metadata = SetDefault(@, "_approved_workflows", agent.workflows)]

\* autonomy_for: of the copy of the row, or of the object as it is now.
LevelSeen(th) ==
    AgentSeen(call[th].agent).level[<<call[th].body.workflow, call[th].body.authority>>]

\* The decision, from the level and the rule the handler found.
DecideOn(th, level, rule) ==
    LET status == Evaluate(default_boundary_rules,
                           WithKnownWorkflows(call[th].body,
                                              AgentSeen(call[th].agent)),
                           level, rule).status
    IN  Goto(th, [call[th] EXCEPT !.level = 0, !.size = 0, !.tested = 0,
                    !.rule = rule, !.result = status,
                    !.step = IF status \in Proceeding THEN "mint" ELSE "audit"])

EvaluateEvent(th) ==
    /\ At(th, "propose", "evaluate")
    /\ \E rule \in FoundRules(call[th].body) : DecideOn(th, LevelSeen(th), rule)
    /\ UNCHANGED <<storeVars, shared, local, ledger, history>>

\* In memory the level is read, then the rules are tested one by one.
ReadLevel(th) ==
    /\ At(th, "propose", "read_level")
    /\ Goto(th, [call[th] EXCEPT !.level = LevelSeen(th), !.step = "test_rule"])
    /\ UNCHANGED <<storeVars, shared, local, ledger, history>>

\* One turn of the loop over self.rules.values(), which raises if the
\* dictionary has grown since the loop began.
TestRule(th) ==
    LET n == call[th].tested
        size == IF n = 0 THEN Len(order) ELSE call[th].size
        rule == rules[order[n + 1]]
    IN  /\ At(th, "propose", "test_rule")
        /\ \/ size # Len(order) /\ Return(th)
           \/ size = Len(order) /\ n = size /\ DecideOn(th, call[th].level, None)
           \/ /\ size = Len(order) /\ n < size
              /\ IF Matches(rule, call[th].body)
                   THEN DecideOn(th, call[th].level, rule)
                   ELSE Goto(th, [call[th] EXCEPT !.tested = n + 1, !.size = size])
        /\ UNCHANGED <<storeVars, shared, local, ledger, history>>

GrantFor(e, rule) ==
    [agent |-> e.agent, workflow |-> e.workflow, authority |-> e.authority,
     rank |-> consequence_rank(e.authority),
     conditions |-> IF rule = None THEN << >> ELSE rule.conditions,
     single |-> TRUE]

ASSUME GrantAssumption ==
    \A e \in EventBody, rule \in RuleBody \cup {None} : GrantFor(e, rule) \in Grant

\* A bug: the token leaves before the audit record.
MintAndDeliver(th, t) ==
    /\ At(th, "propose", "mint")
    /\ RecordIssued(t, GrantFor(call[th].body, call[th].rule), 0)
    /\ mintedFor' = [mintedFor EXCEPT ![t] = call[th].id]
    /\ delivered' = delivered \cup {t}
    /\ Goto(th, [call[th] EXCEPT !.token = t, !.step = "audit"])
    /\ UNCHANGED <<wiring, agentVars, events, ruleVars, nonces, local, ledger,
                   history>>

Mint(th, t) ==
    /\ At(th, "propose", "mint")
    /\ RecordIssued(t, GrantFor(call[th].body, call[th].rule), 0)
    /\ mintedFor' = [mintedFor EXCEPT ![t] = call[th].id]
    /\ Goto(th, [call[th] EXCEPT !.token = t, !.step = "audit"])
    /\ UNCHANGED <<wiring, agentVars, events, ruleVars, nonces, delivered, local,
                   ledger, history>>

\* A bug: a token is delivered whether there is one or not.
AuditEventWithoutTest(th) ==
    /\ At(th, "propose", "audit")
    /\ Audit([kind |-> "workflow.event.proposed", id |-> call[th].id,
              status |-> call[th].result])
    /\ delivered' = delivered \cup {call[th].token}
    /\ Return(th)
    /\ UNCHANGED <<storeVars, tables, agentVars, ruleVars, local, history>>

\* The audit record, then the answer that carries the token.
AuditEvent(th) ==
    /\ At(th, "propose", "audit")
    /\ Audit([kind |-> "workflow.event.proposed", id |-> call[th].id,
              status |-> call[th].result])
    /\ delivered' = delivered \cup ({call[th].token} \ {None})
    /\ Return(th)
    /\ UNCHANGED <<storeVars, tables, agentVars, ruleVars, local, history>>

(***************************************************************************)
(* submit_decision.  The human may not be the owner, for some classes.     *)
(***************************************************************************)
Approving == {"approved", "modified_and_approved", "converted_to_delegation_rule"}

SubmitDecision(th, id, human, outcome) ==
    /\ events[id] # None
    /\ LET e == events[id] IN
       /\ ~ /\ requires_separation_of_duties(e.authority)
            /\ agents[e.agent] # None
            /\ human = AgentSeen(agents[e.agent]).owner
            /\ outcome \in Approving
       /\ Begin(th, NewCall("decide", "apply", EventScope(e), id, outcome))
    /\ UNCHANGED <<storeVars, shared, local, ledger, history>>

\* apply_decision, in the memory of this replica: refused the second time.
ApplyDecision(th) ==
    LET p == ProcessOf(th)
        s == call[th].scope
    IN  /\ At(th, "decide", "apply")
        /\ IF call[th].id \in decided[p][s]
             THEN Return(th) /\ UNCHANGED local
             ELSE /\ decided' = [decided EXCEPT ![p][s] = @ \cup {call[th].id}]
                  /\ memory' = [memory EXCEPT ![p][s] = Counted(@, call[th].body)]
                  /\ Continue(th, "audit_decision")
        /\ UNCHANGED <<storeVars, shared, ledger, history>>

AuditDecision(th) ==
    /\ At(th, "decide", "audit_decision")
    /\ Audit([kind |-> "approval.decision", id |-> call[th].id,
              outcome |-> call[th].body])
    /\ Continue(th, "recommend")
    /\ UNCHANGED <<storeVars, shared, local, history>>

\* recommend_for: get_agent (unknown: it raises), then this replica's statistics.
RecommendFor(th) ==
    LET s == call[th].scope
        agent == agents[s[1]]
    IN  /\ At(th, "decide", "recommend")
        /\ IF agent = None THEN Return(th)
           ELSE Goto(th, [call[th] EXCEPT !.step = "audit_recommendation",
                    !.result = Recommend(AgentSeen(agent).level[<<s[2], s[3]>>],
                                         memory[ProcessOf(th)][s], s[3])])
        /\ UNCHANGED <<storeVars, shared, local, ledger, history>>

AuditRecommendation(th) ==
    /\ At(th, "decide", "audit_recommendation")
    /\ Audit([kind |-> "autonomy.recommendation", scope |-> call[th].scope,
              level |-> call[th].result])
    /\ Continue(th, "audit_trust")
    /\ UNCHANGED <<storeVars, shared, local, history>>

AuditTrust(th) ==
    /\ At(th, "decide", "audit_trust")
    /\ Audit([kind |-> "trust.updated", id |-> call[th].id])
    /\ Return(th)
    /\ UNCHANGED <<storeVars, shared, local, history>>

(***************************************************************************)
(* approve_delegation_rule: never above the ceiling, and for some classes  *)
(* not by the owner of a registered agent.                                 *)
(***************************************************************************)
ApproveRule(th, id, rule, human) ==
    /\ rules[id] = None
    /\ Unused("approve", id)
    /\ rule.level <= autonomy_ceiling_for(rule.authority)
    /\ ~ /\ requires_separation_of_duties(rule.authority)
         /\ agents[rule.agent] # None
         /\ human = AgentSeen(agents[rule.agent]).owner
    /\ Begin(th, NewCall("approve", "add_rule", RuleScope(rule), id, rule))
    /\ UNCHANGED <<storeVars, shared, local, ledger, history>>

AddRule(th) ==
    /\ At(th, "approve", "add_rule")
    /\ rules' = [rules EXCEPT ![call[th].id] = call[th].body]
    /\ order' = Append(order, call[th].id)
    /\ GrantAnew({call[th].scope})
    /\ Continue(th, "audit")
    /\ UNCHANGED <<storeVars, tables, agentVars, delivered, local, ledger>>

AuditApproval(th) ==
    /\ At(th, "approve", "audit")
    /\ Audit([kind |-> "delegation_rule.approved", id |-> call[th].id])
    /\ Return(th)
    /\ UNCHANGED <<storeVars, shared, local, history>>

(***************************************************************************)
(* revoke_delegation_rule and record_incident.                             *)
(***************************************************************************)
\* A bug: the rule is written back as it was read.
StillActive(rule) == rule

Deactivated(rule) == [rule EXCEPT !.active = FALSE]

RevokeRule(th, id) ==
    /\ rules[id] # None
    /\ Begin(th, NewCall("revoke", "write_rule", RuleScope(rules[id]), id,
                         Deactivated(rules[id])))
    /\ UNCHANGED <<storeVars, shared, local, ledger, history>>

WriteRevokedRule(th) ==
    /\ At(th, "revoke", "write_rule")
    /\ rules' = [rules EXCEPT ![call[th].id] = call[th].body]
    /\ Continue(th, "revoke_scope")
    /\ UNCHANGED <<storeVars, tables, agentVars, order, delivered, local, ledger,
                   history>>

\* The memory of the process that serves the request counts the incident.
RecordIncident(th, scope) ==
    /\ Begin(th, NewCall("incident", "read_agent", scope, None, None))
    /\ memory' = [memory EXCEPT ![ProcessOf(th)][scope] = WithIncident(@)]
    /\ quiet' = [quiet EXCEPT ![th] = TRUE]
    /\ UNCHANGED <<storeVars, shared, decided, ledger, fenced>>

\* incident_count += 1 and set_autonomy: on the copy that was read, or in
\* place on the object, which other handlers see at once.
Reduced(agent, task) ==
    [agent EXCEPT !.incidents = @ + 1,
                  !.level[task] = Lower(@, EXECUTE_WITH_APPROVAL)]

ReadAgent(th) ==
    LET s == call[th].scope
        agent == agents[s[1]]
    IN  /\ At(th, "incident", "read_agent")
        /\ \/ agent = None /\ Continue(th, "revoke_scope")
           \/ /\ agent # None /\ wiring = "sql"
              /\ Goto(th, [call[th] EXCEPT !.step = "write_agent",
                              !.agent = Reduced(agent, <<s[2], s[3]>>)])
           \/ /\ agent # None /\ wiring = "memory"
              /\ Goto(th, [call[th] EXCEPT !.step = "reduce_agent", !.agent = agent])
        /\ UNCHANGED <<storeVars, shared, local, ledger, history>>

ReduceAgent(th) ==
    LET s == call[th].scope IN
    /\ At(th, "incident", "reduce_agent")
    /\ heap' = [heap EXCEPT ![call[th].agent] = Reduced(@, <<s[2], s[3]>>)]
    /\ Continue(th, "write_agent")
    /\ UNCHANGED <<storeVars, tables, agents, ruleVars, delivered, local, ledger,
                   history>>

WriteAgent(th) ==
    /\ At(th, "incident", "write_agent")
    /\ agents' = [agents EXCEPT ![call[th].scope[1]] = call[th].agent]
    /\ Continue(th, IF wiring = "sql" THEN "read_rules" ELSE "begin_scan")
    /\ UNCHANGED <<storeVars, tables, heap, ruleVars, delivered, local, ledger,
                   history>>

\* rules_for, and the active ones among them: these are written back one by one.
RulesFor(scope) == {r \in RuleId : rules[r] # None /\ RuleScope(rules[r]) = scope}

ActiveRules(scope) == {r \in RulesFor(scope) : rules[r].active}

WriteBack(th, todo) ==
    Goto(th, [call[th] EXCEPT !.todo = todo, !.size = 0,
                !.step = IF todo = {} THEN "revoke_scope" ELSE "write_rules"])

ReadRules(th) ==
    /\ At(th, "incident", "read_rules")
    /\ WriteBack(th, ActiveRules(call[th].scope))
    /\ UNCHANGED <<storeVars, shared, local, ledger, history>>

\* In memory rules_for is a loop over the dictionary, which raises if the
\* dictionary has grown since it began; rule.active is read later, rule by rule.
BeginScan(th) ==
    /\ At(th, "incident", "begin_scan")
    /\ IF order = << >> THEN WriteBack(th, {})
       ELSE Goto(th, [call[th] EXCEPT !.size = Len(order), !.step = "end_scan"])
    /\ UNCHANGED <<storeVars, shared, local, ledger, history>>

EndScan(th) ==
    /\ At(th, "incident", "end_scan")
    /\ IF call[th].size = Len(order) THEN WriteBack(th, RulesFor(call[th].scope))
                                     ELSE Return(th)
    /\ UNCHANGED <<storeVars, shared, local, ledger, history>>

\* rules_for kept the order of the dictionary; rows come in any order.
InTurn(r, todo) ==
    wiring = "memory" =>
        \E i \in DOMAIN order :
            order[i] = r /\ \A j \in 1..(i - 1) : order[j] \notin todo

\* Nothing but active ever changes in a stored rule, and only to FALSE: writing
\* back what was read, and testing rule.active again, come to the same.
WriteRule(th, r) ==
    /\ At(th, "incident", "write_rules")
    /\ r \in call[th].todo
    /\ InTurn(r, call[th].todo)
    /\ rules' = [rules EXCEPT ![r] = Deactivated(@)]
    /\ WriteBack(th, call[th].todo \ {r})
    /\ UNCHANGED <<storeVars, tables, agentVars, order, delivered, local, ledger,
                   history>>

\* capability_service.revoke_scope, of both handlers.
RevokeScope(th) ==
    /\ At(th, "incident", "revoke_scope") \/ At(th, "revoke", "revoke_scope")
    /\ MarkScopeRevoked(call[th].scope)
    /\ Continue(th, "audit")
    /\ UNCHANGED <<shared, local, ledger, history>>

AuditRevocation(th) ==
    /\ At(th, "revoke", "audit")
    /\ Audit([kind |-> "delegation_rule.revoked", id |-> call[th].id])
    /\ Return(th)
    /\ UNCHANGED <<storeVars, shared, local, history>>

AuditIncident(th) ==
    /\ At(th, "incident", "audit")
    /\ Audit([kind |-> "incident.recorded", scope |-> call[th].scope])
    /\ Return(th)
    /\ fenced' = IF quiet[th] /\ call[th].agent # None
                   THEN fenced \cup {call[th].scope} ELSE fenced
    /\ UNCHANGED <<storeVars, shared, local, quiet>>

(***************************************************************************)
(* Around the handlers: an enforcement point accepts a token, a call to a  *)
(* store raises, a process restarts with an empty delegation memory.       *)
(***************************************************************************)
\* A bug: the client does not hand the event's metadata on.
SdkRequestBare(e) ==
    [agent |-> e.agent, workflow |-> e.workflow, authority |-> e.authority,
     rank |-> consequence_rank(e.authority), context |-> << >>]

\* AgentClient.execute: the action is presented as it was proposed.
SdkRequest(e) ==
    LET context == SetDefault(e.metadata, "consequence_rank",
                              consequence_rank(e.authority))
    IN  [agent |-> e.agent, workflow |-> e.workflow, authority |-> e.authority,
         rank |-> context["consequence_rank"], context |-> context]

Enforce(t) ==
    /\ t \in delivered
    /\ InScope(token[t].grant, SdkRequest(events[mintedFor[t]]))
    /\ CanConsume(t)
    /\ MarkConsumed(t)
    /\ UNCHANGED <<shared, local, ledger, call, requests, history>>

\* In memory only writing a line of the ledger can fail.
Raise(th) ==
    /\ call[th] # None
    /\ wiring = "sql" \/ call[th].step \in {"audit", "audit_decision",
                                           "audit_recommendation", "audit_trust"}
    /\ Return(th)
    /\ UNCHANGED <<storeVars, shared, local, ledger, history>>

\* A process on the memory wiring ends with all of its state (Deployment).
Restart(p) ==
    /\ wiring = "sql"
    /\ memory' = [memory EXCEPT ![p] = [s \in AuthScope |-> NewStats]]
    /\ decided' = [decided EXCEPT ![p] = [s \in AuthScope |-> {}]]
    /\ call' = [th \in Thread |-> IF ReplicaOf[th] = p THEN None ELSE call[th]]
    /\ UNCHANGED <<storeVars, shared, ledger, requests, history>>

-----------------------------------------------------------------------------
Request(th) ==
    \/ \E reg \in Registration : RegisterAgent(th, reg.agent, reg.record)
    \/ \E id \in EventId, e \in EventBody : ProposeEvent(th, id, e)
    \/ \E id \in EventId, human \in Human, outcome \in Outcome :
          SubmitDecision(th, id, human, outcome)
    \/ \E id \in RuleId, rule \in RuleBody, human \in Human :
          ApproveRule(th, id, rule, human)
    \/ \E id \in RuleId : RevokeRule(th, id)
    \/ \E scope \in AuthScope : RecordIncident(th, scope)

Advance(th) ==
    \/ AuditRegistration(th)
    \/ AutoCreateAgent(th) \/ ClaimNonce(th) \/ AddEvent(th)
    \/ EvaluateEvent(th) \/ ReadLevel(th) \/ TestRule(th)
    \/ (\E t \in TokenId : Mint(th, t)) \/ AuditEvent(th)
    \/ ApplyDecision(th) \/ AuditDecision(th) \/ RecommendFor(th)
    \/ AuditRecommendation(th) \/ AuditTrust(th)
    \/ AddRule(th) \/ AuditApproval(th)
    \/ WriteRevokedRule(th) \/ AuditRevocation(th)
    \/ ReadAgent(th) \/ ReduceAgent(th) \/ WriteAgent(th)
    \/ ReadRules(th) \/ BeginScan(th) \/ EndScan(th)
    \/ (\E r \in RuleId : WriteRule(th, r)) \/ RevokeScope(th) \/ AuditIncident(th)

Next ==
    \/ \E th \in Thread : Request(th) \/ Advance(th) \/ Raise(th)
    \/ \E t \in TokenId : Enforce(t)
    \/ \E p \in Replica : Restart(p)

Spec == Init /\ [][Next]_vars

-----------------------------------------------------------------------------
(***************************************************************************)
(* Properties.                                                             *)
(***************************************************************************)

NonceOf(id) == <<events[id].agent, events[id].nonce>>

Minted == {t \in TokenId : mintedFor[t] # None}

\* Two proposals of one signed event, on two replicas, after a raise or a
\* restart, never get two tokens (propose_event, claim_nonce).
OneTokenPerNonce ==
    \A t, u \in Minted : t # u => NonceOf(mintedFor[t]) # NonceOf(mintedFor[u])

\* After record_incident returned for a registered agent, an execution proposed
\* in its scope is not authorized until a human approves a rule or registers
\* the agent again, whatever other handlers were in progress (record_incident:
\* "the next matching action genuinely falls back to approval").
FencedProposalNeverMints ==
    \A th \in Thread :
        At(th, "propose", "mint") /\ quiet[th] => ~call[th].body.requires_execution

\* What an agent executes under a token was recorded in the ledger first, and
\* recorded as allowed, also when the proposing handler raised half-way.
NoUnauditedExecution ==
    \A t \in consumed :
        \E status \in Proceeding :
            [kind |-> "workflow.event.proposed", id |-> mintedFor[t],
             status |-> status] \in ledger

\* CHANGELOG, 2.1.0: an incident prevents earlier tokens from executing.
NoExecutionAfterIncident ==
    [][\A t \in TokenId : t \in consumed' \ consumed => ScopeOf(t) \notin fenced]_vars

\* record_incident: "we deactivate every matching active rule".  When an
\* incident of a registered agent is about to be answered no rule of its scope
\* is active, whatever other handlers did to the rules meanwhile, unless a
\* human approved one.
IncidentEndsRules ==
    \A th \in Thread :
        /\ At(th, "incident", "audit")
        /\ quiet[th]
        /\ call[th].agent # None
        => ActiveRules(call[th].scope) = {}

\* sdk.py: "the token was minted from the SAME metadata at proposal time".  A
\* token that was delivered admits the action it was asked for: whichever rule
\* was found, what the enforcement point tests again holds of the event.
WhatWasProposedMayRun ==
    \A t \in delivered : InScope(token[t].grant, SdkRequest(events[mintedFor[t]]))

=============================================================================
