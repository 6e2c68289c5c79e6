------------------------- MODULE ControlPlaneProofs -------------------------
(***************************************************************************)
(* What is proved about ControlPlane, for both wirings, every set of       *)
(* threads, replicas, agents, events and rules, and every bound.           *)
(***************************************************************************)
EXTENDS ControlPlane, PolicyLemmas

(***************************************************************************)
(* The invariant, in parts.  The handlers first: what the local variables  *)
(* of a call hold.                                                         *)
(***************************************************************************)
HandlerField == {"op", "step", "scope", "id", "body", "agent", "level", "size",
                 "tested", "rule", "todo", "token", "result"}

IsHandler(h) == h = [f \in HandlerField |-> h[f]]

\* What get_agent returned: a copy of the row, or an object.
HasAgent(agent) == IF wiring = "memory" THEN agent \in 1 .. Len(heap)
                                        ELSE agent \in AgentRecord

Stored == {r \in RuleId : rules[r] # None}

Typed(h) ==
    /\ IsHandler(h)
    /\ h.op = "propose" =>
          /\ h.id \in EventId /\ h.body \in EventBody
          /\ h.scope = EventScope(h.body) /\ HasAgent(h.agent)
          /\ h.rule \in RuleBody \cup {None} /\ h.token \in issued \cup {None}
          /\ h.tested \in Nat
    /\ h.op = "decide" =>
          h.id \in EventId /\ h.body \in Outcome /\ h.scope \in AuthScope
    /\ h.op = "approve" =>
          h.id \in RuleId /\ h.body \in RuleBody /\ h.scope = RuleScope(h.body)
    /\ h.op = "revoke" =>
          h.id \in Stored /\ h.body \in RuleRecord /\ ~h.body.active
    /\ h.op = "incident" =>
          /\ h.scope \in AuthScope /\ h.todo \subseteq Stored
          /\ h.step \in {"reduce_agent", "write_agent"} => HasAgent(h.agent)

CallsOK ==
    /\ call = [th \in Thread |-> call[th]]
    /\ \A th \in Thread : call[th] # None => Typed(call[th])

(***************************************************************************)
(* The tables.                                                             *)
(***************************************************************************)
AgentsOK ==
    /\ wiring \in {"sql", "memory"}
    /\ heap \in Seq(AgentRecord)
    /\ agents = [a \in Agent |-> agents[a]]
    /\ \A a \in Agent : agents[a] # None => HasAgent(agents[a])

\* Whatever is active is what a human approved.
RulesOK ==
    /\ rules \in [RuleId -> RuleRecord \cup {None}]
    /\ \A r \in Stored : rules[r].active => rules[r] \in RuleBody
    /\ order \in Seq(RuleId)
    /\ \A r \in RuleId : r \in Stored <=> \E i \in DOMAIN order : order[i] = r

StatisticsOK ==
    /\ memory \in [Replica -> [AuthScope -> TrustStats]]
    /\ decided \in [Replica -> [AuthScope -> SUBSET EventId]]

TablesOK ==
    /\ StoreTypeOK
    /\ events \in [EventId -> EventBody \cup {None}]
    /\ nonces \subseteq {<<e.agent, e.nonce>> : e \in EventBody}
    /\ mintedFor \in [TokenId -> EventId \cup {None}]
    /\ delivered \subseteq issued
    /\ fenced \subseteq AuthScope
    /\ quiet \in [Thread -> BOOLEAN]

Types == CallsOK /\ AgentsOK /\ RulesOK /\ StatisticsOK /\ TablesOK

(***************************************************************************)
(* Proposals: one stored event for a claimed nonce, one token for a stored *)
(* event, the ledger before the agent.                                     *)
(***************************************************************************)
Claim(e) == <<e.agent, e.nonce>>

\* The token's conditions are those of a rule the event met, if of any.
Admits(rule, e) ==
    rule # None => rule \in RuleBody /\ MeetsAll(rule.conditions, e.metadata)

GrantedFor(grant, e) ==
    \E rule \in RuleBody \cup {None} : Admits(rule, e) /\ grant = GrantFor(e, rule)

Recorded(t) ==
    \E status \in Proceeding :
        [kind |-> "workflow.event.proposed", id |-> mintedFor[t],
         status |-> status] \in ledger

EventsOK ==
    /\ \A id \in EventId : events[id] # None => Claim(events[id]) \in nonces
    /\ \A id, other \in EventId :
          id # other /\ events[id] # None /\ events[other] # None
          => Claim(events[id]) # Claim(events[other])

TokensOK ==
    /\ \A t \in TokenId : mintedFor[t] # None =>
          token[t] # None /\ events[mintedFor[t]] # None
    /\ \A t, u \in TokenId : t # u /\ mintedFor[t] # None => mintedFor[t] # mintedFor[u]
    /\ \A t \in issued : mintedFor[t] # None
                         /\ GrantedFor(token[t].grant, events[mintedFor[t]])
    /\ consumed \subseteq delivered
    /\ \A t \in delivered : Recorded(t)

Proposing(th) == call[th] # None /\ call[th].op = "propose"

BeforeEvent == {"create", "claim", "add_event"}

ProposalOK(h) ==
    /\ h.step \in BeforeEvent => events[h.id] = None
    /\ h.step \notin BeforeEvent => events[h.id] = h.body
    /\ h.step = "add_event" =>
          /\ Claim(h.body) \in nonces
          /\ \A id \in EventId : events[id] # None => Claim(events[id]) # Claim(h.body)
    /\ h.step # "audit" => h.token = None /\ \A t \in TokenId : mintedFor[t] # h.id
    /\ h.step = "mint" => h.result \in Proceeding /\ Admits(h.rule, h.body)
    /\ h.step = "audit" /\ h.token # None =>
          /\ h.token \in issued /\ mintedFor[h.token] = h.id
          /\ h.result \in Proceeding

ProposalsOK ==
    /\ \A th \in Thread : Proposing(th) => ProposalOK(call[th])
    /\ \A th, other \in Thread : th # other /\ Proposing(th) /\ Proposing(other) =>
          /\ call[th].id # call[other].id
          /\ call[th].step = "add_event" /\ call[other].step = "add_event" =>
                Claim(call[th].body) # Claim(call[other].body)

(***************************************************************************)
(* Incidents: what is still active is still to be written, as long as no   *)
(* human grants anew.                                                      *)
(***************************************************************************)
IncidentOK(h) ==
    /\ h.step = "write_rules" => ActiveRules(h.scope) \subseteq h.todo
    /\ h.step \in {"revoke_scope", "audit"} => ActiveRules(h.scope) = {}

IncidentsOK ==
    \A th \in Thread : call[th] # None /\ call[th].op = "incident" =>
        /\ call[th].step = "read_agent" => call[th].agent = None
        /\ quiet[th] /\ call[th].agent # None => IncidentOK(call[th])

(***************************************************************************)
(* The fence.  Every write of an agent but a registration leaves it no     *)
(* higher than approval, if agents have one task or never were higher: the *)
(* API registers them without a level, and no handler raises one.          *)
(***************************************************************************)
OneTask == \A task, other \in Task : task = other

RegisteredLow ==
    \A reg \in Registration : \A task \in Task :
        reg.record.level[task] <= EXECUTE_WITH_APPROVAL

Low(agent) == \A task \in Task : AgentSeen(agent).level[task] <= EXECUTE_WITH_APPROVAL

\* The agents that an incident may find.
AgentsLow ==
    /\ wiring = "memory" => \A i \in 1 .. Len(heap) : Low(i)
    /\ wiring # "memory" => \A a \in Agent : agents[a] # None => Low(agents[a])

ReductionSettles == OneTask \/ AgentsLow

Settled(a) == agents[a] # None /\ Low(agents[a])

Fenced(scope) == ActiveRules(scope) = {} /\ Settled(scope[1])

AgentPart == {"read_agent", "reduce_agent", "write_agent"}

FencedHandlerOK(th, h) ==
    /\ h.op = "propose" /\ h.step = "create" => Low(h.agent)
    /\ h.op = "propose" /\ quiet[th] =>
          /\ ActiveRules(h.scope) = {} /\ Low(h.agent)
          /\ h.level \in AutonomyLevel /\ h.level <= EXECUTE_WITH_APPROVAL
          /\ h.step = "mint" => ~h.body.requires_execution
    /\ h.op = "incident" =>
          /\ h.step = "reduce_agent" => wiring = "memory"
          /\ h.step = "write_agent" => Low(h.agent)
          /\ quiet[th] /\ h.agent # None /\ h.step \notin AgentPart
             => Settled(h.scope[1])

FenceInv ==
    /\ \A scope \in fenced : Fenced(scope)
    /\ \A th \in Thread : call[th] # None => FencedHandlerOK(th, call[th])

(***************************************************************************)
(* Handlers as records: what a change of some local variables leaves.      *)
(***************************************************************************)
LEMMA NewHandler ==
    ASSUME NEW op, NEW step, NEW scope, NEW id, NEW body
    PROVE  LET h == NewCall(op, step, scope, id, body) IN
           /\ IsHandler(h)
           /\ h.op = op /\ h.step = step /\ h.scope = scope /\ h.id = id
           /\ h.body = body /\ h.agent = None /\ h.level = 0 /\ h.size = 0
           /\ h.tested = 0 /\ h.rule = None /\ h.todo = {} /\ h.token = None
           /\ h.result = None
BY DEF NewCall, IsHandler, HandlerField

\* g serves the request of h, with what was found of the agent.
Same(g, h) ==
    /\ IsHandler(g)
    /\ g.op = h.op /\ g.scope = h.scope /\ g.id = h.id /\ g.body = h.body

\* The updates the handlers make of their locals, each with what it leaves.
Stepped(h, next) == [h EXCEPT !.step = next]

LEMMA Stepping ==
    ASSUME NEW h, IsHandler(h), NEW next
    PROVE  LET g == Stepped(h, next) IN
           /\ Same(g, h)
           /\ g.step = next /\ g.agent = h.agent /\ g.level = h.level
           /\ g.size = h.size /\ g.tested = h.tested /\ g.rule = h.rule
           /\ g.todo = h.todo /\ g.token = h.token /\ g.result = h.result
BY DEF Stepped, Same, IsHandler, HandlerField

Decided(h, found, status, next) ==
    [h EXCEPT !.level = 0, !.size = 0, !.tested = 0,
              !.rule = found, !.result = status, !.step = next]

LEMMA Deciding ==
    ASSUME NEW h, IsHandler(h), NEW found, NEW status, NEW next
    PROVE  LET g == Decided(h, found, status, next) IN
           /\ Same(g, h)
           /\ g.step = next /\ g.agent = h.agent /\ g.level = 0
           /\ g.size = 0 /\ g.tested = 0 /\ g.rule = found
           /\ g.todo = h.todo /\ g.token = h.token /\ g.result = status
BY DEF Decided, Same, IsHandler, HandlerField

Leveled(h, seen, next) == [h EXCEPT !.level = seen, !.step = next]

LEMMA Leveling ==
    ASSUME NEW h, IsHandler(h), NEW seen, NEW next
    PROVE  LET g == Leveled(h, seen, next) IN
           /\ Same(g, h)
           /\ g.step = next /\ g.agent = h.agent /\ g.level = seen
           /\ g.size = h.size /\ g.tested = h.tested /\ g.rule = h.rule
           /\ g.todo = h.todo /\ g.token = h.token /\ g.result = h.result
BY DEF Leveled, Same, IsHandler, HandlerField

Tested(h, count, length) == [h EXCEPT !.tested = count, !.size = length]

LEMMA Testing ==
    ASSUME NEW h, IsHandler(h), NEW count, NEW length
    PROVE  LET g == Tested(h, count, length) IN
           /\ Same(g, h)
           /\ g.step = h.step /\ g.agent = h.agent /\ g.level = h.level
           /\ g.size = length /\ g.tested = count /\ g.rule = h.rule
           /\ g.todo = h.todo /\ g.token = h.token /\ g.result = h.result
BY DEF Tested, Same, IsHandler, HandlerField

Given(h, minted, next) == [h EXCEPT !.token = minted, !.step = next]

LEMMA Giving ==
    ASSUME NEW h, IsHandler(h), NEW minted, NEW next
    PROVE  LET g == Given(h, minted, next) IN
           /\ Same(g, h)
           /\ g.step = next /\ g.agent = h.agent /\ g.level = h.level
           /\ g.size = h.size /\ g.tested = h.tested /\ g.rule = h.rule
           /\ g.todo = h.todo /\ g.token = minted /\ g.result = h.result
BY DEF Given, Same, IsHandler, HandlerField

Found(h, next, read) == [h EXCEPT !.step = next, !.agent = read]

LEMMA Finding ==
    ASSUME NEW h, IsHandler(h), NEW next, NEW read
    PROVE  LET g == Found(h, next, read) IN
           /\ Same(g, h)
           /\ g.step = next /\ g.agent = read /\ g.level = h.level
           /\ g.size = h.size /\ g.tested = h.tested /\ g.rule = h.rule
           /\ g.todo = h.todo /\ g.token = h.token /\ g.result = h.result
BY DEF Found, Same, IsHandler, HandlerField

Advised(h, next, advice) == [h EXCEPT !.step = next, !.result = advice]

LEMMA Advising ==
    ASSUME NEW h, IsHandler(h), NEW next, NEW advice
    PROVE  LET g == Advised(h, next, advice) IN
           /\ Same(g, h)
           /\ g.step = next /\ g.agent = h.agent /\ g.level = h.level
           /\ g.size = h.size /\ g.tested = h.tested /\ g.rule = h.rule
           /\ g.todo = h.todo /\ g.token = h.token /\ g.result = advice
BY DEF Advised, Same, IsHandler, HandlerField

Listed(h, left, next) == [h EXCEPT !.todo = left, !.size = 0, !.step = next]

LEMMA Listing ==
    ASSUME NEW h, IsHandler(h), NEW left, NEW next
    PROVE  LET g == Listed(h, left, next) IN
           /\ Same(g, h)
           /\ g.step = next /\ g.agent = h.agent /\ g.level = h.level
           /\ g.size = 0 /\ g.tested = h.tested /\ g.rule = h.rule
           /\ g.todo = left /\ g.token = h.token /\ g.result = h.result
BY DEF Listed, Same, IsHandler, HandlerField

Scanned(h, length, next) == [h EXCEPT !.size = length, !.step = next]

LEMMA Scanning ==
    ASSUME NEW h, IsHandler(h), NEW length, NEW next
    PROVE  LET g == Scanned(h, length, next) IN
           /\ Same(g, h)
           /\ g.step = next /\ g.agent = h.agent /\ g.level = h.level
           /\ g.size = length /\ g.tested = h.tested /\ g.rule = h.rule
           /\ g.todo = h.todo /\ g.token = h.token /\ g.result = h.result
BY DEF Scanned, Same, IsHandler, HandlerField

\* One call takes a turn.
LEMMA Turn ==
    ASSUME CallsOK, NEW th \in Thread, NEW h, call' = [call EXCEPT ![th] = h]
    PROVE  /\ call' = [o \in Thread |-> call'[o]]
           /\ call'[th] = h
           /\ \A o \in Thread : o # th => call'[o] = call[o]
BY DEF CallsOK

(***************************************************************************)
(* Types: frames.                                                          *)
(***************************************************************************)

\* What the locals of a call refer to does not go away.
Growing ==
    /\ wiring' = wiring
    /\ heap' \in Seq(AgentRecord) /\ Len(heap) <= Len(heap')
    /\ Stored \subseteq Stored'
    /\ issued \subseteq issued'

LEMMA AgentStays ==
    ASSUME AgentsOK, Growing, NEW agent, HasAgent(agent)
    PROVE  HasAgent(agent)'
<1>1. CASE wiring = "memory"
  <2>1. agent \in 1 .. Len(heap) /\ Len(heap) \in Nat /\ Len(heap') \in Nat
        /\ Len(heap) <= Len(heap')
    BY <1>1 DEF HasAgent, Growing, AgentsOK
  <2>2. agent \in 1 .. Len(heap')
    BY <2>1
  <2> QED
    BY <1>1, <2>2 DEF HasAgent, Growing
<1>2. CASE wiring # "memory"
  BY <1>2 DEF HasAgent, Growing
<1> QED
  BY <1>1, <1>2

LEMMA TypedStays ==
    ASSUME AgentsOK, Growing, NEW h, Typed(h)
    PROVE  Typed(h)'
<1>1. \A agent : HasAgent(agent) => HasAgent(agent)'
  BY AgentStays
<1>2. Stored \subseteq Stored' /\ issued \subseteq issued'
  BY DEF Growing
<1> QED
  BY <1>1, <1>2 DEF Typed

\* A handler that went on: it still serves the same request.
LEMMA TypedOn ==
    ASSUME AgentsOK, Growing, NEW g, Typed(g), NEW h, IsHandler(h),
           h.op = g.op, h.scope = g.scope, h.id = g.id, h.body = g.body,
           g.op = "propose" =>
              /\ h.agent = g.agent
              /\ h.rule \in RuleBody \cup {None} /\ h.token \in issued' \cup {None}
              /\ h.tested \in Nat,
           g.op = "incident" =>
              /\ h.todo \subseteq g.todo \cup Stored
              /\ h.step \in {"reduce_agent", "write_agent"} => HasAgent(h.agent)
    PROVE  Typed(h)'
<1>1. \A agent : HasAgent(agent) => HasAgent(agent)'
  BY AgentStays
<1>2. Stored \subseteq Stored' /\ issued \subseteq issued'
  BY DEF Growing
<1> QED
  BY <1>1, <1>2 DEF Typed

LEMMA CallsStay ==
    ASSUME CallsOK, AgentsOK, Growing, NEW th \in Thread, NEW h,
           call' = [call EXCEPT ![th] = h], h # None => Typed(h)'
    PROVE  CallsOK'
<1>1. /\ call' = [o \in Thread |-> call'[o]]
      /\ call'[th] = h
      /\ \A o \in Thread : o # th => call'[o] = call[o]
  BY Turn
<1>2. ASSUME NEW o \in Thread, call'[o] # None PROVE Typed(call[o])'
  <2>1. CASE o = th
    <3>1. PICK g : g = call'[o]
      OBVIOUS
    <3>2. Typed(g)'
      BY <1>1, <1>2, <2>1, <3>1
    <3> QED
      BY <3>1, <3>2 DEF Typed, IsHandler, HasAgent
  <2>2. CASE o # th
    <3>1. PICK g : g = call[o]
      OBVIOUS
    <3>2. Typed(g)
      BY <1>1, <1>2, <2>2, <3>1 DEF CallsOK
    <3>3. Typed(g)' /\ call'[o] = g
      BY <1>1, <2>2, <3>1, <3>2, TypedStays
    <3> QED
      BY <3>3 DEF Typed, IsHandler, HasAgent
  <2> QED
    BY <2>1, <2>2
<1> QED
  BY <1>1, <1>2 DEF CallsOK

\* The tables stay, or only grow by a marker; the call goes on or returns.
LEMMA TablesStay ==
    ASSUME Types, NEW th \in Thread, NEW h, call' = [call EXCEPT ![th] = h],
           UNCHANGED <<token, issued, consumed, shared>>,
           revoked' \subseteq TokenId, StatisticsOK',
           fenced' \subseteq AuthScope, quiet' \in [Thread -> BOOLEAN],
           h # None => Typed(h)
    PROVE  Types'
<1>1. /\ token' = token /\ issued' = issued /\ consumed' = consumed
      /\ wiring' = wiring /\ events' = events /\ nonces' = nonces
      /\ mintedFor' = mintedFor /\ agents' = agents /\ heap' = heap
      /\ rules' = rules /\ order' = order /\ delivered' = delivered
  BY DEF shared, tables, agentVars, ruleVars
<1>2. Growing
  BY <1>1 DEF Types, AgentsOK, Growing, Stored
<1>3. CallsOK'
  <2>1. h # None => Typed(h)'
    BY <1>2, TypedStays DEF Types
  <2> QED
    BY <1>2, <2>1, CallsStay DEF Types
<1>4. AgentsOK'
  BY <1>1 DEF Types, AgentsOK, HasAgent
<1>5. RulesOK'
  BY <1>1 DEF Types, RulesOK, Stored
<1>6. TablesOK'
  BY <1>1 DEF Types, TablesOK, StoreTypeOK
<1> QED
  BY <1>3, <1>4, <1>5, <1>6 DEF Types

LEMMA StatisticsStay ==
    ASSUME StatisticsOK, UNCHANGED local
    PROVE  StatisticsOK'
BY DEF StatisticsOK, local

LEMMA HistoryStays ==
    ASSUME Types, UNCHANGED history
    PROVE  fenced' \subseteq AuthScope /\ quiet' \in [Thread -> BOOLEAN]
BY DEF Types, TablesOK, history

LEMMA StoreStays ==
    ASSUME Types, UNCHANGED storeVars
    PROVE  /\ UNCHANGED <<token, issued, consumed>>
           /\ revoked' \subseteq TokenId
BY DEF Types, TablesOK, StoreTypeOK, storeVars

\* The call that is at a step, as a value.
LEMMA HandlerAt ==
    ASSUME Types, NEW th \in Thread, NEW op, NEW step, At(th, op, step)
    PROVE  /\ call[th] # None /\ Typed(call[th]) /\ IsHandler(call[th])
           /\ call[th].op = op /\ call[th].step = step
BY DEF Types, CallsOK, At, Typed

LEMMA ReturnTypes ==
    ASSUME Types, NEW th \in Thread, Return(th),
           UNCHANGED <<storeVars, shared, local>>,
           fenced' \subseteq AuthScope, quiet' \in [Thread -> BOOLEAN]
    PROVE  Types'
<1>1. call' = [call EXCEPT ![th] = None]
  BY DEF Return, Goto
<1>2. StatisticsOK'
  BY StatisticsStay DEF Types
<1>3. UNCHANGED <<token, issued, consumed, shared>> /\ revoked' \subseteq TokenId
  BY StoreStays
<1>4. PICK h : h = None
  OBVIOUS
<1> QED
  BY <1>1, <1>2, <1>3, <1>4, TablesStay

\* A handler goes on with other locals, but for the request it serves.
LEMMA GotoTypes ==
    ASSUME Types, NEW th \in Thread, call[th] # None, NEW h, Goto(th, h),
           UNCHANGED <<storeVars, shared, local, history>>,
           IsHandler(h), h.op = call[th].op, h.scope = call[th].scope,
           h.id = call[th].id, h.body = call[th].body,
           h.op = "propose" =>
              /\ h.agent = call[th].agent
              /\ h.rule \in RuleBody \cup {None} /\ h.token = call[th].token
              /\ h.tested \in Nat,
           h.op = "incident" =>
              /\ h.todo \subseteq call[th].todo \cup Stored
              /\ h.step \in {"reduce_agent", "write_agent"} => HasAgent(h.agent)
    PROVE  Types'
<1>1. call' = [call EXCEPT ![th] = h]
  BY DEF Goto
<1>2. Typed(h)
  <2>1. Typed(call[th])
    BY DEF Types, CallsOK
  <2> QED
    BY <2>1 DEF Typed
<1>3. StatisticsOK'
  BY StatisticsStay DEF Types
<1>4. UNCHANGED <<token, issued, consumed, shared>> /\ revoked' \subseteq TokenId
  BY StoreStays
<1>5. fenced' \subseteq AuthScope /\ quiet' \in [Thread -> BOOLEAN]
  BY HistoryStays
<1> QED
  BY <1>1, <1>2, <1>3, <1>4, <1>5, TablesStay

(***************************************************************************)
(* Types: the steps that change no table.                                  *)
(***************************************************************************)

\* Every step of a handler that was refused, finished or interrupted.
LEMMA EndTypes ==
    ASSUME Types, NEW th \in Thread,
           \/ AuditRegistration(th) \/ AuditTrust(th) \/ AuditApproval(th)
           \/ AuditRevocation(th) \/ AuditIncident(th) \/ Raise(th)
    PROVE  Types'
<1>1. Return(th) /\ UNCHANGED <<storeVars, shared, local>>
  BY DEF AuditRegistration, AuditTrust, AuditApproval, AuditRevocation,
         AuditIncident, Raise
<1>2. fenced' \subseteq AuthScope /\ quiet' \in [Thread -> BOOLEAN]
  <2>1. CASE AuditIncident(th)
    <3>1. call[th].scope \in AuthScope
      <4>1. At(th, "incident", "audit")
        BY <2>1 DEF AuditIncident
      <4> QED
        BY <4>1, HandlerAt DEF Typed
    <3> QED
      BY <2>1, <3>1 DEF AuditIncident, Types, TablesOK
  <2>2. CASE ~AuditIncident(th)
    <3>1. UNCHANGED history
      BY <2>2 DEF AuditRegistration, AuditTrust, AuditApproval, AuditRevocation, Raise
    <3> QED
      BY <3>1, HistoryStays
  <2> QED
    BY <2>1, <2>2
<1> QED
  BY <1>1, <1>2, ReturnTypes

(***************************************************************************)
(* What each step does to the call it belongs to.                          *)
(***************************************************************************)
LEMMA ContinueEffect ==
    ASSUME Types, NEW th \in Thread, call[th] # None, NEW next, Continue(th, next)
    PROVE  \E h : /\ Goto(th, h) /\ h = Stepped(call[th], next)
                  /\ Same(h, call[th]) /\ h.step = next /\ h.agent = call[th].agent
                  /\ h.level = call[th].level /\ h.rule = call[th].rule
                  /\ h.tested = call[th].tested
                  /\ h.todo = call[th].todo /\ h.token = call[th].token
                  /\ h.result = call[th].result
<1>1. IsHandler(call[th])
  BY DEF Types, CallsOK, Typed
<1>2. Goto(th, Stepped(call[th], next))
  BY DEF Continue, Stepped
<1> QED
  BY <1>1, <1>2, Stepping

\* The rules a handler may find for an event: approved by a human, and met.
LEMMA MatchingIsApproved ==
    ASSUME RulesOK, NEW r \in Stored, NEW e, Matches(rules[r], e)
    PROVE  rules[r] \in RuleBody /\ Admits(rules[r], e)
BY DEF RulesOK, Matches, Admits

\* The decision and the level and rule it came from.
DecisionFor(th, level, rule) ==
    Evaluate(default_boundary_rules,
             WithKnownWorkflows(call[th].body, AgentSeen(call[th].agent)),
             level, rule).status

StepAfter(status) == IF status \in Proceeding THEN "mint" ELSE "audit"

LEMMA DecideEffect ==
    ASSUME Types, NEW th \in Thread, call[th] # None, NEW level, NEW rule,
           DecideOn(th, level, rule)
    PROVE  \E h : /\ Goto(th, h) /\ Same(h, call[th]) /\ h.agent = call[th].agent
                  /\ h.level = 0 /\ h.rule = rule /\ h.token = call[th].token
                  /\ h.tested = 0
                  /\ h.result = DecisionFor(th, level, rule)
                  /\ h.step = StepAfter(h.result)
<1>1. IsHandler(call[th])
  BY DEF Types, CallsOK, Typed
<1> DEFINE status == DecisionFor(th, level, rule)
<1>2. Goto(th, Decided(call[th], rule, status, StepAfter(status)))
  BY DEF DecideOn, Decided, DecisionFor, StepAfter
<1> HIDE DEF status
<1>3. \E h : h = Decided(call[th], rule, status, StepAfter(status))
  OBVIOUS
<1>4. PICK h : h = Decided(call[th], rule, status, StepAfter(status))
  BY <1>3
<1>5. /\ Same(h, call[th]) /\ h.agent = call[th].agent /\ h.level = 0
      /\ h.rule = rule /\ h.token = call[th].token /\ h.result = status
      /\ h.tested = 0 /\ h.step = StepAfter(status)
  BY <1>1, <1>4, Deciding
<1>6. Goto(th, h)
  BY <1>2, <1>4
<1> QED
  BY <1>5, <1>6 DEF status

\* Whatever the rules are tested with, on whichever wiring.
RuleFound(rule, h) ==
    rule # None => /\ rule \in RuleBody /\ Admits(rule, h.body)
                   /\ \E r \in Stored : rule = rules[r] /\ Matches(rule, h.body)

Deliberating(th) == EvaluateEvent(th) \/ ReadLevel(th) \/ TestRule(th)

Deliberation(th, h) ==
    /\ Same(h, call[th]) /\ h.agent = call[th].agent /\ h.token = call[th].token
    /\ h.tested \in Nat
    /\ \/ /\ h.step = "test_rule" /\ h.rule = call[th].rule
          /\ h.level \in {call[th].level, LevelSeen(th)}
       \/ \E level \in {call[th].level, LevelSeen(th)} :
             /\ RuleFound(h.rule, h)
             /\ h.level = 0
             /\ h.result = DecisionFor(th, level, h.rule)
             /\ h.step = StepAfter(h.result)

LEMMA DecisionIsDeliberation ==
    ASSUME Types, NEW th \in Thread, call[th] # None, NEW rule,
           NEW level \in {call[th].level, LevelSeen(th)},
           DecideOn(th, level, rule), RuleFound(rule, call[th])
    PROVE  \E h : Goto(th, h) /\ Deliberation(th, h)
<1>1. PICK h : /\ Goto(th, h) /\ Same(h, call[th]) /\ h.agent = call[th].agent
               /\ h.level = 0 /\ h.rule = rule /\ h.token = call[th].token
               /\ h.tested = 0
               /\ h.result = DecisionFor(th, level, rule)
               /\ h.step = StepAfter(h.result)
  BY DecideEffect
<1>2. RuleFound(h.rule, h)
  BY <1>1 DEF RuleFound, Same
<1> QED
  BY <1>1, <1>2 DEF Deliberation

LEMMA DeliberatingEffect ==
    ASSUME Types, NEW th \in Thread, Deliberating(th)
    PROVE  /\ call[th] # None /\ call[th].op = "propose"
           /\ call[th].step \in {"evaluate", "read_level", "test_rule"}
           /\ UNCHANGED <<storeVars, shared, local, ledger, history>>
           /\ Return(th) \/ \E h : Goto(th, h) /\ Deliberation(th, h)
<1>1. CASE EvaluateEvent(th)
  <2>1. /\ call[th] # None /\ call[th].op = "propose"
        /\ call[th].step = "evaluate"
    BY <1>1, HandlerAt DEF EvaluateEvent
  <2>2. PICK rule \in FoundRules(call[th].body) : DecideOn(th, LevelSeen(th), rule)
    BY <1>1 DEF EvaluateEvent
  <2>3. RuleFound(rule, call[th])
    <3>1. CASE rule # None
      <4>1. PICK r \in MatchingRules(call[th].body) : rule = rules[r]
        BY <2>2, <3>1 DEF FoundRules
      <4>2. r \in Stored /\ Matches(rule, call[th].body)
        BY <4>1 DEF MatchingRules, Stored
      <4>3. rule \in RuleBody /\ Admits(rule, call[th].body)
        BY <4>1, <4>2, MatchingIsApproved DEF Types
      <4> QED
        BY <4>1, <4>2, <4>3 DEF RuleFound
    <3> QED
      BY <3>1 DEF RuleFound
  <2>4. \E h : Goto(th, h) /\ Deliberation(th, h)
    BY <2>1, <2>2, <2>3, DecisionIsDeliberation
  <2> QED
    BY <1>1, <2>1, <2>4 DEF EvaluateEvent
<1>2. CASE ReadLevel(th)
  <2>1. /\ call[th] # None /\ call[th].op = "propose" /\ IsHandler(call[th])
        /\ call[th].step = "read_level" /\ call[th].tested \in Nat
    BY <1>2, HandlerAt DEF ReadLevel, Typed
  <2>2. Goto(th, Leveled(call[th], LevelSeen(th), "test_rule"))
    BY <1>2 DEF ReadLevel, Leveled
  <2>3. PICK h : h = Leveled(call[th], LevelSeen(th), "test_rule")
    OBVIOUS
  <2>4. /\ Same(h, call[th]) /\ h.agent = call[th].agent /\ h.rule = call[th].rule
        /\ h.token = call[th].token /\ h.level = LevelSeen(th)
        /\ h.tested = call[th].tested /\ h.step = "test_rule"
    BY <2>1, <2>3, Leveling
  <2>5. Goto(th, h) /\ Deliberation(th, h)
    BY <2>1, <2>2, <2>3, <2>4 DEF Deliberation
  <2> QED
    BY <1>2, <2>1, <2>5 DEF ReadLevel
<1>3. CASE TestRule(th)
  <2> DEFINE n == call[th].tested
             size == IF n = 0 THEN Len(order) ELSE call[th].size
             rule == rules[order[n + 1]]
  <2>1. /\ call[th] # None /\ call[th].op = "propose" /\ IsHandler(call[th])
        /\ call[th].step = "test_rule" /\ n \in Nat
    BY <1>3, HandlerAt DEF TestRule, Typed
  <2>2. UNCHANGED <<storeVars, shared, local, ledger, history>>
    BY <1>3 DEF TestRule
  <2>3. \/ Return(th)
        \/ DecideOn(th, call[th].level, None)
        \/ /\ size = Len(order) /\ n < size /\ Matches(rule, call[th].body)
           /\ DecideOn(th, call[th].level, rule)
        \/ Goto(th, Tested(call[th], n + 1, size))
    BY <1>3 DEF TestRule, Tested
  <2>4. CASE DecideOn(th, call[th].level, None)
    <3>1. RuleFound(None, call[th])
      BY DEF RuleFound
    <3> QED
      BY <2>1, <2>2, <2>4, <3>1, DecisionIsDeliberation
  <2>5. CASE /\ size = Len(order) /\ n < size /\ Matches(rule, call[th].body)
             /\ DecideOn(th, call[th].level, rule)
    <3>1. RuleFound(rule, call[th])
      <4>1. rule # None => \E r \in Stored : rule = rules[r]
        <5>1. order \in Seq(RuleId)
          BY DEF Types, RulesOK
        <5>2. order[n + 1] \in RuleId
          <6>1. n + 1 \in 1 .. Len(order)
            BY <2>1, <2>5, <5>1
          <6> QED
            BY <5>1, <6>1
        <5> QED
          BY <5>2 DEF Stored
      <4> QED
        BY <2>5, <4>1, MatchingIsApproved DEF RuleFound, Types
    <3> QED
      BY <2>1, <2>2, <2>5, <3>1, DecisionIsDeliberation
  <2>6. CASE Goto(th, Tested(call[th], n + 1, size))
    <3>1. PICK h : h = Tested(call[th], n + 1, size)
      OBVIOUS
    <3>2. /\ Same(h, call[th]) /\ h.agent = call[th].agent /\ h.step = call[th].step
          /\ h.rule = call[th].rule /\ h.token = call[th].token
          /\ h.level = call[th].level /\ h.tested = n + 1
      BY <2>1, <3>1, Testing
    <3>3. Goto(th, h) /\ Deliberation(th, h)
      BY <2>1, <2>6, <3>1, <3>2 DEF Deliberation
    <3> QED
      BY <2>1, <2>2, <3>3
  <2> QED
    BY <2>1, <2>2, <2>3, <2>4, <2>5, <2>6
<1> QED
  BY <1>1, <1>2, <1>3 DEF Deliberating

(***************************************************************************)
(* Types, one step after the other.                                        *)
(***************************************************************************)
LEMMA ContinueTypes ==
    ASSUME Types, NEW th \in Thread, call[th] # None, NEW next, Continue(th, next),
           UNCHANGED <<storeVars, shared, local, history>>,
           next \notin {"reduce_agent", "write_agent"}
    PROVE  Types'
<1>1. PICK h : /\ Goto(th, h)
               /\ Same(h, call[th]) /\ h.step = next /\ h.agent = call[th].agent
               /\ h.rule = call[th].rule /\ h.tested = call[th].tested
               /\ h.todo = call[th].todo /\ h.token = call[th].token
  BY ContinueEffect
<1>2. Typed(call[th])
  BY DEF Types, CallsOK
<1>3. h.op = "propose" => h.rule \in RuleBody \cup {None} /\ h.tested \in Nat
  BY <1>1, <1>2 DEF Typed, Same
<1> QED
  BY <1>1, <1>3, GotoTypes DEF Same

LEMMA DeliberatingTypes ==
    ASSUME Types, NEW th \in Thread, Deliberating(th)
    PROVE  Types'
<1>1. /\ call[th] # None /\ call[th].op = "propose"
      /\ UNCHANGED <<storeVars, shared, local, history>>
      /\ Return(th) \/ \E h : Goto(th, h) /\ Deliberation(th, h)
  BY DeliberatingEffect
<1>2. CASE Return(th)
  BY <1>1, <1>2, HistoryStays, ReturnTypes
<1>3. CASE \E h : Goto(th, h) /\ Deliberation(th, h)
  <2>1. PICK h : Goto(th, h) /\ Deliberation(th, h)
    BY <1>3
  <2>2. call[th].rule \in RuleBody \cup {None}
    BY <1>1 DEF Types, CallsOK, Typed
  <2>3. /\ Same(h, call[th]) /\ h.agent = call[th].agent
        /\ h.token = call[th].token /\ h.tested \in Nat
        /\ h.rule \in RuleBody \cup {None}
    BY <2>1, <2>2 DEF Deliberation, RuleFound
  <2> QED
    BY <1>1, <2>1, <2>3, GotoTypes DEF Same
<1> QED
  BY <1>1, <1>2, <1>3

LEMMA RecommendEffect ==
    ASSUME Types, NEW th \in Thread, RecommendFor(th)
    PROVE  /\ call[th] # None /\ call[th].op = "decide"
           /\ UNCHANGED <<storeVars, shared, local, history>>
           /\ Return(th) \/ \E h : Goto(th, h) /\ Same(h, call[th])
<1> DEFINE s == call[th].scope
           advice == Recommend(AgentSeen(agents[s[1]]).level[<<s[2], s[3]>>],
                               memory[ProcessOf(th)][s], s[3])
<1>1. /\ call[th] # None /\ call[th].op = "decide" /\ IsHandler(call[th])
  BY HandlerAt DEF RecommendFor
<1>2. UNCHANGED <<storeVars, shared, local, history>>
  BY DEF RecommendFor
<1>3. \/ Return(th)
      \/ Goto(th, Advised(call[th], "audit_recommendation", advice))
  BY DEF RecommendFor, Advised
<1> HIDE DEF s, advice
<1>4. PICK h : h = Advised(call[th], "audit_recommendation", advice)
  OBVIOUS
<1>5. Same(h, call[th])
  BY <1>1, <1>4, Advising
<1> QED
  BY <1>1, <1>2, <1>3, <1>4, <1>5

\* The handler of a decision, and the last but one step of the other two.
LEMMA DecisionTypes ==
    ASSUME Types, NEW th \in Thread,
           AuditDecision(th) \/ RecommendFor(th) \/ AuditRecommendation(th)
    PROVE  Types'
<1>1. CASE AuditDecision(th)
  <2>1. call[th] # None
    BY <1>1 DEF AuditDecision, At
  <2> QED
    BY <1>1, <2>1, ContinueTypes DEF AuditDecision
<1>2. CASE AuditRecommendation(th)
  <2>1. call[th] # None
    BY <1>2 DEF AuditRecommendation, At
  <2> QED
    BY <1>2, <2>1, ContinueTypes DEF AuditRecommendation
<1>3. CASE RecommendFor(th)
  <2>1. /\ call[th] # None /\ call[th].op = "decide"
        /\ UNCHANGED <<storeVars, shared, local, history>>
        /\ Return(th) \/ \E h : Goto(th, h) /\ Same(h, call[th])
    BY <1>3, RecommendEffect
  <2>2. CASE Return(th)
    BY <2>1, <2>2, HistoryStays, ReturnTypes
  <2>3. CASE \E h : Goto(th, h) /\ Same(h, call[th])
    BY <2>1, <2>3, GotoTypes DEF Same
  <2> QED
    BY <2>1, <2>2, <2>3
<1> QED
  BY <1>1, <1>2, <1>3

LEMMA CountedIsStats ==
    ASSUME NEW s \in TrustStats, NEW outcome \in ApprovalOutcome
    PROVE  Counted(s, outcome) \in TrustStats
BY DEF Counted, TrustStats, ApprovalOutcome

LEMMA ProcessOfThread ==
    ASSUME NEW th \in Thread
    PROVE  ProcessOf(th) \in Replica
<1>1. ReplicaOf[th] \in Replica
  BY ControlPlaneAssumption
<1>2. (CHOOSE p \in Replica : TRUE) \in Replica
  BY <1>1
<1> QED
  BY <1>1, <1>2 DEF ProcessOf

LEMMA NestedUpdate ==
    ASSUME NEW I, NEW J, NEW S, NEW f \in [I -> [J -> S]], NEW i \in I, NEW j \in J,
           NEW x \in S
    PROVE  [f EXCEPT ![i][j] = x] \in [I -> [J -> S]]
OBVIOUS

LEMMA ApplyTypes ==
    ASSUME Types, NEW th \in Thread, ApplyDecision(th)
    PROVE  Types'
<1> DEFINE p == ProcessOf(th)
           s == call[th].scope
<1>1. /\ call[th] # None /\ call[th].op = "decide" /\ call[th].id \in EventId
      /\ call[th].body \in ApprovalOutcome /\ s \in AuthScope /\ IsHandler(call[th])
      /\ Typed(call[th])
  BY HandlerAt, ControlPlaneAssumption DEF ApplyDecision, Typed
<1>2. UNCHANGED <<storeVars, shared, history>>
  BY DEF ApplyDecision
<1>3. UNCHANGED <<token, issued, consumed, shared>> /\ revoked' \subseteq TokenId
      /\ fenced' \subseteq AuthScope /\ quiet' \in [Thread -> BOOLEAN]
  BY <1>2, StoreStays, HistoryStays
<1>4. CASE Return(th) /\ UNCHANGED local
  BY <1>2, <1>4, HistoryStays, ReturnTypes
<1>5. CASE /\ decided' = [decided EXCEPT ![p][s] = @ \cup {call[th].id}]
           /\ memory' = [memory EXCEPT ![p][s] = Counted(@, call[th].body)]
           /\ Continue(th, "audit_decision")
  <2>1. p \in Replica
    BY ProcessOfThread
  <2> HIDE DEF p, s
  <2>2. /\ memory \in [Replica -> [AuthScope -> TrustStats]]
        /\ decided \in [Replica -> [AuthScope -> SUBSET EventId]]
    BY DEF Types, StatisticsOK
  <2>3. /\ memory[p][s] \in TrustStats
        /\ decided[p][s] \cup {call[th].id} \in SUBSET EventId
    BY <1>1, <2>1, <2>2
  <2>4. Counted(memory[p][s], call[th].body) \in TrustStats
    BY <1>1, <2>3, CountedIsStats
  <2>5. memory' \in [Replica -> [AuthScope -> TrustStats]]
    BY <1>1, <1>5, <2>1, <2>2, <2>4, NestedUpdate
  <2>6. decided' \in [Replica -> [AuthScope -> SUBSET EventId]]
    BY <1>1, <1>5, <2>1, <2>2, <2>3, NestedUpdate
  <2>7. StatisticsOK'
    BY <2>5, <2>6 DEF StatisticsOK
  <2>8. PICK h : Goto(th, h) /\ Same(h, call[th])
    BY <1>1, <1>5, ContinueEffect
  <2>9. call' = [call EXCEPT ![th] = h] /\ Typed(h)
    BY <1>1, <2>8 DEF Goto, Same, Typed
  <2> QED
    BY <1>3, <2>7, <2>9, TablesStay
<1> QED
  BY <1>4, <1>5 DEF ApplyDecision

LEMMA RevokeScopeTypes ==
    ASSUME Types, NEW th \in Thread, RevokeScope(th)
    PROVE  Types'
<1>1. /\ call[th] # None /\ call[th].op \in {"incident", "revoke"}
      /\ Typed(call[th])
  <2>1. CASE At(th, "incident", "revoke_scope")
    BY <2>1, HandlerAt
  <2>2. CASE At(th, "revoke", "revoke_scope")
    BY <2>2, HandlerAt
  <2> QED
    BY <2>1, <2>2 DEF RevokeScope
<1>2. PICK h : Goto(th, h) /\ Same(h, call[th]) /\ h.step = "audit"
               /\ h.todo = call[th].todo
  BY <1>1, ContinueEffect DEF RevokeScope
<1>3. call' = [call EXCEPT ![th] = h] /\ Typed(h)
  BY <1>1, <1>2 DEF Goto, Same, Typed
<1>4. UNCHANGED <<token, issued, consumed, shared>> /\ revoked' \subseteq TokenId
  <2>1. revoked \subseteq TokenId /\ issued \subseteq TokenId
    BY DEF Types, TablesOK, StoreTypeOK
  <2> QED
    BY <2>1 DEF RevokeScope, MarkScopeRevoked, LiveInScope
<1>5. UNCHANGED <<local, history>>
  BY DEF RevokeScope
<1>6. StatisticsOK' /\ fenced' \subseteq AuthScope /\ quiet' \in [Thread -> BOOLEAN]
  BY <1>5, StatisticsStay, HistoryStays DEF Types
<1> QED
  BY <1>3, <1>4, <1>6, TablesStay

(***************************************************************************)
(* The handler of an incident.                                             *)
(***************************************************************************)
OneMore(agent) == [agent EXCEPT !.incidents = @ + 1]
WithLevels(agent, level) == [agent EXCEPT !.level = level]

LEMMA ReducedIsRecord ==
    ASSUME NEW agent \in AgentRecord, NEW task \in Task
    PROVE  /\ Reduced(agent, task) \in AgentRecord
           /\ Reduced(agent, task).level[task] <= EXECUTE_WITH_APPROVAL
           /\ \A other \in Task :
                 Reduced(agent, task).level[other] <= agent.level[other]
<1> DEFINE level == [agent.level EXCEPT ![task] = Lower(@, EXECUTE_WITH_APPROVAL)]
<1>1. agent.level \in [Task -> AutonomyLevel]
  BY DEF AgentRecord
<1>2. agent.level[task] \in AutonomyLevel
  BY <1>1
<1>3. /\ Lower(agent.level[task], EXECUTE_WITH_APPROVAL) \in AutonomyLevel
      /\ Lower(agent.level[task], EXECUTE_WITH_APPROVAL) <= EXECUTE_WITH_APPROVAL
      /\ Lower(agent.level[task], EXECUTE_WITH_APPROVAL) <= agent.level[task]
  BY <1>2 DEF Lower, AutonomyLevel, EXECUTE_WITH_APPROVAL, OBSERVE_ONLY,
              DELEGATED_AUTHORITY
<1>4. /\ level \in [Task -> AutonomyLevel] /\ level[task] <= EXECUTE_WITH_APPROVAL
      /\ \A other \in Task : level[other] <= agent.level[other]
  <2>1. \A other \in Task : other # task => level[other] = agent.level[other]
    BY <1>1
  <2>2. \A other \in Task : agent.level[other] <= agent.level[other]
    BY <1>1 DEF AutonomyLevel
  <2> QED
    BY <1>1, <1>3, <2>1, <2>2
<1>5. Reduced(agent, task) = [agent EXCEPT !.incidents = @ + 1, !.level = level]
  BY DEF Reduced
<1> HIDE DEF level
<1>6. Reduced(agent, task) \in AgentRecord /\ Reduced(agent, task).level = level
  <2> DEFINE L == [Task -> AutonomyLevel]
             R == [owner : Human, level : L, workflows : SUBSET Workflow,
                   active : BOOLEAN, incidents : Nat]
  <2>1. AgentRecord = R
    BY DEF AgentRecord
  <2>2. level \in L
    BY <1>4
  <2> HIDE DEF L
  <2>3. PICK counted : counted = OneMore(agent)
    OBVIOUS
  <2>4. counted \in R
    BY <2>1, <2>3 DEF OneMore
  <2>5. WithLevels(counted, level) \in R /\ WithLevels(counted, level).level = level
    BY <2>2, <2>4 DEF WithLevels
  <2>6. Reduced(agent, task) = WithLevels(counted, level)
    BY <1>5, <2>3 DEF OneMore, WithLevels
  <2> QED
    BY <2>1, <2>5, <2>6
<1> QED
  BY <1>4, <1>6

LEMMA WriteBackEffect ==
    ASSUME Types, NEW th \in Thread, call[th] # None, NEW todo, WriteBack(th, todo)
    PROVE  \E h : /\ Goto(th, h) /\ Same(h, call[th]) /\ h.agent = call[th].agent
                  /\ h.todo = todo
                  /\ h.step = IF todo = {} THEN "revoke_scope" ELSE "write_rules"
<1> DEFINE next == IF todo = {} THEN "revoke_scope" ELSE "write_rules"
<1>1. IsHandler(call[th])
  BY DEF Types, CallsOK, Typed
<1>2. Goto(th, Listed(call[th], todo, next))
  BY DEF WriteBack, Listed
<1> HIDE DEF next
<1>3. PICK h : h = Listed(call[th], todo, next)
  OBVIOUS
<1>4. Same(h, call[th]) /\ h.agent = call[th].agent /\ h.todo = todo /\ h.step = next
  BY <1>1, <1>3, Listing
<1> QED
  BY <1>2, <1>3, <1>4 DEF next

\* What get_agent gave the handler: nothing, a copy that it changed, an object.
ReadAgentStep(h, agent, task) ==
    \/ agent = None /\ h.step = "revoke_scope"
    \/ /\ agent # None /\ wiring = "sql" /\ h.step = "write_agent"
       /\ h.agent = Reduced(agent, task)
    \/ /\ agent # None /\ wiring = "memory" /\ h.step = "reduce_agent"
       /\ h.agent = agent

LEMMA ReadAgentEffect ==
    ASSUME Types, NEW th \in Thread, ReadAgent(th)
    PROVE  LET s == call[th].scope IN
           /\ call[th] # None /\ call[th].op = "incident"
           /\ call[th].step = "read_agent"
           /\ UNCHANGED <<storeVars, shared, local, ledger, history>>
           /\ \E h : /\ Goto(th, h) /\ Same(h, call[th]) /\ h.todo = call[th].todo
                     /\ agents[s[1]] = None => h.agent = call[th].agent
                     /\ ReadAgentStep(h, agents[s[1]], <<s[2], s[3]>>)
<1> DEFINE s == call[th].scope
           agent == agents[s[1]]
           task == <<s[2], s[3]>>
<1>1. /\ call[th] # None /\ call[th].op = "incident" /\ IsHandler(call[th])
      /\ call[th].step = "read_agent"
  BY HandlerAt DEF ReadAgent
<1>2. UNCHANGED <<storeVars, shared, local, ledger, history>>
  BY DEF ReadAgent
<1>3. \/ agent = None /\ Continue(th, "revoke_scope")
      \/ /\ agent # None /\ wiring = "sql"
         /\ Goto(th, Found(call[th], "write_agent", Reduced(agent, task)))
      \/ /\ agent # None /\ wiring = "memory"
         /\ Goto(th, Found(call[th], "reduce_agent", agent))
  BY DEF ReadAgent, Found
<1> HIDE DEF s, agent, task
<1> DEFINE Goal == \E h : /\ Goto(th, h) /\ Same(h, call[th]) /\ h.todo = call[th].todo
                          /\ agent = None => h.agent = call[th].agent
                          /\ ReadAgentStep(h, agent, task)
<1>4. ASSUME agent = None, Continue(th, "revoke_scope") PROVE Goal
  <2>1. PICK h : Goto(th, h) /\ Same(h, call[th]) /\ h.step = "revoke_scope"
                 /\ h.agent = call[th].agent /\ h.todo = call[th].todo
    BY <1>1, <1>4, ContinueEffect
  <2> QED
    BY <1>4, <2>1 DEF ReadAgentStep
<1>5. ASSUME agent # None, wiring = "sql",
             Goto(th, Found(call[th], "write_agent", Reduced(agent, task)))
      PROVE  Goal
  <2>1. PICK h : h = Found(call[th], "write_agent", Reduced(agent, task))
    OBVIOUS
  <2>2. /\ Same(h, call[th]) /\ h.step = "write_agent"
        /\ h.agent = Reduced(agent, task) /\ h.todo = call[th].todo
    BY <1>1, <2>1, Finding
  <2> QED
    BY <1>5, <2>1, <2>2 DEF ReadAgentStep
<1>6. ASSUME agent # None, wiring = "memory",
             Goto(th, Found(call[th], "reduce_agent", agent))
      PROVE  Goal
  <2>1. PICK h : h = Found(call[th], "reduce_agent", agent)
    OBVIOUS
  <2>2. /\ Same(h, call[th]) /\ h.step = "reduce_agent"
        /\ h.agent = agent /\ h.todo = call[th].todo
    BY <1>1, <2>1, Finding
  <2> QED
    BY <1>6, <2>1, <2>2 DEF ReadAgentStep
<1>7. Goal
  BY <1>3, <1>4, <1>5, <1>6
<1> QED
  BY <1>1, <1>2, <1>7 DEF s, agent, task

LEMMA TaskOfScope ==
    ASSUME NEW scope \in AuthScope
    PROVE  /\ scope[1] \in Agent /\ <<scope[2], scope[3]>> \in Task
           /\ scope = <<scope[1], scope[2], scope[3]>>
BY DEF AuthScope, Task

LEMMA ReadAgentTypes ==
    ASSUME Types, NEW th \in Thread, ReadAgent(th)
    PROVE  Types'
<1> DEFINE s == call[th].scope
           agent == agents[s[1]]
           task == <<s[2], s[3]>>
<1>1. /\ call[th] # None /\ call[th].op = "incident"
      /\ call[th].step = "read_agent"
      /\ UNCHANGED <<storeVars, shared, local, history>>
  BY ReadAgentEffect
<1>2. PICK h : /\ Goto(th, h) /\ Same(h, call[th]) /\ h.todo = call[th].todo
               /\ ReadAgentStep(h, agent, task)
  BY ReadAgentEffect
<1>3. s[1] \in Agent /\ task \in Task
  <2>1. s \in AuthScope
    BY <1>1 DEF Types, CallsOK, Typed
  <2> QED
    BY <2>1, TaskOfScope
<1> HIDE DEF s, task
<1>4. agent # None => HasAgent(agent)
  BY <1>3 DEF Types, AgentsOK
<1> HIDE DEF agent
<1>5. h.step \in {"reduce_agent", "write_agent"} => HasAgent(h.agent)
  <2>1. CASE h.step = "reduce_agent"
    BY <1>2, <1>4, <2>1 DEF ReadAgentStep
  <2>2. CASE h.step = "write_agent"
    <3>1. agent \in AgentRecord /\ h.agent = Reduced(agent, task) /\ wiring = "sql"
      BY <1>2, <1>4, <2>2 DEF ReadAgentStep, HasAgent
    <3>2. h.agent \in AgentRecord
      BY <1>3, <3>1, ReducedIsRecord
    <3> QED
      BY <3>1, <3>2 DEF HasAgent
  <2> QED
    BY <2>1, <2>2
<1> QED
  BY <1>1, <1>2, <1>5, GotoTypes DEF Same

\* The rules an incident collects are stored ones.
LEMMA WriteBackTypes ==
    ASSUME Types, NEW th \in Thread, call[th] # None, call[th].op = "incident",
           NEW todo, todo \subseteq Stored, WriteBack(th, todo),
           UNCHANGED <<storeVars, shared, local, history>>
    PROVE  Types'
<1>1. PICK h : /\ Goto(th, h) /\ Same(h, call[th]) /\ h.todo = todo
               /\ h.step = IF todo = {} THEN "revoke_scope" ELSE "write_rules"
  BY WriteBackEffect
<1>2. /\ h.todo \subseteq call[th].todo \cup Stored
      /\ h.step \notin {"reduce_agent", "write_agent"}
  BY <1>1
<1> QED
  BY <1>1, <1>2, GotoTypes DEF Same

Collecting(th) == ReadRules(th) \/ BeginScan(th) \/ EndScan(th)

LEMMA CollectingEffect ==
    ASSUME Types, NEW th \in Thread, Collecting(th)
    PROVE  /\ call[th] # None /\ call[th].op = "incident"
           /\ UNCHANGED <<storeVars, shared, local, ledger, history>>
           /\ \/ Return(th)
              \/ WriteBack(th, {}) /\ order = << >>
              \/ WriteBack(th, ActiveRules(call[th].scope))
              \/ WriteBack(th, RulesFor(call[th].scope))
              \/ \E h : /\ Goto(th, h) /\ Same(h, call[th]) /\ h.step = "end_scan"
                        /\ h.agent = call[th].agent /\ h.todo = call[th].todo
<1>1. CASE ReadRules(th)
  BY <1>1, HandlerAt DEF ReadRules
<1>2. CASE BeginScan(th)
  <2>1. call[th] # None /\ call[th].op = "incident" /\ IsHandler(call[th])
    BY <1>2, HandlerAt DEF BeginScan
  <2>2. UNCHANGED <<storeVars, shared, local, ledger, history>>
    BY <1>2 DEF BeginScan
  <2>3. CASE order = << >>
    BY <1>2, <2>1, <2>2, <2>3 DEF BeginScan
  <2>4. CASE order # << >>
    <3>1. Goto(th, Scanned(call[th], Len(order), "end_scan"))
      BY <1>2, <2>4 DEF BeginScan, Scanned
    <3>2. PICK h : h = Scanned(call[th], Len(order), "end_scan")
      OBVIOUS
    <3>3. /\ Same(h, call[th]) /\ h.step = "end_scan" /\ h.agent = call[th].agent
          /\ h.todo = call[th].todo
      BY <2>1, <3>2, Scanning
    <3> QED
      BY <2>1, <2>2, <3>1, <3>2, <3>3
  <2> QED
    BY <2>3, <2>4
<1>3. CASE EndScan(th)
  BY <1>3, HandlerAt DEF EndScan
<1> QED
  BY <1>1, <1>2, <1>3 DEF Collecting

LEMMA CollectingTypes ==
    ASSUME Types, NEW th \in Thread, Collecting(th)
    PROVE  Types'
<1>1. /\ call[th] # None /\ call[th].op = "incident"
      /\ UNCHANGED <<storeVars, shared, local, history>>
  BY CollectingEffect
<1>2. {} \subseteq Stored
      /\ ActiveRules(call[th].scope) \subseteq Stored
      /\ RulesFor(call[th].scope) \subseteq Stored
  BY DEF ActiveRules, RulesFor, Stored
<1>3. CASE Return(th)
  BY <1>1, <1>3, HistoryStays, ReturnTypes
<1>4. CASE \E todo : todo \subseteq Stored /\ WriteBack(th, todo)
  BY <1>1, <1>4, WriteBackTypes
<1>5. CASE \E h : /\ Goto(th, h) /\ Same(h, call[th]) /\ h.step = "end_scan"
                  /\ h.agent = call[th].agent /\ h.todo = call[th].todo
  BY <1>1, <1>5, GotoTypes DEF Same
<1> QED
  BY <1>2, <1>3, <1>4, <1>5, CollectingEffect

(***************************************************************************)
(* Types: the steps that write agents.                                     *)
(***************************************************************************)
LEMMA AgentsStay ==
    ASSUME AgentsOK, wiring' = wiring, heap' \in Seq(AgentRecord),
           Len(heap) <= Len(heap'), agents' = agents
    PROVE  AgentsOK'
<1>1. ASSUME NEW a \in Agent, agents[a] # None PROVE HasAgent(agents[a])'
  <2>1. PICK x : x = agents[a]
    OBVIOUS
  <2>2. HasAgent(x)
    BY <1>1, <2>1 DEF AgentsOK
  <2>3. HasAgent(x)'
    <3>1. CASE wiring = "memory"
      <4>1. x \in 1 .. Len(heap) /\ Len(heap) \in Nat /\ Len(heap') \in Nat
        BY <2>2, <3>1 DEF HasAgent, AgentsOK
      <4>2. x \in 1 .. Len(heap')
        BY <4>1
      <4> QED
        BY <3>1, <4>2 DEF HasAgent
    <3>2. CASE wiring # "memory"
      BY <2>2, <3>2 DEF HasAgent
    <3> QED
      BY <3>1, <3>2
  <2> QED
    BY <2>1, <2>3 DEF HasAgent
<1> QED
  BY <1>1 DEF AgentsOK

LEMMA AgentWritten ==
    ASSUME AgentsOK, wiring' = wiring, heap' \in Seq(AgentRecord),
           Len(heap) <= Len(heap'), NEW a \in Agent, NEW x, HasAgent(x)',
           agents' = [agents EXCEPT ![a] = x]
    PROVE  AgentsOK'
<1>1. /\ agents' = [b \in Agent |-> agents'[b]] /\ agents'[a] = x
      /\ \A b \in Agent : b # a => agents'[b] = agents[b]
  BY DEF AgentsOK
<1>2. ASSUME NEW b \in Agent, agents'[b] # None PROVE HasAgent(agents[b])'
  <2>1. PICK y : y = agents'[b]
    OBVIOUS
  <2>2. HasAgent(y)'
    <3>1. CASE b = a
      BY <1>1, <2>1, <3>1
    <3>2. CASE b # a
      <4>1. HasAgent(y)
        BY <1>1, <1>2, <2>1, <3>2 DEF AgentsOK
      <4>2. CASE wiring = "memory"
        <5>1. y \in 1 .. Len(heap) /\ Len(heap) \in Nat /\ Len(heap') \in Nat
          BY <4>1, <4>2 DEF HasAgent, AgentsOK
        <5>2. y \in 1 .. Len(heap')
          BY <5>1
        <5> QED
          BY <4>2, <5>2 DEF HasAgent
      <4>3. CASE wiring # "memory"
        BY <4>1, <4>3 DEF HasAgent
      <4> QED
        BY <4>2, <4>3
    <3> QED
      BY <3>1, <3>2
  <2> QED
    BY <2>1, <2>2 DEF HasAgent
<1> QED
  BY <1>1, <1>2 DEF AgentsOK

LEMMA AgentTypes ==
    ASSUME Types, NEW th \in Thread, NEW h, call' = [call EXCEPT ![th] = h],
           UNCHANGED <<storeVars, tables, ruleVars, delivered, local>>,
           Len(heap) <= Len(heap'), AgentsOK',
           fenced' \subseteq AuthScope, quiet' \in [Thread -> BOOLEAN],
           Typed(h)'
    PROVE  Types'
<1>1. /\ token' = token /\ issued' = issued /\ consumed' = consumed
      /\ revoked' = revoked
      /\ wiring' = wiring /\ events' = events /\ nonces' = nonces
      /\ mintedFor' = mintedFor /\ rules' = rules /\ order' = order
      /\ delivered' = delivered
  BY DEF storeVars, tables, ruleVars
<1>2. Growing
  BY <1>1 DEF AgentsOK, Growing, Stored
<1>3. CallsOK'
  BY <1>2, CallsStay DEF Types
<1>4. RulesOK'
  BY <1>1 DEF Types, RulesOK, Stored
<1>5. TablesOK'
  BY <1>1 DEF Types, TablesOK, StoreTypeOK
<1>6. StatisticsOK'
  BY StatisticsStay DEF Types
<1> QED
  BY <1>3, <1>4, <1>5, <1>6 DEF Types

LEMMA Constructing ==
    ASSUME AgentsOK, wiring' = wiring, NEW record \in AgentRecord, Construct(record),
           NEW agent, agent = NewAgent(record)
    PROVE  /\ heap' \in Seq(AgentRecord) /\ Len(heap) <= Len(heap')
           /\ HasAgent(agent)'
           /\ wiring = "memory" => heap' = Append(heap, record)
<1>1. heap \in Seq(AgentRecord) /\ Len(heap) \in Nat
  BY DEF AgentsOK
<1>2. CASE wiring = "memory"
  <2>1. heap' = Append(heap, record) /\ agent = Len(heap) + 1
    BY <1>2 DEF Construct, NewAgent
  <2>2. heap' \in Seq(AgentRecord) /\ Len(heap') = Len(heap) + 1
    BY <1>1, <2>1
  <2>3. agent \in 1 .. Len(heap')
    BY <1>1, <2>1, <2>2
  <2> QED
    BY <1>1, <1>2, <2>1, <2>2, <2>3 DEF HasAgent
<1>3. CASE wiring # "memory"
  BY <1>1, <1>3 DEF Construct, NewAgent, HasAgent
<1> QED
  BY <1>2, <1>3

LEMMA GrantAnewTypes ==
    ASSUME Types, NEW scopes, GrantAnew(scopes)
    PROVE  fenced' \subseteq AuthScope /\ quiet' \in [Thread -> BOOLEAN]
BY DEF Types, TablesOK, GrantAnew

LEMMA RegisterTypes ==
    ASSUME Types, NEW th \in Thread, NEW reg \in Registration,
           RegisterAgent(th, reg.agent, reg.record)
    PROVE  Types'
<1>1. reg.agent \in Agent /\ reg.record \in AgentRecord
  BY ControlPlaneAssumption
<1>2. PICK a : a = reg.agent
  OBVIOUS
<1>3. PICK record : record = reg.record
  OBVIOUS
<1>4. /\ UNCHANGED <<storeVars, tables, ruleVars, delivered, local>>
      /\ Construct(record) /\ agents' = [agents EXCEPT ![a] = NewAgent(record)]
      /\ Begin(th, NewCall("register", "audit", None, a, record))
      /\ fenced' \subseteq AuthScope /\ quiet' \in [Thread -> BOOLEAN]
  BY <1>2, <1>3, GrantAnewTypes DEF RegisterAgent
<1>5. wiring' = wiring
  BY <1>4 DEF tables
<1>6. PICK agent : agent = NewAgent(record)
  OBVIOUS
<1>7. heap' \in Seq(AgentRecord) /\ Len(heap) <= Len(heap') /\ HasAgent(agent)'
  BY <1>1, <1>3, <1>4, <1>5, <1>6, Constructing DEF Types
<1>8. AgentsOK'
  BY <1>1, <1>2, <1>4, <1>5, <1>6, <1>7, AgentWritten DEF Types
<1>9. PICK h : h = NewCall("register", "audit", None, a, record)
  OBVIOUS
<1>10. Typed(h)'
  BY <1>9, NewHandler DEF Typed
<1>11. call' = [call EXCEPT ![th] = h]
  BY <1>4, <1>9 DEF Begin
<1> QED
  BY <1>4, <1>7, <1>8, <1>10, <1>11, AgentTypes

Opened(h, agent) == [h EXCEPT !.agent = agent]

LEMMA Opening ==
    ASSUME NEW step, NEW scope, NEW id, NEW body, NEW agent
    PROVE  LET h == Opened(NewCall("propose", step, scope, id, body), agent) IN
           /\ IsHandler(h)
           /\ h.op = "propose" /\ h.step = step /\ h.scope = scope /\ h.id = id
           /\ h.body = body /\ h.agent = agent /\ h.level = 0 /\ h.tested = 0
           /\ h.rule = None /\ h.token = None
BY DEF Opened, NewCall, IsHandler, HandlerField

\* The handler that propose_event starts with.
Opens(h, id, e) ==
    /\ IsHandler(h)
    /\ h.op = "propose" /\ h.scope = EventScope(e) /\ h.id = id /\ h.body = e
    /\ h.level = 0 /\ h.tested = 0 /\ h.rule = None /\ h.token = None
    /\ \/ /\ h.step = "create" /\ agents[e.agent] = None
          /\ Construct(AutoCreated(e)) /\ h.agent = NewAgent(AutoCreated(e))
       \/ /\ h.step = "claim" /\ agents[e.agent] # None
          /\ UNCHANGED heap /\ h.agent = agents[e.agent]

LEMMA ProposeEffect ==
    ASSUME NEW th \in Thread, NEW id \in EventId, NEW e \in EventBody,
           ProposeEvent(th, id, e)
    PROVE  /\ events[id] = None /\ Unused("propose", id) /\ call[th] = None
           /\ quiet' = [quiet EXCEPT ![th] = EventScope(e) \in fenced]
           /\ UNCHANGED <<storeVars, tables, agents, ruleVars, delivered, local,
                          ledger, fenced>>
           /\ \E h : Opens(h, id, e) /\ call' = [call EXCEPT ![th] = h]
<1> DEFINE created == NewAgent(AutoCreated(e))
           new(step) == NewCall("propose", step, EventScope(e), id, e)
<1>1. /\ events[id] = None /\ Unused("propose", id) /\ call[th] = None
      /\ quiet' = [quiet EXCEPT ![th] = EventScope(e) \in fenced]
      /\ UNCHANGED <<storeVars, tables, agents, ruleVars, delivered, local,
                     ledger, fenced>>
  BY DEF ProposeEvent, Begin
<1>2. \/ /\ agents[e.agent] = None /\ Construct(AutoCreated(e))
         /\ Begin(th, Opened(new("create"), created))
      \/ /\ agents[e.agent] # None /\ UNCHANGED heap
         /\ Begin(th, Opened(new("claim"), agents[e.agent]))
  BY DEF ProposeEvent, Opened
<1> HIDE DEF created
<1>3. CASE /\ agents[e.agent] = None /\ Construct(AutoCreated(e))
           /\ Begin(th, Opened(new("create"), created))
  <2>1. PICK h : h = Opened(new("create"), created)
    OBVIOUS
  <2>2. Opens(h, id, e)
    BY <1>3, <2>1, Opening DEF Opens, created
  <2>3. call' = [call EXCEPT ![th] = h]
    BY <1>3, <2>1 DEF Begin
  <2> QED
    BY <1>1, <2>2, <2>3
<1>4. CASE /\ agents[e.agent] # None /\ UNCHANGED heap
           /\ Begin(th, Opened(new("claim"), agents[e.agent]))
  <2>1. PICK h : h = Opened(new("claim"), agents[e.agent])
    OBVIOUS
  <2>2. Opens(h, id, e)
    BY <1>4, <2>1, Opening DEF Opens
  <2>3. call' = [call EXCEPT ![th] = h]
    BY <1>4, <2>1 DEF Begin
  <2> QED
    BY <1>1, <2>2, <2>3
<1> QED
  BY <1>2, <1>3, <1>4

LEMMA AutoCreatedIsRecord ==
    ASSUME NEW e \in EventBody
    PROVE  /\ AutoCreated(e) \in AgentRecord
           /\ \A task \in Task : AutoCreated(e).level[task] = OBSERVE_ONLY
<1>1. e.owner \in Human /\ e.workflow \in Workflow /\ e.agent \in Agent
  BY ControlPlaneAssumption
<1>2. OBSERVE_ONLY \in AutonomyLevel
  BY DEF OBSERVE_ONLY, AutonomyLevel, DELEGATED_AUTHORITY
<1>3. [task \in Task |-> OBSERVE_ONLY] \in [Task -> AutonomyLevel]
  BY <1>2
<1> QED
  BY <1>1, <1>3 DEF AutoCreated, AgentRecord

LEMMA ProposeTypes ==
    ASSUME Types, NEW th \in Thread, NEW id \in EventId, NEW e \in EventBody,
           ProposeEvent(th, id, e)
    PROVE  Types'
<1>1. /\ UNCHANGED <<storeVars, tables, ruleVars, delivered, local>>
      /\ agents' = agents /\ fenced' = fenced /\ wiring' = wiring
      /\ quiet' = [quiet EXCEPT ![th] = EventScope(e) \in fenced]
  BY ProposeEffect DEF tables
<1>2. PICK h : Opens(h, id, e) /\ call' = [call EXCEPT ![th] = h]
  BY ProposeEffect
<1>3. fenced' \subseteq AuthScope /\ quiet' \in [Thread -> BOOLEAN]
  BY <1>1 DEF Types, TablesOK
<1>4. heap' \in Seq(AgentRecord) /\ Len(heap) <= Len(heap') /\ HasAgent(h.agent)'
  <2>1. CASE /\ agents[e.agent] = None /\ Construct(AutoCreated(e))
             /\ h.agent = NewAgent(AutoCreated(e))
    <3>1. PICK agent : agent = h.agent
      OBVIOUS
    <3>2. /\ heap' \in Seq(AgentRecord) /\ Len(heap) <= Len(heap')
          /\ HasAgent(agent)'
      BY <1>1, <2>1, <3>1, AutoCreatedIsRecord, Constructing DEF Types
    <3> QED
      BY <3>1, <3>2
  <2>2. CASE agents[e.agent] # None /\ UNCHANGED heap /\ h.agent = agents[e.agent]
    <3>1. heap \in Seq(AgentRecord) /\ Len(heap) \in Nat
      BY DEF Types, AgentsOK
    <3>2. e.agent \in Agent
      BY ControlPlaneAssumption
    <3>3. HasAgent(h.agent)
      BY <2>2, <3>2 DEF Types, AgentsOK
    <3>4. HasAgent(h.agent)'
      BY <1>1, <2>2, <3>3 DEF HasAgent
    <3> QED
      BY <2>2, <3>1, <3>4
  <2> QED
    BY <1>2, <2>1, <2>2 DEF Opens
<1>5. AgentsOK'
  BY <1>1, <1>4, AgentsStay DEF Types
<1>6. Typed(h)'
  BY <1>2, <1>4 DEF Typed, Opens
<1> QED
  BY <1>1, <1>2, <1>3, <1>4, <1>5, <1>6, AgentTypes

LEMMA AutoCreateTypes ==
    ASSUME Types, NEW th \in Thread, AutoCreateAgent(th)
    PROVE  Types'
<1>1. /\ call[th] # None /\ Typed(call[th]) /\ call[th].op = "propose"
  BY HandlerAt DEF AutoCreateAgent
<1>2. PICK h : /\ Goto(th, h) /\ Same(h, call[th]) /\ h.agent = call[th].agent
               /\ h.rule = call[th].rule /\ h.tested = call[th].tested
               /\ h.token = call[th].token
  BY <1>1, ContinueEffect DEF AutoCreateAgent
<1>3. /\ UNCHANGED <<storeVars, tables, ruleVars, delivered, local, history>>
      /\ heap' = heap /\ wiring' = wiring
      /\ agents' = [agents EXCEPT ![call[th].body.agent] = call[th].agent]
  BY DEF AutoCreateAgent, tables
<1>4. PICK agent : agent = call[th].agent
  OBVIOUS
<1>5. HasAgent(agent) /\ call[th].body.agent \in Agent
  BY <1>1, <1>4, ControlPlaneAssumption DEF Typed
<1>6. HasAgent(agent)'
  BY <1>3, <1>5 DEF HasAgent
<1>7. heap' \in Seq(AgentRecord) /\ Len(heap) <= Len(heap')
  BY <1>3 DEF Types, AgentsOK
<1>8. AgentsOK'
  BY <1>3, <1>4, <1>5, <1>6, <1>7, AgentWritten DEF Types
<1>9. Typed(h)'
  <2>1. issued' = issued
    BY <1>3 DEF storeVars
  <2> QED
    BY <1>1, <1>2, <1>4, <1>6, <2>1 DEF Typed, Same
<1>10. call' = [call EXCEPT ![th] = h]
  BY <1>2 DEF Goto
<1>11. fenced' \subseteq AuthScope /\ quiet' \in [Thread -> BOOLEAN]
  BY <1>3, HistoryStays
<1> QED
  BY <1>3, <1>7, <1>8, <1>9, <1>10, <1>11, AgentTypes

LEMMA ReduceEffect ==
    ASSUME Types, NEW th \in Thread, ReduceAgent(th)
    PROVE  LET s == call[th].scope
               agent == call[th].agent
               task == <<s[2], s[3]>>
           IN  /\ call[th] # None /\ call[th].op = "incident"
               /\ call[th].step = "reduce_agent" /\ wiring' = wiring
               /\ UNCHANGED <<storeVars, tables, agents, ruleVars, delivered, local,
                              ledger, history>>
               /\ Continue(th, "write_agent")
               /\ HasAgent(agent) /\ task \in Task
               /\ wiring = "memory" =>
                     /\ heap[agent] \in AgentRecord
                     /\ heap' = [heap EXCEPT ![agent] = Reduced(heap[agent], task)]
               /\ heap' \in Seq(AgentRecord) /\ Len(heap') = Len(heap)
<1> DEFINE s == call[th].scope
           agent == call[th].agent
           task == <<s[2], s[3]>>
<1>1. /\ call[th] # None /\ call[th].op = "incident"
      /\ call[th].step = "reduce_agent" /\ HasAgent(agent) /\ s \in AuthScope
  BY HandlerAt DEF ReduceAgent, Typed
<1>2. task \in Task
  BY <1>1, TaskOfScope
<1>3. /\ UNCHANGED <<storeVars, tables, agents, ruleVars, delivered, local,
                     ledger, history>>
      /\ wiring' = wiring /\ Continue(th, "write_agent")
      /\ heap' = [heap EXCEPT ![agent] = Reduced(heap[agent], task)]
  BY DEF ReduceAgent, tables
<1>4. heap \in Seq(AgentRecord) /\ Len(heap) \in Nat
  BY DEF Types, AgentsOK
<1> HIDE DEF agent, task, s
<1>5. CASE agent \in 1 .. Len(heap)
  <2>1. heap[agent] \in AgentRecord
    BY <1>4, <1>5
  <2>2. Reduced(heap[agent], task) \in AgentRecord
    BY <1>2, <2>1, ReducedIsRecord
  <2>3. heap' \in Seq(AgentRecord) /\ Len(heap') = Len(heap)
    BY <1>3, <1>4, <1>5, <2>2
  <2> QED
    BY <1>1, <1>2, <1>3, <2>1, <2>3 DEF agent, task, s
<1>6. CASE agent \notin 1 .. Len(heap)
  <2>1. wiring # "memory"
    BY <1>1, <1>6 DEF HasAgent
  <2>2. heap' = heap
    BY <1>3, <1>4, <1>6
  <2> QED
    BY <1>1, <1>2, <1>3, <1>4, <2>1, <2>2 DEF agent, task, s
<1> QED
  BY <1>5, <1>6

LEMMA ReduceTypes ==
    ASSUME Types, NEW th \in Thread, ReduceAgent(th)
    PROVE  Types'
<1>1. /\ call[th] # None /\ call[th].op = "incident" /\ wiring' = wiring
      /\ UNCHANGED <<storeVars, tables, agents, ruleVars, delivered, local, history>>
      /\ Continue(th, "write_agent") /\ HasAgent(call[th].agent)
      /\ heap' \in Seq(AgentRecord) /\ Len(heap') = Len(heap)
  BY ReduceEffect
<1>2. PICK h : /\ Goto(th, h) /\ Same(h, call[th]) /\ h.agent = call[th].agent
               /\ h.todo = call[th].todo
  BY <1>1, ContinueEffect
<1>3. Len(heap) <= Len(heap')
  <2>1. Len(heap) \in Nat
    BY DEF Types, AgentsOK
  <2> QED
    BY <1>1, <2>1
<1>4. AgentsOK'
  BY <1>1, <1>3, AgentsStay DEF Types
<1>5. Typed(h)'
  <2>1. PICK agent : agent = call[th].agent
    OBVIOUS
  <2>2. HasAgent(agent)'
    BY <1>1, <2>1 DEF HasAgent
  <2>3. Stored' = Stored
    BY <1>1 DEF Stored, ruleVars
  <2>4. Typed(call[th])
    BY <1>1 DEF Types, CallsOK
  <2> QED
    BY <1>1, <1>2, <2>1, <2>2, <2>3, <2>4 DEF Typed, Same
<1>6. call' = [call EXCEPT ![th] = h]
  BY <1>2 DEF Goto
<1>7. fenced' \subseteq AuthScope /\ quiet' \in [Thread -> BOOLEAN]
  BY <1>1, HistoryStays
<1> QED
  BY <1>1, <1>3, <1>4, <1>5, <1>6, <1>7, AgentTypes

LEMMA WriteAgentTypes ==
    ASSUME Types, NEW th \in Thread, WriteAgent(th)
    PROVE  Types'
<1>1. /\ call[th] # None /\ Typed(call[th]) /\ call[th].op = "incident"
      /\ call[th].step = "write_agent"
  BY HandlerAt DEF WriteAgent
<1>2. PICK h : /\ Goto(th, h) /\ Same(h, call[th])
               /\ h.step \notin {"reduce_agent", "write_agent"}
               /\ h.todo = call[th].todo
  BY <1>1, ContinueEffect DEF WriteAgent
<1>3. /\ UNCHANGED <<storeVars, tables, ruleVars, delivered, local, history>>
      /\ heap' = heap /\ wiring' = wiring
      /\ agents' = [agents EXCEPT ![call[th].scope[1]] = call[th].agent]
  BY DEF WriteAgent, tables
<1>4. PICK agent : agent = call[th].agent
  OBVIOUS
<1>5. HasAgent(agent) /\ call[th].scope[1] \in Agent
  BY <1>1, <1>4, TaskOfScope DEF Typed
<1>6. HasAgent(agent)'
  BY <1>3, <1>5 DEF HasAgent
<1>7. heap' \in Seq(AgentRecord) /\ Len(heap) <= Len(heap')
  BY <1>3 DEF Types, AgentsOK
<1>8. AgentsOK'
  BY <1>3, <1>4, <1>5, <1>6, <1>7, AgentWritten DEF Types
<1>9. Typed(h)'
  <2>1. Stored' = Stored
    BY <1>3 DEF Stored, ruleVars
  <2> QED
    BY <1>1, <1>2, <2>1 DEF Typed, Same
<1>10. call' = [call EXCEPT ![th] = h]
  BY <1>2 DEF Goto
<1>11. fenced' \subseteq AuthScope /\ quiet' \in [Thread -> BOOLEAN]
  BY <1>3, HistoryStays
<1> QED
  BY <1>3, <1>7, <1>8, <1>9, <1>10, <1>11, AgentTypes

(***************************************************************************)
(* Types: the steps that write events, nonces and tokens.                  *)
(***************************************************************************)
LEMMA TableTypes ==
    ASSUME Types, NEW th \in Thread, NEW h, call' = [call EXCEPT ![th] = h],
           UNCHANGED <<wiring, agentVars, ruleVars, local>>,
           issued \subseteq issued', TablesOK', h # None => Typed(h)'
    PROVE  Types'
<1>1. /\ wiring' = wiring /\ heap' = heap /\ agents' = agents
      /\ rules' = rules /\ order' = order
  BY DEF agentVars, ruleVars
<1>2. Growing
  BY <1>1 DEF Types, AgentsOK, Growing, Stored
<1>3. CallsOK'
  BY <1>2, CallsStay DEF Types
<1>4. AgentsOK'
  BY <1>1 DEF Types, AgentsOK, HasAgent
<1>5. RulesOK'
  BY <1>1 DEF Types, RulesOK, Stored
<1>6. StatisticsOK'
  BY StatisticsStay DEF Types
<1> QED
  BY <1>3, <1>4, <1>5, <1>6 DEF Types

LEMMA ClaimEffect ==
    ASSUME Types, NEW th \in Thread, ClaimNonce(th)
    PROVE  /\ call[th] # None /\ call[th].op = "propose" /\ call[th].step = "claim"
           /\ nonces' = nonces \cup {Claim(call[th].body)}
           /\ UNCHANGED <<storeVars, wiring, agentVars, events, ruleVars, mintedFor,
                          delivered, local, ledger, history>>
           /\ \/ Return(th)
              \/ /\ Claim(call[th].body) \notin nonces
                 /\ \E h : /\ Goto(th, h) /\ Same(h, call[th]) /\ h.step = "add_event"
                           /\ h.agent = call[th].agent /\ h.rule = call[th].rule
                           /\ h.level = call[th].level
                           /\ h.tested = call[th].tested /\ h.token = call[th].token
<1>1. call[th] # None /\ call[th].op = "propose" /\ call[th].step = "claim"
  BY HandlerAt DEF ClaimNonce
<1>2. /\ nonces' = nonces \cup {Claim(call[th].body)}
      /\ UNCHANGED <<storeVars, wiring, agentVars, events, ruleVars, mintedFor,
                     delivered, local, ledger, history>>
  BY DEF ClaimNonce, Claim
<1>3. \/ Return(th)
      \/ Claim(call[th].body) \notin nonces /\ Continue(th, "add_event")
  BY DEF ClaimNonce, Fresh, Claim
<1> QED
  BY <1>1, <1>2, <1>3, ContinueEffect

LEMMA ClaimTypes ==
    ASSUME Types, NEW th \in Thread, ClaimNonce(th)
    PROVE  Types'
<1>1. Typed(call[th]) /\ call[th].op = "propose"
  <2>1. call[th] # None /\ call[th].op = "propose"
    BY ClaimEffect
  <2> QED
    BY <2>1 DEF Types, CallsOK
<1>2. /\ nonces' = nonces \cup {Claim(call[th].body)}
      /\ UNCHANGED <<storeVars, wiring, agentVars, events, ruleVars, mintedFor,
                     delivered, local, ledger, history>>
  BY ClaimEffect
<1>3. TablesOK' /\ issued \subseteq issued'
  <2>1. nonces' \subseteq {<<e.agent, e.nonce>> : e \in EventBody}
    BY <1>1, <1>2 DEF Types, TablesOK, Typed, Claim
  <2> QED
    BY <1>2, <2>1 DEF Types, TablesOK, StoreTypeOK, storeVars, history
<1>4. CASE Return(th)
  <2>1. PICK h : h = None
    OBVIOUS
  <2>2. call' = [call EXCEPT ![th] = h]
    BY <1>4, <2>1 DEF Return, Goto
  <2> QED
    BY <1>2, <1>3, <2>1, <2>2, TableTypes
<1>5. CASE ~Return(th)
  <2>1. PICK h : /\ Goto(th, h) /\ Same(h, call[th])
                 /\ h.agent = call[th].agent /\ h.rule = call[th].rule
                 /\ h.tested = call[th].tested /\ h.token = call[th].token
    BY <1>5, ClaimEffect
  <2>2. call' = [call EXCEPT ![th] = h]
    BY <2>1 DEF Goto
  <2>3. Typed(h)
    BY <1>1, <2>1 DEF Typed, Same
  <2>4. Typed(h)'
    <3>1. Growing
      BY <1>2 DEF Types, AgentsOK, Growing, Stored, agentVars, ruleVars, storeVars
    <3> QED
      BY <2>3, <3>1, TypedStays DEF Types
  <2> QED
    BY <1>2, <1>3, <2>2, <2>4, TableTypes
<1> QED
  BY <1>4, <1>5

LEMMA AddEventEffect ==
    ASSUME Types, NEW th \in Thread, AddEvent(th)
    PROVE  /\ call[th] # None /\ call[th].op = "propose"
           /\ call[th].step = "add_event" /\ Typed(call[th])
           /\ events' = [events EXCEPT ![call[th].id] = call[th].body]
           /\ UNCHANGED <<storeVars, wiring, agentVars, nonces, ruleVars, mintedFor,
                          delivered, local, ledger, history>>
           /\ \E h : /\ Goto(th, h) /\ Same(h, call[th])
                     /\ h.step \in {"evaluate", "read_level"}
                     /\ h.agent = call[th].agent /\ h.rule = call[th].rule
                     /\ h.level = call[th].level
                     /\ h.tested = call[th].tested /\ h.token = call[th].token
<1>1. /\ call[th] # None /\ call[th].op = "propose" /\ call[th].step = "add_event"
      /\ Typed(call[th])
  BY HandlerAt DEF AddEvent
<1>2. /\ events' = [events EXCEPT ![call[th].id] = call[th].body]
      /\ UNCHANGED <<storeVars, wiring, agentVars, nonces, ruleVars, mintedFor,
                     delivered, local, ledger, history>>
  BY DEF AddEvent
<1>3. Continue(th, "evaluate") \/ Continue(th, "read_level")
  BY DEF AddEvent
<1> QED
  BY <1>1, <1>2, <1>3, ContinueEffect

LEMMA AddEventTypes ==
    ASSUME Types, NEW th \in Thread, AddEvent(th)
    PROVE  Types'
<1>1. /\ call[th].op = "propose" /\ Typed(call[th])
      /\ events' = [events EXCEPT ![call[th].id] = call[th].body]
      /\ UNCHANGED <<storeVars, wiring, agentVars, nonces, ruleVars, mintedFor,
                     delivered, local, ledger, history>>
  BY AddEventEffect
<1>2. PICK h : /\ Goto(th, h) /\ Same(h, call[th])
               /\ h.agent = call[th].agent /\ h.rule = call[th].rule
               /\ h.tested = call[th].tested /\ h.token = call[th].token
  BY AddEventEffect
<1>3. call[th].id \in EventId /\ call[th].body \in EventBody
  BY <1>1 DEF Typed
<1>4. TablesOK' /\ issued \subseteq issued'
  <2>1. events' \in [EventId -> EventBody \cup {None}]
    BY <1>1, <1>3 DEF Types, TablesOK
  <2> QED
    BY <1>1, <2>1 DEF Types, TablesOK, StoreTypeOK, storeVars, history
<1>5. call' = [call EXCEPT ![th] = h]
  BY <1>2 DEF Goto
<1>6. Typed(h)
  BY <1>1, <1>2 DEF Typed, Same
<1>7. Typed(h)'
  <2>1. Growing
    BY <1>1 DEF Types, AgentsOK, Growing, Stored, agentVars, ruleVars, storeVars
  <2> QED
    BY <1>6, <2>1, TypedStays DEF Types
<1> QED
  BY <1>1, <1>4, <1>5, <1>7, TableTypes

LEMMA MintEffect ==
    ASSUME Types, NEW th \in Thread, NEW t \in TokenId, Mint(th, t)
    PROVE  LET grant == GrantFor(call[th].body, call[th].rule) IN
           /\ call[th] # None /\ call[th].op = "propose" /\ call[th].step = "mint"
           /\ Typed(call[th]) /\ grant \in Grant /\ token[t] = None
           /\ token' = [token EXCEPT ![t] = [grant |-> grant, expires |-> 0]]
           /\ issued' = issued \cup {t} /\ consumed' = consumed /\ revoked' = revoked
           /\ mintedFor' = [mintedFor EXCEPT ![t] = call[th].id]
           /\ UNCHANGED <<wiring, agentVars, events, ruleVars, nonces, delivered,
                          local, ledger, history>>
           /\ \E h : /\ Goto(th, h) /\ Same(h, call[th])
                     /\ h.step = "audit" /\ h.token = t
                     /\ h.agent = call[th].agent /\ h.rule = call[th].rule
                     /\ h.level = call[th].level /\ h.tested = call[th].tested
                     /\ h.result = call[th].result
<1> DEFINE grant == GrantFor(call[th].body, call[th].rule)
<1>1. /\ call[th] # None /\ call[th].op = "propose" /\ call[th].step = "mint"
      /\ Typed(call[th]) /\ IsHandler(call[th])
  BY HandlerAt DEF Mint
<1>2. grant \in Grant
  BY <1>1, GrantAssumption DEF Typed
<1>3. /\ token[t] = None
      /\ token' = [token EXCEPT ![t] = [grant |-> grant, expires |-> 0]]
      /\ issued' = issued \cup {t} /\ consumed' = consumed /\ revoked' = revoked
      /\ mintedFor' = [mintedFor EXCEPT ![t] = call[th].id]
      /\ UNCHANGED <<wiring, agentVars, events, ruleVars, nonces, delivered,
                     local, ledger, history>>
  BY DEF Mint, RecordIssued
<1>4. Goto(th, Given(call[th], t, "audit"))
  BY DEF Mint, Given
<1>5. PICK h : h = Given(call[th], t, "audit")
  OBVIOUS
<1>6. /\ Same(h, call[th]) /\ h.step = "audit" /\ h.token = t
      /\ h.agent = call[th].agent /\ h.rule = call[th].rule
      /\ h.level = call[th].level /\ h.tested = call[th].tested
      /\ h.result = call[th].result
  BY <1>1, <1>5, Giving
<1> QED
  BY <1>1, <1>2, <1>3, <1>4, <1>5, <1>6

LEMMA MintTypes ==
    ASSUME Types, NEW th \in Thread, NEW t \in TokenId, Mint(th, t)
    PROVE  Types'
<1> DEFINE grant == GrantFor(call[th].body, call[th].rule)
           minted == [grant |-> grant, expires |-> 0]
<1>1. /\ call[th].op = "propose" /\ Typed(call[th]) /\ grant \in Grant
      /\ token' = [token EXCEPT ![t] = minted]
      /\ issued' = issued \cup {t} /\ consumed' = consumed /\ revoked' = revoked
      /\ mintedFor' = [mintedFor EXCEPT ![t] = call[th].id]
      /\ UNCHANGED <<wiring, agentVars, events, ruleVars, nonces, delivered,
                     local, ledger, history>>
  BY MintEffect
<1>2. PICK h : /\ Goto(th, h) /\ Same(h, call[th]) /\ h.token = t
               /\ h.agent = call[th].agent /\ h.rule = call[th].rule
               /\ h.tested = call[th].tested
  BY MintEffect
<1>3. minted \in Token /\ minted # None
  BY <1>1, NoneAssumption DEF Token
<1>4. call[th].id \in EventId
  BY <1>1 DEF Typed
<1> HIDE DEF minted
<1>5. StoreTypeOK'
  <2>1. token' \in [TokenId -> Token \cup {None}]
    BY <1>1, <1>3 DEF Types, TablesOK, StoreTypeOK
  <2>2. \A u \in issued' : token'[u] # None
    BY <1>1, <1>3 DEF Types, TablesOK, StoreTypeOK
  <2> QED
    BY <1>1, <2>1, <2>2 DEF Types, TablesOK, StoreTypeOK
<1>6. mintedFor' \in [TokenId -> EventId \cup {None}]
  BY <1>1, <1>4 DEF Types, TablesOK
<1>7. TablesOK' /\ issued \subseteq issued'
  BY <1>1, <1>5, <1>6 DEF Types, TablesOK, history
<1>8. call' = [call EXCEPT ![th] = h]
  BY <1>2 DEF Goto
<1>9. Typed(h)'
  <2>1. Growing
    BY <1>1 DEF Types, AgentsOK, Growing, Stored, agentVars, ruleVars
  <2> QED
    BY <1>1, <1>2, <2>1, TypedOn DEF Types, Same, Typed
<1> QED
  BY <1>1, <1>7, <1>8, <1>9, TableTypes

LEMMA AuditEventEffect ==
    ASSUME Types, NEW th \in Thread, AuditEvent(th)
    PROVE  /\ call[th] # None /\ call[th].op = "propose" /\ call[th].step = "audit"
           /\ Typed(call[th]) /\ Return(th)
           /\ ledger' = ledger \cup {[kind |-> "workflow.event.proposed",
                                      id |-> call[th].id, status |-> call[th].result]}
           /\ delivered' = delivered \cup ({call[th].token} \ {None})
           /\ UNCHANGED <<storeVars, tables, agentVars, ruleVars, local, history>>
BY HandlerAt DEF AuditEvent, Audit

LEMMA AuditEventTypes ==
    ASSUME Types, NEW th \in Thread, AuditEvent(th)
    PROVE  Types'
<1>1. /\ Typed(call[th]) /\ call[th].op = "propose" /\ Return(th)
      /\ delivered' = delivered \cup ({call[th].token} \ {None})
      /\ UNCHANGED <<storeVars, tables, agentVars, ruleVars, local, history>>
  BY AuditEventEffect
<1>2. delivered' \subseteq issued
  BY <1>1 DEF Types, TablesOK, Typed
<1>3. TablesOK' /\ issued \subseteq issued' /\ wiring' = wiring
  BY <1>1, <1>2 DEF Types, TablesOK, StoreTypeOK, storeVars, tables, history
<1>4. PICK h : h = None
  OBVIOUS
<1>5. call' = [call EXCEPT ![th] = h]
  BY <1>1, <1>4 DEF Return, Goto
<1> QED
  BY <1>1, <1>3, <1>4, <1>5, TableTypes

(***************************************************************************)
(* Types: the steps that write rules.                                      *)
(***************************************************************************)
LEMMA RuleRecords ==
    /\ RuleBody \subseteq RuleRecord /\ None \notin RuleRecord
    /\ \A rule \in RuleRecord :
          /\ RuleScope(rule) \in AuthScope
          /\ rule.active \in BOOLEAN
          /\ Deactivated(rule) \in RuleRecord /\ ~Deactivated(rule).active
          /\ RuleScope(Deactivated(rule)) = RuleScope(rule)
<1>1. RuleBody \subseteq RuleRecord /\ None \notin RuleRecord
  BY ControlPlaneAssumption
<1>2. ASSUME NEW rule \in RuleRecord
      PROVE  /\ RuleScope(rule) \in AuthScope
             /\ rule.active \in BOOLEAN
             /\ Deactivated(rule) \in RuleRecord /\ ~Deactivated(rule).active
             /\ RuleScope(Deactivated(rule)) = RuleScope(rule)
  <2> DEFINE C == {r.conditions : r \in RuleBody}
             R == [agent : Agent, workflow : Workflow, authority : Authority,
                   level : AutonomyLevel, conditions : C, guards : SUBSET STRING,
                   sample_rate : Nat, active : BOOLEAN]
  <2>1. RuleRecord = R
    BY DEF RuleRecord
  <2> HIDE DEF C
  <2>2. PICK off : off = Deactivated(rule)
    OBVIOUS
  <2>3. /\ off \in R /\ off.active = FALSE /\ off.agent = rule.agent
        /\ off.workflow = rule.workflow /\ off.authority = rule.authority
    BY <2>1, <2>2 DEF Deactivated
  <2>4. /\ rule.agent \in Agent /\ rule.workflow \in Workflow
        /\ rule.authority \in Authority /\ rule.active \in BOOLEAN
    BY <2>1
  <2>5. RuleScope(rule) \in AuthScope
    BY <2>4 DEF RuleScope, AuthScope
  <2>6. RuleScope(off) = RuleScope(rule)
    BY <2>3 DEF RuleScope
  <2> HIDE DEF R
  <2> QED
    BY <2>1, <2>2, <2>3, <2>4, <2>5, <2>6
<1> QED
  BY <1>1, <1>2

LEMMA RuleTypes ==
    ASSUME Types, NEW th \in Thread, NEW h, call' = [call EXCEPT ![th] = h],
           UNCHANGED <<storeVars, tables, agentVars, delivered, local>>,
           Stored \subseteq Stored', RulesOK',
           fenced' \subseteq AuthScope, quiet' \in [Thread -> BOOLEAN],
           Typed(h)'
    PROVE  Types'
<1>1. /\ token' = token /\ issued' = issued /\ consumed' = consumed
      /\ revoked' = revoked /\ agents' = agents /\ heap' = heap
      /\ wiring' = wiring /\ events' = events /\ nonces' = nonces
      /\ mintedFor' = mintedFor /\ delivered' = delivered
  BY DEF storeVars, tables, agentVars
<1>2. Growing
  BY <1>1 DEF Types, AgentsOK, Growing
<1>3. CallsOK'
  BY <1>2, CallsStay DEF Types
<1>4. AgentsOK'
  BY <1>1 DEF Types, AgentsOK, HasAgent
<1>5. TablesOK'
  BY <1>1 DEF Types, TablesOK, StoreTypeOK
<1>6. StatisticsOK'
  BY StatisticsStay DEF Types
<1> QED
  BY <1>3, <1>4, <1>5, <1>6 DEF Types

\* A stored rule is written back inactive.
LEMMA RuleOff ==
    ASSUME RulesOK, NEW r \in Stored, NEW rule \in RuleRecord, ~rule.active,
           rules' = [rules EXCEPT ![r] = rule], order' = order
    PROVE  RulesOK' /\ Stored' = Stored
<1>1. rule # None
  BY RuleRecords
<1>2. r \in RuleId
  BY DEF Stored
<1>3. /\ rules' \in [RuleId -> RuleRecord \cup {None}]
      /\ rules'[r] = rule /\ \A s \in RuleId : s # r => rules'[s] = rules[s]
  BY <1>2 DEF RulesOK
<1>4. Stored' = Stored
  BY <1>1, <1>2, <1>3 DEF Stored
<1>5. \A s \in Stored' : rules'[s].active => rules'[s] \in RuleBody
  <2> TAKE s \in Stored'
  <2>1. CASE s = r
    BY <1>3, <2>1
  <2>2. CASE s # r
    <3>1. s \in Stored /\ rules'[s] = rules[s]
      BY <1>3, <1>4, <2>2 DEF Stored
    <3> QED
      BY <3>1 DEF RulesOK
  <2> QED
    BY <2>1, <2>2
<1> QED
  BY <1>3, <1>4, <1>5 DEF RulesOK

LEMMA RuleAdded ==
    ASSUME RulesOK, NEW r \in RuleId, NEW rule \in RuleBody,
           rules' = [rules EXCEPT ![r] = rule], order' = Append(order, r)
    PROVE  RulesOK' /\ Stored' = Stored \cup {r}
<1>1. rule # None /\ rule \in RuleRecord
  BY RuleRecords
<1>2. /\ rules' \in [RuleId -> RuleRecord \cup {None}]
      /\ rules'[r] = rule /\ \A s \in RuleId : s # r => rules'[s] = rules[s]
  BY <1>1 DEF RulesOK
<1>3. Stored' = Stored \cup {r}
  BY <1>1, <1>2 DEF Stored
<1>4. \A s \in Stored' : rules'[s].active => rules'[s] \in RuleBody
  <2> TAKE s \in Stored'
  <2>1. CASE s = r
    BY <1>2, <2>1
  <2>2. CASE s # r
    <3>1. s \in Stored /\ rules'[s] = rules[s]
      BY <1>2, <1>3, <2>2 DEF Stored
    <3> QED
      BY <3>1 DEF RulesOK
  <2> QED
    BY <2>1, <2>2
<1>5. order \in Seq(RuleId)
  BY DEF RulesOK
<1>6. /\ order' \in Seq(RuleId) /\ DOMAIN order' = 1 .. Len(order) + 1
      /\ DOMAIN order = 1 .. Len(order) /\ Len(order) \in Nat
      /\ \A i \in 1 .. Len(order) : order'[i] = order[i]
      /\ order'[Len(order) + 1] = r
  BY <1>5
<1>7. ASSUME NEW s \in RuleId
      PROVE  (\E i \in DOMAIN order' : order'[i] = s) <=>
                s = r \/ \E i \in DOMAIN order : order[i] = s
  BY <1>6
<1>8. \A s \in RuleId : s \in Stored' <=> \E i \in DOMAIN order' : order'[i] = s
  BY <1>3, <1>7 DEF RulesOK
<1> QED
  BY <1>2, <1>3, <1>4, <1>6, <1>8 DEF RulesOK

LEMMA AddRuleEffect ==
    ASSUME Types, NEW th \in Thread, AddRule(th)
    PROVE  /\ call[th] # None /\ call[th].op = "approve" /\ Typed(call[th])
           /\ rules' = [rules EXCEPT ![call[th].id] = call[th].body]
           /\ order' = Append(order, call[th].id)
           /\ GrantAnew({call[th].scope})
           /\ UNCHANGED <<storeVars, tables, agentVars, delivered, local, ledger>>
           /\ \E h : Goto(th, h) /\ Same(h, call[th])
<1>1. call[th] # None /\ call[th].op = "approve" /\ Typed(call[th])
  BY HandlerAt DEF AddRule
<1>2. Continue(th, "audit")
  BY DEF AddRule
<1> QED
  BY <1>1, <1>2, ContinueEffect DEF AddRule

LEMMA AddRuleTypes ==
    ASSUME Types, NEW th \in Thread, AddRule(th)
    PROVE  Types'
<1>1. /\ call[th].op = "approve" /\ Typed(call[th])
      /\ rules' = [rules EXCEPT ![call[th].id] = call[th].body]
      /\ order' = Append(order, call[th].id)
      /\ GrantAnew({call[th].scope})
      /\ UNCHANGED <<storeVars, tables, agentVars, delivered, local>>
  BY AddRuleEffect
<1>2. PICK h : Goto(th, h) /\ Same(h, call[th])
  BY AddRuleEffect
<1>3. call[th].id \in RuleId /\ call[th].body \in RuleBody
  BY <1>1 DEF Typed
<1>4. RulesOK' /\ Stored \subseteq Stored'
  BY <1>1, <1>3, RuleAdded DEF Types
<1>5. fenced' \subseteq AuthScope /\ quiet' \in [Thread -> BOOLEAN]
  BY <1>1, GrantAnewTypes
<1>6. Typed(h)'
  BY <1>1, <1>2 DEF Typed, Same
<1>7. call' = [call EXCEPT ![th] = h]
  BY <1>2 DEF Goto
<1> QED
  BY <1>1, <1>4, <1>5, <1>6, <1>7, RuleTypes

LEMMA WriteRevokedEffect ==
    ASSUME Types, NEW th \in Thread, WriteRevokedRule(th)
    PROVE  /\ call[th] # None /\ call[th].op = "revoke" /\ Typed(call[th])
           /\ call[th].id \in Stored /\ call[th].body \in RuleRecord
           /\ ~call[th].body.active
           /\ rules' = [rules EXCEPT ![call[th].id] = call[th].body]
           /\ UNCHANGED <<storeVars, tables, agentVars, order, delivered, local,
                          ledger, history>>
           /\ \E h : Goto(th, h) /\ Same(h, call[th])
<1>1. call[th] # None /\ call[th].op = "revoke" /\ Typed(call[th])
  BY HandlerAt DEF WriteRevokedRule
<1>2. Continue(th, "revoke_scope")
  BY DEF WriteRevokedRule
<1>3. /\ call[th].id \in Stored /\ call[th].body \in RuleRecord
      /\ ~call[th].body.active
  BY <1>1 DEF Typed
<1>4. \E h : Goto(th, h) /\ Same(h, call[th])
  BY <1>1, <1>2, ContinueEffect
<1> QED
  BY <1>1, <1>3, <1>4 DEF WriteRevokedRule

LEMMA WriteRevokedTypes ==
    ASSUME Types, NEW th \in Thread, WriteRevokedRule(th)
    PROVE  Types'
<1>1. /\ call[th].op = "revoke" /\ Typed(call[th])
      /\ call[th].id \in Stored /\ call[th].body \in RuleRecord
      /\ ~call[th].body.active
      /\ rules' = [rules EXCEPT ![call[th].id] = call[th].body]
      /\ UNCHANGED <<storeVars, tables, agentVars, order, delivered, local, history>>
  BY WriteRevokedEffect
<1>2. PICK h : Goto(th, h) /\ Same(h, call[th])
  BY WriteRevokedEffect
<1>3. RulesOK' /\ Stored' = Stored
  BY <1>1, RuleOff DEF Types
<1>4. fenced' \subseteq AuthScope /\ quiet' \in [Thread -> BOOLEAN]
  BY <1>1, HistoryStays
<1>5. Typed(h)'
  BY <1>1, <1>2, <1>3 DEF Typed, Same
<1>6. call' = [call EXCEPT ![th] = h]
  BY <1>2 DEF Goto
<1> QED
  BY <1>1, <1>3, <1>4, <1>5, <1>6, RuleTypes

LEMMA WriteRuleEffect ==
    ASSUME Types, NEW th \in Thread, NEW r \in RuleId, WriteRule(th, r)
    PROVE  LET todo == call[th].todo IN
           /\ call[th] # None /\ call[th].op = "incident" /\ Typed(call[th])
           /\ call[th].step = "write_rules" /\ r \in todo /\ r \in Stored
           /\ rules[r] \in RuleRecord
           /\ rules' = [rules EXCEPT ![r] = Deactivated(rules[r])]
           /\ UNCHANGED <<storeVars, tables, agentVars, order, delivered, local,
                          ledger, history>>
           /\ \E h : /\ Goto(th, h) /\ Same(h, call[th]) /\ h.agent = call[th].agent
                     /\ h.todo = todo \ {r}
                     /\ h.step = IF todo \ {r} = {} THEN "revoke_scope"
                                                    ELSE "write_rules"
<1>1. /\ call[th] # None /\ call[th].op = "incident" /\ Typed(call[th])
      /\ call[th].step = "write_rules" /\ call[th].todo \subseteq Stored
  BY HandlerAt DEF WriteRule, Typed
<1>2. r \in call[th].todo
  BY DEF WriteRule
<1>3. rules[r] \in RuleRecord
  BY <1>1, <1>2 DEF Types, RulesOK, Stored
<1>4. WriteBack(th, call[th].todo \ {r})
  BY DEF WriteRule
<1>5. \E h : /\ Goto(th, h) /\ Same(h, call[th]) /\ h.agent = call[th].agent
             /\ h.todo = call[th].todo \ {r}
             /\ h.step = IF call[th].todo \ {r} = {} THEN "revoke_scope"
                                                     ELSE "write_rules"
  BY <1>1, <1>4, WriteBackEffect
<1>6. /\ rules' = [rules EXCEPT ![r] = Deactivated(rules[r])]
      /\ UNCHANGED <<storeVars, tables, agentVars, order, delivered, local,
                     ledger, history>>
  BY DEF WriteRule
<1> QED
  BY <1>1, <1>2, <1>3, <1>5, <1>6

LEMMA WriteRuleTypes ==
    ASSUME Types, NEW th \in Thread, NEW r \in RuleId, WriteRule(th, r)
    PROVE  Types'
<1>1. /\ call[th].op = "incident" /\ Typed(call[th]) /\ r \in Stored
      /\ rules[r] \in RuleRecord
      /\ rules' = [rules EXCEPT ![r] = Deactivated(rules[r])]
      /\ UNCHANGED <<storeVars, tables, agentVars, order, delivered, local, history>>
  BY WriteRuleEffect
<1>2. PICK h : /\ Goto(th, h) /\ Same(h, call[th])
               /\ h.todo = call[th].todo \ {r}
               /\ h.step \in {"revoke_scope", "write_rules"}
  BY WriteRuleEffect
<1>3. PICK off : off = Deactivated(rules[r])
  OBVIOUS
<1>4. off \in RuleRecord /\ ~off.active /\ rules' = [rules EXCEPT ![r] = off]
  BY <1>1, <1>3, RuleRecords
<1>5. RulesOK' /\ Stored' = Stored
  BY <1>1, <1>4, RuleOff DEF Types
<1>6. fenced' \subseteq AuthScope /\ quiet' \in [Thread -> BOOLEAN]
  BY <1>1, HistoryStays
<1>7. Typed(h)'
  BY <1>1, <1>2, <1>5 DEF Typed, Same
<1>8. call' = [call EXCEPT ![th] = h]
  BY <1>2 DEF Goto
<1> QED
  BY <1>1, <1>5, <1>6, <1>7, <1>8, RuleTypes

(***************************************************************************)
(* Types: the handlers that begin with a read, and what is no handler.     *)
(***************************************************************************)
LEMMA EventsAreScoped ==
    ASSUME NEW e \in EventBody
    PROVE  EventScope(e) \in AuthScope
BY ControlPlaneAssumption DEF EventScope, AuthScope

\* What the handlers that only read begin with.
Asks(th, h) ==
    \/ \E id \in EventId, outcome \in Outcome :
          /\ events[id] # None
          /\ h = NewCall("decide", "apply", EventScope(events[id]), id, outcome)
    \/ \E id \in RuleId, rule \in RuleBody :
          h = NewCall("approve", "add_rule", RuleScope(rule), id, rule)
    \/ \E id \in Stored :
          h = NewCall("revoke", "write_rule", RuleScope(rules[id]), id,
                      Deactivated(rules[id]))

Asking(th) ==
    \/ \E id \in EventId, human \in Human, outcome \in Outcome :
          SubmitDecision(th, id, human, outcome)
    \/ \E id \in RuleId, rule \in RuleBody, human \in Human :
          ApproveRule(th, id, rule, human)
    \/ \E id \in RuleId : RevokeRule(th, id)

LEMMA AskingEffect ==
    ASSUME NEW th \in Thread, Asking(th)
    PROVE  /\ UNCHANGED <<storeVars, shared, local, ledger, history>>
           /\ call[th] = None
           /\ \E h : Asks(th, h) /\ call' = [call EXCEPT ![th] = h]
<1>1. CASE \E id \in EventId, human \in Human, outcome \in Outcome :
              SubmitDecision(th, id, human, outcome)
  <2>1. PICK id \in EventId, human \in Human, outcome \in Outcome :
                SubmitDecision(th, id, human, outcome)
    BY <1>1
  <2>2. PICK h : h = NewCall("decide", "apply", EventScope(events[id]), id, outcome)
    OBVIOUS
  <2>3. call[th] = None /\ call' = [call EXCEPT ![th] = h] /\ events[id] # None
        /\ UNCHANGED <<storeVars, shared, local, ledger, history>>
    BY <2>1, <2>2 DEF SubmitDecision, Begin
  <2>4. Asks(th, h)
    BY <2>2, <2>3 DEF Asks
  <2> QED
    BY <2>3, <2>4
<1>2. CASE \E id \in RuleId, rule \in RuleBody, human \in Human :
              ApproveRule(th, id, rule, human)
  <2>1. PICK id \in RuleId, rule \in RuleBody, human \in Human :
                ApproveRule(th, id, rule, human)
    BY <1>2
  <2>2. PICK h : h = NewCall("approve", "add_rule", RuleScope(rule), id, rule)
    OBVIOUS
  <2>3. call[th] = None /\ call' = [call EXCEPT ![th] = h]
        /\ UNCHANGED <<storeVars, shared, local, ledger, history>>
    BY <2>1, <2>2 DEF ApproveRule, Begin
  <2>4. Asks(th, h)
    BY <2>2 DEF Asks
  <2> QED
    BY <2>3, <2>4
<1>3. CASE \E id \in RuleId : RevokeRule(th, id)
  <2>1. PICK id \in RuleId : RevokeRule(th, id)
    BY <1>3
  <2>2. PICK h : h = NewCall("revoke", "write_rule", RuleScope(rules[id]), id,
                             Deactivated(rules[id]))
    OBVIOUS
  <2>3. call[th] = None /\ call' = [call EXCEPT ![th] = h] /\ id \in Stored
        /\ UNCHANGED <<storeVars, shared, local, ledger, history>>
    BY <2>1, <2>2 DEF RevokeRule, Begin, Stored
  <2>4. Asks(th, h)
    BY <2>2, <2>3 DEF Asks
  <2> QED
    BY <2>3, <2>4
<1> QED
  BY <1>1, <1>2, <1>3 DEF Asking

LEMMA AsksTyped ==
    ASSUME Types, NEW th \in Thread, NEW h, Asks(th, h)
    PROVE  Typed(h) /\ h.op \in {"decide", "approve", "revoke"}
<1>1. CASE \E id \in EventId, outcome \in Outcome :
              /\ events[id] # None
              /\ h = NewCall("decide", "apply", EventScope(events[id]), id, outcome)
  <2>1. PICK id \in EventId, outcome \in Outcome :
              /\ events[id] # None
              /\ h = NewCall("decide", "apply", EventScope(events[id]), id, outcome)
    BY <1>1
  <2>2. events[id] \in EventBody
    BY <2>1 DEF Types, TablesOK
  <2>3. EventScope(events[id]) \in AuthScope
    BY <2>2, EventsAreScoped
  <2> QED
    BY <2>1, <2>3, NewHandler DEF Typed
<1>2. CASE \E id \in RuleId, rule \in RuleBody :
              h = NewCall("approve", "add_rule", RuleScope(rule), id, rule)
  BY <1>2, NewHandler DEF Typed
<1>3. CASE \E id \in Stored :
              h = NewCall("revoke", "write_rule", RuleScope(rules[id]), id,
                          Deactivated(rules[id]))
  <2>1. PICK id \in Stored :
                h = NewCall("revoke", "write_rule", RuleScope(rules[id]), id,
                            Deactivated(rules[id]))
    BY <1>3
  <2>2. rules[id] \in RuleRecord
    BY DEF Types, RulesOK, Stored
  <2>3. PICK off : off = Deactivated(rules[id])
    OBVIOUS
  <2>4. off \in RuleRecord /\ ~off.active
    BY <2>2, <2>3, RuleRecords
  <2>5. h.op = "revoke" /\ h.id = id /\ h.body = off /\ IsHandler(h)
    BY <2>1, <2>3, NewHandler
  <2> QED
    BY <2>4, <2>5 DEF Typed
<1> QED
  BY <1>1, <1>2, <1>3 DEF Asks

LEMMA AskingTypes ==
    ASSUME Types, NEW th \in Thread, Asking(th)
    PROVE  Types'
<1>1. UNCHANGED <<storeVars, shared, local, history>>
  BY AskingEffect
<1>2. PICK h : Asks(th, h) /\ call' = [call EXCEPT ![th] = h]
  BY AskingEffect
<1>3. Typed(h)
  BY <1>2, AsksTyped
<1>4. /\ UNCHANGED <<token, issued, consumed, shared>> /\ revoked' \subseteq TokenId
      /\ fenced' \subseteq AuthScope /\ quiet' \in [Thread -> BOOLEAN] /\ StatisticsOK'
  BY <1>1, StoreStays, HistoryStays, StatisticsStay DEF Types
<1> QED
  BY <1>2, <1>3, <1>4, TablesStay

Reports(h, scope) ==
    /\ IsHandler(h) /\ h.op = "incident" /\ h.step = "read_agent"
    /\ h.scope = scope /\ h.agent = None /\ h.todo = {}

LEMMA IncidentEffect ==
    ASSUME Types, NEW th \in Thread, NEW scope \in AuthScope, RecordIncident(th, scope)
    PROVE  /\ UNCHANGED <<storeVars, shared, decided, ledger, fenced>>
           /\ quiet' = [quiet EXCEPT ![th] = TRUE] /\ call[th] = None
           /\ memory' \in [Replica -> [AuthScope -> TrustStats]]
           /\ \E h : Reports(h, scope) /\ call' = [call EXCEPT ![th] = h]
<1>1. PICK h : h = NewCall("incident", "read_agent", scope, None, None)
  OBVIOUS
<1>2. call[th] = None /\ call' = [call EXCEPT ![th] = h]
  BY <1>1 DEF RecordIncident, Begin
<1>3. memory' \in [Replica -> [AuthScope -> TrustStats]]
  <2> DEFINE p == ProcessOf(th)
             counted == WithIncident(memory[p][scope])
  <2>1. p \in Replica
    BY ProcessOfThread
  <2>2. memory' = [memory EXCEPT ![p][scope] = counted]
    BY DEF RecordIncident
  <2>3. memory \in [Replica -> [AuthScope -> TrustStats]]
    BY DEF Types, StatisticsOK
  <2> HIDE DEF p
  <2>4. counted \in TrustStats
    BY <2>1, <2>3 DEF WithIncident, TrustStats
  <2> HIDE DEF counted
  <2> QED
    BY <2>1, <2>2, <2>3, <2>4, NestedUpdate
<1>4. /\ UNCHANGED <<storeVars, shared, decided, ledger, fenced>>
      /\ quiet' = [quiet EXCEPT ![th] = TRUE]
  BY DEF RecordIncident
<1>5. Reports(h, scope)
  BY <1>1, NewHandler DEF Reports
<1> QED
  BY <1>2, <1>3, <1>4, <1>5

LEMMA IncidentTypes ==
    ASSUME Types, NEW th \in Thread, NEW scope \in AuthScope, RecordIncident(th, scope)
    PROVE  Types'
<1>1. /\ UNCHANGED <<storeVars, shared, decided, fenced>>
      /\ quiet' = [quiet EXCEPT ![th] = TRUE]
      /\ memory' \in [Replica -> [AuthScope -> TrustStats]]
  BY IncidentEffect
<1>2. PICK h : Reports(h, scope) /\ call' = [call EXCEPT ![th] = h]
  BY IncidentEffect
<1>3. Typed(h)
  BY <1>2 DEF Typed, Reports
<1>4. StatisticsOK' /\ fenced' \subseteq AuthScope /\ quiet' \in [Thread -> BOOLEAN]
  BY <1>1 DEF Types, StatisticsOK, TablesOK
<1>5. UNCHANGED <<token, issued, consumed, shared>> /\ revoked' \subseteq TokenId
  BY <1>1, StoreStays
<1> QED
  BY <1>2, <1>3, <1>4, <1>5, TablesStay

LEMMA EnforceEffect ==
    ASSUME NEW t \in TokenId, Enforce(t)
    PROVE  /\ t \in delivered /\ consumed' = consumed \cup {t}
           /\ token' = token /\ issued' = issued /\ revoked' = revoked
           /\ UNCHANGED <<shared, local, ledger, call, requests, history>>
BY DEF Enforce, MarkConsumed

LEMMA EnforceTypes ==
    ASSUME Types, NEW t \in TokenId, Enforce(t)
    PROVE  Types'
<1>1. /\ consumed' = consumed \cup {t}
      /\ token' = token /\ issued' = issued /\ revoked' = revoked
      /\ UNCHANGED <<shared, local, call, history>>
  BY EnforceEffect
<1>2. /\ wiring' = wiring /\ events' = events /\ nonces' = nonces
      /\ mintedFor' = mintedFor /\ agents' = agents /\ heap' = heap
      /\ rules' = rules /\ order' = order /\ delivered' = delivered
      /\ call' = call /\ fenced' = fenced /\ quiet' = quiet
      /\ memory' = memory /\ decided' = decided
  BY <1>1 DEF shared, tables, agentVars, ruleVars, history, local
<1>3. TablesOK'
  BY <1>1, <1>2 DEF Types, TablesOK, StoreTypeOK
<1>4. CallsOK'
  BY <1>1, <1>2 DEF Types, CallsOK, Typed, HasAgent, Stored, IsHandler
<1> QED
  BY <1>1, <1>2, <1>3, <1>4
     DEF Types, AgentsOK, HasAgent, RulesOK, Stored, StatisticsOK

LEMMA RestartEffect ==
    ASSUME NEW p \in Replica, Restart(p)
    PROVE  /\ UNCHANGED <<storeVars, shared, ledger, history>>
           /\ call' = [th \in Thread |-> call'[th]]
           /\ \A th \in Thread : call'[th] \in {None, call[th]}
BY DEF Restart

LEMMA RestartTypes ==
    ASSUME Types, NEW p \in Replica, Restart(p)
    PROVE  Types'
<1>1. UNCHANGED <<storeVars, shared, history>>
  BY RestartEffect
<1>2. /\ token' = token /\ issued' = issued /\ consumed' = consumed
      /\ revoked' = revoked
      /\ wiring' = wiring /\ events' = events /\ nonces' = nonces
      /\ mintedFor' = mintedFor /\ agents' = agents /\ heap' = heap
      /\ rules' = rules /\ order' = order /\ delivered' = delivered
      /\ fenced' = fenced /\ quiet' = quiet
  BY <1>1 DEF storeVars, shared, tables, agentVars, ruleVars, history
<1>3. TablesOK'
  BY <1>2 DEF Types, TablesOK, StoreTypeOK
<1>4. CallsOK'
  <2>1. ASSUME NEW th \in Thread, call'[th] # None PROVE Typed(call[th])'
    <3>1. PICK h : h = call'[th]
      OBVIOUS
    <3>2. h = call[th] /\ Typed(h)
      BY <2>1, <3>1, RestartEffect DEF Types, CallsOK
    <3>3. Typed(h)'
      BY <1>2, <3>2 DEF Typed, HasAgent, Stored, IsHandler
    <3> QED
      BY <3>1, <3>3 DEF Typed, HasAgent, IsHandler
  <2> QED
    BY <2>1, RestartEffect DEF CallsOK
<1>5. StatisticsOK'
  <2> DEFINE zero == [s \in AuthScope |-> NewStats]
             nothing == [s \in AuthScope |-> {}]
  <2>1. /\ memory' = [memory EXCEPT ![p] = zero]
        /\ decided' = [decided EXCEPT ![p] = nothing]
    BY DEF Restart
  <2>2. NewStats \in TrustStats
    BY DEF NewStats, TrustStats
  <2>3. zero \in [AuthScope -> TrustStats] /\ nothing \in [AuthScope -> SUBSET EventId]
    BY <2>2
  <2> HIDE DEF zero, nothing
  <2> QED
    BY <2>1, <2>3 DEF Types, StatisticsOK
<1> QED
  BY <1>2, <1>3, <1>4, <1>5 DEF Types, AgentsOK, HasAgent, RulesOK, Stored

LEMMA NothingTypes ==
    ASSUME Types, UNCHANGED vars
    PROVE  Types'
<1>1. /\ token' = token /\ issued' = issued /\ consumed' = consumed
      /\ revoked' = revoked
      /\ wiring' = wiring /\ events' = events /\ nonces' = nonces
      /\ mintedFor' = mintedFor /\ agents' = agents /\ heap' = heap
      /\ rules' = rules /\ order' = order /\ delivered' = delivered
      /\ call' = call /\ fenced' = fenced /\ quiet' = quiet
      /\ memory' = memory /\ decided' = decided
  BY DEF vars, storeVars, shared, tables, agentVars, ruleVars, history, local
<1>2. CallsOK'
  BY <1>1 DEF Types, CallsOK, Typed, HasAgent, Stored, IsHandler
<1>3. TablesOK'
  BY <1>1 DEF Types, TablesOK, StoreTypeOK
<1> QED
  BY <1>1, <1>2, <1>3 DEF Types, AgentsOK, HasAgent, RulesOK, Stored, StatisticsOK

(***************************************************************************)
(* The steps once more, by what they have in common.                       *)
(***************************************************************************)
Finishing(th) == \/ AuditRegistration(th) \/ AuditTrust(th) \/ AuditApproval(th)
                 \/ AuditRevocation(th) \/ AuditIncident(th) \/ Raise(th)

Answering(th) == AuditDecision(th) \/ RecommendFor(th) \/ AuditRecommendation(th)

Serving(th) ==
    \/ \E reg \in Registration : RegisterAgent(th, reg.agent, reg.record)
    \/ \E id \in EventId, e \in EventBody : ProposeEvent(th, id, e)
    \/ Asking(th)
    \/ \E scope \in AuthScope : RecordIncident(th, scope)
    \/ AutoCreateAgent(th) \/ ClaimNonce(th) \/ AddEvent(th) \/ Deliberating(th)
    \/ (\E t \in TokenId : Mint(th, t)) \/ AuditEvent(th)
    \/ ApplyDecision(th) \/ Answering(th) \/ AddRule(th) \/ WriteRevokedRule(th)
    \/ ReadAgent(th) \/ ReduceAgent(th) \/ WriteAgent(th) \/ Collecting(th)
    \/ (\E r \in RuleId : WriteRule(th, r)) \/ RevokeScope(th) \/ Finishing(th)

LEMMA Steps ==
    ASSUME Next
    PROVE  \/ \E th \in Thread : Serving(th)
           \/ \E t \in TokenId : Enforce(t)
           \/ \E p \in Replica : Restart(p)
<1>1. CASE \E th \in Thread : Request(th) \/ Advance(th) \/ Raise(th)
  <2>1. PICK th \in Thread : Request(th) \/ Advance(th) \/ Raise(th)
    BY <1>1
  <2>2. CASE Request(th)
    BY <2>2 DEF Request, Serving, Asking
  <2>3. CASE Advance(th) \/ Raise(th)
    BY <2>3 DEF Advance, Serving, Deliberating, Answering, Collecting, Finishing
  <2> QED
    BY <2>1, <2>2, <2>3
<1> QED
  BY <1>1 DEF Next

LEMMA ServingTypes ==
    ASSUME Types, NEW th \in Thread, Serving(th)
    PROVE  Types'
<1>1. Finishing(th) => Types'
  BY EndTypes DEF Finishing
<1>2. Answering(th) => Types'
  BY DecisionTypes DEF Answering
<1> QED
  BY <1>1, <1>2, RegisterTypes, ProposeTypes, AskingTypes, IncidentTypes,
     AutoCreateTypes, ClaimTypes, AddEventTypes, DeliberatingTypes, MintTypes,
     AuditEventTypes, ApplyTypes, AddRuleTypes, WriteRevokedTypes, ReadAgentTypes,
     ReduceTypes, WriteAgentTypes, CollectingTypes, WriteRuleTypes, RevokeScopeTypes
     DEF Serving

LEMMA InitTypes ==
    ASSUME Init
    PROVE  Types
<1>1. CallsOK
  BY DEF Init, CallsOK
<1>2. AgentsOK
  BY ControlPlaneAssumption DEF Init, AgentsOK
<1>3. RulesOK
  BY DEF Init, RulesOK, Stored
<1>4. StatisticsOK
  <2>1. NewStats \in TrustStats
    BY DEF NewStats, TrustStats
  <2> QED
    BY <2>1 DEF Init, StatisticsOK
<1>5. TablesOK
  BY DEF Init, TablesOK, StoreInit, StoreTypeOK
<1> QED
  BY <1>1, <1>2, <1>3, <1>4, <1>5 DEF Types

LEMMA StepTypes ==
    ASSUME Types, [Next]_vars
    PROVE  Types'
BY Steps, ServingTypes, EnforceTypes, RestartTypes, NothingTypes

LEMMA TypesHold == Spec => []Types
BY InitTypes, StepTypes, PTL DEF Spec

\* Every table holds what its columns say, on both wirings, and an agent that
\* a handler read stays where it was found.
THEOREM TypeCorrect == Spec => []TypeOK
<1>1. ASSUME Types PROVE TypeOK
  <2>1. ASSUME NEW a \in Agent, agents[a] # None
        PROVE  LET agent == AgentSeen(agents[a]) IN
               /\ agent.owner \in Human
               /\ agent.level \in [Task -> AutonomyLevel]
               /\ agent.incidents \in Nat
    <3>1. HasAgent(agents[a])
      BY <1>1, <2>1 DEF Types, AgentsOK
    <3>2. AgentSeen(agents[a]) \in AgentRecord
      BY <1>1, <3>1 DEF HasAgent, AgentSeen, Types, AgentsOK
    <3> QED
      BY <3>2 DEF AgentRecord
  <2>2. \A r \in RuleId : rules[r] # None <=> \E i \in DOMAIN order : order[i] = r
    BY <1>1 DEF Types, RulesOK, Stored
  <2> QED
    BY <1>1, <2>1, <2>2 DEF TypeOK, Types, TablesOK, StatisticsOK
<1> QED
  BY <1>1, TypesHold, PTL

(***************************************************************************)
(* Proposals.  Most steps do not concern them.                             *)
(***************************************************************************)
ProposalInv == EventsOK /\ TokensOK /\ ProposalsOK

\* h is where g was, for all that a proposal depends on.
Similar(h, g) ==
    /\ h.id = g.id /\ h.body = g.body
    /\ h.rule = g.rule /\ h.token = g.token /\ h.result = g.result
    /\ h.step = g.step \/ (g.step = "create" /\ h.step = "claim")

Elsewhere ==
    /\ UNCHANGED <<events, nonces, mintedFor, token, issued, consumed, delivered>>
    /\ ledger \subseteq ledger'
    /\ \A th \in Thread : Proposing(th)' => Proposing(th) /\ Similar(call'[th], call[th])

LEMMA RecordedStays ==
    ASSUME NEW t, Recorded(t), mintedFor' = mintedFor, ledger \subseteq ledger'
    PROVE  Recorded(t)'
BY DEF Recorded

LEMMA ElsewhereKeeps ==
    ASSUME ProposalInv, Elsewhere
    PROVE  ProposalInv'
<1>1. /\ events' = events /\ nonces' = nonces /\ mintedFor' = mintedFor
      /\ token' = token /\ issued' = issued /\ consumed' = consumed
      /\ delivered' = delivered /\ ledger \subseteq ledger'
  BY DEF Elsewhere
<1>2. EventsOK'
  BY <1>1 DEF ProposalInv, EventsOK, Claim
<1>3. TokensOK'
  <2>1. \A t \in delivered' : Recorded(t)'
    BY <1>1, RecordedStays DEF ProposalInv, TokensOK
  <2> QED
    BY <1>1, <2>1 DEF ProposalInv, TokensOK, GrantedFor, Admits
<1>4. ProposalsOK'
  <2>1. ASSUME NEW th \in Thread, Proposing(th)'
        PROVE  /\ ProposalOK(call[th])'
               /\ Proposing(th) /\ call'[th].id = call[th].id
               /\ call'[th].step = "add_event" =>
                     call[th].step = "add_event" /\ call'[th].body = call[th].body
    <3>1. PICK g : g = call[th]
      OBVIOUS
    <3>2. PICK h : h = call'[th]
      OBVIOUS
    <3>3. Proposing(th) /\ Similar(h, g) /\ ProposalOK(g)
      BY <2>1, <3>1, <3>2 DEF Elsewhere, ProposalInv, ProposalsOK
    <3>4. ProposalOK(h)
      BY <3>3 DEF Similar, ProposalOK, BeforeEvent
    <3>5. ProposalOK(h)'
      BY <1>1, <3>4 DEF ProposalOK, Claim, Admits
    <3>6. ProposalOK(call[th])'
      BY <3>2, <3>5 DEF ProposalOK
    <3> QED
      BY <3>1, <3>2, <3>3, <3>6 DEF Similar
  <2> QED
    BY <2>1 DEF ProposalInv, ProposalsOK
<1> QED
  BY <1>2, <1>3, <1>4 DEF ProposalInv

\* The step of another handler, or the end of this one.
LEMMA OtherHandler ==
    ASSUME Types, NEW th \in Thread, NEW h, call' = [call EXCEPT ![th] = h],
           h = None \/ h.op # "propose",
           UNCHANGED <<events, nonces, mintedFor, token, issued, consumed, delivered>>,
           ledger \subseteq ledger'
    PROVE  Elsewhere
<1>1. /\ call' = [o \in Thread |-> call'[o]]
      /\ call'[th] = h
      /\ \A o \in Thread : o # th => call'[o] = call[o]
  BY Turn DEF Types
<1>2. ASSUME NEW o \in Thread, Proposing(o)'
      PROVE  Proposing(o) /\ Similar(call'[o], call[o])
  <2>1. o # th
    BY <1>1, <1>2 DEF Proposing
  <2> QED
    BY <1>1, <1>2, <2>1 DEF Proposing, Similar
<1> QED
  BY <1>2 DEF Elsewhere

LEMMA OtherReturn ==
    ASSUME Types, NEW th \in Thread, Return(th),
           UNCHANGED <<events, nonces, mintedFor, token, issued, consumed, delivered>>,
           ledger \subseteq ledger'
    PROVE  Elsewhere
<1>1. PICK h : h = None
  OBVIOUS
<1>2. call' = [call EXCEPT ![th] = h]
  BY <1>1 DEF Return, Goto
<1> QED
  BY <1>1, <1>2, OtherHandler

\* Steps of handlers that are not proposals.
Aside(th) ==
    \/ \E reg \in Registration : RegisterAgent(th, reg.agent, reg.record)
    \/ Asking(th)
    \/ \E scope \in AuthScope : RecordIncident(th, scope)
    \/ ApplyDecision(th) \/ Answering(th) \/ AddRule(th) \/ WriteRevokedRule(th)
    \/ ReadAgent(th) \/ ReduceAgent(th) \/ WriteAgent(th) \/ Collecting(th)
    \/ (\E r \in RuleId : WriteRule(th, r)) \/ RevokeScope(th)

LEMMA AsideFrame ==
    ASSUME NEW th \in Thread, Aside(th)
    PROVE  /\ UNCHANGED <<events, nonces, mintedFor, token, issued, consumed, delivered>>
           /\ ledger \subseteq ledger'
<1> USE DEF storeVars, shared, tables
<1>1. CASE \E reg \in Registration : RegisterAgent(th, reg.agent, reg.record)
  BY <1>1 DEF RegisterAgent
<1>2. CASE Asking(th)
  BY <1>2, AskingEffect
<1>3. CASE \E scope \in AuthScope : RecordIncident(th, scope)
  BY <1>3 DEF RecordIncident
<1>4. CASE ApplyDecision(th)
  BY <1>4 DEF ApplyDecision
<1>5. CASE Answering(th)
  BY <1>5 DEF Answering, AuditDecision, RecommendFor, AuditRecommendation, Audit
<1>6. CASE AddRule(th)
  BY <1>6 DEF AddRule
<1>7. CASE WriteRevokedRule(th)
  BY <1>7 DEF WriteRevokedRule
<1>8. CASE ReadAgent(th) \/ ReduceAgent(th) \/ WriteAgent(th)
  BY <1>8 DEF ReadAgent, ReduceAgent, WriteAgent
<1>9. CASE Collecting(th)
  BY <1>9 DEF Collecting, ReadRules, BeginScan, EndScan
<1>10. CASE \E r \in RuleId : WriteRule(th, r)
  BY <1>10 DEF WriteRule
<1>11. CASE RevokeScope(th)
  BY <1>11 DEF RevokeScope, MarkScopeRevoked
<1> QED
  BY <1>1, <1>2, <1>3, <1>4, <1>5, <1>6, <1>7, <1>8, <1>9, <1>10, <1>11 DEF Aside

LEMMA AsideCalls ==
    ASSUME Types, NEW th \in Thread, Aside(th)
    PROVE  \E h : (h = None \/ h.op # "propose") /\ call' = [call EXCEPT ![th] = h]
<1> DEFINE Goal == \E h : (h = None \/ h.op # "propose") /\ call' = [call EXCEPT ![th] = h]
<1>1. ASSUME Return(th) PROVE Goal
  BY <1>1 DEF Return, Goto
<1>2. ASSUME NEW h, Goto(th, h), Same(h, call[th]), call[th].op # "propose" PROVE Goal
  BY <1>2 DEF Goto, Same
<1>3. ASSUME NEW next, Continue(th, next), call[th] # None, call[th].op # "propose"
      PROVE  Goal
  BY <1>2, <1>3, ContinueEffect
<1>4. CASE \E reg \in Registration : RegisterAgent(th, reg.agent, reg.record)
  <2>1. PICK reg \in Registration : RegisterAgent(th, reg.agent, reg.record)
    BY <1>4
  <2>2. PICK h : h = NewCall("register", "audit", None, reg.agent, reg.record)
    OBVIOUS
  <2>3. h.op = "register" /\ call' = [call EXCEPT ![th] = h]
    BY <2>1, <2>2, NewHandler DEF RegisterAgent, Begin
  <2> QED
    BY <2>3
<1>5. CASE Asking(th)
  <2>1. PICK h : Asks(th, h) /\ call' = [call EXCEPT ![th] = h]
    BY <1>5, AskingEffect
  <2>2. h.op # "propose"
    BY <2>1, AsksTyped
  <2> QED
    BY <2>1, <2>2
<1>6. CASE \E scope \in AuthScope : RecordIncident(th, scope)
  <2>1. PICK scope \in AuthScope : RecordIncident(th, scope)
    BY <1>6
  <2>2. PICK h : Reports(h, scope) /\ call' = [call EXCEPT ![th] = h]
    BY <2>1, IncidentEffect
  <2> QED
    BY <2>2 DEF Reports
<1>7. CASE ApplyDecision(th)
  <2>1. call[th] # None /\ call[th].op = "decide"
    BY <1>7, HandlerAt DEF ApplyDecision
  <2>2. Return(th) \/ Continue(th, "audit_decision")
    BY <1>7 DEF ApplyDecision
  <2> QED
    BY <1>1, <1>3, <2>1, <2>2
<1>8. CASE Answering(th)
  <2>1. call[th] # None /\ call[th].op = "decide" /\ IsHandler(call[th])
    BY <1>8, HandlerAt DEF Answering, AuditDecision, RecommendFor, AuditRecommendation
  <2>2. CASE AuditDecision(th)
    BY <1>3, <2>1, <2>2 DEF AuditDecision
  <2>3. CASE AuditRecommendation(th)
    BY <1>3, <2>1, <2>3 DEF AuditRecommendation
  <2>4. CASE RecommendFor(th)
    BY <1>1, <1>2, <2>1, <2>4, RecommendEffect
  <2> QED
    BY <1>8, <2>2, <2>3, <2>4 DEF Answering
<1>9. CASE AddRule(th)
  <2>1. PICK h : Goto(th, h) /\ Same(h, call[th])
    BY <1>9, AddRuleEffect
  <2> QED
    BY <1>2, <1>9, <2>1, AddRuleEffect
<1>10. CASE WriteRevokedRule(th)
  <2>1. PICK h : Goto(th, h) /\ Same(h, call[th])
    BY <1>10, WriteRevokedEffect
  <2> QED
    BY <1>2, <1>10, <2>1, WriteRevokedEffect
<1>11. CASE ReadAgent(th)
  <2>1. PICK h : Goto(th, h) /\ Same(h, call[th])
    BY <1>11, ReadAgentEffect
  <2> QED
    BY <1>2, <1>11, <2>1, ReadAgentEffect
<1>12. CASE ReduceAgent(th)
  BY <1>3, <1>12, ReduceEffect
<1>13. CASE WriteAgent(th)
  BY <1>3, <1>13, HandlerAt DEF WriteAgent
<1>14. CASE Collecting(th)
  <2>1. call[th] # None /\ call[th].op = "incident"
    BY <1>14, CollectingEffect
  <2>2. \A todo : WriteBack(th, todo) => \E h : Goto(th, h) /\ Same(h, call[th])
    BY <2>1, WriteBackEffect
  <2> QED
    BY <1>1, <1>2, <1>14, <2>1, <2>2, CollectingEffect
<1>15. CASE \E r \in RuleId : WriteRule(th, r)
  <2>1. PICK r \in RuleId : WriteRule(th, r)
    BY <1>15
  <2>2. PICK h : Goto(th, h) /\ Same(h, call[th])
    BY <2>1, WriteRuleEffect
  <2> QED
    BY <1>2, <2>1, <2>2, WriteRuleEffect
<1>16. CASE RevokeScope(th)
  <2>1. call[th] # None /\ call[th].op # "propose"
    BY <1>16, HandlerAt DEF RevokeScope
  <2> QED
    BY <1>3, <1>16, <2>1 DEF RevokeScope
<1> QED
  BY <1>4, <1>5, <1>6, <1>7, <1>8, <1>9, <1>10, <1>11, <1>12, <1>13, <1>14,
     <1>15, <1>16 DEF Aside

LEMMA AsideElsewhere ==
    ASSUME Types, NEW th \in Thread, Aside(th)
    PROVE  Elsewhere
BY AsideFrame, AsideCalls, OtherHandler

LEMMA FinishingElsewhere ==
    ASSUME Types, NEW th \in Thread, Finishing(th)
    PROVE  Elsewhere
<1>1. Return(th) /\ UNCHANGED <<storeVars, shared>> /\ ledger \subseteq ledger'
  BY DEF Finishing, AuditRegistration, AuditTrust, AuditApproval, AuditRevocation,
         AuditIncident, Raise, Audit
<1>2. UNCHANGED <<events, nonces, mintedFor, token, issued, consumed, delivered>>
  BY <1>1 DEF storeVars, shared, tables
<1> QED
  BY <1>1, <1>2, OtherReturn

LEMMA AutoCreateElsewhere ==
    ASSUME Types, NEW th \in Thread, AutoCreateAgent(th)
    PROVE  Elsewhere
<1>1. call[th] # None /\ call[th].op = "propose" /\ call[th].step = "create"
  BY HandlerAt DEF AutoCreateAgent
<1>2. PICK h : /\ Goto(th, h) /\ Same(h, call[th]) /\ h.step = "claim"
               /\ h.rule = call[th].rule /\ h.token = call[th].token
               /\ h.result = call[th].result
  BY <1>1, ContinueEffect DEF AutoCreateAgent
<1>3. call' = [call EXCEPT ![th] = h]
  BY <1>2 DEF Goto
<1>4. /\ call'[th] = h
      /\ \A o \in Thread : o # th => call'[o] = call[o]
  BY <1>3, Turn DEF Types
<1>5. ASSUME NEW o \in Thread, Proposing(o)'
      PROVE  Proposing(o) /\ Similar(call'[o], call[o])
  <2>1. CASE o = th
    BY <1>1, <1>2, <1>4, <2>1 DEF Proposing, Similar, Same
  <2>2. CASE o # th
    BY <1>4, <1>5, <2>2 DEF Proposing, Similar
  <2> QED
    BY <2>1, <2>2
<1>6. UNCHANGED <<events, nonces, mintedFor, token, issued, consumed, delivered, ledger>>
  BY DEF AutoCreateAgent, storeVars, tables
<1> QED
  BY <1>5, <1>6 DEF Elsewhere

LEMMA RestartElsewhere ==
    ASSUME NEW p \in Replica, Restart(p)
    PROVE  Elsewhere
<1>1. UNCHANGED <<events, nonces, mintedFor, token, issued, consumed, delivered, ledger>>
  BY RestartEffect DEF storeVars, shared, tables
<1>2. ASSUME NEW o \in Thread, Proposing(o)'
      PROVE  Proposing(o) /\ Similar(call'[o], call[o])
  BY <1>2, RestartEffect DEF Proposing, Similar
<1> QED
  BY <1>1, <1>2 DEF Elsewhere

LEMMA NothingElsewhere ==
    ASSUME UNCHANGED vars
    PROVE  Elsewhere
BY DEF vars, storeVars, shared, tables, Elsewhere, Proposing, Similar

(***************************************************************************)
(* The steps of a proposal itself.                                         *)
(***************************************************************************)

\* What happens around the proposal of g.
LEMMA ProposalStays ==
    ASSUME NEW g, ProposalOK(g), nonces \subseteq nonces', issued \subseteq issued',
           events'[g.id] = events[g.id],
           g.step = "add_event" =>
              \A id \in EventId : events'[id] # None =>
                  Claim(events'[id]) # Claim(g.body),
           \A t \in TokenId : mintedFor'[t] = g.id <=> mintedFor[t] = g.id,
           issued \subseteq TokenId
    PROVE  ProposalOK(g)'
BY DEF ProposalOK, Claim, Admits

\* One proposal moves, the others stay.
LEMMA ProposalMoves ==
    ASSUME Types, ProposalsOK, NEW th \in Thread, NEW h,
           call' = [call EXCEPT ![th] = h], h # None => h.op = "propose",
           h # None => ProposalOK(h)',
           \A g, o : o \in Thread /\ o # th /\ Proposing(o) /\ g = call[o] =>
              /\ ProposalOK(g)'
              /\ h # None => /\ g.id # h.id
                             /\ g.step = "add_event" /\ h.step = "add_event" =>
                                   Claim(g.body) # Claim(h.body)
    PROVE  ProposalsOK'
<1>1. /\ call'[th] = h
      /\ \A o \in Thread : o # th => call'[o] = call[o]
  BY Turn DEF Types
<1>2. \A o \in Thread : o # th => (Proposing(o)' <=> Proposing(o))
  BY <1>1 DEF Proposing
<1>3. ASSUME NEW o \in Thread, Proposing(o)' PROVE ProposalOK(call[o])'
  <2>1. PICK g : g = call'[o]
    OBVIOUS
  <2>2. ProposalOK(g)'
    <3>1. CASE o = th
      BY <1>1, <1>3, <2>1, <3>1 DEF Proposing
    <3>2. CASE o # th
      BY <1>1, <1>2, <1>3, <2>1, <3>2
    <3> QED
      BY <3>1, <3>2
  <2> QED
    BY <2>1, <2>2 DEF ProposalOK
<1>4. ASSUME NEW o \in Thread, NEW other \in Thread, o # other,
             Proposing(o)', Proposing(other)'
      PROVE  /\ call'[o].id # call'[other].id
             /\ call'[o].step = "add_event" /\ call'[other].step = "add_event" =>
                   Claim(call'[o].body) # Claim(call'[other].body)
  <2>1. CASE o # th /\ other # th
    BY <1>1, <1>2, <1>4, <2>1 DEF ProposalsOK
  <2>2. CASE o = th /\ other # th
    BY <1>1, <1>2, <1>4, <2>2 DEF Proposing
  <2>3. CASE o # th /\ other = th
    BY <1>1, <1>2, <1>4, <2>3 DEF Proposing
  <2> QED
    BY <1>4, <2>1, <2>2, <2>3
<1> QED
  BY <1>3, <1>4 DEF ProposalsOK, Claim

LEMMA ProposeKeeps ==
    ASSUME Types, ProposalInv, NEW th \in Thread, NEW id \in EventId,
           NEW e \in EventBody, ProposeEvent(th, id, e)
    PROVE  ProposalInv'
<1>1. /\ events[id] = None /\ Unused("propose", id) /\ call[th] = None
      /\ events' = events /\ nonces' = nonces /\ mintedFor' = mintedFor
      /\ token' = token /\ issued' = issued /\ consumed' = consumed
      /\ delivered' = delivered /\ ledger' = ledger
  BY ProposeEffect DEF storeVars, tables
<1>2. PICK h : Opens(h, id, e) /\ call' = [call EXCEPT ![th] = h]
  BY ProposeEffect
<1>3. h.op = "propose" /\ h.id = id /\ h.step \in {"create", "claim"} /\ h.token = None
  BY <1>2 DEF Opens
<1>4. ProposalOK(h)'
  <2>1. \A t \in TokenId : mintedFor[t] # id
    <3>1. None \notin EventId
      BY ControlPlaneAssumption
    <3> QED
      BY <1>1, <3>1 DEF ProposalInv, TokensOK
  <2> QED
    BY <1>1, <1>3, <2>1 DEF ProposalOK, BeforeEvent
<1>5. ASSUME NEW g, NEW o \in Thread, o # th, Proposing(o), g = call[o]
      PROVE  ProposalOK(g)' /\ g.id # h.id
  <2>1. ProposalOK(g)
    BY <1>5 DEF ProposalInv, ProposalsOK
  <2>2. ProposalOK(g)'
    BY <1>1, <2>1 DEF ProposalOK, Claim, Admits
  <2>3. g.id # id
    BY <1>1, <1>5 DEF Unused, Proposing
  <2> QED
    BY <1>3, <2>2, <2>3
<1>6. ProposalsOK'
  BY <1>2, <1>3, <1>4, <1>5, ProposalMoves DEF ProposalInv
<1>7. EventsOK' /\ TokensOK'
  <2>1. \A t : Recorded(t) => Recorded(t)'
    BY <1>1 DEF Recorded
  <2> QED
    BY <1>1, <2>1 DEF ProposalInv, EventsOK, TokensOK, GrantedFor, Claim, Admits
<1> QED
  BY <1>6, <1>7 DEF ProposalInv

LEMMA ClaimKeeps ==
    ASSUME Types, ProposalInv, NEW th \in Thread, ClaimNonce(th)
    PROVE  ProposalInv'
<1> DEFINE claim == Claim(call[th].body)
<1>1. /\ call[th] # None /\ call[th].op = "propose" /\ call[th].step = "claim"
      /\ nonces' = nonces \cup {claim} /\ events' = events
      /\ mintedFor' = mintedFor
      /\ token' = token /\ issued' = issued /\ consumed' = consumed
      /\ delivered' = delivered /\ ledger' = ledger
  BY ClaimEffect DEF storeVars
<1>2. EventsOK' /\ TokensOK'
  <2>1. \A t : Recorded(t) => Recorded(t)'
    BY <1>1 DEF Recorded
  <2> QED
    BY <1>1, <2>1 DEF ProposalInv, EventsOK, TokensOK, GrantedFor, Claim, Admits
<1>3. ASSUME NEW g, NEW o \in Thread, o # th, Proposing(o), g = call[o]
      PROVE  /\ ProposalOK(g)' /\ g.id # call[th].id
             /\ g.step = "add_event" => Claim(g.body) \in nonces
  <2>1. ProposalOK(g) /\ g.id # call[th].id
    BY <1>1, <1>3 DEF ProposalInv, ProposalsOK, Proposing
  <2>2. ProposalOK(g)'
    BY <1>1, <2>1 DEF ProposalOK, Claim, Admits
  <2> QED
    BY <2>1, <2>2 DEF ProposalOK
<1>4. CASE Return(th)
  <2>1. PICK h : h = None
    OBVIOUS
  <2>2. call' = [call EXCEPT ![th] = h]
    BY <1>4, <2>1 DEF Return, Goto
  <2>3. ProposalsOK'
    BY <1>3, <2>1, <2>2, ProposalMoves DEF ProposalInv
  <2> QED
    BY <1>2, <2>3 DEF ProposalInv
<1>5. CASE ~Return(th)
  <2>1. PICK h : /\ claim \notin nonces /\ Goto(th, h) /\ Same(h, call[th])
                 /\ h.step = "add_event"
                 /\ h.token = call[th].token
    BY <1>5, ClaimEffect
  <2>2. call' = [call EXCEPT ![th] = h]
    BY <2>1 DEF Goto
  <2>3. ProposalOK(call[th])
    BY <1>1 DEF ProposalInv, ProposalsOK, Proposing
  <2>4. \A other \in EventId : events[other] # None => Claim(events[other]) # claim
    BY <2>1 DEF ProposalInv, EventsOK
  <2>5. /\ h.op = "propose" /\ h.id = call[th].id /\ Claim(h.body) = claim
    BY <1>1, <2>1 DEF Same
  <2>6. ProposalOK(h)'
    BY <1>1, <2>1, <2>3, <2>4, <2>5 DEF ProposalOK, BeforeEvent, Claim
  <2>7. ProposalsOK'
    BY <1>3, <2>1, <2>2, <2>5, <2>6, ProposalMoves DEF ProposalInv
  <2> QED
    BY <1>2, <2>7 DEF ProposalInv
<1> QED
  BY <1>4, <1>5

LEMMA AddEventKeeps ==
    ASSUME Types, ProposalInv, NEW th \in Thread, AddEvent(th)
    PROVE  ProposalInv'
<1>1. /\ call[th] # None /\ call[th].op = "propose" /\ call[th].step = "add_event"
      /\ Typed(call[th])
      /\ events' = [events EXCEPT ![call[th].id] = call[th].body]
      /\ nonces' = nonces /\ mintedFor' = mintedFor
      /\ token' = token /\ issued' = issued /\ consumed' = consumed
      /\ delivered' = delivered /\ ledger' = ledger
  BY AddEventEffect DEF storeVars
<1>2. PICK h : /\ Goto(th, h) /\ Same(h, call[th])
               /\ h.step \in {"evaluate", "read_level"}
               /\ h.token = call[th].token
  BY AddEventEffect
<1>3. PICK id, e : id = call[th].id /\ e = call[th].body
  OBVIOUS
<1>4. id \in EventId /\ e \in EventBody /\ e # None
  BY <1>1, <1>3, ControlPlaneAssumption DEF Typed
<1>5. /\ events'[id] = e
      /\ \A other \in EventId : other # id => events'[other] = events[other]
  BY <1>1, <1>3, <1>4 DEF Types, TablesOK
<1>6. ProposalOK(call[th])
  BY <1>1 DEF ProposalInv, ProposalsOK, Proposing
<1>7. /\ events[id] = None /\ Claim(e) \in nonces
      /\ \A other \in EventId : events[other] # None => Claim(events[other]) # Claim(e)
      /\ \A t \in TokenId : mintedFor[t] # id
      /\ call[th].token = None
  BY <1>1, <1>3, <1>6 DEF ProposalOK, BeforeEvent
<1>8. EventsOK'
  <2>1. \A a \in EventId : events'[a] # None => Claim(events'[a]) \in nonces
    BY <1>5, <1>7 DEF ProposalInv, EventsOK
  <2>2. ASSUME NEW a \in EventId, NEW b \in EventId, a # b,
               events'[a] # None, events'[b] # None
        PROVE  Claim(events'[a]) # Claim(events'[b])
    <3>1. CASE a = id
      BY <1>5, <1>7, <2>2, <3>1
    <3>2. CASE b = id
      BY <1>5, <1>7, <2>2, <3>2
    <3>3. CASE a # id /\ b # id
      BY <1>5, <2>2, <3>3 DEF ProposalInv, EventsOK
    <3> QED
      BY <3>1, <3>2, <3>3
  <2> QED
    BY <1>1, <2>1, <2>2 DEF EventsOK, Claim
<1>9. TokensOK'
  <2>1. \A t \in TokenId : mintedFor[t] # None =>
           mintedFor[t] \in EventId /\ mintedFor[t] # id
    BY <1>7 DEF Types, TablesOK
  <2>2. \A t \in TokenId : mintedFor[t] # None => events'[mintedFor[t]] = events[mintedFor[t]]
    BY <1>5, <2>1
  <2>3. \A t : Recorded(t) => Recorded(t)'
    BY <1>1 DEF Recorded
  <2>4. issued \subseteq TokenId
    BY DEF Types, TablesOK, StoreTypeOK
  <2> QED
    BY <1>1, <2>2, <2>3, <2>4 DEF ProposalInv, TokensOK, GrantedFor, Admits
<1>10. ProposalsOK'
  <2>1. call' = [call EXCEPT ![th] = h]
    BY <1>2 DEF Goto
  <2>2. h.op = "propose" /\ h.id = id /\ h.body = e
    BY <1>1, <1>2, <1>3 DEF Same
  <2>3. ProposalOK(h)'
    BY <1>1, <1>2, <1>5, <1>7, <2>2 DEF ProposalOK, BeforeEvent
  <2>4. ASSUME NEW g, NEW o \in Thread, o # th, Proposing(o), g = call[o]
        PROVE  ProposalOK(g)' /\ g.id # h.id
    <3>1. /\ ProposalOK(g) /\ g.id # id
          /\ g.step = "add_event" => Claim(g.body) # Claim(e)
      BY <1>1, <1>3, <2>4 DEF ProposalInv, ProposalsOK, Proposing
    <3>2. g.id \in EventId
      BY <2>4 DEF Types, CallsOK, Typed, Proposing
    <3>3. events'[g.id] = events[g.id]
      BY <1>5, <3>1, <3>2
    <3>4. g.step = "add_event" => \A other \in EventId :
             events'[other] # None => Claim(events'[other]) # Claim(g.body)
      BY <1>5, <3>1 DEF ProposalOK
    <3>5. issued \subseteq TokenId
      BY DEF Types, TablesOK, StoreTypeOK
    <3>6. ProposalOK(g)'
      BY <1>1, <3>1, <3>3, <3>4, <3>5, ProposalStays
    <3> QED
      BY <2>2, <3>1, <3>6
  <2> QED
    BY <1>2, <2>1, <2>2, <2>3, <2>4, ProposalMoves DEF ProposalInv
<1> QED
  BY <1>8, <1>9, <1>10 DEF ProposalInv

LEMMA DeliberatingKeeps ==
    ASSUME Types, ProposalInv, NEW th \in Thread, Deliberating(th)
    PROVE  ProposalInv'
<1>1. /\ call[th] # None /\ call[th].op = "propose"
      /\ call[th].step \in {"evaluate", "read_level", "test_rule"}
      /\ events' = events /\ nonces' = nonces /\ mintedFor' = mintedFor
      /\ token' = token /\ issued' = issued /\ consumed' = consumed
      /\ delivered' = delivered /\ ledger' = ledger
      /\ Return(th) \/ \E h : Goto(th, h) /\ Deliberation(th, h)
  BY DeliberatingEffect DEF storeVars, shared, tables
<1>2. CASE Return(th)
  BY <1>1, <1>2, OtherReturn, ElsewhereKeeps
<1>3. CASE \E h : Goto(th, h) /\ Deliberation(th, h)
  <2>1. PICK h : Goto(th, h) /\ Deliberation(th, h)
    BY <1>3
  <2>2. call' = [call EXCEPT ![th] = h]
    BY <2>1 DEF Goto
  <2>3. Same(h, call[th]) /\ h.token = call[th].token
    BY <2>1 DEF Deliberation
  <2>4. ProposalOK(call[th])
    BY <1>1 DEF ProposalInv, ProposalsOK, Proposing
  <2>5. /\ h.step \in {"test_rule", "mint", "audit"}
        /\ h.step = "mint" => h.result \in Proceeding /\ Admits(h.rule, h.body)
    BY <2>1 DEF Deliberation, RuleFound, StepAfter, Admits
  <2>6. ProposalOK(h)
    BY <1>1, <2>3, <2>4, <2>5 DEF ProposalOK, BeforeEvent, Same
  <2>7. ProposalOK(h)'
    BY <1>1, <2>6 DEF ProposalOK, Claim, Admits
  <2>8. ASSUME NEW g, NEW o \in Thread, o # th, Proposing(o), g = call[o]
        PROVE  ProposalOK(g)' /\ g.id # h.id
    <3>1. ProposalOK(g) /\ g.id # call[th].id
      BY <1>1, <2>8 DEF ProposalInv, ProposalsOK, Proposing
    <3>2. ProposalOK(g)'
      BY <1>1, <3>1 DEF ProposalOK, Claim, Admits
    <3> QED
      BY <2>3, <3>1, <3>2 DEF Same
  <2>9. h.op = "propose" /\ h.step # "add_event"
    BY <1>1, <2>3, <2>5 DEF Same
  <2>10. ProposalsOK'
    BY <2>2, <2>7, <2>8, <2>9, ProposalMoves DEF ProposalInv
  <2>11. EventsOK' /\ TokensOK'
    <3>1. \A t : Recorded(t) => Recorded(t)'
      BY <1>1 DEF Recorded
    <3> QED
      BY <1>1, <3>1 DEF ProposalInv, EventsOK, TokensOK, GrantedFor, Claim, Admits
  <2> QED
    BY <2>10, <2>11 DEF ProposalInv
<1> QED
  BY <1>1, <1>2, <1>3

LEMMA MintKeeps ==
    ASSUME Types, ProposalInv, NEW th \in Thread, NEW t \in TokenId, Mint(th, t)
    PROVE  ProposalInv'
<1> DEFINE grant == GrantFor(call[th].body, call[th].rule)
           minted == [grant |-> grant, expires |-> 0]
           id == call[th].id
<1>1. /\ call[th] # None /\ call[th].op = "propose" /\ call[th].step = "mint"
      /\ Typed(call[th]) /\ grant \in Grant /\ token[t] = None
      /\ token' = [token EXCEPT ![t] = minted]
      /\ issued' = issued \cup {t} /\ consumed' = consumed
      /\ mintedFor' = [mintedFor EXCEPT ![t] = id]
      /\ events' = events /\ nonces' = nonces
      /\ delivered' = delivered /\ ledger' = ledger
  BY MintEffect
<1>2. PICK h : /\ Goto(th, h) /\ Same(h, call[th])
               /\ h.step = "audit" /\ h.token = t
               /\ h.result = call[th].result /\ h.rule = call[th].rule
  BY MintEffect
<1>3. ProposalOK(call[th])
  BY <1>1 DEF ProposalInv, ProposalsOK, Proposing
<1>4. /\ events[id] = call[th].body
      /\ \A u \in TokenId : mintedFor[u] # id
      /\ call[th].result \in Proceeding /\ Admits(call[th].rule, call[th].body)
  BY <1>1, <1>3 DEF ProposalOK, BeforeEvent
<1>5. /\ id \in EventId /\ id # None /\ call[th].body \in EventBody
      /\ call[th].body # None /\ call[th].rule \in RuleBody \cup {None}
  BY <1>1, ControlPlaneAssumption DEF Typed
<1>6. mintedFor[t] = None /\ issued \subseteq TokenId /\ t \notin issued
  BY <1>1 DEF ProposalInv, TokensOK, Types, TablesOK, StoreTypeOK
<1>7. minted # None /\ minted.grant = grant
  BY <1>1, NoneAssumption DEF Token
<1> HIDE DEF minted
<1>8. /\ token'[t] = minted /\ mintedFor'[t] = id
      /\ \A u \in TokenId : u # t => token'[u] = token[u] /\ mintedFor'[u] = mintedFor[u]
  BY <1>1 DEF Types, TablesOK, StoreTypeOK
<1>9. EventsOK'
  BY <1>1 DEF ProposalInv, EventsOK, Claim
<1>10. TokensOK'
  <2>1. \A u \in TokenId : mintedFor'[u] # None =>
           token'[u] # None /\ events'[mintedFor'[u]] # None
    BY <1>1, <1>4, <1>5, <1>7, <1>8 DEF ProposalInv, TokensOK
  <2>2. \A u, v \in TokenId : u # v /\ mintedFor'[u] # None =>
           mintedFor'[u] # mintedFor'[v]
    BY <1>4, <1>5, <1>8 DEF ProposalInv, TokensOK
  <2>3. \A u \in issued' : mintedFor'[u] # None
                           /\ GrantedFor(token'[u].grant, events'[mintedFor'[u]])
    <3> TAKE u \in issued'
    <3>1. CASE u = t
      <4>1. GrantedFor(grant, call[th].body)
        BY <1>4, <1>5 DEF GrantedFor
      <4> QED
        BY <1>1, <1>4, <1>5, <1>7, <1>8, <3>1, <4>1
    <3>2. CASE u # t
      BY <1>1, <1>6, <1>8, <3>2 DEF ProposalInv, TokensOK
    <3> QED
      BY <3>1, <3>2
  <2>4. consumed' \subseteq delivered'
    BY <1>1 DEF ProposalInv, TokensOK
  <2>5. \A u \in delivered' : Recorded(u)'
    <3> TAKE u \in delivered'
    <3>1. Recorded(u) /\ mintedFor'[u] = mintedFor[u]
      BY <1>1, <1>6, <1>8 DEF ProposalInv, TokensOK, Types, TablesOK
    <3> QED
      BY <1>1, <3>1 DEF Recorded
  <2> QED
    BY <2>1, <2>2, <2>3, <2>4, <2>5 DEF TokensOK, GrantedFor, Admits
<1>11. ProposalsOK'
  <2>1. call' = [call EXCEPT ![th] = h]
    BY <1>2 DEF Goto
  <2>2. h.op = "propose" /\ h.id = id /\ h.body = call[th].body
    BY <1>1, <1>2 DEF Same
  <2>3. ProposalOK(h)'
    BY <1>1, <1>2, <1>4, <1>8, <2>2 DEF ProposalOK, BeforeEvent
  <2>4. ASSUME NEW g, NEW o \in Thread, o # th, Proposing(o), g = call[o]
        PROVE  ProposalOK(g)' /\ g.id # h.id
    <3>1. ProposalOK(g) /\ g.id # id
      BY <1>1, <2>4 DEF ProposalInv, ProposalsOK, Proposing
    <3>2. g.id \in EventId /\ g.id # None
      BY <2>4, ControlPlaneAssumption DEF Types, CallsOK, Typed, Proposing
    <3>3. \A u \in TokenId : mintedFor'[u] = g.id <=> mintedFor[u] = g.id
      BY <1>6, <1>8, <3>1, <3>2
    <3>4. g.step = "add_event" =>
             \A other \in EventId : events'[other] # None =>
                 Claim(events'[other]) # Claim(g.body)
      BY <1>1, <3>1 DEF ProposalOK
    <3>5. ProposalOK(g)'
      BY <1>1, <1>6, <3>1, <3>3, <3>4, ProposalStays
    <3> QED
      BY <2>2, <3>1, <3>5
  <2> QED
    BY <1>2, <2>1, <2>2, <2>3, <2>4, ProposalMoves DEF ProposalInv
<1> QED
  BY <1>9, <1>10, <1>11 DEF ProposalInv

LEMMA AuditEventKeeps ==
    ASSUME Types, ProposalInv, NEW th \in Thread, AuditEvent(th)
    PROVE  ProposalInv'
<1> DEFINE fact == [kind |-> "workflow.event.proposed", id |-> call[th].id,
                    status |-> call[th].result]
<1>1. /\ call[th] # None /\ call[th].op = "propose" /\ call[th].step = "audit"
      /\ Return(th) /\ ledger' = ledger \cup {fact}
      /\ delivered' = delivered \cup ({call[th].token} \ {None})
      /\ events' = events /\ nonces' = nonces /\ mintedFor' = mintedFor
      /\ token' = token /\ issued' = issued /\ consumed' = consumed
  BY AuditEventEffect DEF storeVars, tables
<1>2. ProposalOK(call[th])
  BY <1>1 DEF ProposalInv, ProposalsOK, Proposing
<1>3. TokensOK'
  <2>1. ASSUME NEW t \in delivered' PROVE Recorded(t)'
    <3>1. CASE t \in delivered
      BY <1>1, <3>1, RecordedStays DEF ProposalInv, TokensOK
    <3>2. CASE t = call[th].token /\ t # None
      <4>1. mintedFor[t] = call[th].id /\ call[th].result \in Proceeding
        BY <1>1, <1>2, <3>2 DEF ProposalOK
      <4>2. fact \in ledger'
        BY <1>1
      <4> QED
        BY <1>1, <4>1, <4>2 DEF Recorded
    <3> QED
      BY <1>1, <2>1, <3>1, <3>2
  <2>2. consumed' \subseteq delivered'
    BY <1>1 DEF ProposalInv, TokensOK
  <2> QED
    BY <1>1, <2>1, <2>2 DEF ProposalInv, TokensOK, GrantedFor, Admits
<1>4. EventsOK'
  BY <1>1 DEF ProposalInv, EventsOK, Claim
<1>5. ProposalsOK'
  <2>1. PICK h : h = None
    OBVIOUS
  <2>2. call' = [call EXCEPT ![th] = h]
    BY <1>1, <2>1 DEF Return, Goto
  <2>3. ASSUME NEW g, NEW o \in Thread, o # th, Proposing(o), g = call[o]
        PROVE  ProposalOK(g)'
    <3>1. ProposalOK(g)
      BY <2>3 DEF ProposalInv, ProposalsOK
    <3> QED
      BY <1>1, <3>1 DEF ProposalOK, Claim, Admits
  <2> QED
    BY <2>1, <2>2, <2>3, ProposalMoves DEF ProposalInv
<1> QED
  BY <1>3, <1>4, <1>5 DEF ProposalInv

LEMMA EnforceKeeps ==
    ASSUME Types, ProposalInv, NEW t \in TokenId, Enforce(t)
    PROVE  ProposalInv'
<1>1. /\ t \in delivered /\ consumed' = consumed \cup {t}
      /\ events' = events /\ nonces' = nonces /\ mintedFor' = mintedFor
      /\ token' = token /\ issued' = issued /\ delivered' = delivered
      /\ ledger' = ledger /\ call' = call
  BY EnforceEffect DEF shared, tables
<1>2. TokensOK'
  <2>1. \A u : Recorded(u) => Recorded(u)'
    BY <1>1 DEF Recorded
  <2> QED
    BY <1>1, <2>1 DEF ProposalInv, TokensOK, GrantedFor, Admits
<1>3. EventsOK'
  BY <1>1 DEF ProposalInv, EventsOK, Claim
<1>4. ProposalsOK'
  BY <1>1 DEF ProposalInv, ProposalsOK, ProposalOK, Proposing, Claim, Admits
<1> QED
  BY <1>2, <1>3, <1>4 DEF ProposalInv

LEMMA InitProposals ==
    ASSUME Init
    PROVE  ProposalInv
BY DEF Init, StoreInit, ProposalInv, EventsOK, TokensOK, ProposalsOK, Proposing

LEMMA StepProposals ==
    ASSUME Types, ProposalInv, [Next]_vars
    PROVE  ProposalInv'
<1>1. CASE \E th \in Thread : Serving(th)
  <2>1. PICK th \in Thread : Serving(th)
    BY <1>1
  <2>2. CASE Aside(th)
    BY <2>2, AsideElsewhere, ElsewhereKeeps
  <2>3. CASE Finishing(th)
    BY <2>3, FinishingElsewhere, ElsewhereKeeps
  <2>4. CASE AutoCreateAgent(th)
    BY <2>4, AutoCreateElsewhere, ElsewhereKeeps
  <2> QED
    BY <2>1, <2>2, <2>3, <2>4, ProposeKeeps, ClaimKeeps, AddEventKeeps,
       DeliberatingKeeps, MintKeeps, AuditEventKeeps
       DEF Serving, Aside
<1>2. CASE \E p \in Replica : Restart(p)
  BY <1>2, RestartElsewhere, ElsewhereKeeps
<1>3. CASE UNCHANGED vars
  BY <1>3, NothingElsewhere, ElsewhereKeeps
<1> QED
  BY <1>1, <1>2, <1>3, Steps, EnforceKeeps

LEMMA ProposalsHold == Spec => []ProposalInv
<1>1. Init => Types /\ ProposalInv
  BY InitTypes, InitProposals
<1>2. Types /\ ProposalInv /\ [Next]_vars => (Types /\ ProposalInv)'
  BY StepTypes, StepProposals
<1> QED
  BY <1>1, <1>2, PTL DEF Spec

\* A signed event never gets a second token: the claim of its nonce, the stored
\* event and the token are one to one, whichever replica served the proposals.
THEOREM EventsAreMintedOnce == Spec => []OneTokenPerNonce
<1>1. ASSUME Types, ProposalInv PROVE OneTokenPerNonce
  <2>1. ASSUME NEW t \in Minted, NEW u \in Minted, t # u
        PROVE  NonceOf(mintedFor[t]) # NonceOf(mintedFor[u])
    <3>1. /\ mintedFor[t] # mintedFor[u]
          /\ mintedFor[t] \in EventId /\ mintedFor[u] \in EventId
          /\ events[mintedFor[t]] # None /\ events[mintedFor[u]] # None
      BY <1>1, <2>1 DEF Minted, ProposalInv, TokensOK, Types, TablesOK
    <3>2. Claim(events[mintedFor[t]]) # Claim(events[mintedFor[u]])
      BY <1>1, <3>1 DEF ProposalInv, EventsOK
    <3> QED
      BY <3>2 DEF NonceOf, Claim
  <2> QED
    BY <2>1 DEF OneTokenPerNonce
<1> QED
  BY <1>1, TypesHold, ProposalsHold, PTL

\* What runs was recorded first: a token leaves with the answer, and the answer
\* follows the ledger.
THEOREM ExecutionsAreAudited == Spec => []NoUnauditedExecution
<1>1. ASSUME ProposalInv PROVE NoUnauditedExecution
  BY <1>1 DEF ProposalInv, TokensOK, Recorded, NoUnauditedExecution
<1> QED
  BY <1>1, ProposalsHold, PTL

(***************************************************************************)
(* What the client adds to the metadata is the rank of the class.  An      *)
(* event may state a rank of its own, which the policy does not look at    *)
(* and the enforcement point compares with that of the class; and a rule   *)
(* may have a condition on it.  Neither may stand in the way.              *)
(***************************************************************************)
RankKey == "consequence_rank"

RanksAgree ==
    \A e \in EventBody :
        LET rank == consequence_rank(e.authority) IN
        /\ RankKey \in DOMAIN e.metadata =>
              e.metadata[RankKey] = None \/ e.metadata[RankKey] <= rank
        /\ RankKey \notin DOMAIN e.metadata =>
              \A rule \in RuleBody :
                  RankKey \in DOMAIN rule.conditions
                  /\ Meets(rule.conditions[RankKey], None)
                  => Meets(rule.conditions[RankKey], rank)

LEMMA RequestMeets ==
    ASSUME RanksAgree, NEW e \in EventBody, NEW rule \in RuleBody,
           MeetsAll(rule.conditions, e.metadata)
    PROVE  MeetsAll(rule.conditions, SdkRequest(e).context)
<1> DEFINE rank == consequence_rank(e.authority)
           context == SetDefault(e.metadata, RankKey, rank)
<1>1. SdkRequest(e).context = context
  BY DEF SdkRequest, RankKey
<1>2. ASSUME NEW key \in DOMAIN rule.conditions
      PROVE  Meets(rule.conditions[key], Get(context, key))
  <2>1. Meets(rule.conditions[key], Get(e.metadata, key))
    BY <1>2 DEF MeetsAll
  <2>2. CASE key \in DOMAIN e.metadata
    <3>1. Get(context, key) = Get(e.metadata, key)
      BY <2>2 DEF Get, SetDefault
    <3> QED
      BY <2>1, <3>1
  <2>3. CASE key \notin DOMAIN e.metadata /\ key # RankKey
    <3>1. Get(context, key) = Get(e.metadata, key)
      BY <2>3 DEF Get, SetDefault
    <3> QED
      BY <2>1, <3>1
  <2>4. CASE key \notin DOMAIN e.metadata /\ key = RankKey
    <3>1. Get(context, key) = rank /\ Get(e.metadata, key) = None
      BY <2>4 DEF Get, SetDefault
    <3> HIDE DEF rank
    <3>2. Meets(rule.conditions[key], rank)
      BY <2>1, <2>4, <3>1 DEF RanksAgree, rank
    <3> QED
      BY <3>1, <3>2
  <2> QED
    BY <2>2, <2>3, <2>4
<1> QED
  BY <1>1, <1>2 DEF MeetsAll

LEMMA RequestRank ==
    ASSUME RanksAgree, NEW e \in EventBody
    PROVE  LET rank == SdkRequest(e).rank IN
           rank = None \/ rank <= consequence_rank(e.authority)
<1> DEFINE rank == consequence_rank(e.authority)
<1>1. rank <= rank
  <2>1. e.authority \in AuthorityClass
    BY ControlPlaneAssumption
  <2> QED
    BY <2>1, RankIsNumber
<1> HIDE DEF rank
<1>2. SdkRequest(e).rank =
         IF RankKey \in DOMAIN e.metadata THEN e.metadata[RankKey] ELSE rank
  BY DEF SdkRequest, SetDefault, RankKey, rank
<1> QED
  BY <1>1, <1>2 DEF RanksAgree, rank

\* The enforcement point accepts what was proposed: the agent, the workflow and
\* the class are those of the event, and its metadata meet what the rule asked.
THEOREM ProposedMayRun ==
    ASSUME RanksAgree
    PROVE  Spec => []WhatWasProposedMayRun
<1>1. ASSUME Types, ProposalInv PROVE WhatWasProposedMayRun
  <2>1. ASSUME NEW t \in delivered
        PROVE  InScope(token[t].grant, SdkRequest(events[mintedFor[t]]))
    <3>1. t \in issued
      BY <1>1 DEF Types, TablesOK
    <3>2. /\ mintedFor[t] \in EventId /\ events[mintedFor[t]] # None
          /\ GrantedFor(token[t].grant, events[mintedFor[t]])
      BY <1>1, <3>1 DEF ProposalInv, TokensOK, Types, TablesOK, StoreTypeOK
    <3>3. PICK e : e = events[mintedFor[t]]
      OBVIOUS
    <3>4. e \in EventBody
      BY <1>1, <3>2, <3>3 DEF Types, TablesOK
    <3>5. PICK rule \in RuleBody \cup {None} :
                  Admits(rule, e) /\ token[t].grant = GrantFor(e, rule)
      BY <3>2, <3>3 DEF GrantedFor
    <3>6. PICK grant : grant = GrantFor(e, rule)
      OBVIOUS
    <3>7. PICK request : request = SdkRequest(e)
      OBVIOUS
    <3>8. /\ grant.agent = e.agent /\ grant.workflow = e.workflow
          /\ grant.authority = e.authority
          /\ grant.rank = consequence_rank(e.authority)
          /\ grant.conditions = IF rule = None THEN << >> ELSE rule.conditions
      BY <3>6 DEF GrantFor
    <3>9. /\ request.agent = e.agent /\ request.workflow = e.workflow
          /\ request.authority = e.authority
      BY <3>7 DEF SdkRequest
    <3>10. RankWithin(grant, request)
      BY <3>4, <3>7, <3>8, RequestRank DEF RankWithin
    <3>11. MeetsAll(grant.conditions, request.context)
      <4>1. CASE rule = None
        BY <3>8, <4>1 DEF MeetsAll
      <4>2. CASE rule # None
        BY <3>4, <3>5, <3>7, <3>8, <4>2, RequestMeets DEF Admits
      <4> QED
        BY <4>1, <4>2
    <3> QED
      BY <3>3, <3>5, <3>6, <3>7, <3>8, <3>9, <3>10, <3>11 DEF InScope
  <2> QED
    BY <2>1 DEF WhatWasProposedMayRun
<1> QED
  BY <1>1, TypesHold, ProposalsHold, PTL

(***************************************************************************)
(* Incidents.  No step but a human's approval makes a rule active, and     *)
(* that one ends the quiet of every call in the rule's scope.              *)
(***************************************************************************)
LEMMA ActiveStays ==
    ASSUME rules' = rules, NEW scope
    PROVE  ActiveRules(scope)' = ActiveRules(scope)
BY DEF ActiveRules, RulesFor, RuleScope

LEMMA ActiveShrinks ==
    ASSUME RulesOK, NEW r \in Stored, NEW rule \in RuleRecord, ~rule.active,
           rules' = [rules EXCEPT ![r] = rule], NEW scope
    PROVE  ActiveRules(scope)' \subseteq ActiveRules(scope) \ {r}
<1>1. r \in RuleId
  BY DEF Stored
<1>2. /\ rules'[r] = rule /\ \A s \in RuleId : s # r => rules'[s] = rules[s]
  BY <1>1 DEF RulesOK
<1>3. ASSUME NEW s \in ActiveRules(scope)' PROVE s \in ActiveRules(scope) \ {r}
  <2>1. s \in RuleId /\ rules'[s] # None /\ RuleScope(rules'[s]) = scope
        /\ rules'[s].active
    BY <1>3 DEF ActiveRules, RulesFor, RuleScope
  <2>2. s # r
    BY <1>2, <2>1
  <2>3. rules'[s] = rules[s]
    BY <1>2, <2>1, <2>2
  <2> QED
    BY <2>1, <2>2, <2>3 DEF ActiveRules, RulesFor
<1> QED
  BY <1>3

\* What the other calls see of a step of th.
RestQuiet(th) ==
    \A o \in Thread : \A scope :
        o # th /\ quiet'[o] /\ call[o] # None /\ scope = call[o].scope =>
            quiet[o] /\ ActiveRules(scope)' \subseteq ActiveRules(scope)

LEMMA FrameQuiet ==
    ASSUME NEW th \in Thread, rules' = rules, \A o \in Thread : o # th /\ quiet'[o] => quiet[o]
    PROVE  RestQuiet(th)
BY ActiveStays DEF RestQuiet

LEMMA AddRuleQuiet ==
    ASSUME Types, NEW th \in Thread, AddRule(th)
    PROVE  RestQuiet(th)
<1>1. /\ Typed(call[th]) /\ call[th].op = "approve"
      /\ rules' = [rules EXCEPT ![call[th].id] = call[th].body]
      /\ GrantAnew({call[th].scope})
  BY AddRuleEffect
<1>2. PICK id, rule : id = call[th].id /\ rule = call[th].body
  OBVIOUS
<1>3. id \in RuleId /\ RuleScope(rule) = call[th].scope
  BY <1>1, <1>2 DEF Typed
<1>4. /\ rules'[id] = rule /\ \A s \in RuleId : s # id => rules'[s] = rules[s]
  BY <1>1, <1>2, <1>3 DEF Types, RulesOK
<1>5. ASSUME NEW o \in Thread, NEW scope, quiet'[o], call[o] # None, scope = call[o].scope
      PROVE  quiet[o] /\ ActiveRules(scope)' \subseteq ActiveRules(scope)
  <2>1. quiet[o] /\ scope # call[th].scope
    BY <1>1, <1>5 DEF GrantAnew
  <2>2. ASSUME NEW s \in ActiveRules(scope)' PROVE s \in ActiveRules(scope)
    <3>1. s \in RuleId /\ rules'[s] # None /\ RuleScope(rules'[s]) = scope
          /\ rules'[s].active
      BY <2>2 DEF ActiveRules, RulesFor, RuleScope
    <3>2. s # id
      BY <1>3, <1>4, <2>1, <3>1
    <3>3. rules'[s] = rules[s]
      BY <1>4, <3>1, <3>2
    <3> QED
      BY <3>1, <3>3 DEF ActiveRules, RulesFor
  <2> QED
    BY <2>1, <2>2
<1> QED
  BY <1>5 DEF RestQuiet

LEMMA OffQuiet ==
    ASSUME Types, NEW th \in Thread, NEW r \in Stored, NEW rule \in RuleRecord,
           ~rule.active, rules' = [rules EXCEPT ![r] = rule], quiet' = quiet
    PROVE  RestQuiet(th)
<1>1. \A scope : ActiveRules(scope)' \subseteq ActiveRules(scope)
  <2> TAKE scope
  <2>1. ActiveRules(scope)' \subseteq ActiveRules(scope) \ {r}
    BY ActiveShrinks DEF Types
  <2> QED
    BY <2>1
<1> QED
  BY <1>1 DEF RestQuiet

LEMMA ServingQuiet ==
    ASSUME Types, NEW th \in Thread, Serving(th)
    PROVE  RestQuiet(th)
<1> USE DEF shared, ruleVars, history
<1>1. CASE \E reg \in Registration : RegisterAgent(th, reg.agent, reg.record)
  BY <1>1, FrameQuiet DEF RegisterAgent, GrantAnew
<1>2. CASE \E id \in EventId, e \in EventBody : ProposeEvent(th, id, e)
  <2>1. PICK id \in EventId, e \in EventBody : ProposeEvent(th, id, e)
    BY <1>2
  <2>2. rules' = rules /\ quiet' = [quiet EXCEPT ![th] = EventScope(e) \in fenced]
    BY <2>1, ProposeEffect
  <2> QED
    BY <2>2, FrameQuiet DEF Types, TablesOK
<1>3. CASE Asking(th)
  BY <1>3, AskingEffect, FrameQuiet
<1>4. CASE \E scope \in AuthScope : RecordIncident(th, scope)
  <2>1. PICK scope \in AuthScope : RecordIncident(th, scope)
    BY <1>4
  <2>2. rules' = rules /\ quiet' = [quiet EXCEPT ![th] = TRUE]
    BY <2>1 DEF RecordIncident
  <2> QED
    BY <2>2, FrameQuiet DEF Types, TablesOK
<1>5. CASE AutoCreateAgent(th) \/ ClaimNonce(th) \/ AddEvent(th)
  BY <1>5, FrameQuiet DEF AutoCreateAgent, ClaimNonce, AddEvent
<1>6. CASE Deliberating(th)
  BY <1>6, DeliberatingEffect, FrameQuiet
<1>7. CASE (\E t \in TokenId : Mint(th, t)) \/ AuditEvent(th)
  <2>1. \A t \in TokenId : Mint(th, t) => rules' = rules /\ quiet' = quiet
    BY MintEffect
  <2>2. rules' = rules /\ quiet' = quiet
    BY <1>7, <2>1 DEF AuditEvent
  <2> QED
    BY <2>2, FrameQuiet
<1>8. CASE ApplyDecision(th) \/ Answering(th)
  BY <1>8, FrameQuiet
     DEF ApplyDecision, Answering, AuditDecision, RecommendFor, AuditRecommendation
<1>9. CASE WriteRevokedRule(th)
  BY <1>9, WriteRevokedEffect, OffQuiet
<1>10. CASE ReadAgent(th) \/ ReduceAgent(th) \/ WriteAgent(th)
  BY <1>10, FrameQuiet DEF ReadAgent, ReduceAgent, WriteAgent
<1>11. CASE Collecting(th)
  BY <1>11, CollectingEffect, FrameQuiet
<1>12. CASE \E r \in RuleId : WriteRule(th, r)
  <2>1. PICK r \in RuleId : WriteRule(th, r)
    BY <1>12
  <2>2. /\ r \in Stored /\ rules[r] \in RuleRecord /\ quiet' = quiet
        /\ rules' = [rules EXCEPT ![r] = Deactivated(rules[r])]
    BY <2>1, WriteRuleEffect
  <2> QED
    BY <2>2, RuleRecords, OffQuiet
<1>13. CASE RevokeScope(th)
  BY <1>13, FrameQuiet DEF RevokeScope
<1>14. CASE Finishing(th)
  BY <1>14, FrameQuiet DEF Finishing, AuditRegistration, AuditTrust, AuditApproval,
     AuditRevocation, AuditIncident, Raise
<1> QED
  BY <1>1, <1>2, <1>3, <1>4, <1>5, <1>6, <1>7, <1>8, <1>9, <1>10, <1>11, <1>12,
     <1>13, <1>14, AddRuleQuiet DEF Serving

LEMMA IncidentsMove ==
    ASSUME Types, IncidentsOK, NEW th \in Thread, RestQuiet(th), NEW h,
           call' = [call EXCEPT ![th] = h],
           h # None /\ h.op = "incident" =>
              /\ h.step = "read_agent" => h.agent = None
              /\ quiet'[th] /\ h.agent # None => IncidentOK(h)'
    PROVE  IncidentsOK'
<1>1. /\ call'[th] = h
      /\ \A o \in Thread : o # th => call'[o] = call[o]
  BY Turn DEF Types
<1>2. ASSUME NEW o \in Thread, call'[o] # None, call'[o].op = "incident"
      PROVE  /\ call'[o].step = "read_agent" => call'[o].agent = None
             /\ quiet'[o] /\ call'[o].agent # None => IncidentOK(call[o])'
  <2>1. PICK g : g = call'[o]
    OBVIOUS
  <2>2. /\ g.step = "read_agent" => g.agent = None
        /\ quiet'[o] /\ g.agent # None => IncidentOK(g)'
    <3>1. CASE o = th
      BY <1>1, <1>2, <2>1, <3>1
    <3>2. CASE o # th
      <4>1. g = call[o] /\ g # None /\ g.op = "incident"
        BY <1>1, <1>2, <2>1, <3>2
      <4>2. /\ g.step = "read_agent" => g.agent = None
            /\ quiet[o] /\ g.agent # None => IncidentOK(g)
        BY <4>1 DEF IncidentsOK
      <4>3. ASSUME quiet'[o], g.agent # None PROVE IncidentOK(g)'
        <5>1. PICK scope : scope = g.scope
          OBVIOUS
        <5>2. quiet[o] /\ ActiveRules(scope)' \subseteq ActiveRules(scope)
          BY <3>2, <4>1, <4>3, <5>1 DEF RestQuiet
        <5>3. IncidentOK(g)
          BY <4>2, <4>3, <5>2
        <5> QED
          BY <5>1, <5>2, <5>3 DEF IncidentOK
      <4> QED
        BY <4>2, <4>3
    <3> QED
      BY <3>1, <3>2
  <2> QED
    BY <2>1, <2>2 DEF IncidentOK
<1> QED
  BY <1>2 DEF IncidentsOK

\* The steps that neither propose nor report an incident.
Apart(th) ==
    \/ \E reg \in Registration : RegisterAgent(th, reg.agent, reg.record)
    \/ Asking(th) \/ ApplyDecision(th) \/ Answering(th)
    \/ AddRule(th) \/ WriteRevokedRule(th) \/ AuditEvent(th) \/ Finishing(th)

LEMMA ApartCalls ==
    ASSUME Types, NEW th \in Thread, Apart(th)
    PROVE  \E h : (h = None \/ h.op \notin {"propose", "incident"})
                  /\ call' = [call EXCEPT ![th] = h]
<1> DEFINE Goal == \E h : (h = None \/ h.op \notin {"propose", "incident"})
                          /\ call' = [call EXCEPT ![th] = h]
<1>1. ASSUME Return(th) PROVE Goal
  BY <1>1 DEF Return, Goto
<1>2. ASSUME NEW h, Goto(th, h), Same(h, call[th]),
             call[th].op \notin {"propose", "incident"}
      PROVE  Goal
  BY <1>2 DEF Goto, Same
<1>3. ASSUME NEW next, Continue(th, next), call[th] # None,
             call[th].op \notin {"propose", "incident"}
      PROVE  Goal
  BY <1>2, <1>3, ContinueEffect
<1>4. CASE \E reg \in Registration : RegisterAgent(th, reg.agent, reg.record)
  <2>1. PICK reg \in Registration : RegisterAgent(th, reg.agent, reg.record)
    BY <1>4
  <2>2. PICK h : h = NewCall("register", "audit", None, reg.agent, reg.record)
    OBVIOUS
  <2>3. h.op = "register" /\ call' = [call EXCEPT ![th] = h]
    BY <2>1, <2>2, NewHandler DEF RegisterAgent, Begin
  <2> QED
    BY <2>3
<1>5. CASE Asking(th)
  <2>1. PICK h : Asks(th, h) /\ call' = [call EXCEPT ![th] = h]
    BY <1>5, AskingEffect
  <2>2. h.op \notin {"propose", "incident"}
    BY <2>1, AsksTyped
  <2> QED
    BY <2>1, <2>2
<1>6. CASE ApplyDecision(th)
  <2>1. Return(th) \/ Continue(th, "audit_decision")
    BY <1>6 DEF ApplyDecision
  <2>2. call[th] # None /\ call[th].op = "decide"
    BY <1>6, HandlerAt DEF ApplyDecision
  <2> QED
    BY <1>1, <1>3, <2>1, <2>2
<1>7. CASE Answering(th)
  <2>1. call[th] # None /\ call[th].op = "decide"
    BY <1>7, HandlerAt DEF Answering, AuditDecision, RecommendFor, AuditRecommendation
  <2>2. CASE AuditDecision(th)
    BY <1>3, <2>1, <2>2 DEF AuditDecision
  <2>3. CASE AuditRecommendation(th)
    BY <1>3, <2>1, <2>3 DEF AuditRecommendation
  <2>4. CASE RecommendFor(th)
    BY <1>1, <1>2, <2>1, <2>4, RecommendEffect
  <2> QED
    BY <1>7, <2>2, <2>3, <2>4 DEF Answering
<1>8. CASE AddRule(th) \/ WriteRevokedRule(th)
  BY <1>2, <1>8, AddRuleEffect, WriteRevokedEffect
<1>9. CASE AuditEvent(th)
  BY <1>1, <1>9, AuditEventEffect
<1>10. CASE Finishing(th)
  BY <1>1, <1>10 DEF Finishing, AuditRegistration, AuditTrust, AuditApproval,
     AuditRevocation, AuditIncident, Raise
<1> QED
  BY <1>4, <1>5, <1>6, <1>7, <1>8, <1>9, <1>10 DEF Apart

\* The steps of a proposal.
ProposalStep(th) ==
    \/ \E id \in EventId, e \in EventBody : ProposeEvent(th, id, e)
    \/ AutoCreateAgent(th) \/ ClaimNonce(th) \/ AddEvent(th) \/ Deliberating(th)
    \/ \E t \in TokenId : Mint(th, t)

LEMMA ProposalCalls ==
    ASSUME Types, NEW th \in Thread, ProposalStep(th)
    PROVE  \E h : (h = None \/ h.op = "propose") /\ call' = [call EXCEPT ![th] = h]
<1> DEFINE Goal == \E h : (h = None \/ h.op = "propose")
                          /\ call' = [call EXCEPT ![th] = h]
<1>1. ASSUME Return(th) PROVE Goal
  BY <1>1 DEF Return, Goto
<1>2. ASSUME NEW h, Goto(th, h), Same(h, call[th]), call[th].op = "propose" PROVE Goal
  BY <1>2 DEF Goto, Same
<1>3. CASE \E id \in EventId, e \in EventBody : ProposeEvent(th, id, e)
  <2>1. PICK id \in EventId, e \in EventBody : ProposeEvent(th, id, e)
    BY <1>3
  <2>2. PICK h : Opens(h, id, e) /\ call' = [call EXCEPT ![th] = h]
    BY <2>1, ProposeEffect
  <2> QED
    BY <2>2 DEF Opens
<1>4. CASE AutoCreateAgent(th)
  <2>1. call[th] # None /\ call[th].op = "propose" /\ Continue(th, "claim")
    BY <1>4, HandlerAt DEF AutoCreateAgent
  <2> QED
    BY <1>2, <2>1, ContinueEffect
<1>5. CASE ClaimNonce(th)
  BY <1>1, <1>2, <1>5, ClaimEffect
<1>6. CASE AddEvent(th)
  BY <1>2, <1>6, AddEventEffect
<1>7. CASE Deliberating(th)
  BY <1>1, <1>2, <1>7, DeliberatingEffect DEF Deliberation
<1>8. CASE \E t \in TokenId : Mint(th, t)
  BY <1>2, <1>8, MintEffect
<1> QED
  BY <1>3, <1>4, <1>5, <1>6, <1>7, <1>8 DEF ProposalStep

LEMMA ElsewiseKeeps ==
    ASSUME Types, IncidentsOK, NEW th \in Thread, Apart(th) \/ ProposalStep(th)
    PROVE  IncidentsOK'
<1>1. RestQuiet(th)
  BY ServingQuiet DEF Serving, Apart, ProposalStep
<1>2. PICK h : (h = None \/ h.op # "incident") /\ call' = [call EXCEPT ![th] = h]
  BY ApartCalls, ProposalCalls
<1> QED
  BY <1>1, <1>2, IncidentsMove

\* The handler goes on: what was found of the agent stays, and quiet does not
\* come back.
LEMMA IncidentGoesOn ==
    ASSUME Types, IncidentsOK, NEW th \in Thread, RestQuiet(th),
           call[th] # None, call[th].op = "incident", NEW h, Goto(th, h),
           h.step # "read_agent",
           quiet[th] /\ h.agent # None => IncidentOK(h)',
           quiet' = quiet
    PROVE  IncidentsOK'
<1>1. call' = [call EXCEPT ![th] = h]
  BY DEF Goto
<1> QED
  BY <1>1, IncidentsMove

\* The steps before the rules are read promise nothing about them.
NotYet == {"reduce_agent", "write_agent", "read_rules", "begin_scan", "end_scan"}

LEMMA AgentPartKeeps ==
    ASSUME Types, IncidentsOK, NEW th \in Thread,
           ReadAgent(th) \/ ReduceAgent(th) \/ WriteAgent(th)
    PROVE  IncidentsOK'
<1>1. RestQuiet(th)
  BY ServingQuiet DEF Serving
<1>2. quiet' = quiet
  BY DEF ReadAgent, ReduceAgent, WriteAgent, history
<1>3. ASSUME NEW h, Goto(th, h), h.step \in NotYet, call[th] # None,
             call[th].op = "incident"
      PROVE  IncidentsOK'
  <2>1. IncidentOK(h)'
    BY <1>3 DEF IncidentOK, NotYet
  <2> QED
    BY <1>1, <1>2, <1>3, <2>1, IncidentGoesOn DEF NotYet
<1>4. CASE ReadAgent(th)
  <2>1. call[th] # None /\ call[th].op = "incident" /\ call[th].step = "read_agent"
    BY <1>4, HandlerAt DEF ReadAgent
  <2>2. PICK s, h : /\ s = call[th].scope /\ Goto(th, h)
                    /\ agents[s[1]] = None => h.agent = call[th].agent
                    /\ ReadAgentStep(h, agents[s[1]], <<s[2], s[3]>>)
    BY <1>4, ReadAgentEffect
  <2>3. CASE agents[s[1]] = None
    <3>1. h.agent = None
      BY <2>1, <2>2, <2>3 DEF IncidentsOK
    <3>2. h.step = "revoke_scope"
      BY <2>2, <2>3 DEF ReadAgentStep
    <3> QED
      BY <1>1, <1>2, <2>1, <2>2, <3>1, <3>2, IncidentGoesOn
  <2>4. CASE agents[s[1]] # None
    <3>1. h.step \in NotYet
      BY <2>2, <2>4 DEF ReadAgentStep, NotYet
    <3> QED
      BY <1>3, <2>1, <2>2, <3>1
  <2> QED
    BY <2>3, <2>4
<1>5. CASE ReduceAgent(th)
  <2>1. /\ call[th] # None /\ call[th].op = "incident"
        /\ Continue(th, "write_agent")
    BY <1>5, ReduceEffect
  <2>2. PICK h : Goto(th, h) /\ h.step = "write_agent"
    BY <2>1, ContinueEffect
  <2> QED
    BY <1>3, <2>1, <2>2 DEF NotYet
<1>6. CASE WriteAgent(th)
  <2>1. /\ call[th] # None /\ call[th].op = "incident"
        /\ Continue(th, IF wiring = "sql" THEN "read_rules" ELSE "begin_scan")
    BY <1>6, HandlerAt DEF WriteAgent
  <2>2. PICK h : Goto(th, h) /\ h.step \in {"read_rules", "begin_scan"}
    <3>1. PICK next : next = IF wiring = "sql" THEN "read_rules" ELSE "begin_scan"
      OBVIOUS
    <3>2. \E h : Goto(th, h) /\ h.step = next
      BY <2>1, <3>1, ContinueEffect
    <3> QED
      BY <3>1, <3>2
  <2> QED
    BY <1>3, <2>1, <2>2 DEF NotYet
<1> QED
  BY <1>4, <1>5, <1>6

LEMMA NoRulesNoneActive ==
    ASSUME RulesOK, order = << >>, NEW scope
    PROVE  ActiveRules(scope) = {}
<1>1. \A r \in RuleId : rules[r] = None
  BY DEF RulesOK, Stored
<1> QED
  BY <1>1 DEF ActiveRules, RulesFor

LEMMA CollectingKeeps ==
    ASSUME Types, IncidentsOK, NEW th \in Thread, Collecting(th)
    PROVE  IncidentsOK'
<1> DEFINE scope == call[th].scope
<1>1. RestQuiet(th)
  BY ServingQuiet DEF Serving
<1>2. /\ call[th] # None /\ call[th].op = "incident"
      /\ rules' = rules /\ quiet' = quiet
      /\ \/ Return(th)
         \/ WriteBack(th, {}) /\ order = << >>
         \/ WriteBack(th, ActiveRules(scope))
         \/ WriteBack(th, RulesFor(scope))
         \/ \E h : Goto(th, h) /\ h.step = "end_scan"
  BY CollectingEffect DEF shared, ruleVars, history
<1>3. ASSUME NEW todo, ActiveRules(scope) \subseteq todo, WriteBack(th, todo)
      PROVE  IncidentsOK'
  <2>1. PICK h : /\ Goto(th, h) /\ Same(h, call[th]) /\ h.todo = todo
                 /\ h.step = IF todo = {} THEN "revoke_scope" ELSE "write_rules"
    BY <1>2, <1>3, WriteBackEffect
  <2>2. ActiveRules(h.scope)' \subseteq todo
    BY <1>2, <1>3, <2>1, ActiveStays DEF Same
  <2>3. IncidentOK(h)'
    BY <2>1, <2>2 DEF IncidentOK
  <2> QED
    BY <1>1, <1>2, <2>1, <2>3, IncidentGoesOn
<1>4. CASE Return(th)
  <2>1. PICK h : h = None
    OBVIOUS
  <2> QED
    BY <1>1, <1>4, <2>1, IncidentsMove DEF Return, Goto
<1>5. CASE WriteBack(th, {}) /\ order = << >>
  BY <1>3, <1>5, NoRulesNoneActive DEF Types
<1>6. CASE WriteBack(th, RulesFor(scope))
  BY <1>3, <1>6 DEF ActiveRules
<1>7. CASE \E h : Goto(th, h) /\ h.step = "end_scan"
  <2>1. PICK h : Goto(th, h) /\ h.step = "end_scan"
    BY <1>7
  <2>2. IncidentOK(h)'
    BY <2>1 DEF IncidentOK
  <2> QED
    BY <1>1, <1>2, <2>1, <2>2, IncidentGoesOn
<1> QED
  BY <1>2, <1>3, <1>4, <1>5, <1>6, <1>7

LEMMA WriteRuleKeeps ==
    ASSUME Types, IncidentsOK, NEW th \in Thread, NEW r \in RuleId, WriteRule(th, r)
    PROVE  IncidentsOK'
<1> DEFINE todo == call[th].todo
<1>1. RestQuiet(th)
  BY ServingQuiet DEF Serving
<1>2. /\ call[th] # None /\ call[th].op = "incident"
      /\ call[th].step = "write_rules" /\ r \in Stored /\ rules[r] \in RuleRecord
      /\ rules' = [rules EXCEPT ![r] = Deactivated(rules[r])] /\ quiet' = quiet
      /\ \E h : /\ Goto(th, h) /\ Same(h, call[th]) /\ h.agent = call[th].agent
                /\ h.todo = todo \ {r}
                /\ h.step = IF todo \ {r} = {} THEN "revoke_scope" ELSE "write_rules"
  BY WriteRuleEffect DEF history
<1>3. PICK h : /\ Goto(th, h) /\ Same(h, call[th]) /\ h.agent = call[th].agent
               /\ h.todo = todo \ {r}
               /\ h.step = IF todo \ {r} = {} THEN "revoke_scope" ELSE "write_rules"
  BY <1>2
<1>4. PICK scope, rule : scope = h.scope /\ rule = Deactivated(rules[r])
  OBVIOUS
<1>5. ActiveRules(scope)' \subseteq ActiveRules(scope) \ {r}
  <2>1. rule \in RuleRecord /\ ~rule.active
    BY <1>2, <1>4, RuleRecords
  <2> QED
    BY <1>2, <1>4, <2>1, ActiveShrinks DEF Types
<1>6. ASSUME quiet[th], h.agent # None PROVE IncidentOK(h)'
  <2>1. ActiveRules(scope) \subseteq todo
    BY <1>2, <1>3, <1>4, <1>6 DEF IncidentsOK, IncidentOK, Same
  <2>2. ActiveRules(scope)' \subseteq h.todo
    BY <1>3, <1>5, <2>1
  <2>3. h.step = IF h.todo = {} THEN "revoke_scope" ELSE "write_rules"
    BY <1>3
  <2> QED
    BY <1>4, <2>2, <2>3 DEF IncidentOK
<1>7. h.step # "read_agent"
  BY <1>3
<1> QED
  BY <1>1, <1>2, <1>3, <1>6, <1>7, IncidentGoesOn

LEMMA RevokeScopeKeeps ==
    ASSUME Types, IncidentsOK, NEW th \in Thread, RevokeScope(th)
    PROVE  IncidentsOK'
<1>1. RestQuiet(th)
  BY ServingQuiet DEF Serving
<1>2. /\ call[th] # None /\ call[th].step = "revoke_scope"
      /\ rules' = rules /\ quiet' = quiet /\ Continue(th, "audit")
  BY HandlerAt DEF RevokeScope, shared, ruleVars, history
<1>3. PICK h : /\ Goto(th, h) /\ Same(h, call[th]) /\ h.step = "audit"
               /\ h.agent = call[th].agent
  BY <1>2, ContinueEffect
<1>4. ASSUME call[th].op = "incident", quiet[th], h.agent # None
      PROVE  IncidentOK(h)'
  <2>1. IncidentOK(call[th])
    BY <1>2, <1>3, <1>4 DEF IncidentsOK
  <2>2. ActiveRules(h.scope) = {}
    BY <1>2, <1>3, <2>1 DEF IncidentOK, Same
  <2>3. ActiveRules(h.scope)' = {}
    BY <1>2, <2>2, ActiveStays
  <2> QED
    BY <1>3, <2>3 DEF IncidentOK
<1>5. h.op = call[th].op
  BY <1>3 DEF Same
<1> QED
  BY <1>1, <1>2, <1>3, <1>4, <1>5, IncidentsMove DEF Goto

LEMMA RecordIncidentKeeps ==
    ASSUME Types, IncidentsOK, NEW th \in Thread, NEW scope \in AuthScope,
           RecordIncident(th, scope)
    PROVE  IncidentsOK'
<1>1. RestQuiet(th)
  BY ServingQuiet DEF Serving
<1>2. PICK h : Reports(h, scope) /\ call' = [call EXCEPT ![th] = h]
  BY IncidentEffect
<1> QED
  BY <1>1, <1>2, IncidentsMove DEF Reports

LEMMA StepIncidents ==
    ASSUME Types, IncidentsOK, [Next]_vars
    PROVE  IncidentsOK'
<1>1. ASSUME NEW th \in Thread, Serving(th) PROVE IncidentsOK'
  <2>1. CASE Apart(th) \/ ProposalStep(th)
    BY <2>1, ElsewiseKeeps
  <2>2. CASE \E scope \in AuthScope : RecordIncident(th, scope)
    BY <2>2, RecordIncidentKeeps
  <2>3. CASE ReadAgent(th) \/ ReduceAgent(th) \/ WriteAgent(th)
    BY <2>3, AgentPartKeeps
  <2>4. CASE Collecting(th)
    BY <2>4, CollectingKeeps
  <2>5. CASE \E r \in RuleId : WriteRule(th, r)
    BY <2>5, WriteRuleKeeps
  <2>6. CASE RevokeScope(th)
    BY <2>6, RevokeScopeKeeps
  <2> QED
    BY <1>1, <2>1, <2>2, <2>3, <2>4, <2>5, <2>6 DEF Serving, Apart, ProposalStep
<1>2. ASSUME rules' = rules, quiet' = quiet,
             \A th \in Thread : call'[th] \in {None, call[th]}
      PROVE  IncidentsOK'
  <2>1. ASSUME NEW th \in Thread, NEW h, h = call'[th], h # None, h.op = "incident"
        PROVE  /\ h.step = "read_agent" => h.agent = None
               /\ quiet[th] /\ h.agent # None => IncidentOK(h)'
    <3>1. h = call[th]
      BY <1>2, <2>1
    <3>2. /\ h.step = "read_agent" => h.agent = None
          /\ quiet[th] /\ h.agent # None => IncidentOK(h)
      BY <2>1, <3>1 DEF IncidentsOK
    <3> QED
      BY <1>2, <3>2, ActiveStays DEF IncidentOK
  <2> QED
    BY <1>2, <2>1 DEF IncidentsOK, IncidentOK
<1>3. CASE \E t \in TokenId : Enforce(t)
  BY <1>2, <1>3, EnforceEffect DEF shared, ruleVars, history
<1>4. CASE \E p \in Replica : Restart(p)
  BY <1>2, <1>4, RestartEffect DEF shared, ruleVars, history
<1>5. CASE UNCHANGED vars
  BY <1>2, <1>5 DEF vars, shared, ruleVars, history
<1> QED
  BY <1>1, <1>3, <1>4, <1>5, Steps

LEMMA IncidentsHold == Spec => []IncidentsOK
<1>1. Init => Types /\ IncidentsOK
  BY InitTypes DEF Init, IncidentsOK
<1>2. Types /\ IncidentsOK /\ [Next]_vars => (Types /\ IncidentsOK)'
  BY StepTypes, StepIncidents
<1> QED
  BY <1>1, <1>2, PTL DEF Spec

\* An incident that is about to be answered left no active rule in its scope:
\* no other handler makes a rule active, short of a human's approval.
THEOREM IncidentsEndRules == Spec => []IncidentEndsRules
<1>1. ASSUME IncidentsOK PROVE IncidentEndsRules
  BY <1>1 DEF IncidentsOK, IncidentOK, IncidentEndsRules, At
<1> QED
  BY <1>1, IncidentsHold, PTL

(***************************************************************************)
(* The fence.  First what keeps an agent low.                              *)
(***************************************************************************)
KeepsLow == \A agent : HasAgent(agent) /\ Low(agent) => Low(agent)'

LEMMA LowSame ==
    ASSUME wiring' = wiring, heap' = heap
    PROVE  KeepsLow
BY DEF KeepsLow, Low, AgentSeen

LEMMA LowConstruct ==
    ASSUME AgentsOK, wiring' = wiring, NEW record \in AgentRecord, Construct(record)
    PROVE  KeepsLow
<1>1. CASE wiring = "memory"
  <2>1. heap' = Append(heap, record) /\ heap \in Seq(AgentRecord)
    BY <1>1 DEF Construct, AgentsOK
  <2>2. \A i \in 1 .. Len(heap) : heap'[i] = heap[i]
    BY <2>1
  <2> QED
    BY <1>1, <2>2 DEF KeepsLow, Low, AgentSeen, HasAgent
<1>2. CASE wiring # "memory"
  BY <1>2 DEF KeepsLow, Low, AgentSeen
<1> QED
  BY <1>1, <1>2

LEMMA CreatedIsLow ==
    ASSUME AgentsOK, wiring' = wiring, NEW e \in EventBody, Construct(AutoCreated(e)),
           NEW agent, agent = NewAgent(AutoCreated(e))
    PROVE  Low(agent)'
<1>1. PICK record : record = AutoCreated(e)
  OBVIOUS
<1>2. \A task \in Task : record.level[task] <= EXECUTE_WITH_APPROVAL
  BY <1>1, AutoCreatedIsRecord DEF OBSERVE_ONLY, EXECUTE_WITH_APPROVAL
<1>3. CASE wiring = "memory"
  <2>1. heap' = Append(heap, record) /\ agent = Len(heap) + 1
    BY <1>1, <1>3 DEF Construct, NewAgent
  <2>2. record \in AgentRecord /\ heap \in Seq(AgentRecord)
    BY <1>1, AutoCreatedIsRecord DEF AgentsOK
  <2>3. heap'[agent] = record
    BY <2>1, <2>2
  <2> QED
    BY <1>2, <1>3, <2>3 DEF Low, AgentSeen
<1>4. CASE wiring # "memory"
  BY <1>1, <1>2, <1>4 DEF NewAgent, Low, AgentSeen
<1> QED
  BY <1>3, <1>4

\* An agent that was low, or has one task, is low once it is reduced.
LEMMA ReducedIsLow ==
    ASSUME NEW agent \in AgentRecord, NEW task \in Task,
           OneTask \/ \A other \in Task : agent.level[other] <= EXECUTE_WITH_APPROVAL
    PROVE  \A other \in Task :
              Reduced(agent, task).level[other] <= EXECUTE_WITH_APPROVAL
<1>1. PICK level : level = Reduced(agent, task).level
  OBVIOUS
<1>2. /\ level[task] <= EXECUTE_WITH_APPROVAL
      /\ \A other \in Task : level[other] <= agent.level[other]
  BY <1>1, ReducedIsRecord
<1>3. \A other \in Task : level[other] \in Int /\ agent.level[other] \in Int
  <2>1. Reduced(agent, task) \in AgentRecord
    BY ReducedIsRecord
  <2> QED
    BY <1>1, <2>1 DEF AgentRecord, AutonomyLevel
<1>4. \A other \in Task : level[other] <= EXECUTE_WITH_APPROVAL
  <2> TAKE other \in Task
  <2>1. CASE OneTask
    BY <1>2, <2>1 DEF OneTask
  <2>2. CASE agent.level[other] <= EXECUTE_WITH_APPROVAL
    BY <1>2, <1>3, <2>2 DEF EXECUTE_WITH_APPROVAL
  <2> QED
    BY <2>1, <2>2
<1> QED
  BY <1>1, <1>4

LEMMA LowReduce ==
    ASSUME ReductionSettles, Types, NEW th \in Thread, ReduceAgent(th)
    PROVE  /\ KeepsLow
           /\ \A agent : agent = call[th].agent /\ wiring = "memory" => Low(agent)'
<1>1. PICK written, s, task :
         written = call[th].agent /\ s = call[th].scope /\ task = <<s[2], s[3]>>
  OBVIOUS
<1>2. /\ HasAgent(written) /\ task \in Task /\ wiring' = wiring
      /\ wiring = "memory" =>
            /\ heap[written] \in AgentRecord
            /\ heap' = [heap EXCEPT ![written] = Reduced(heap[written], task)]
  BY <1>1, ReduceEffect
<1>3. CASE wiring = "memory"
  <2>1. heap \in Seq(AgentRecord) /\ written \in 1 .. Len(heap)
    BY <1>2, <1>3 DEF HasAgent, Types, AgentsOK
  <2>2. PICK record : record = Reduced(heap[written], task)
    OBVIOUS
  <2>3. heap'[written] = record /\ \A i \in 1 .. Len(heap) : i # written => heap'[i] = heap[i]
    BY <1>2, <1>3, <2>1, <2>2
  <2>4. \A other \in Task : record.level[other] <= EXECUTE_WITH_APPROVAL
    <3>1. OneTask \/ \A other \in Task :
                       heap[written].level[other] <= EXECUTE_WITH_APPROVAL
      BY <1>3, <2>1 DEF ReductionSettles, AgentsLow, Low, AgentSeen
    <3> QED
      BY <1>2, <1>3, <2>2, <3>1, ReducedIsLow
  <2>5. Low(written)'
    BY <1>2, <1>3, <2>3, <2>4 DEF Low, AgentSeen
  <2>6. ASSUME NEW agent, HasAgent(agent), Low(agent) PROVE Low(agent)'
    <3>1. CASE agent = written
      BY <2>5, <3>1
    <3>2. CASE agent # written
      BY <1>2, <1>3, <2>3, <2>6, <3>2 DEF Low, AgentSeen, HasAgent
    <3> QED
      BY <3>1, <3>2
  <2> QED
    BY <1>1, <2>5, <2>6 DEF KeepsLow
<1>4. CASE wiring # "memory"
  BY <1>2, <1>4 DEF KeepsLow, Low, AgentSeen
<1> QED
  BY <1>3, <1>4

(***************************************************************************)
(* What a step of th leaves of the scopes where nobody grants anew.        *)
(***************************************************************************)
\* What the other incidents see.
RestSettled(th) ==
    \A o \in Thread, a \in Agent :
        /\ o # th /\ quiet'[o] /\ call[o] # None /\ call[o].op = "incident"
        /\ a = call[o].scope[1] /\ Settled(a)
        => Settled(a)'

FencesStay == \A scope \in fenced : scope \in fenced' => Fenced(scope)'

\* What a step of th leaves alone.
Holds(th) == KeepsLow /\ RestSettled(th) /\ FencesStay /\ wiring' = wiring

RulesFall(scopes) == \A scope \in scopes : ActiveRules(scope)' \subseteq ActiveRules(scope)

SettlingStays == \A a \in Agent : Settled(a) => Settled(a)'

LEMMA AgentsUnwritten ==
    ASSUME AgentsOK, KeepsLow, agents' = agents
    PROVE  SettlingStays
<1>1. ASSUME NEW a \in Agent, Settled(a) PROVE Settled(a)'
  <2>1. PICK agent : agent = agents[a]
    OBVIOUS
  <2>2. agent # None /\ HasAgent(agent) /\ Low(agent)
    BY <1>1, <2>1 DEF Settled, AgentsOK
  <2>3. Low(agent)'
    BY <2>2 DEF KeepsLow
  <2> QED
    BY <2>1, <2>2, <2>3 DEF Settled, Low
<1> QED
  BY <1>1 DEF SettlingStays

LEMMA AgentIsSome ==
    ASSUME AgentsOK, NEW agent, HasAgent(agent)
    PROVE  agent # None
<1>1. None \notin AgentRecord /\ None \notin Nat
  BY ControlPlaneAssumption
<1>2. CASE wiring = "memory"
  <2>1. agent \in Nat
    BY <1>2 DEF HasAgent, AgentsOK
  <2> QED
    BY <1>1, <2>1
<1>3. CASE wiring # "memory"
  BY <1>1, <1>3 DEF HasAgent
<1> QED
  BY <1>2, <1>3

LEMMA LowWritten ==
    ASSUME AgentsOK, wiring' = wiring, heap' = heap, NEW a \in Agent,
           NEW agent, HasAgent(agent), Low(agent),
           agents' = [agents EXCEPT ![a] = agent]
    PROVE  SettlingStays /\ \A b : b = a => Settled(b)'
<1>1. Low(agent)' /\ KeepsLow /\ agent # None
  BY LowSame, AgentIsSome DEF KeepsLow
<1>2. agents'[a] = agent /\ \A b \in Agent : b # a => agents'[b] = agents[b]
  BY DEF AgentsOK
<1>3. ASSUME NEW b, b = a PROVE Settled(b)'
  BY <1>1, <1>2, <1>3 DEF Settled, Low
<1>4. ASSUME NEW b \in Agent, Settled(b), b # a PROVE Settled(b)'
  <2>1. PICK other : other = agents[b]
    OBVIOUS
  <2>2. other # None /\ HasAgent(other) /\ Low(other) /\ agents'[b] = other
    BY <1>2, <1>4, <2>1 DEF Settled, AgentsOK
  <2>3. Low(other)'
    BY <1>1, <2>2 DEF KeepsLow
  <2> QED
    BY <2>2, <2>3 DEF Settled, Low
<1> QED
  BY <1>3, <1>4 DEF SettlingStays

LEMMA QuietHolds ==
    ASSUME Types, FenceInv, NEW th \in Thread, wiring' = wiring, KeepsLow,
           SettlingStays, RulesFall(fenced \cap fenced')
    PROVE  Holds(th)
<1>1. ASSUME NEW scope \in fenced, scope \in fenced' PROVE Fenced(scope)'
  <2>1. PICK a : a = scope[1]
    OBVIOUS
  <2>2. scope \in AuthScope
    BY DEF Types, TablesOK
  <2>3. a \in Agent /\ Settled(a) /\ ActiveRules(scope) = {}
    BY <2>1, <2>2, TaskOfScope DEF FenceInv, Fenced
  <2>4. Settled(a)'
    BY <2>3 DEF SettlingStays
  <2>5. ActiveRules(scope)' = {}
    BY <1>1, <2>3 DEF RulesFall
  <2> QED
    BY <2>1, <2>4, <2>5 DEF Fenced, Settled, Low
<1> QED
  BY <1>1 DEF Holds, RestSettled, SettlingStays, FencesStay

LEMMA RulesSame ==
    ASSUME rules' = rules, NEW scopes
    PROVE  RulesFall(scopes)
BY ActiveStays DEF RulesFall

LEMMA RuleFalls ==
    ASSUME Types, NEW r \in Stored, NEW rule \in RuleRecord, ~rule.active,
           rules' = [rules EXCEPT ![r] = rule], NEW scopes
    PROVE  RulesFall(scopes)
<1>1. ASSUME NEW scope \in scopes
      PROVE  ActiveRules(scope)' \subseteq ActiveRules(scope)
  <2>1. ActiveRules(scope)' \subseteq ActiveRules(scope) \ {r}
    BY ActiveShrinks DEF Types
  <2> QED
    BY <2>1
<1> QED
  BY <1>1 DEF RulesFall

\* The steps that construct and write no agent.
LEMMA OtherHolds ==
    ASSUME Types, FenceInv, NEW th \in Thread, wiring' = wiring,
           heap' = heap, agents' = agents, RulesFall(fenced \cap fenced')
    PROVE  Holds(th)
<1>1. KeepsLow
  BY LowSame
<1>2. SettlingStays
  BY <1>1, AgentsUnwritten DEF Types
<1> QED
  BY <1>1, <1>2, QuietHolds

LEMMA AddRuleHolds ==
    ASSUME Types, FenceInv, NEW th \in Thread, AddRule(th)
    PROVE  Holds(th)
<1>1. /\ Typed(call[th]) /\ call[th].op = "approve"
      /\ rules' = [rules EXCEPT ![call[th].id] = call[th].body]
      /\ GrantAnew({call[th].scope})
  BY AddRuleEffect
<1>2. PICK id, rule : id = call[th].id /\ rule = call[th].body
  OBVIOUS
<1>3. id \in RuleId /\ RuleScope(rule) = call[th].scope
  BY <1>1, <1>2 DEF Typed
<1>4. /\ rules'[id] = rule /\ \A s \in RuleId : s # id => rules'[s] = rules[s]
  BY <1>1, <1>2, <1>3 DEF Types, RulesOK
<1>5. ASSUME NEW scope \in fenced \cap fenced', NEW s \in ActiveRules(scope)'
      PROVE  s \in ActiveRules(scope)
  <2>1. scope # call[th].scope
    BY <1>1, <1>5 DEF GrantAnew
  <2>2. s \in RuleId /\ rules'[s] # None /\ RuleScope(rules'[s]) = scope
        /\ rules'[s].active
    BY <1>5 DEF ActiveRules, RulesFor, RuleScope
  <2>3. s # id
    BY <1>3, <1>4, <2>1, <2>2
  <2>4. rules'[s] = rules[s]
    BY <1>4, <2>2, <2>3
  <2> QED
    BY <2>2, <2>4 DEF ActiveRules, RulesFor
<1>6. RulesFall(fenced \cap fenced')
  BY <1>5 DEF RulesFall
<1>7. wiring' = wiring /\ heap' = heap /\ agents' = agents
  BY DEF AddRule, tables, agentVars
<1> QED
  BY <1>6, <1>7, OtherHolds

\* A registration grants anew in every scope of its agent.
LEMMA RegisterHolds ==
    ASSUME Types, FenceInv, NEW th \in Thread, NEW reg \in Registration,
           RegisterAgent(th, reg.agent, reg.record)
    PROVE  Holds(th)
<1>1. PICK a, record : a = reg.agent /\ record = reg.record
  OBVIOUS
<1>2. a \in Agent /\ record \in AgentRecord
  BY <1>1, ControlPlaneAssumption
<1>3. /\ Construct(record) /\ wiring' = wiring /\ rules' = rules
      /\ agents' = [agents EXCEPT ![a] = NewAgent(record)]
      /\ GrantAnew({a} \X Workflow \X Authority)
  BY <1>1 DEF RegisterAgent, tables, ruleVars
<1>4. KeepsLow
  BY <1>2, <1>3, LowConstruct DEF Types
<1>5. ASSUME NEW b \in Agent, b # a, Settled(b) PROVE Settled(b)'
  <2>1. PICK agent : agent = agents[b]
    OBVIOUS
  <2>2. agent # None /\ HasAgent(agent) /\ Low(agent) /\ agents'[b] = agent
    BY <1>2, <1>3, <1>5, <2>1 DEF Settled, Types, AgentsOK
  <2>3. Low(agent)'
    BY <1>4, <2>2 DEF KeepsLow
  <2> QED
    BY <2>2, <2>3 DEF Settled, Low
<1>6. ASSUME NEW scope \in AuthScope, scope[1] = a
      PROVE  scope \in {a} \X Workflow \X Authority
  BY <1>6 DEF AuthScope
<1>7. RestSettled(th)
  <2>1. ASSUME NEW o \in Thread, NEW b \in Agent, quiet'[o], call[o] # None,
               call[o].op = "incident", b = call[o].scope[1], Settled(b)
        PROVE  Settled(b)'
    <3>1. call[o].scope \in AuthScope
      BY <2>1 DEF Types, CallsOK, Typed
    <3>2. b # a
      BY <1>3, <1>6, <2>1, <3>1 DEF GrantAnew
    <3> QED
      BY <1>5, <2>1, <3>2
  <2> QED
    BY <2>1 DEF RestSettled
<1>8. FencesStay
  <2>1. ASSUME NEW scope \in fenced, scope \in fenced' PROVE Fenced(scope)'
    <3>1. PICK b : b = scope[1]
      OBVIOUS
    <3>2. scope \in AuthScope
      BY DEF Types, TablesOK
    <3>3. b # a
      BY <1>3, <1>6, <2>1, <3>1, <3>2 DEF GrantAnew
    <3>4. b \in Agent /\ Settled(b) /\ ActiveRules(scope) = {}
      BY <3>1, <3>2, TaskOfScope DEF FenceInv, Fenced
    <3>5. Settled(b)' /\ ActiveRules(scope)' = {}
      BY <1>3, <1>5, <3>3, <3>4, ActiveStays
    <3> QED
      BY <3>1, <3>5 DEF Fenced, Settled, Low
  <2> QED
    BY <2>1 DEF FencesStay
<1> QED
  BY <1>3, <1>4, <1>7, <1>8 DEF Holds

LEMMA ServingHolds ==
    ASSUME ReductionSettles, Types, FenceInv, NEW th \in Thread, Serving(th)
    PROVE  Holds(th)
<1> USE DEF shared, tables, ruleVars, agentVars
<1>1. ASSUME wiring' = wiring, heap' = heap, agents' = agents, rules' = rules
      PROVE  Holds(th)
  BY <1>1, RulesSame, OtherHolds
<1>2. CASE \E id \in EventId, e \in EventBody : ProposeEvent(th, id, e)
  <2>1. PICK id \in EventId, e \in EventBody : ProposeEvent(th, id, e)
    BY <1>2
  <2>2. /\ wiring' = wiring /\ rules' = rules /\ agents' = agents
        /\ \E h : Opens(h, id, e)
    BY <2>1, ProposeEffect
  <2>3. KeepsLow
    <3>1. Construct(AutoCreated(e)) \/ heap' = heap
      BY <2>2 DEF Opens
    <3> QED
      BY <2>2, <3>1, AutoCreatedIsRecord, LowConstruct, LowSame DEF Types
  <2> QED
    BY <2>2, <2>3, AgentsUnwritten, RulesSame, QuietHolds DEF Types
<1>3. CASE AutoCreateAgent(th)
  <2>1. PICK agent, a : agent = call[th].agent /\ a = call[th].body.agent
    OBVIOUS
  <2>2. /\ wiring' = wiring /\ rules' = rules /\ heap' = heap
        /\ agents' = [agents EXCEPT ![a] = agent]
    BY <1>3, <2>1 DEF AutoCreateAgent
  <2>3. call[th] # None /\ Typed(call[th]) /\ call[th].op = "propose"
        /\ call[th].step = "create"
    BY <1>3, HandlerAt DEF AutoCreateAgent
  <2>4. a \in Agent /\ HasAgent(agent) /\ Low(agent)
    BY <2>1, <2>3, ControlPlaneAssumption DEF Typed, FenceInv, FencedHandlerOK
  <2>5. SettlingStays
    BY <2>2, <2>4, LowWritten DEF Types
  <2> QED
    BY <2>2, <2>5, LowSame, RulesSame, QuietHolds
<1>4. CASE WriteAgent(th)
  <2>1. PICK agent, a : agent = call[th].agent /\ a = call[th].scope[1]
    OBVIOUS
  <2>2. /\ wiring' = wiring /\ rules' = rules /\ heap' = heap
        /\ agents' = [agents EXCEPT ![a] = agent]
    BY <1>4, <2>1 DEF WriteAgent
  <2>3. call[th] # None /\ Typed(call[th]) /\ call[th].op = "incident"
        /\ call[th].step = "write_agent"
    BY <1>4, HandlerAt DEF WriteAgent
  <2>4. a \in Agent /\ HasAgent(agent) /\ Low(agent)
    BY <2>1, <2>3, TaskOfScope DEF Typed, FenceInv, FencedHandlerOK
  <2>5. SettlingStays
    BY <2>2, <2>4, LowWritten DEF Types
  <2> QED
    BY <2>2, <2>5, LowSame, RulesSame, QuietHolds
<1>5. CASE ReduceAgent(th)
  <2>1. wiring' = wiring /\ rules' = rules /\ agents' = agents
    BY <1>5 DEF ReduceAgent
  <2>2. KeepsLow
    BY <1>5, LowReduce
  <2> QED
    BY <2>1, <2>2, AgentsUnwritten, RulesSame, QuietHolds DEF Types
<1>6. CASE Asking(th)
  BY <1>1, <1>6, AskingEffect
<1>7. CASE \E scope \in AuthScope : RecordIncident(th, scope)
  BY <1>1, <1>7 DEF RecordIncident
<1>8. CASE ClaimNonce(th) \/ AddEvent(th)
  BY <1>1, <1>8 DEF ClaimNonce, AddEvent
<1>9. CASE Deliberating(th)
  BY <1>1, <1>9, DeliberatingEffect
<1>10. CASE (\E t \in TokenId : Mint(th, t)) \/ AuditEvent(th)
  <2>1. \A t \in TokenId : Mint(th, t) =>
           wiring' = wiring /\ heap' = heap /\ agents' = agents /\ rules' = rules
    BY MintEffect
  <2>2. AuditEvent(th) =>
           wiring' = wiring /\ heap' = heap /\ agents' = agents /\ rules' = rules
    BY DEF AuditEvent
  <2> QED
    BY <1>1, <1>10, <2>1, <2>2
<1>11. CASE ApplyDecision(th) \/ Answering(th)
  BY <1>1, <1>11
     DEF ApplyDecision, Answering, AuditDecision, RecommendFor, AuditRecommendation
<1>12. CASE WriteRevokedRule(th)
  BY <1>12, WriteRevokedEffect, RuleFalls, OtherHolds
<1>13. CASE ReadAgent(th)
  BY <1>1, <1>13 DEF ReadAgent
<1>14. CASE Collecting(th)
  BY <1>1, <1>14, CollectingEffect
<1>15. CASE \E r \in RuleId : WriteRule(th, r)
  <2>1. PICK r \in RuleId : WriteRule(th, r)
    BY <1>15
  <2>2. /\ r \in Stored /\ rules[r] \in RuleRecord
        /\ rules' = [rules EXCEPT ![r] = Deactivated(rules[r])]
        /\ wiring' = wiring /\ heap' = heap /\ agents' = agents
    BY <2>1, WriteRuleEffect
  <2>3. RulesFall(fenced \cap fenced')
    BY <2>2, RuleRecords, RuleFalls
  <2> QED
    BY <2>2, <2>3, OtherHolds
<1>16. CASE RevokeScope(th)
  BY <1>1, <1>16 DEF RevokeScope
<1>17. CASE Finishing(th)
  BY <1>1, <1>17 DEF Finishing, AuditRegistration, AuditTrust, AuditApproval,
     AuditRevocation, AuditIncident, Raise
<1> QED
  BY <1>2, <1>3, <1>4, <1>5, <1>6, <1>7, <1>8, <1>9, <1>10, <1>11, <1>12, <1>13,
     <1>14, <1>15, <1>16, <1>17, AddRuleHolds, RegisterHolds DEF Serving

LEMMA FenceMoves ==
    ASSUME Types, FenceInv, NEW th \in Thread, Holds(th), RestQuiet(th), NEW h,
           call' = [call EXCEPT ![th] = h],
           h # None => FencedHandlerOK(th, h)',
           \A scope \in fenced' : scope \in fenced \/ Fenced(scope)'
    PROVE  FenceInv'
<1>1. /\ call'[th] = h
      /\ \A o \in Thread : o # th => call'[o] = call[o]
  BY Turn DEF Types
<1>2. ASSUME NEW o \in Thread, o # th, NEW g, g = call[o], g # None
      PROVE  FencedHandlerOK(o, g)'
  <2>1. FencedHandlerOK(o, g) /\ Typed(g)
    BY <1>2 DEF FenceInv, Types, CallsOK
  <2>2. PICK agent, scope : agent = g.agent /\ scope = g.scope
    OBVIOUS
  <2>3. KeepsLow /\ wiring' = wiring
    BY DEF Holds
  <2>4. ASSUME g.op = "propose", g.step = "create" PROVE Low(agent)'
    BY <2>1, <2>2, <2>3, <2>4 DEF FencedHandlerOK, Typed, KeepsLow
  <2>5. ASSUME g.op = "propose", quiet'[o]
        PROVE  /\ ActiveRules(scope)' = {} /\ Low(agent)'
               /\ g.level \in AutonomyLevel /\ g.level <= EXECUTE_WITH_APPROVAL
               /\ g.step = "mint" => ~g.body.requires_execution
    <3>1. quiet[o] /\ ActiveRules(scope)' \subseteq ActiveRules(scope)
      BY <1>2, <2>2, <2>5 DEF RestQuiet
    <3>2. /\ ActiveRules(scope) = {} /\ Low(agent) /\ HasAgent(agent)
          /\ g.level \in AutonomyLevel /\ g.level <= EXECUTE_WITH_APPROVAL
          /\ g.step = "mint" => ~g.body.requires_execution
      BY <2>1, <2>2, <2>5, <3>1 DEF FencedHandlerOK, Typed
    <3>3. Low(agent)'
      BY <2>3, <3>2 DEF KeepsLow
    <3> QED
      BY <3>1, <3>2, <3>3
  <2>6. ASSUME g.op = "incident", g.step = "write_agent" PROVE Low(agent)'
    BY <2>1, <2>2, <2>3, <2>6 DEF FencedHandlerOK, Typed, KeepsLow
  <2>7. ASSUME g.op = "incident", quiet'[o], g.agent # None, g.step \notin AgentPart
        PROVE  Settled(scope[1])'
    <3>1. PICK a : a = scope[1]
      OBVIOUS
    <3>2. quiet[o]
      BY <1>2, <2>2, <2>7 DEF RestQuiet
    <3>3. a \in Agent /\ Settled(a)
      BY <2>1, <2>2, <2>7, <3>1, <3>2, TaskOfScope DEF FencedHandlerOK, Typed
    <3>4. Settled(a)'
      BY <1>2, <2>2, <2>7, <3>1, <3>3 DEF Holds, RestSettled
    <3> QED
      BY <3>1, <3>4 DEF Settled, Low
  <2>8. g.op = "incident" /\ g.step = "reduce_agent" => wiring' = "memory"
    BY <2>1, <2>3 DEF FencedHandlerOK
  <2> QED
    BY <2>2, <2>4, <2>5, <2>6, <2>7, <2>8 DEF FencedHandlerOK
<1>3. ASSUME NEW o \in Thread, NEW g, g = call'[o], g # None
      PROVE  FencedHandlerOK(o, g)'
  BY <1>1, <1>2, <1>3
<1>4. \A o \in Thread : call'[o] # None => FencedHandlerOK(o, call[o])'
  BY <1>3 DEF FencedHandlerOK
<1>5. \A scope \in fenced' : Fenced(scope)'
  BY DEF Holds, FencesStay
<1> QED
  BY <1>4, <1>5 DEF FenceInv

\* A proposal goes on with the agent it read.
LEMMA ProposalGoesOn ==
    ASSUME Types, FenceInv, NEW th \in Thread, Holds(th), RestQuiet(th),
           call[th] # None, call[th].op = "propose", NEW h,
           Goto(th, h), Same(h, call[th]), h.agent = call[th].agent,
           h.step # "create", rules' = rules, quiet' = quiet, fenced' = fenced,
           quiet[th] => /\ h.level \in AutonomyLevel /\ h.level <= EXECUTE_WITH_APPROVAL
                        /\ h.step = "mint" => ~h.body.requires_execution
    PROVE  FenceInv'
<1>1. call' = [call EXCEPT ![th] = h]
  BY DEF Goto
<1>2. ASSUME quiet[th] PROVE ActiveRules(h.scope)' = {} /\ Low(h.agent)'
  <2>1. PICK agent, scope : agent = h.agent /\ scope = h.scope
    OBVIOUS
  <2>2. /\ ActiveRules(scope) = {} /\ Low(agent) /\ HasAgent(agent)
    BY <1>2, <2>1 DEF FenceInv, FencedHandlerOK, Same, Types, CallsOK, Typed
  <2>3. ActiveRules(scope)' = {} /\ Low(agent)'
    BY <2>2, ActiveStays DEF Holds, KeepsLow
  <2> QED
    BY <2>1, <2>3 DEF Low
<1>3. FencedHandlerOK(th, h)'
  BY <1>2 DEF FencedHandlerOK, Same
<1> QED
  BY <1>1, <1>3, FenceMoves

\* What a quiet proposal holds so far.
LEMMA QuietProposal ==
    ASSUME FenceInv, NEW th \in Thread, call[th] # None, call[th].op = "propose",
           quiet[th]
    PROVE  /\ call[th].level \in AutonomyLevel
           /\ call[th].level <= EXECUTE_WITH_APPROVAL
           /\ Low(call[th].agent) /\ ActiveRules(call[th].scope) = {}
BY DEF FenceInv, FencedHandlerOK

LEMMA ProposeFences ==
    ASSUME ReductionSettles, Types, FenceInv, NEW th \in Thread, NEW id \in EventId,
           NEW e \in EventBody, ProposeEvent(th, id, e)
    PROVE  FenceInv'
<1>1. Holds(th) /\ RestQuiet(th)
  BY ServingHolds, ServingQuiet DEF Serving
<1>2. /\ rules' = rules /\ agents' = agents /\ fenced' = fenced /\ wiring' = wiring
      /\ quiet' = [quiet EXCEPT ![th] = EventScope(e) \in fenced]
  BY ProposeEffect DEF ruleVars, tables
<1>3. PICK h : Opens(h, id, e) /\ call' = [call EXCEPT ![th] = h]
  BY ProposeEffect
<1>4. PICK scope, a : scope = EventScope(e) /\ a = e.agent
  OBVIOUS
<1>5. scope[1] = a /\ a \in Agent /\ h.scope = scope /\ h.op = "propose"
      /\ h.level = 0 /\ h.step # "mint"
  BY <1>3, <1>4, ControlPlaneAssumption DEF EventScope, Opens
<1>6. quiet'[th] => scope \in fenced
  BY <1>2, <1>4 DEF Types, TablesOK
<1>7. PICK agent : agent = h.agent
  OBVIOUS
<1>8. CASE /\ h.step = "create" /\ agents[a] = None
           /\ Construct(AutoCreated(e)) /\ agent = NewAgent(AutoCreated(e))
  <2>1. Low(agent)'
    BY <1>2, <1>8, CreatedIsLow DEF Types
  <2>2. ~quiet'[th]
    BY <1>5, <1>6, <1>8 DEF FenceInv, Fenced, Settled
  <2>3. FencedHandlerOK(th, h)'
    BY <1>5, <1>7, <2>1, <2>2 DEF FencedHandlerOK
  <2> QED
    BY <1>1, <1>2, <1>3, <2>3, FenceMoves
<1>9. CASE h.step = "claim" /\ agents[a] # None /\ agent = agents[a]
  <2>1. ASSUME quiet'[th] PROVE ActiveRules(scope)' = {} /\ Low(agent)'
    <3>1. ActiveRules(scope) = {} /\ Low(agent)
      BY <1>5, <1>6, <1>9, <2>1 DEF FenceInv, Fenced, Settled
    <3>2. HasAgent(agent)
      BY <1>5, <1>9 DEF Types, AgentsOK
    <3> QED
      BY <1>1, <1>2, <3>1, <3>2, ActiveStays DEF Holds, KeepsLow
  <2>2. h.level \in AutonomyLevel /\ h.level <= EXECUTE_WITH_APPROVAL
    BY <1>5 DEF AutonomyLevel, EXECUTE_WITH_APPROVAL
  <2>3. FencedHandlerOK(th, h)'
    BY <1>5, <1>7, <1>9, <2>1, <2>2 DEF FencedHandlerOK
  <2> QED
    BY <1>1, <1>2, <1>3, <2>3, FenceMoves
<1> QED
  BY <1>3, <1>4, <1>7, <1>8, <1>9 DEF Opens

LEMMA BeforeDecisionFences ==
    ASSUME ReductionSettles, Types, FenceInv, NEW th \in Thread,
           AutoCreateAgent(th) \/ ClaimNonce(th) \/ AddEvent(th)
           \/ \E t \in TokenId : Mint(th, t)
    PROVE  FenceInv'
<1>1. Holds(th) /\ RestQuiet(th)
  BY ServingHolds, ServingQuiet DEF Serving
<1>2. ASSUME call[th] # None, call[th].op = "propose", NEW h, Goto(th, h),
             Same(h, call[th]), h.agent = call[th].agent, h.level = call[th].level,
             h.step \notin {"create", "mint"},
             rules' = rules, quiet' = quiet, fenced' = fenced
      PROVE  FenceInv'
  BY <1>1, <1>2, QuietProposal, ProposalGoesOn
<1>3. ASSUME Return(th), fenced' = fenced PROVE FenceInv'
  <2>1. PICK h : h = None
    OBVIOUS
  <2> QED
    BY <1>1, <1>3, <2>1, FenceMoves DEF Return, Goto
<1>4. CASE AutoCreateAgent(th)
  <2>1. /\ rules' = rules /\ quiet' = quiet /\ fenced' = fenced
        /\ Continue(th, "claim")
    BY <1>4 DEF AutoCreateAgent, ruleVars, history
  <2>2. call[th] # None /\ call[th].op = "propose"
    BY <1>4, HandlerAt DEF AutoCreateAgent
  <2>3. PICK h : /\ Goto(th, h) /\ Same(h, call[th]) /\ h.step = "claim"
                 /\ h.agent = call[th].agent /\ h.level = call[th].level
    BY <2>1, <2>2, ContinueEffect
  <2> QED
    BY <1>2, <2>1, <2>2, <2>3
<1>5. CASE ClaimNonce(th)
  BY <1>2, <1>3, <1>5, ClaimEffect DEF ruleVars, history
<1>6. CASE AddEvent(th)
  BY <1>2, <1>6, AddEventEffect DEF ruleVars, history
<1>7. CASE \E t \in TokenId : Mint(th, t)
  <2>1. PICK t \in TokenId : Mint(th, t)
    BY <1>7
  <2>2. /\ call[th] # None /\ call[th].op = "propose"
        /\ rules' = rules /\ quiet' = quiet /\ fenced' = fenced
        /\ \E h : /\ Goto(th, h) /\ Same(h, call[th]) /\ h.step = "audit"
                  /\ h.agent = call[th].agent /\ h.level = call[th].level
    BY <2>1, MintEffect DEF ruleVars, history
  <2> QED
    BY <1>2, <2>2
<1> QED
  BY <1>4, <1>5, <1>6, <1>7

LEMMA QuietLevel ==
    ASSUME Types, FenceInv, NEW th \in Thread, call[th] # None,
           call[th].op = "propose", quiet[th],
           NEW level \in {call[th].level, LevelSeen(th)}
    PROVE  level \in AutonomyLevel /\ level <= EXECUTE_WITH_APPROVAL
<1> DEFINE e == call[th].body
           seen == AgentSeen(call[th].agent)
<1>1. e \in EventBody /\ HasAgent(call[th].agent)
  BY DEF Types, CallsOK, Typed
<1>2. CASE level = call[th].level
  BY <1>2, QuietProposal
<1>3. CASE level = LevelSeen(th)
  <2>1. PICK task : task = <<e.workflow, e.authority>>
    OBVIOUS
  <2>2. task \in Task
    BY <1>1, <2>1, ControlPlaneAssumption DEF Task
  <2>3. level = seen.level[task]
    BY <1>3, <2>1 DEF LevelSeen
  <2>4. seen \in AgentRecord
    BY <1>1 DEF HasAgent, AgentSeen, Types, AgentsOK
  <2>5. seen.level[task] <= EXECUTE_WITH_APPROVAL
    BY <2>2, QuietProposal DEF Low
  <2> HIDE DEF seen
  <2> QED
    BY <2>2, <2>3, <2>4, <2>5 DEF AgentRecord
<1> QED
  BY <1>2, <1>3

\* A quiet proposal finds no rule and a low level: an execution stops.
LEMMA QuietDecision ==
    ASSUME Types, FenceInv, NEW th \in Thread, call[th] # None,
           call[th].op = "propose", quiet[th], NEW rule, RuleFound(rule, call[th]),
           NEW level \in {call[th].level, LevelSeen(th)},
           call[th].body.requires_execution
    PROVE  DecisionFor(th, level, rule) \notin Proceeding
<1> DEFINE e == call[th].body
           seen == AgentSeen(call[th].agent)
           known == WithKnownWorkflows(e, seen)
<1>1. /\ e \in EventBody /\ call[th].scope = EventScope(e) /\ HasAgent(call[th].agent)
  BY DEF Types, CallsOK, Typed
<1>2. rule = None
  <2>1. SUFFICES ASSUME rule # None PROVE FALSE
    OBVIOUS
  <2>2. PICK r \in Stored : rule = rules[r] /\ Matches(rule, e)
    BY <2>1 DEF RuleFound
  <2>3. RuleScope(rules[r]) = EventScope(e) /\ rules[r].active
    BY <2>2 DEF Matches, RuleScope, EventScope
  <2>4. r \in ActiveRules(call[th].scope)
    BY <1>1, <2>1, <2>2, <2>3 DEF ActiveRules, RulesFor, Stored
  <2> QED
    BY <2>4, QuietProposal
<1>3. level \in AutonomyLevel /\ level <= EXECUTE_WITH_APPROVAL
  BY QuietLevel
<1>4. known.requires_execution = TRUE
  BY <1>1, ControlPlaneAssumption DEF WithKnownWorkflows
<1> HIDE DEF known
<1>5. Evaluate(default_boundary_rules, known, level, None).status \notin Proceeding
  BY <1>3, <1>4, LowNeedsRule
<1> QED
  BY <1>2, <1>5 DEF DecisionFor, known

LEMMA DeliberatingFences ==
    ASSUME ReductionSettles, Types, FenceInv, NEW th \in Thread, Deliberating(th)
    PROVE  FenceInv'
<1>1. Holds(th) /\ RestQuiet(th)
  BY ServingHolds, ServingQuiet DEF Serving
<1>2. /\ call[th] # None /\ call[th].op = "propose"
      /\ rules' = rules /\ quiet' = quiet /\ fenced' = fenced
      /\ Return(th) \/ \E h : Goto(th, h) /\ Deliberation(th, h)
  BY DeliberatingEffect DEF shared, ruleVars, history
<1>3. CASE Return(th)
  <2>1. PICK h : h = None
    OBVIOUS
  <2> QED
    BY <1>1, <1>2, <1>3, <2>1, FenceMoves DEF Return, Goto
<1>4. CASE \E h : Goto(th, h) /\ Deliberation(th, h)
  <2>1. PICK h : Goto(th, h) /\ Deliberation(th, h)
    BY <1>4
  <2>2. Same(h, call[th]) /\ h.agent = call[th].agent
    BY <2>1 DEF Deliberation
  <2>3. h.step # "create"
    BY <2>1 DEF Deliberation, StepAfter
  <2>4. ASSUME quiet[th]
        PROVE  /\ h.level \in AutonomyLevel /\ h.level <= EXECUTE_WITH_APPROVAL
               /\ h.step = "mint" => ~h.body.requires_execution
    <3>1. CASE /\ h.step = "test_rule"
               /\ h.level \in {call[th].level, LevelSeen(th)}
      BY <1>2, <2>4, <3>1, QuietLevel
    <3>2. CASE \E level \in {call[th].level, LevelSeen(th)} :
                  /\ RuleFound(h.rule, h)
                  /\ h.level = 0
                  /\ h.result = DecisionFor(th, level, h.rule)
                  /\ h.step = StepAfter(h.result)
      <4>1. PICK level \in {call[th].level, LevelSeen(th)} :
                  /\ RuleFound(h.rule, h)
                  /\ h.level = 0
                  /\ h.result = DecisionFor(th, level, h.rule)
                  /\ h.step = StepAfter(h.result)
        BY <3>2
      <4>2. PICK rule : rule = h.rule
        OBVIOUS
      <4>3. h.body = call[th].body /\ RuleFound(rule, call[th])
        BY <2>2, <4>1, <4>2 DEF RuleFound, Same
      <4>4. h.body.requires_execution => h.result \notin Proceeding
        BY <1>2, <2>4, <4>1, <4>2, <4>3, QuietDecision
      <4>5. h.step = "mint" => h.result \in Proceeding
        BY <4>1 DEF StepAfter
      <4>6. h.level \in AutonomyLevel /\ h.level <= EXECUTE_WITH_APPROVAL
        BY <4>1 DEF AutonomyLevel, EXECUTE_WITH_APPROVAL
      <4> QED
        BY <4>4, <4>5, <4>6
    <3> QED
      BY <2>1, <3>1, <3>2 DEF Deliberation
  <2> QED
    BY <1>1, <1>2, <2>1, <2>2, <2>3, <2>4, ProposalGoesOn
<1> QED
  BY <1>2, <1>3, <1>4

\* An incident goes on.
LEMMA IncidentFences ==
    ASSUME Types, FenceInv, NEW th \in Thread, Holds(th), RestQuiet(th), NEW h,
           Goto(th, h), h.op = "incident", quiet' = quiet, fenced' = fenced,
           h.step = "reduce_agent" => wiring' = "memory",
           h.step = "write_agent" => Low(h.agent)',
           quiet[th] /\ h.agent # None /\ h.step \notin AgentPart
              => Settled(h.scope[1])'
    PROVE  FenceInv'
<1>1. call' = [call EXCEPT ![th] = h]
  BY DEF Goto
<1>2. FencedHandlerOK(th, h)'
  BY DEF FencedHandlerOK
<1> QED
  BY <1>1, <1>2, FenceMoves

LEMMA AgentPartFences ==
    ASSUME ReductionSettles, Types, IncidentsOK, FenceInv, NEW th \in Thread,
           ReadAgent(th) \/ ReduceAgent(th) \/ WriteAgent(th)
    PROVE  FenceInv'
<1>1. Holds(th) /\ RestQuiet(th) /\ wiring' = wiring
  BY ServingHolds, ServingQuiet DEF Serving, Holds
<1>2. /\ quiet' = quiet /\ fenced' = fenced
  BY DEF ReadAgent, ReduceAgent, WriteAgent, history
<1>3. CASE ReadAgent(th)
  <2>1. PICK s, read, task : s = call[th].scope /\ read = agents[s[1]]
                             /\ task = <<s[2], s[3]>>
    OBVIOUS
  <2>2. /\ call[th] # None /\ call[th].op = "incident"
        /\ call[th].step = "read_agent"
        /\ \E h : /\ Goto(th, h) /\ Same(h, call[th])
                  /\ read = None => h.agent = call[th].agent
                  /\ ReadAgentStep(h, read, task)
    BY <1>3, <2>1, ReadAgentEffect
  <2>3. PICK h : /\ Goto(th, h) /\ Same(h, call[th])
                 /\ read = None => h.agent = call[th].agent
                 /\ ReadAgentStep(h, read, task)
    BY <2>2
  <2>4. s \in AuthScope
    BY <2>1, <2>2 DEF Types, CallsOK, Typed
  <2>5. s[1] \in Agent /\ task \in Task
    BY <2>1, <2>4, TaskOfScope
  <2>6. ASSUME h.step = "write_agent" PROVE Low(h.agent)'
    <3>1. PICK agent : agent = h.agent
      OBVIOUS
    <3>2. read # None /\ wiring = "sql" /\ agent = Reduced(read, task)
      BY <2>3, <2>6, <3>1 DEF ReadAgentStep
    <3>3. read \in AgentRecord
      BY <2>1, <2>5, <3>2 DEF Types, AgentsOK, HasAgent
    <3>4. \A other \in Task : agent.level[other] <= EXECUTE_WITH_APPROVAL
      <4>1. OneTask \/ \A other \in Task :
                         read.level[other] <= EXECUTE_WITH_APPROVAL
        BY <2>1, <2>5, <3>2 DEF ReductionSettles, AgentsLow, Low, AgentSeen
      <4> QED
        BY <2>5, <3>2, <3>3, <4>1, ReducedIsLow
    <3>5. Low(agent)'
      BY <1>1, <3>2, <3>4 DEF Low, AgentSeen
    <3> QED
      BY <3>1, <3>5 DEF Low
  <2>7. h.step = "reduce_agent" => wiring' = "memory"
    BY <1>1, <2>3 DEF ReadAgentStep
  <2>8. h.agent # None => h.step \in AgentPart
    BY <2>2, <2>3 DEF ReadAgentStep, AgentPart, IncidentsOK
  <2>9. h.op = "incident"
    BY <2>2, <2>3 DEF Same
  <2> QED
    BY <1>1, <1>2, <2>3, <2>6, <2>7, <2>8, <2>9, IncidentFences
<1>4. CASE ReduceAgent(th)
  <2>1. /\ call[th] # None /\ call[th].op = "incident"
        /\ call[th].step = "reduce_agent" /\ Continue(th, "write_agent")
    BY <1>4, ReduceEffect
  <2>2. PICK h : /\ Goto(th, h) /\ Same(h, call[th]) /\ h.step = "write_agent"
                 /\ h.agent = call[th].agent
    BY <2>1, ContinueEffect
  <2>3. PICK agent : agent = h.agent
    OBVIOUS
  <2>4. wiring = "memory"
    BY <2>1 DEF FenceInv, FencedHandlerOK
  <2>5. Low(agent)'
    BY <1>4, <2>2, <2>3, <2>4, LowReduce
  <2>6. Low(h.agent)'
    BY <2>3, <2>5 DEF Low
  <2> QED
    BY <1>1, <1>2, <2>1, <2>2, <2>6, IncidentFences DEF Same, AgentPart
<1>5. CASE WriteAgent(th)
  <2>1. PICK agent, a : agent = call[th].agent /\ a = call[th].scope[1]
    OBVIOUS
  <2>2. /\ heap' = heap /\ agents' = [agents EXCEPT ![a] = agent]
        /\ Continue(th, IF wiring = "sql" THEN "read_rules" ELSE "begin_scan")
    BY <1>5, <2>1 DEF WriteAgent
  <2>3. call[th] # None /\ Typed(call[th]) /\ call[th].op = "incident"
        /\ call[th].step = "write_agent"
    BY <1>5, HandlerAt DEF WriteAgent
  <2>4. a \in Agent /\ HasAgent(agent) /\ Low(agent)
    BY <2>1, <2>3, TaskOfScope DEF Typed, FenceInv, FencedHandlerOK
  <2>5. Settled(a)'
    BY <1>1, <2>2, <2>4, LowWritten DEF Types
  <2>6. PICK next : next = IF wiring = "sql" THEN "read_rules" ELSE "begin_scan"
    OBVIOUS
  <2>7. PICK h : Goto(th, h) /\ Same(h, call[th]) /\ h.step = next
    BY <2>2, <2>3, <2>6, ContinueEffect
  <2>8. h.step \notin AgentPart /\ h.op = "incident" /\ h.scope[1] = a
    BY <2>1, <2>3, <2>6, <2>7 DEF AgentPart, Same
  <2>9. Settled(h.scope[1])'
    BY <2>5, <2>8 DEF Settled, Low
  <2> QED
    BY <1>1, <1>2, <2>7, <2>8, <2>9, IncidentFences DEF AgentPart
<1> QED
  BY <1>3, <1>4, <1>5

LEMMA RulePartFences ==
    ASSUME ReductionSettles, Types, FenceInv, NEW th \in Thread,
           Collecting(th) \/ (\E r \in RuleId : WriteRule(th, r)) \/ RevokeScope(th)
    PROVE  FenceInv'
<1>1. Holds(th) /\ RestQuiet(th)
  BY ServingHolds, ServingQuiet DEF Serving
<1>2. ASSUME call[th] # None, call[th].op = "incident",
             call[th].step \notin AgentPart, agents' = agents, heap' = heap,
             wiring' = wiring, quiet' = quiet, fenced' = fenced,
             NEW h, Goto(th, h), Same(h, call[th]), h.agent = call[th].agent,
             h.step \notin AgentPart
      PROVE  FenceInv'
  <2>1. quiet[th] /\ h.agent # None => Settled(h.scope[1])
    BY <1>2 DEF FenceInv, FencedHandlerOK, Same
  <2>2. quiet[th] /\ h.agent # None => Settled(h.scope[1])'
    BY <1>2, <2>1 DEF Settled, Low, AgentSeen
  <2>3. h.op = "incident" /\ h.step \notin {"reduce_agent", "write_agent"}
    BY <1>2 DEF Same, AgentPart
  <2> QED
    BY <1>1, <1>2, <2>2, <2>3, IncidentFences
<1>3. ASSUME Return(th), fenced' = fenced PROVE FenceInv'
  <2>1. PICK h : h = None
    OBVIOUS
  <2> QED
    BY <1>1, <1>3, <2>1, FenceMoves DEF Return, Goto
<1>4. CASE Collecting(th)
  <2>1. /\ call[th] # None /\ call[th].op = "incident"
        /\ agents' = agents /\ heap' = heap /\ wiring' = wiring
        /\ quiet' = quiet /\ fenced' = fenced
        /\ \/ Return(th)
           \/ \E todo : WriteBack(th, todo)
           \/ \E h : /\ Goto(th, h) /\ Same(h, call[th]) /\ h.step = "end_scan"
                     /\ h.agent = call[th].agent
    BY <1>4, CollectingEffect DEF shared, tables, agentVars, history
  <2>2. call[th].step \notin AgentPart
    BY <1>4, HandlerAt DEF Collecting, ReadRules, BeginScan, EndScan, AgentPart
  <2>3. CASE \E todo : WriteBack(th, todo)
    <3>1. PICK todo : WriteBack(th, todo)
      BY <2>3
    <3>2. PICK h : /\ Goto(th, h) /\ Same(h, call[th]) /\ h.agent = call[th].agent
                   /\ h.step = IF todo = {} THEN "revoke_scope" ELSE "write_rules"
      BY <2>1, <3>1, WriteBackEffect
    <3> QED
      BY <1>2, <2>1, <2>2, <3>2 DEF AgentPart
  <2>4. CASE \E h : /\ Goto(th, h) /\ Same(h, call[th]) /\ h.step = "end_scan"
                    /\ h.agent = call[th].agent
    BY <1>2, <2>1, <2>2, <2>4 DEF AgentPart
  <2> QED
    BY <1>3, <2>1, <2>3, <2>4
<1>5. CASE \E r \in RuleId : WriteRule(th, r)
  <2>1. PICK r \in RuleId : WriteRule(th, r)
    BY <1>5
  <2>2. /\ call[th] # None /\ call[th].op = "incident"
        /\ call[th].step \notin AgentPart
        /\ agents' = agents /\ heap' = heap /\ wiring' = wiring
        /\ quiet' = quiet /\ fenced' = fenced
        /\ \E h : /\ Goto(th, h) /\ Same(h, call[th]) /\ h.agent = call[th].agent
                  /\ h.step \notin AgentPart
    BY <2>1, WriteRuleEffect DEF tables, agentVars, history, AgentPart
  <2> QED
    BY <1>2, <2>2
<1>6. CASE RevokeScope(th)
  <2>1. /\ call[th] # None /\ call[th].step = "revoke_scope"
        /\ agents' = agents /\ heap' = heap /\ wiring' = wiring
        /\ quiet' = quiet /\ fenced' = fenced /\ Continue(th, "audit")
    BY <1>6, HandlerAt DEF RevokeScope, shared, tables, agentVars, history
  <2>2. PICK h : /\ Goto(th, h) /\ Same(h, call[th]) /\ h.step = "audit"
                 /\ h.agent = call[th].agent
    BY <2>1, ContinueEffect
  <2>3. CASE call[th].op = "incident"
    BY <1>2, <2>1, <2>2, <2>3 DEF AgentPart
  <2>4. CASE call[th].op # "incident"
    <3>1. call[th].op = "revoke" /\ h.op = "revoke"
      BY <1>6, <2>2, <2>4 DEF RevokeScope, At, Same
    <3>2. FencedHandlerOK(th, h)'
      BY <3>1 DEF FencedHandlerOK
    <3> QED
      BY <1>1, <2>1, <2>2, <3>2, FenceMoves DEF Goto
  <2> QED
    BY <2>3, <2>4
<1> QED
  BY <1>4, <1>5, <1>6

\* A fence goes up when an incident is answered, and only then.
LEMMA FenceGoesUp ==
    ASSUME Types, IncidentsOK, FenceInv, NEW th \in Thread, Holds(th), AuditIncident(th)
    PROVE  \A scope \in fenced' : scope \in fenced \/ Fenced(scope)'
<1>1. /\ call[th] # None /\ call[th].op = "incident" /\ call[th].step = "audit"
      /\ Typed(call[th])
  BY HandlerAt DEF AuditIncident
<1>2. /\ rules' = rules /\ heap' = heap /\ agents' = agents /\ wiring' = wiring
      /\ fenced' = IF quiet[th] /\ call[th].agent # None
                     THEN fenced \cup {call[th].scope} ELSE fenced
  BY DEF AuditIncident, shared, tables, ruleVars, agentVars
<1>3. ASSUME quiet[th], call[th].agent # None, NEW scope, scope = call[th].scope
      PROVE  Fenced(scope)'
  <2>1. ActiveRules(scope) = {}
    BY <1>1, <1>3 DEF IncidentsOK, IncidentOK
  <2>2. Settled(scope[1])
    BY <1>1, <1>3 DEF FenceInv, FencedHandlerOK, AgentPart
  <2>3. ActiveRules(scope)' = {}
    BY <1>2, <2>1, ActiveStays
  <2> QED
    BY <1>2, <2>2, <2>3 DEF Fenced, Settled, Low, AgentSeen
<1>4. ASSUME NEW scope \in fenced', scope \notin fenced PROVE Fenced(scope)'
  <2>1. quiet[th] /\ call[th].agent # None /\ scope = call[th].scope
    BY <1>2, <1>4
  <2> QED
    BY <1>3, <2>1
<1> QED
  BY <1>4

LEMMA ApartFences ==
    ASSUME ReductionSettles, Types, IncidentsOK, FenceInv, NEW th \in Thread, Apart(th)
    PROVE  FenceInv'
<1>1. Holds(th) /\ RestQuiet(th)
  BY ServingHolds, ServingQuiet DEF Serving, Apart
<1>2. PICK h : /\ h = None \/ h.op \notin {"propose", "incident"}
               /\ call' = [call EXCEPT ![th] = h]
  BY ApartCalls
<1>3. h # None => FencedHandlerOK(th, h)'
  BY <1>2 DEF FencedHandlerOK
<1>4. \A scope \in fenced' : scope \in fenced \/ Fenced(scope)'
  <2>1. CASE \E reg \in Registration : RegisterAgent(th, reg.agent, reg.record)
    <3>1. fenced' \subseteq fenced
      BY <2>1 DEF RegisterAgent, GrantAnew
    <3> QED
      BY <3>1
  <2>2. CASE AddRule(th)
    <3>1. fenced' \subseteq fenced
      BY <2>2, AddRuleEffect DEF GrantAnew
    <3> QED
      BY <3>1
  <2>3. CASE AuditIncident(th)
    BY <1>1, <2>3, FenceGoesUp
  <2>4. CASE Asking(th) \/ WriteRevokedRule(th)
    BY <2>4, AskingEffect, WriteRevokedEffect DEF history
  <2>5. CASE ApplyDecision(th) \/ Answering(th) \/ AuditEvent(th)
    BY <2>5 DEF ApplyDecision, Answering, AuditDecision, RecommendFor,
       AuditRecommendation, AuditEvent, history
  <2>6. CASE Finishing(th)
    BY <2>3, <2>6 DEF Finishing, AuditRegistration, AuditTrust, AuditApproval,
       AuditRevocation, Raise, history
  <2> QED
    BY <2>1, <2>2, <2>4, <2>5, <2>6 DEF Apart
<1> QED
  BY <1>1, <1>2, <1>3, <1>4, FenceMoves

LEMMA RecordIncidentFences ==
    ASSUME ReductionSettles, Types, FenceInv, NEW th \in Thread, NEW scope \in AuthScope,
           RecordIncident(th, scope)
    PROVE  FenceInv'
<1>1. Holds(th) /\ RestQuiet(th)
  BY ServingHolds, ServingQuiet DEF Serving
<1>2. PICK h : Reports(h, scope) /\ call' = [call EXCEPT ![th] = h]
  BY IncidentEffect
<1>3. fenced' = fenced
  BY IncidentEffect
<1>4. FencedHandlerOK(th, h)'
  BY <1>2 DEF Reports, FencedHandlerOK, AgentPart
<1> QED
  BY <1>1, <1>2, <1>3, <1>4, FenceMoves

LEMMA StepFences ==
    ASSUME ReductionSettles, Types, IncidentsOK, FenceInv, [Next]_vars
    PROVE  FenceInv'
<1>1. ASSUME NEW th \in Thread, Serving(th) PROVE FenceInv'
  <2>1. CASE Apart(th)
    BY <2>1, ApartFences
  <2>2. CASE \E id \in EventId, e \in EventBody : ProposeEvent(th, id, e)
    BY <2>2, ProposeFences
  <2>3. CASE AutoCreateAgent(th) \/ ClaimNonce(th) \/ AddEvent(th)
             \/ \E t \in TokenId : Mint(th, t)
    BY <2>3, BeforeDecisionFences
  <2>4. CASE Deliberating(th)
    BY <2>4, DeliberatingFences
  <2>5. CASE \E scope \in AuthScope : RecordIncident(th, scope)
    BY <2>5, RecordIncidentFences
  <2>6. CASE ReadAgent(th) \/ ReduceAgent(th) \/ WriteAgent(th)
    BY <2>6, AgentPartFences
  <2>7. CASE Collecting(th) \/ (\E r \in RuleId : WriteRule(th, r)) \/ RevokeScope(th)
    BY <2>7, RulePartFences
  <2> QED
    BY <1>1, <2>1, <2>2, <2>3, <2>4, <2>5, <2>6, <2>7 DEF Serving, Apart
<1>2. ASSUME rules' = rules, agents' = agents, heap' = heap, wiring' = wiring,
             quiet' = quiet, fenced' = fenced,
             \A th \in Thread : call'[th] \in {None, call[th]}
      PROVE  FenceInv'
  <2>1. ASSUME NEW scope, ActiveRules(scope) = {} PROVE ActiveRules(scope)' = {}
    BY <1>2, <2>1, ActiveStays
  <2>2. ASSUME NEW a, Settled(a) PROVE Settled(a)'
    BY <1>2, <2>2 DEF Settled, Low, AgentSeen
  <2>3. ASSUME NEW agent, Low(agent) PROVE Low(agent)'
    BY <1>2, <2>3 DEF Low, AgentSeen
  <2>4. \A scope \in fenced' : Fenced(scope)'
    <3>1. ASSUME NEW scope \in fenced, NEW a, a = scope[1]
          PROVE  ActiveRules(scope)' = {} /\ Settled(a)'
      BY <2>1, <2>2, <3>1 DEF FenceInv, Fenced
    <3> QED
      BY <1>2, <3>1 DEF Fenced, Settled, Low
  <2>5. ASSUME NEW th \in Thread, NEW h, h = call'[th], h # None
        PROVE  FencedHandlerOK(th, h)'
    <3>1. FencedHandlerOK(th, h)
      BY <1>2, <2>5 DEF FenceInv
    <3>2. PICK agent, scope : agent = h.agent /\ scope = h.scope
      OBVIOUS
    <3>3. PICK a : a = scope[1]
      OBVIOUS
    <3>4. /\ ActiveRules(scope) = {} => ActiveRules(scope)' = {}
          /\ Low(agent) => Low(agent)'
          /\ Settled(a) => Settled(a)'
      BY <2>1, <2>2, <2>3
    <3>5. Settled(h.scope[1]) => Settled(h.scope[1])'
      BY <3>2, <3>3, <3>4 DEF Settled, Low
    <3>6. /\ ActiveRules(h.scope) = {} => ActiveRules(h.scope)' = {}
          /\ Low(h.agent) => Low(h.agent)'
      BY <3>2, <3>4 DEF Low
    <3> QED
      BY <1>2, <3>1, <3>5, <3>6 DEF FencedHandlerOK
  <2> QED
    BY <2>4, <2>5 DEF FenceInv, FencedHandlerOK
<1>3. CASE \E t \in TokenId : Enforce(t)
  BY <1>2, <1>3, EnforceEffect DEF shared, tables, agentVars, ruleVars, history
<1>4. CASE \E p \in Replica : Restart(p)
  BY <1>2, <1>4, RestartEffect DEF shared, tables, agentVars, ruleVars, history
<1>5. CASE UNCHANGED vars
  BY <1>2, <1>5 DEF vars, shared, tables, agentVars, ruleVars, history
<1> QED
  BY <1>1, <1>3, <1>4, <1>5, Steps

(***************************************************************************)
(* Agents that were registered low stay low.                               *)
(***************************************************************************)
\* The steps that construct or write an agent, and the rest.
LEMMA AgentSteps ==
    ASSUME Types, NEW th \in Thread, Serving(th)
    PROVE  \/ wiring' = wiring /\ heap' = heap /\ agents' = agents
           \/ \E reg \in Registration : RegisterAgent(th, reg.agent, reg.record)
           \/ \E id \in EventId, e \in EventBody : ProposeEvent(th, id, e)
           \/ AutoCreateAgent(th) \/ ReduceAgent(th) \/ WriteAgent(th)
<1> USE DEF shared, tables, ruleVars, agentVars
<1>1. CASE Asking(th) \/ WriteRevokedRule(th)
  BY <1>1, AskingEffect, WriteRevokedEffect
<1>2. CASE \E scope \in AuthScope : RecordIncident(th, scope)
  BY <1>2 DEF RecordIncident
<1>3. CASE ClaimNonce(th) \/ AddEvent(th) \/ ReadAgent(th) \/ RevokeScope(th)
  BY <1>3 DEF ClaimNonce, AddEvent, ReadAgent, RevokeScope
<1>4. CASE Deliberating(th) \/ Collecting(th)
  BY <1>4, DeliberatingEffect, CollectingEffect
<1>5. CASE (\E t \in TokenId : Mint(th, t)) \/ AuditEvent(th)
  <2>1. \A t \in TokenId : Mint(th, t) =>
           wiring' = wiring /\ heap' = heap /\ agents' = agents
    BY MintEffect
  <2>2. AuditEvent(th) => wiring' = wiring /\ heap' = heap /\ agents' = agents
    BY DEF AuditEvent
  <2> QED
    BY <1>5, <2>1, <2>2
<1>6. CASE ApplyDecision(th) \/ Answering(th)
  BY <1>6
     DEF ApplyDecision, Answering, AuditDecision, RecommendFor, AuditRecommendation
<1>7. CASE \E r \in RuleId : WriteRule(th, r)
  BY <1>7, WriteRuleEffect
<1>8. CASE AddRule(th)
  BY <1>8 DEF AddRule
<1>9. CASE Finishing(th)
  BY <1>9 DEF Finishing, AuditRegistration, AuditTrust, AuditApproval,
     AuditRevocation, AuditIncident, Raise
<1> QED
  BY <1>1, <1>2, <1>3, <1>4, <1>5, <1>6, <1>7, <1>8, <1>9 DEF Serving

\* A low record is constructed: in memory it is a new object, in a table nothing
\* is there yet.
LEMMA ConstructKeepsLow ==
    ASSUME Types, AgentsLow, wiring' = wiring, NEW record \in AgentRecord,
           Construct(record),
           \A task \in Task : record.level[task] <= EXECUTE_WITH_APPROVAL
    PROVE  wiring = "memory" => \A i \in 1 .. Len(heap') : Low(i)'
<1> HAVE wiring = "memory"
<1>1. heap' = Append(heap, record) /\ heap \in Seq(AgentRecord)
  BY DEF Construct, Types, AgentsOK
<1>2. Len(heap') = Len(heap) + 1 /\ heap'[Len(heap) + 1] = record
      /\ \A i \in 1 .. Len(heap) : heap'[i] = heap[i]
  BY <1>1
<1>3. ASSUME NEW i \in 1 .. Len(heap') PROVE Low(i)'
  <2>1. CASE i = Len(heap) + 1
    BY <1>2, <2>1 DEF Low, AgentSeen
  <2>2. CASE i # Len(heap) + 1
    <3>1. i \in 1 .. Len(heap)
      BY <1>1, <1>2, <1>3, <2>2
    <3> QED
      BY <1>2, <3>1 DEF AgentsLow, Low, AgentSeen
  <2> QED
    BY <2>1, <2>2
<1> QED
  BY <1>3

LEMMA AgentsStayLow ==
    ASSUME RegisteredLow, Types, FenceInv, AgentsLow, [Next]_vars
    PROVE  AgentsLow'
<1>1. ASSUME wiring' = wiring, heap' = heap, agents' = agents PROVE AgentsLow'
  BY <1>1 DEF AgentsLow, Low, AgentSeen
<1>2. ASSUME wiring' = wiring, heap' = heap, NEW a \in Agent,
             NEW agent, HasAgent(agent), Low(agent),
             agents' = [agents EXCEPT ![a] = agent]
      PROVE  AgentsLow'
  <2>1. agents'[a] = agent /\ \A b \in Agent : b # a => agents'[b] = agents[b]
    BY <1>2 DEF Types, AgentsOK
  <2> QED
    BY <1>2, <2>1 DEF AgentsLow, Low, AgentSeen
<1>3. ASSUME NEW th \in Thread, Serving(th) PROVE AgentsLow'
  <2>1. CASE \E reg \in Registration : RegisterAgent(th, reg.agent, reg.record)
    <3>1. PICK reg \in Registration : RegisterAgent(th, reg.agent, reg.record)
      BY <2>1
    <3>2. PICK a, record : a = reg.agent /\ record = reg.record
      OBVIOUS
    <3>3. /\ a \in Agent /\ record \in AgentRecord
          /\ \A task \in Task : record.level[task] <= EXECUTE_WITH_APPROVAL
      BY <3>2, ControlPlaneAssumption DEF RegisteredLow
    <3>4. /\ Construct(record) /\ wiring' = wiring
          /\ agents' = [agents EXCEPT ![a] = NewAgent(record)]
      BY <3>1, <3>2 DEF RegisterAgent, tables
    <3>5. CASE wiring = "memory"
      BY <3>3, <3>4, <3>5, ConstructKeepsLow DEF AgentsLow, Low
    <3>6. CASE wiring # "memory"
      <4>1. agents'[a] = record /\ \A b \in Agent : b # a => agents'[b] = agents[b]
        BY <3>3, <3>4, <3>6 DEF Types, AgentsOK, NewAgent
      <4> QED
        BY <3>3, <3>4, <3>6, <4>1 DEF AgentsLow, Low, AgentSeen
    <3> QED
      BY <3>5, <3>6
  <2>2. CASE \E id \in EventId, e \in EventBody : ProposeEvent(th, id, e)
    <3>1. PICK id \in EventId, e \in EventBody : ProposeEvent(th, id, e)
      BY <2>2
    <3>2. /\ wiring' = wiring /\ agents' = agents
          /\ Construct(AutoCreated(e)) \/ heap' = heap
      <4>1. PICK h : Opens(h, id, e)
        BY <3>1, ProposeEffect
      <4>2. Construct(AutoCreated(e)) \/ heap' = heap
        BY <4>1 DEF Opens
      <4> QED
        BY <3>1, <4>2 DEF ProposeEvent, tables
    <3>3. CASE heap' = heap
      BY <1>1, <3>2, <3>3
    <3>4. CASE Construct(AutoCreated(e))
      <4>1. PICK record : record = AutoCreated(e)
        OBVIOUS
      <4>2. /\ record \in AgentRecord
            /\ \A task \in Task : record.level[task] <= EXECUTE_WITH_APPROVAL
        BY <4>1, AutoCreatedIsRecord DEF OBSERVE_ONLY, EXECUTE_WITH_APPROVAL
      <4>3. wiring = "memory" => \A i \in 1 .. Len(heap') : Low(i)'
        BY <3>2, <3>4, <4>1, <4>2, ConstructKeepsLow
      <4> QED
        BY <3>2, <4>3 DEF AgentsLow, Low, AgentSeen
    <3> QED
      BY <3>2, <3>3, <3>4
  <2>3. CASE AutoCreateAgent(th)
    <3>1. PICK agent, a : agent = call[th].agent /\ a = call[th].body.agent
      OBVIOUS
    <3>2. /\ wiring' = wiring /\ heap' = heap
          /\ agents' = [agents EXCEPT ![a] = agent]
      BY <2>3, <3>1 DEF AutoCreateAgent, tables
    <3>3. call[th] # None /\ Typed(call[th]) /\ call[th].op = "propose"
          /\ call[th].step = "create"
      BY <2>3, HandlerAt DEF AutoCreateAgent
    <3>4. a \in Agent /\ HasAgent(agent) /\ Low(agent)
      BY <3>1, <3>3, ControlPlaneAssumption DEF Typed, FenceInv, FencedHandlerOK
    <3> QED
      BY <1>2, <3>2, <3>4
  <2>4. CASE WriteAgent(th)
    <3>1. PICK agent, a : agent = call[th].agent /\ a = call[th].scope[1]
      OBVIOUS
    <3>2. /\ wiring' = wiring /\ heap' = heap
          /\ agents' = [agents EXCEPT ![a] = agent]
      BY <2>4, <3>1 DEF WriteAgent, tables
    <3>3. call[th] # None /\ Typed(call[th]) /\ call[th].op = "incident"
          /\ call[th].step = "write_agent"
      BY <2>4, HandlerAt DEF WriteAgent
    <3>4. a \in Agent /\ HasAgent(agent) /\ Low(agent)
      BY <3>1, <3>3, TaskOfScope DEF Typed, FenceInv, FencedHandlerOK
    <3> QED
      BY <1>2, <3>2, <3>4
  <2>5. CASE ReduceAgent(th)
    <3>1. wiring' = wiring /\ agents' = agents /\ KeepsLow
      BY <2>5, LowReduce DEF ReduceAgent, tables, ReductionSettles
    <3>2. CASE wiring = "memory"
      <4>1. Len(heap') = Len(heap)
        BY <2>5, <3>2, ReduceEffect DEF Types, AgentsOK
      <4>2. ASSUME NEW i \in 1 .. Len(heap) PROVE Low(i)'
        BY <3>1, <3>2, <4>2 DEF KeepsLow, HasAgent, AgentsLow
      <4> QED
        BY <3>1, <3>2, <4>1, <4>2 DEF AgentsLow
    <3>3. CASE wiring # "memory"
      BY <3>1, <3>3 DEF AgentsLow, Low, AgentSeen
    <3> QED
      BY <3>2, <3>3
  <2> QED
    BY <1>1, <1>3, <2>1, <2>2, <2>3, <2>4, <2>5, AgentSteps
<1>4. CASE \E t \in TokenId : Enforce(t)
  BY <1>1, <1>4, EnforceEffect DEF shared, tables, agentVars
<1>5. CASE \E p \in Replica : Restart(p)
  BY <1>1, <1>5, RestartEffect DEF shared, tables, agentVars
<1>6. CASE UNCHANGED vars
  BY <1>1, <1>6 DEF vars, shared, tables, agentVars
<1> QED
  BY <1>3, <1>4, <1>5, <1>6, Steps

\* The fence around an incident's scope holds, however the handlers of the
\* proposals, approvals and other incidents interleave: where agents were
\* registered without execution rights of their own, as the API does, or have one
\* task, so that what one handler wrote of it no other handler writes back.
THEOREM FencesHold ==
    ASSUME OneTask \/ RegisteredLow
    PROVE  Spec => []FencedProposalNeverMints
<1> DEFINE Inv == /\ Types /\ IncidentsOK /\ FenceInv
                  /\ ReductionSettles
<1>1. Init => Inv
  <2>1. ASSUME Init PROVE FenceInv
    BY <2>1 DEF Init, FenceInv
  <2>2. ASSUME Init PROVE AgentsLow
    BY <2>2 DEF Init, AgentsLow
  <2> QED
    BY <2>1, <2>2, InitTypes DEF Init, IncidentsOK, ReductionSettles
<1>2. Inv /\ [Next]_vars => Inv'
  <2>1. ASSUME Inv, [Next]_vars PROVE Types' /\ IncidentsOK' /\ FenceInv'
    BY <2>1, StepTypes, StepIncidents, StepFences
  <2>2. ASSUME Inv, [Next]_vars PROVE ReductionSettles'
    <3>1. CASE OneTask
      BY <3>1 DEF ReductionSettles
    <3>2. CASE AgentsLow /\ RegisteredLow
      BY <2>2, <3>2, AgentsStayLow DEF ReductionSettles
    <3> QED
      BY <2>2, <3>1, <3>2 DEF ReductionSettles
  <2> QED
    BY <2>1, <2>2
<1>3. Inv => FencedProposalNeverMints
  BY DEF FenceInv, FencedHandlerOK, FencedProposalNeverMints, At
<1> QED
  BY <1>1, <1>2, <1>3, PTL DEF Spec

=============================================================================
