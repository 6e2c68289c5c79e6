# A TLA+ model of the Universal Earned Autonomy Layer

This directory specifies the program under `src/earned_autonomy` in TLA+. It
contains one module per component, TLC configurations that check the modules on
small instances, and proofs that TLAPS checks for every instance. The program
decides whether an AI agent's proposed action may proceed, hands out signed
one-use permissions for the actions that may, and lets the agent earn more
autonomy as humans approve its work.

Paths below are relative to `src/earned_autonomy`.

## 1. The system

### Parts, state, operations

| Part | Source | State | Operations |
|---|---|---|---|
| Authority ontology | `core/ontology.py`, enums of `core/models.py` | tables only | risk, consequence rank, ceiling, separation of duties of a class |
| Classifier | `core/classifier.py` | none | raises the base risk of an event |
| Delegation rules, guards | `core/models.py`, `core/conditions.py` | none | `DelegationRule.matches`, `evaluate_guards` |
| Policy engine | `core/policy.py` | boundary rules | `evaluate`: event, stored level, rule → decision |
| Delegation memory | `core/trust.py` | statistics and decided events per (agent, workflow, class), in the process only | `get`, `apply_decision`, `record_incident` |
| Recommendation engine | `core/recommendations.py` | none | `recommend`: level and statistics → level |
| Capability service and state | `core/capability.py`, `core/capability_store.py` | issued / consumed / revoked markers, in memory or in SQL | `mint`, `verify_for_action`, `revoke`, `revoke_scope`, `purge_expired` |
| Enforcement point | `enforcement/pep.py` | none | `execute`: verify the token, run the action |
| Control plane | `core/control_plane.py` | through the stores | register, propose, decide, approve / revoke a rule, incident, recommend |
| Store | `storage/sql.py`, `storage/memory.py` | agents, events, rules, nonces | one row per call |
| Audit ledger | `core/ledger.py`, `core/ledger_sql.py` | a hash-chained list of records, in a file or a table | `append`, `verify`, checkpoints |
| API, auth, configuration | `api/server.py`, `api/auth.py`, `config.py` | which process runs, with which issuer key, and where each part of the state lives | start (wiring), authenticate, check the role, serve an endpoint, stop |
| Agent SDK | `enforcement/sdk.py` | none | sign and propose an event, present the action with its token |
| Crypto, metrics, CLI | `crypto/`, `observability/`, `cli.py`, ... | none of interest | signing, counters, output |

### How they interact

`propose_event` is the main path: look the agent up, claim the event's nonce,
store the event, find a matching rule, classify and evaluate, mint a token if
the decision is `allowed` or `sample_review`, append the audit record, answer.
The agent takes the token to an enforcement point, which verifies and consumes
it and runs the action. Humans answer proposals (`submit_decision`), which feeds
the delegation memory and the recommendation; a recommendation becomes a
delegation rule only through `approve_delegation_rule`. `record_incident` undoes
autonomy: it counts the incident, lowers the stored level, deactivates the
scope's rules and revokes its outstanding tokens.

With a database, several replicas share the SQL store, the SQL capability state
and the SQL ledger. Each store call is its own transaction; no transaction spans
a handler. The delegation memory stays local to each process. In a process the
API serves requests from a thread pool. Without a database everything is in
dictionaries of the one process, a read returns the live object, and a restart
forgets all of it (the ledger is reloaded if it has a file). The settings choose;
they also choose the issuer key (configured, or new with each process) and who is
believed (an identity provider, or tokens signed with a development secret).

### What is hard here

- **Concurrent enforcement points** race for a single-use token, against
  revocation, expiry and purging, over three separate accesses to the state.
- **Handlers interleave**: a proposal that read a rule is not told of the
  incident that deactivates it; whole-row writes of an agent overwrite each
  other.
- **Live objects**: in memory, handlers change what other handlers hold, and a
  loop over the rules raises when a rule is inserted meanwhile.
- **Partial failure**: any store call may raise, and nothing is undone.
- **Restarts** lose the delegation memory, and everything else on the memory
  wiring; **replicas** do not share it.
- **Settings** have to agree: three places read the database URL, keys decide
  whether old tokens and shared ledgers are still accepted.
- **Unlocked shared state**: the delegation memory and the file ledger are used
  by threads without a lock.
- **Boundaries**: ceilings, sample sizes and bounds of the ladder interact.

`PROJECT.json` lists these hazards one by one with the line where each bites and
the properties about it.

### What makes each part correct

- Capability: one use per single-use token; nothing revoked is consumed; a call
  made after a revocation or the expiry never runs; only in-scope use; every call
  returns.
- Policy: no level or rule lets a critical class execute without a human;
  execution is earned; climbing never tightens.
- Trust: statistics count distinct events, incidents stay, lifts rest on clean
  approvals within the ceiling.
- The proposed rule does what its reason says.
- Control plane: one token per nonce; after an incident no new authorization and
  no active rule; no execution that is not in the ledger; a token admits the
  action it was asked for.
- Deployment: single use, withdrawal, replay protection and separation of duties
  across replicas and restarts; nobody unaccountable authorizes an execution.
- Ledgers: what is written verifies, stays, and holds whatever `append` returned
  for.

## 2. The modules

| Module | Models | How |
|---|---|---|
| `Scope` | constraint language of rules and tokens | operators `Meets`, `Matches`, `InScope` |
| `Ontology` | `ontology.py` | the tables, as functions of the class |
| `Policy` | classifier, guards, engine | `ClassifiedRisk`, `evaluate_guards`, `Evaluate`; pure |
| `PolicyEngine` | one decision on an arbitrary request | state machine around `Evaluate`, used by `MCPolicyEngine` |
| `Trust` | statistics and recommendation | `Counted`, `LowerBoundAtLeast`, `Recommend`; pure |
| `TrustLadder` | the history of one scope, and the rule proposed at its end | one action per outcome of a decision (the two approvals, which count alike, share one) and one for an incident; the proposed rule is put to `Policy` |
| `DelegationMemory` | `trust.py` under preempted threads | objects on a heap, a dictionary entry, steps of `get` and `apply_decision` |
| `CapabilityStore` | both backends of the capability state | each operation atomic, as its lock or transaction makes it |
| `Capability` | the service and enforcement points | `execute` as steps of a thread |
| `OnceOnlyGrant` | *abstract*: a grant is live, used or dead, and runs at most once | implemented by `Capability` on the SQL state |
| `ControlPlane` | all handlers on both wirings, `storage/sql.py`, `storage/memory.py` | each handler is a sequence of steps, one per transaction, or one per stretch between preemptions in memory |
| `Deployment` | `api/server.py`, `api/auth.py`, `config.py`: processes over time | a request is one step; state lives at a `Place`: the database, the ledger file, or a process |
| `HashChain` | records and `verify` | shared by the two ledgers |
| `AuditLedger` | the file ledger | list and file apart, threads, failed writes, restarts |
| `SqlAuditLedger` | the SQL ledger | `append` as a transaction and its end: lock, read, insert, commit, return; the dialect's lock, the primary key |
| `AppendOnlyChain` | *abstract*: facts recorded once, in order, for good | implemented by the file and by the table |
| `CapabilityProofs`, `DelegationMemoryProofs`, `ControlPlaneProofs`, `DeploymentProofs`, `AuditLedgerProofs`, `SqlAuditLedgerProofs` | theorems about the module they are named after | section 4 |
| `PolicyProofs` | theorems about `PolicyEngine` and `TrustLadder` | section 4 |
| `PolicyLemmas` | lemmas about the operators of `Policy`, `Trust`, `Ontology` | cited by `PolicyProofs`, `ControlPlaneProofs`, `DeploymentProofs` |
| `MC*` | instances for TLC | model values, symmetry |

`Capability` extends `CapabilityStore` extends `Scope`. `ControlPlane` composes
`Policy` (hence `Ontology`, `Scope`), `Trust` and `CapabilityStore`: it uses the
same operators the component modules are checked with. `TrustLadder` extends
`Trust` and `Policy`, `Deployment` extends `Policy`. The definitions of
`TrustLadder` have names of their own (`LadderSpec`), so that `PolicyProofs` can
extend it beside `PolicyEngine`. `A bug:` comments mark
variants of a definition with a plausible mistake in it. Nothing refers to them;
they document what each property would catch when substituted.

### Modelling decisions

- **Atomicity.** One locked section, one transaction or one stretch of thread-
  local computation per action. In the capability protocol these are:
  `is_revoked`; clock and scope tests; `try_consume`; the second `is_revoked`
  for the reason; the action itself.
- **Preemption.** `DelegationMemory` and `AuditLedger` model CPython threads
  under the global lock: a thread is preempted at calls of functions written in
  Python (constructing `TrustStats` or `AuditRecord`, hashing) and after calls
  of built-ins (`append`, `write`). A test and the statement after it with no
  call between them are one step.
- **The two wirings** of `ControlPlane` differ where the code does. In SQL a read
  copies the row (`agents` holds records); in memory it returns the object
  (`agents` holds indices into `heap`, and `AgentSeen` looks at the object as it
  is now). Objects are compared by place because an auto-created agent can be
  replaced in the dictionary while a handler still holds the old one. In memory
  the level is read before the loop over the rules (`ReadLevel`), `matches` of each
  rule is a call and so a place of preemption (`TestRule`), and `rules_for` is one
  loop without calls that can still be preempted between its turns (`BeginScan`,
  `EndScan`). The loop raises if the dictionary has grown (`size`): rules are only
  ever added or written back under their key. `claim_nonce` holds a lock. The two
  capability backends agree while nothing is purged, so `Backend` is one constant
  there; `DelegationMemory`'s own preemption is not repeated. `propose_event` adds
  the agent's approved workflows to the event's metadata: the engine sees them
  (`WithKnownWorkflows`); that in memory they also stay in the stored event, which
  nothing evaluates again, is left out.
- **Requests in `Deployment`** are atomic: their interleaving is `ControlPlane`'s
  subject, and this module is about what survives a process and what is shared.
  Only one process runs at a time without a database
  (`docs/PRODUCTION_DEPLOYMENT.md:28-29`).
- **Tokens and signatures.** A token is its id plus what is signed. A signature
  is valid exactly if the presented grant is the minted one.
- **Hashes.** A record's hash stands for its content and its predecessor's
  hash; records have ids of their own, so in `HashChain` the recorded fact
  represents the hash.
- **Numbers.** Rates are compared as integers (`LowerBoundAtLeast` is the Wilson
  bound with z = 1.96 = 49/25 squared out); confidence and rates are percents.
- **Metadata** is a function from keys to values; `get` of a missing key is
  `None`. Free text is one Boolean, "a lexical pattern matches".
- **Ids** are fresh uuids: no two calls in progress share one.
- **Failures.** `Abandon`, `Raise` and `Rollback` end a call at any step;
  `Restart` kills the process. In the SQL ledger a failure up to the COMMIT undoes
  the row (`Rollback`), one between the COMMIT and the return does not
  (`AnswerLost`). None of them is fair: nothing must fail.
- **Ledger in the control plane** is the set of recorded facts; the chain itself
  is the subject of the ledger modules.
- **No clock in the control plane.** Expiry and purging are `Capability`'s
  subject; there an `Enforce` step is one successful call of an enforcement
  point.
- **History variables** (`wins`, `withdrawn`, `late`, `fenced`, `quiet`,
  `settled`, `orderly`, ...) record what happened for the properties; no guard
  reads them, except that some bound the set of facts or calls.

## 3. What the runs check

Passing runs:

| Run | Question | Properties |
|---|---|---|
| `capability_sql` | Does the SQL capability state keep its promises while two enforcement points, revocations, a purging replica with a fast clock and abandoned calls interleave? | `TypeOK`, `OnceOnly`, `NoLateRun`, `OnlyScopedUse`, `ImplementsOnceOnlyGrant` |
| `capability_memory` | And on the in-memory state without purging (single use there is proved, section 4): are refusals truthful, do calls return? | `RefusalReasonTrue`, `CallReturns` |
| `policy` | What can the decision function allow, over every class, level, rule and kind of event? | `CriticalNeedsHuman`, `DefaultsCoverHighRisk`, `ExecutionIsEarned`, `ClimbingNeverTightens` |
| `trust_ladder` | What history lifts a recommendation, and what does the proposed rule then allow? | `LiftsRestOnCleanApprovals`, `ProposalTakesEffect`, `ApprovalNeverLowers` |
| `delegation_memory` | What can unlocked threads do to the statistics? | `TypeOK`, `NeverInflated`, `NothingForgotten` |
| `control_plane` | Do handlers of two replicas, or of two threads on live objects, raising and restarting anywhere, keep authorization in order? | `TypeOK`, `OneTokenPerNonce`, `FencedProposalNeverMints`, `NoUnauditedExecution`, `IncidentEndsRules`, `WhatWasProposedMayRun` |
| `deployment` | Which promises survive restarts, replicas and every combination of settings, and whose word are they based on? | `TypeOK`, `SingleUse`, `WithdrawalLasts`, `EventRunsOnce`, `ExecutionTracesToAdmin`, `SeparationOfDuties`, `EveryReplicaVerifies` |
| `audit_ledger` | Does the file ledger survive crashes, and what exactly breaks its chain? | `TypeOK`, `LedgerVerifies`, `CheckpointsHold`, `ReturnedSurvives`, `ImplementsAppendOnlyChain` |
| `sql_ledger` | Is the SQL ledger one chain, with the lock and without? | `TypeOK`, `LedgerVerifies`, `NeverCollides`, `ImplementsAppendOnlyChain`, `AppendReturns` |

Some of the properties are worth a word because they show precisely how far a
promise reaches:

- `LedgerVerifies` and `CheckpointsHold` (file ledger) hold as long as appends do
  not overlap and no line fails (`orderly`). Two overlapping appends number two
  records alike, and a line that cannot be written leaves its record in the list
  only; either way `verify()` is false from then on. `ReturnedSurvives` and
  `ImplementsAppendOnlyChain` hold without any condition.
- `LedgerVerifies` (SQL ledger) says that the committed rows are one chain and hold
  every fact `append` returned for, and not the converse: when the connection
  breaks after the COMMIT, or the process dies, the row is there and its `append`
  failed. The chain goes on from such a row and still verifies. A caller that
  appends again records the fact a second time, under another record id.
- `NothingForgotten` (incidents stay, events are decided once) is about calls that
  began after the first touch of their scope. During the first touch two threads
  may both find the key missing; the later object replaces the earlier one and
  what it counted (an incident, a decided event). `NeverInflated` holds throughout.
- `NoLateRun` is about calls made after the token was revoked or had expired: none
  runs its action. It says nothing of a call that was in progress by then. It excepts
  reusable tokens purged by a clock that runs ahead while others still accept them
  (`StillReusable`): their marker is really lost. The control plane only mints single-use tokens, for which the missing
  row itself refuses consumption.
- `FencedProposalNeverMints` and `IncidentEndsRules` are about incidents that
  were answered, of agents that exist. An incident that raised half-way (in SQL
  anywhere, in memory when a rule was approved during its scan) may have lowered
  the level and left the rules active.
- `SingleUse` and `WithdrawalLasts` except one combination of settings
  (`Forgetful`): a configured issuer key and no database. There a restarted
  process accepts, until it expires, a token that was consumed or revoked before.
  With a key of its own the new process refuses the old tokens, with a database it
  remembers. `EventRunsOnce` likewise needs a database.
- `SeparationOfDuties` compares with the owner last registered anywhere in the
  deployment, although the code asks the store of one process.

Runs that show a disagreement between the code and what it says:

| Run | Property | What happens |
|---|---|---|
| `memory_purge` | `OnceOnly` | in-memory state with purging: a call between its expiry test and `try_consume` consumes a token again, because the purge dropped the consumed marker (`capability.py:97-98` calls this safe) |
| `in_flight_proposal` | `NoExecutionAfterIncident` | a proposal evaluated before an incident mints after it, and the token is accepted (`CHANGELOG.md:82`) |
| `lost_incident` | `FencedProposalNeverMints` | two incidents on different classes of one agent: the later whole-row write restores the level the earlier one lowered (`control_plane.py:293-294`). It needs a stored level above the approval rung, which a library caller can register and the API cannot |

Read from the code while modelling, with no run of their own:

- a rule may be approved for an agent nobody registered, and an incident of such
  an agent leaves it active (`control_plane.py:279`, against the comment at
  291-293); it lifts the agent as soon as its first event creates it;
- the condition of the proposed rule, `evidence_required`, is matched against the
  event's metadata, where nothing but the proposer puts it
  (`recommendations.py:128`), and for high-risk classes the default boundary rules
  decide before any rule does;
- strict mode accepts `database_url = "memory"`, its default (`config.py:15`),
  with the configured keys it insists on: the `Forgetful` combination above;
- an owner registered after an approval is not compared with the approver
  (`control_plane.py:186-188`, `231`);
- `approver_id` and `actor_id` of the request bodies are ignored in favour of the
  credential's subject;
- an expired token can be consumed if the clock passes the expiry after the test
  (`capability.py:98` says never); not by a call made after the expiry (`NoLateRun`);
- at the three lowest rungs an event that declares `requires_execution = False`
  is allowed, and gets a token, even for low- and medium-risk classes that change
  state (`docs/AUTONOMY_LADDER.md:8`);
- the sample sizes are compared with all decisions, so a rejection can be the one
  that reaches the threshold (`recommendations.py:34` says clean decisions), and
  a high-risk class can be recommended for sampling after sixty decisions
  (`docs/TRUST_MODEL.md:31-33` says never);
- "one-per-event decisions" (`SECURITY.md:14-15`) holds per process only, and the
  recommendation of another replica, or after a restart, knows of no incident.

### Bounds and why they are enough

| Bound | Value | Why |
|---|---|---|
| `Thread`, `MaxCalls` (`capability_sql`) | 2, 2 | every race in the code is between one call and one other actor; revocations, purges and mints are actions of their own, unbounded |
| `TokenId` | 2 | one single-use and one reusable token, or two of a kind |
| `MaxTime`, `TTL`, `Skew` | 2, {1}, 1 | before, at and after expiry; a purge ahead of the clock |
| `MaxCalls` (`capability_memory`) | 3 | a retry after a race, a third caller |
| `MaxClean` | 130 | beyond the largest sample size of a low class (120) |
| `MaxModified`, `MaxRejections`, `MaxIncidents` | 4, 4, 1 | both sides of the edit-rate and rejection limits near each small threshold; incidents count as none or some |
| `MaxEscalations`, `MaxEvidenceRequests` | 1, 1 | either only enlarges the total; with both, a sample size can be reached by decisions that say nothing of the work |
| `Current` | {0, 3, 5} | below, at and above the approval rung |
| `MaxCalls`, `Object` (`delegation_memory`) | 4, 3 | three threads in the first touch, or two in it and two after it |
| `MaxRequests` (`control_plane`) | 4 | registration, rule, incident and a proposal, any two at once; retries of one nonce |
| `EventId`, `TokenId`, `RuleId` (`control_plane`) | 2, 2, 2 | two proposals of one nonce; a rule inserted while another is looked at, one revoked while another is found |
| `MaxStarts`, `MaxRequests`, `Process` (`deployment`) | 3, 5, 2 | two replicas and a restart of one, or three lifetimes of one process; register, approve a rule, propose, an incident, propose again |
| `Credential`, `EventBody`, `RuleBody` (`deployment`) | 6, 2, 2 | an owner, an administrator and the gateway, each vouched for by the provider or homemade; a class that can be delegated and one with separation of duties |
| `Fact`, `CheckpointEvery` | 4, 2 | two checkpoints, records before and after a restart |
| threads of the ledgers | 2 and 3 | one holder, one waiter, one that failed |

The `policy` run has no bound except its inputs: all 23 classes, 8 levels, one
metadata key at a time, evidence and confidence on either side of each guard,
and rules without guards, with the proposed guards, and with an unknown one.

Symmetry is used over threads, tokens, events and objects where only invariants
and action properties are checked. Deadlock is not checked: every bounded model
stops when its calls or facts are used up, and the real system idles.

### Fairness

- `Capability!FairSpec`: weak fairness of `Advance(th)` for each thread. A call
  in progress holds no lock between its steps and waits for nobody, so all it
  needs is to be scheduled.
- `SqlAuditLedger!FairSpec`: weak fairness of `Advance(th)`. A transaction
  that holds the lock can always take its next step or fail; the database
  releases the lock in both cases. Without the lock an insert waits for a
  transaction that inserted the same number, and that one has only its COMMIT left.
  Weak fairness suffices for the bounded number
  of appends: a waiter is overtaken only finitely often.

No other module states fairness. Failures are never fair.

## 4. What is proved

Every safety invariant, action property and refinement that a passing run checks
is also a theorem: for every value of the constants, so for any number of
threads, replicas, tokens, agents, events, rules and requests, and whatever the
bounds on histories. What remains to TLC is named at the end. Each theorem rests
on an inductive invariant; the strengthenings that are not evident (`OnceInv`,
`WithdrawnInv`, `ReasonInv`, `CountsOK`, `SettledOK`, ...) were checked by TLC as
invariants of the component's run before they were proved.

The proofs are laid out alike. The steps of an action are first described in an
*effect* lemma, pointwise: what the acting thread's variables become, and a named
frame (`Others`, `Alone`, `SameCall`, ...) for what it leaves alone. The lemma that
an invariant is kept has one step per action and cites the effects.

Assumptions common to all: those declared with the constants (`...Assumption`),
which give types and say that `None` is not a value of a type it is mixed with. TLC
evaluates all of them. A theorem that assumes more says so below.

### Capability protocol (`CapabilityProofs`)

| Theorem | Property | Assumes also |
|---|---|---|
| `TypeCorrect` | `TypeOK` | |
| `SingleUseRunsOnce` | `OnceOnly` | `Backend = "sql" \/ ~Purging` |
| `UseStaysInScope` | `OnlyScopedUse` | |
| `LateCallsNeverRun` | `NoLateRun` | `Backend = "sql" \/ ~Purging` |
| `RefusalsTellTheTruth` | `RefusalReasonTrue` | `~Purging` |
| `TokensImplementOnceOnlyGrant` | `ImplementsOnceOnlyGrant` | `Backend = "sql" \/ ~Purging` |

The hypotheses are those of the runs. On the memory backend a purge forgets
markers, and `memory_purge` is the counterexample to `OnceOnly`. A purge on SQL
deletes the row, after which `try_consume` answers "already consumed" of a token
nobody used: hence the hypothesis on the reasons.

- `OnceOnly` (at most one win, no more runs than wins) says nothing of the state
  that makes the second win impossible, nor of the call that has won and not yet
  run. `OnceInv` adds that a won token is *burnt* (its marker is present or, on SQL,
  its row gone); that while a thread stands before the action of a single-use token
  the token is won and has not run and no other thread stands there; and that a
  thread at `try_consume` presents a single-use token.
- `ScopeInv`: after each test of `verify_for_action` what it tested is still so,
  because neither grants nor requests change. The action property follows from it.
- `WithdrawnInv`: a withdrawn token is *void* for good (revoked, expired, or gone from
  the bookkeeping), a late call presents a void token, and a purge by a clock that
  runs ahead makes the histories forget with it. The marker is read before the clock
  and the clock before consumption (`LateInv`): a late call that did not see the
  marker holds a token that is expired or gone, one that passed the clock test too
  holds one that is gone, and `try_consume` refuses it.
- The refinement maps a token to `live`, `used` or `dead`. `MintedInv` (only minted
  tokens are marked) and `OnceInv` make each step one step of the abstract grant
  or none.

### Policy and recommendations (`PolicyProofs`, `PolicyLemmas`)

| Theorem | Property |
|---|---|
| `CriticalIsNeverExecuted` | `CriticalNeedsHuman` |
| `ExecutionAlwaysEarned` | `ExecutionIsEarned` |
| `HighRiskNeverProceeds` | `DefaultsCoverHighRisk` |
| `ClimbingIsSafe` | `ClimbingNeverTightens` |
| `TrustRestsOnCleanApprovals` | `LiftsRestOnCleanApprovals` |
| `CleanWorkNeverLowers` | `ApprovalNeverLowers` |
| `ApprovedProposalsTakeEffect` | `ProposalTakesEffect` |

The engine's machine decides once, so its invariant is short (`Decided`: the
decision held is the engine's on the request held); the work is in the engine,
whose three ways to decide are a lemma each:

1. `BoundaryStops`: where a boundary matches, the first one decides, and it lets
   nothing proceed. That a first one exists is `LeastNatural`, by the
   well-foundedness of strict inclusion of finite sets;
2. `GuardStops`: where a rule that lifts the level has a guard that fires, a human
   is asked;
3. `LadderDecides` and `Rungs`: otherwise the rung of the effective level decides,
   and `Effective` bounds that level by the ceiling of the event's class.

Climbing is safe because a rule that lifts a level also lifts every lower one, so
whatever stops the higher stops the lower, and the effective level is monotone.

The recommendation theorems are about the Wilson bound over histories of any
length, of incidents and decisions of every outcome (`MaxClean`, `MaxEscalations` and
the other bounds are arbitrary numbers). Full delegation rests on nineteen clean
approvals for every decision of any other kind, escalations included: the engine
divides by the number of all decisions. `BoundMeans` removes the division: with `x = 100 clean - percent n` the bound
is met if `625 x^2 >= 2401 percent (100 - percent) n`. Two consequences carry the
theorems. `SixteenAtLeast`: no history with fewer than sixteen clean decisions
reaches the first rung. `BoundGrows`: one more clean decision keeps a bound that
was met, provided the history is at least as long as the sample size the engine
asks for at that threshold (8 for 80%, 20 for the others); it is false for very
short histories, which is why the sample sizes matter. Recommendations then only
rise (`SupportGrows`), except that a growing total may cross the sample size from
which too many rejections count, and there no rung was supported before
(`ApprovalNeverHurts`).

`PolicyAssumption` includes that a boundary rule blocks, escalates or asks for
approval. The dataclass `BoundaryRule` admits any status: an engine built with a rule
whose status is `allowed` is outside the theorems, and `policy.py`'s docstring says
there is none.

### Delegation memory (`DelegationMemoryProofs`)

`TypeCorrect` (`TypeOK`), `TrustIsEarned` (`NeverInflated`), `SettledScopesRemember`
(`NothingForgotten`). The threads may construct any number of statistics objects for
one scope and install them in any order.

- `CallsOK`: between `get` and its return a call holds a constructed object.
- `CountsOK`: the decisions a statistics object counts and the threads that have
  appended to it and not yet counted make up its decided list; its clean approvals
  and those of these threads that hold an approval are no more than the events of
  the list that somebody approved. The cardinalities are of sets that start empty
  and gain or lose one element at a time, so `Thread` and `EventId` may be infinite.
- `SettledOK`: once a call has found the entry it never changes, so what was
  written to that object stays in the entry.

### Control plane (`ControlPlaneProofs`)

| Theorem | Property | Assumes also |
|---|---|---|
| `TypeCorrect` | `TypeOK` | |
| `EventsAreMintedOnce` | `OneTokenPerNonce` | |
| `ExecutionsAreAudited` | `NoUnauditedExecution` | |
| `ProposedMayRun` | `WhatWasProposedMayRun` | `RanksAgree` |
| `IncidentsEndRules` | `IncidentEndsRules` | |
| `FencesHold` | `FencedProposalNeverMints` | `OneTask \/ RegisteredLow` |

- `Types` types every local of every handler step by step, on both wirings; what
  "the agent" is differs (a copy of a row, or an index into the heap of live
  objects), and `HasAgent` says which.
- `ProposalInv` follows a proposal through its transactions: the claim of the nonce
  precedes the event, the event the token, the ledger record the answer, and the
  token's conditions are those of a rule the event met. Three theorems follow.
- `IncidentsOK`: what an incident has read and swept so far has no active rule left
  behind it, and loses that only to a human's approval, which clears `quiet`.
- `FenceInv`: a fenced scope has no active rule and an agent at approval or below,
  and so has every copy of the agent another handler is about to write back.

`RanksAgree` is about events that state a `consequence_rank` of their own, which the
policy does not look at and the enforcement point compares with that of the class,
and about rules with a condition on that key. `OneTask` says that agents
have one workflow and authority class; `RegisteredLow` that no agent is registered
with a stored level above approval, which is all the HTTP API does: its
registration request has no level (`src/earned_autonomy/api/schemas.py:19-25`), and
no handler raises one. With `RegisteredLow` a further invariant, `AgentsLow`, keeps
every agent there, whatever number of tasks it has, so that no write of a stale copy
can raise one. One of the two is necessary: `lost_incident` is the
counterexample with two tasks and a stored level above approval, where an incident
writes back the level of the other task that it had read before that was lowered.

### Deployment (`DeploymentProofs`)

`TypeCorrect` (`TypeOK`), `TokensRunOnce` (`SingleUse`), `IncidentsLast`
(`WithdrawalLasts`), `ReplaysDoNotRun` (`EventRunsOnce`), `ExecutionsHaveMandate`
(`ExecutionTracesToAdmin`), `OwnersNeverApprove` (`SeparationOfDuties`),
`ReplicasVerify` (`EveryReplicaVerifies`), all from one invariant `Inv`. Its central
part is `MarkersOK`: a process whose capability service would accept a token's
signature also sees the bookkeeping of that token, because keys and markers die
together, or neither does; except on the memory wiring with a configured key. Other
parts: `PlacesOK` (what lives where), `OwnersOK` (the store a process consults
knows the registered owner), `RulesOK` (an active rule has a mandate, a token for
an execution a rule), `ClaimsOK` (claims of nonces), `LedgersOK` (one key per
ledger that will be verified).

### Ledgers (`AuditLedgerProofs`, `SqlAuditLedgerProofs`)

File: `TypeCorrect` (`TypeOK`), `NothingReturnedIsLost` (`ReturnedSurvives`),
`OrderlyLedgerVerifies` (`LedgerVerifies`), `CheckpointsDescribeTheFile`
(`CheckpointsHold`), `FileImplementsAppendOnlyChain` (`ImplementsAppendOnlyChain`).
`AppendInv` holds for any threads and failures; `OrderlyInv` adds, while the appends
do not overlap, that at most one thread is inside `append` and that list and file
differ by at most its record.

SQL: `TypeCorrect` (`TypeOK`), `LockPreventsCollisions` (`NeverCollides`),
`CommittedLedgerVerifies` (`LedgerVerifies`), `TableImplementsAppendOnlyChain`
(`ImplementsAppendOnlyChain`). `TableOK`: rows are numbered without gaps and each
names the row before it. It holds without the lock too, by the primary key, because
what a transaction has inserted and not committed (`PendingOK`) still follows the last
row and nobody else has that number; the lock is needed only for `NeverCollides`
(`LockOK`: the holder is alone between its reads and its commit). Every returned fact
is in the table, for its thread returned from a committed row.

### Only model-checked

- Liveness under fairness: `CallReturns` and `AppendReturns`.
- That the formulas refuted by the runs `memory_purge`, `in_flight_proposal` and
  `lost_incident` fail, which takes a behaviour.

The theorems are about the models: the bounds of section 3 (`MaxCalls`,
`MaxRequests`, ...) are arbitrary numbers in them.

## 5. Plan

Done: the capability protocol with its abstract grant; policy; trust and delegation
memory; the control plane on both wirings, with several rules and conditions that
reach the token; both ledgers; processes, settings, credentials and restarts; and
theorems for the safety properties of all of them.

Left to extend:

1. the enforcement steps of `Capability` composed with the handlers, so that an
   incident meets a call between two of its steps in one model (`Capability` has
   that race against `RevokeScope`, which is all the incident does to it);
2. `DelegationMemory`'s preemption inside `ControlPlane`'s handlers.

Left to prove:

1. `FencedProposalNeverMints` for agents with several tasks and stored levels above
   approval, which only a library caller can register: false as it stands
   (`lost_incident`), it needs a hypothesis on the behaviours, that no two incidents
   of one agent overlap and no registration overlaps an incident;
2. the link between the components: a replica of `Deployment` and the token part of
   `ControlPlane` as implementations of `OnceOnlyGrant`.

## 6. What is not modelled, and why

- Signing and canonical encoding: cryptography is taken at its word (a valid
  signature means the signed value).
- CLI, logging, examples: no state.
- Metrics: in-process counters nothing in the code reads back. Two threads may
  lose a count, and a scrape may mix counts of two moments.
- HTTP: what the schemas and the enumerations reject, the request log, and the
  read-only endpoints, `autonomy_map` among them.
- The agent SDK's explicit overrides of the action context: to the enforcement
  point they are one more request, and `Capability` has requests in and out of
  scope.
- `JsonSnapshotStore`: writes a dump that no code loads.
- `record_sample_review` of the delegation memory and `seen_nonce` /
  `mark_nonce` of the store: nothing calls them.
- Torn lines of the file ledger: a write is whole or fails.
- Reasons, policy names, approver roles, packet texts: data no property tells
  apart.
