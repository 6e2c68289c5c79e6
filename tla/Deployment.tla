----------------------------- MODULE Deployment -----------------------------
(***************************************************************************)
(* Processes of the HTTP API over time: build_control_plane_from_settings  *)
(* and the endpoints of api/server.py, the bearer tokens of api/auth.py    *)
(* and the settings of config.py.  A process starts, serves requests, is   *)
(* stopped or dies, and starts again; with a database several run at once. *)
(*                                                                         *)
(* What the settings decide is where each part of the state lives: in the  *)
(* database, in the ledger's file, or in the process and gone with it, and *)
(* which issuer key signs tokens and audit records.                        *)
(*                                                                         *)
(* A request is one step here: what happens between the steps of a handler *)
(* is ControlPlane's subject, the statistics that decisions feed are       *)
(* DelegationMemory's.  Events are signed with the key of their agent, and *)
(* registrations carry one.  The API registers agents at the bottom of the *)
(* ladder.  There is no clock: tokens do not expire.                       *)
(***************************************************************************)
EXTENDS Policy, FiniteSets

CONSTANTS
    Process,
    Agent, Human,
    EventBody,      \* signed events, with their nonce and human owner
    RuleBody,       \* delegation rules a human may submit
    TokenId,
    Credential,     \* bearer tokens: how they are signed, their subject and roles
    Deployed,       \* the settings considered
    MaxStarts,      \* bound: process lifetimes
    MaxRequests     \* bound: requests served

Settings == [strict : BOOLEAN,      \* strict_mode
             database : BOOLEAN,    \* database_url names one
             ledger_path : BOOLEAN, \* ledger_path is set
             issuer_keys : BOOLEAN, \* both issuer keys are set
             oidc : BOOLEAN,        \* oidc_issuer and oidc_jwks_url are set
             dev_secret : BOOLEAN]  \* dev_auth_secret is set

ASSUME DeploymentAssumption ==
    /\ Deployed \subseteq Settings
    /\ {MaxStarts, MaxRequests} \subseteq Nat
    /\ \A e \in EventBody : e.agent \in Agent /\ e.requires_execution \in BOOLEAN
    /\ "db" \notin Process /\ "file" \notin Process
    /\ None \notin Nat \cup [event : EventBody, signer : Nat]

VARIABLES
    settings,   \* the environment every process is started with
    key,        \* [Process -> its issuer key, None if it is not running]
    state,      \* [Place -> the tables or dictionaries kept there]
    decided,    \* [Process -> events decided through it, in its memory]
    signers,    \* [Place -> keys that signed records of the ledger kept there]
    token,      \* [TokenId -> [event, signer] or None]: tokens agents hold
    starts,     \* process lifetimes so far
    requests,   \* requests served so far
    runs,       \* history: [TokenId -> executions under it]
    withdrawn,  \* history: [TokenId -> its run count at the first incident, or None]
    mandated,   \* history: rules approved by somebody accountable
    owner,      \* history: [Agent -> owner last registered, since state was lost]
    ownCases    \* history: what an owner approved for his own agent

history == <<runs, withdrawn, mandated, ownCases>>
vars == <<settings, key, state, decided, signers, token, starts, requests, owner,
          history>>

Place == Process \cup {"db", "file"}

\* Owners of agents, active rules, claimed nonces, events; the marker sets.
Nothing == [agents |-> [a \in Agent |-> None], rules |-> {}, nonces |-> {},
            events |-> {}, issued |-> {}, consumed |-> {}, revoked |-> {}]

(***************************************************************************)
(* The wiring.                                                             *)
(***************************************************************************)
\* A bug (release 2.0): the database is configured and not used.
InProcess(p) == p

StorePlace(p) == IF settings.database THEN "db" ELSE p

CapabilityPlace(p) == IF settings.database THEN "db" ELSE p

LedgerPlace(p) == IF settings.database THEN "db"
                  ELSE IF settings.ledger_path THEN "file" ELSE p

Running == {p \in Process : key[p] # None}

ConfiguredKey == 0

\* generate_keypair: a key nobody had before.
FreshKey == starts + 1

TypeOK ==
    /\ settings \in Deployed
    /\ key \in [Process -> 0 .. MaxStarts \cup {None}]
    /\ \A q \in Place, t \in TokenId : t \in state[q].issued => token[t] # None
    /\ state["db"].consumed \cup state["db"].revoked \subseteq state["db"].issued
    /\ settings.database => \A p \in Process : state[p] = Nothing
    /\ decided \in [Process -> SUBSET EventBody]
    /\ runs \in [TokenId -> Nat]

Init ==
    /\ settings \in Deployed
    /\ key = [p \in Process |-> None]
    /\ state = [q \in Place |-> Nothing]
    /\ decided = [p \in Process |-> {}]
    /\ signers = [q \in Place |-> {}]
    /\ token = [t \in TokenId |-> None]
    /\ starts = 0
    /\ requests = 0
    /\ runs = [t \in TokenId |-> 0]
    /\ withdrawn = [t \in TokenId |-> None]
    /\ mandated = {}
    /\ owner = [a \in Agent |-> None]
    /\ ownCases = {}

\* A bug: strict mode starts without issuer keys.
MayStartWithoutKeys == TRUE

MayStart == settings.strict => settings.issuer_keys

\* A process begins with empty dictionaries; a ledger with a file loads it.
\* Without a database one process runs at a time (PRODUCTION_DEPLOYMENT.md).
Start(p) ==
    /\ key[p] = None
    /\ starts < MaxStarts
    /\ MayStart
    /\ settings.database \/ Running = {}
    /\ key' = [key EXCEPT ![p] = IF settings.issuer_keys THEN ConfiguredKey
                                                         ELSE FreshKey]
    /\ starts' = starts + 1
    /\ state' = [state EXCEPT ![p] = Nothing]
    /\ decided' = [decided EXCEPT ![p] = {}]
    /\ signers' = [signers EXCEPT ![p] = {}]
    /\ owner' = IF settings.database THEN owner ELSE [a \in Agent |-> None]
    /\ UNCHANGED <<settings, token, requests, history>>

Stop(p) ==
    /\ key[p] # None
    /\ key' = [key EXCEPT ![p] = None]
    /\ UNCHANGED <<settings, state, decided, signers, token, starts, requests, owner,
                   history>>

(***************************************************************************)
(* Authentication and roles.                                               *)
(***************************************************************************)
\* A bug: strict mode does not turn the development fallback off.
AuthenticatesLeniently(cred) ==
    \/ settings.oidc /\ cred.method = "oidc"
    \/ ~settings.oidc /\ settings.dev_secret /\ cred.method = "dev-hmac"

\* A token from the identity provider, or one signed with the development
\* secret; a configured provider is the only one asked.
Authenticates(cred) ==
    \/ settings.oidc /\ cred.method = "oidc"
    \/ /\ ~settings.oidc
       /\ ~settings.strict
       /\ settings.dev_secret
       /\ cred.method = "dev-hmac"

HasRole(cred, role) == role \in cred.roles \/ "admin" \in cred.roles

Serves(p, cred, role) ==
    /\ key[p] # None
    /\ Authenticates(cred)
    /\ HasRole(cred, role)
    /\ requests < MaxRequests
    /\ requests' = requests + 1

Sign(p) == signers' = [signers EXCEPT ![LedgerPlace(p)] = @ \cup {key[p]}]

(***************************************************************************)
(* The endpoints.                                                          *)
(***************************************************************************)
RegisterAgent(p, cred, a, human) ==
    /\ Serves(p, cred, "agent_admin")
    /\ state' = [state EXCEPT ![StorePlace(p)].agents[a] = human]
    /\ owner' = [owner EXCEPT ![a] = human]
    /\ Sign(p)
    /\ UNCHANGED <<settings, key, decided, token, starts, history>>

\* What propose_event leaves in the store before it decides; an unknown agent
\* is created with the owner the event names, except in strict mode.
Accepted(p, e) ==
    LET here == state[StorePlace(p)]
        human == IF here.agents[e.agent] = None THEN e.owner ELSE here.agents[e.agent]
    IN  [here EXCEPT !.agents[e.agent] = human,
                     !.nonces = @ \cup {<<e.agent, e.nonce>>},
                     !.events = @ \cup {e}]

FoundRules(p, e) ==
    LET matching == {r \in state[StorePlace(p)].rules : Matches(r, e)}
    IN  IF matching = {} THEN {None} ELSE matching

\* A 401 leaves nothing behind, so what raises is a guard.  The new token is
\* signed with the key of this process and recorded where its service looks.
ProposeEvent(p, cred, e) ==
    LET here == state[StorePlace(p)] IN
    /\ Serves(p, cred, "agent_gateway")
    /\ here.agents[e.agent] = None => ~settings.strict
    /\ <<e.agent, e.nonce>> \notin here.nonces
    /\ owner' = [owner EXCEPT ![e.agent] = Accepted(p, e).agents[e.agent]]
    /\ \E rule \in FoundRules(p, e) :
          IF Evaluate(default_boundary_rules, e, OBSERVE_ONLY, rule).status
               \in Proceeding
            THEN \E t \in TokenId :
                    /\ token[t] = None
                    /\ token' = [token EXCEPT ![t] = [event |-> e, signer |-> key[p]]]
                    /\ state' = [[state EXCEPT ![StorePlace(p)] = Accepted(p, e)]
                                   EXCEPT ![CapabilityPlace(p)].issued = @ \cup {t}]
            ELSE /\ state' = [state EXCEPT ![StorePlace(p)] = Accepted(p, e)]
                 /\ UNCHANGED token
    /\ Sign(p)
    /\ UNCHANGED <<settings, key, decided, starts, history>>

\* Separation of duties, as far as the store of this process knows the owner.
\* The approver is the subject of the credential, whatever the body says.
OwnerApproves(p, cred, subject) ==
    /\ requires_separation_of_duties(subject.authority)
    /\ state[StorePlace(p)].agents[subject.agent] = cred.subject

\* History: the same, for the owner whom the deployment registered last.
CasesAfter(cred, subject) ==
    IF /\ requires_separation_of_duties(subject.authority)
       /\ owner[subject.agent] = cred.subject
      THEN ownCases \cup {subject} ELSE ownCases

\* An approval.  Decided events are remembered by the process that serves it.
SubmitDecision(p, cred, e) ==
    /\ Serves(p, cred, "approver")
    /\ e \in state[StorePlace(p)].events
    /\ ~OwnerApproves(p, cred, e)
    /\ e \notin decided[p]
    /\ decided' = [decided EXCEPT ![p] = @ \cup {e}]
    /\ ownCases' = CasesAfter(cred, e)
    /\ Sign(p)
    /\ UNCHANGED <<settings, key, state, token, starts, owner, runs, withdrawn,
                   mandated>>

\* History: whoever has the role, vouched for by the provider in strict mode.
Accountable(cred) ==
    /\ cred.roles \cap {"autonomy_admin", "admin"} # {}
    /\ settings.strict => cred.method = "oidc"

ApproveRule(p, cred, rule) ==
    /\ Serves(p, cred, "autonomy_admin")
    /\ rule.level <= autonomy_ceiling_for(rule.authority)
    /\ ~OwnerApproves(p, cred, rule)
    /\ state' = [state EXCEPT ![StorePlace(p)].rules = @ \cup {rule}]
    /\ mandated' = IF Accountable(cred) THEN mandated \cup {rule} ELSE mandated
    /\ ownCases' = CasesAfter(cred, rule)
    /\ Sign(p)
    /\ UNCHANGED <<settings, key, decided, token, starts, owner, runs, withdrawn>>

EventScope(e) == <<e.agent, e.workflow, e.authority>>

Outstanding(p, scope) ==
    LET here == state[CapabilityPlace(p)] IN
    {t \in here.issued \ (here.consumed \cup here.revoked) :
        EventScope(token[t].event) = scope}

\* History: every token of the scope that any process handed out so far.
Withdrawing(scope) ==
    [t \in TokenId |-> IF /\ token[t] # None
                          /\ EventScope(token[t].event) = scope
                          /\ withdrawn[t] = None
                        THEN runs[t] ELSE withdrawn[t]]

\* The rules of an agent nobody registered stay; the tokens are swept.
RecordIncident(p, cred, scope) ==
    LET here == state[StorePlace(p)]
        ended == {r \in here.rules : EventScope(r) = scope /\ here.agents[r.agent] # None}
    IN  /\ Serves(p, cred, "autonomy_admin")
        /\ state' = [[state EXCEPT ![StorePlace(p)].rules = @ \ ended]
                       EXCEPT ![CapabilityPlace(p)].revoked = @ \cup Outstanding(p, scope)]
        /\ withdrawn' = Withdrawing(scope)
        /\ Sign(p)
        /\ UNCHANGED <<settings, key, decided, token, starts, owner, runs, mandated,
                       ownCases>>

(***************************************************************************)
(* An enforcement point beside a process presents the token, with the      *)
(* action it was proposed for, to the capability service of that process.  *)
(***************************************************************************)
\* A bug: any signature will do.
SignedByAnyone(p, t) == TRUE

SignedByIssuer(p, t) == token[t].signer = key[p]

\* The conditional UPDATE needs the row, the dictionary only has the markers.
CanConsume(p, t) ==
    LET here == state[CapabilityPlace(p)] IN
    /\ settings.database => t \in here.issued
    /\ t \notin here.consumed \cup here.revoked

Execute(p, t) ==
    /\ key[p] # None
    /\ token[t] # None
    /\ SignedByIssuer(p, t)
    /\ CanConsume(p, t)
    /\ state' = [state EXCEPT ![CapabilityPlace(p)].consumed = @ \cup {t}]
    /\ runs' = [runs EXCEPT ![t] = @ + 1]
    /\ UNCHANGED <<settings, key, decided, signers, token, starts, requests, owner,
                   withdrawn, mandated, ownCases>>

Request(p) ==
    \E cred \in Credential :
        \/ \E a \in Agent, human \in Human : RegisterAgent(p, cred, a, human)
        \/ \E e \in EventBody : ProposeEvent(p, cred, e) \/ SubmitDecision(p, cred, e)
        \/ \E rule \in RuleBody : ApproveRule(p, cred, rule)
        \/ \E e \in EventBody : RecordIncident(p, cred, EventScope(e))

Next == \E p \in Process :
    Start(p) \/ Stop(p) \/ Request(p) \/ \E t \in TokenId : Execute(p, t)

Spec == Init /\ [][Next]_vars

-----------------------------------------------------------------------------
(***************************************************************************)
(* Properties.                                                             *)
(***************************************************************************)
\* Only this combination forgets the markers of tokens it goes on accepting.
Forgetful == settings.issuer_keys /\ ~settings.database

\* ENFORCEMENT.md: a single-use token runs once, across replicas and restarts,
\* as long as it has a database or its key dies with the process; on the memory
\* wiring with a configured key, at most once in each lifetime.
SingleUse ==
    \A t \in TokenId : runs[t] <= IF Forgetful THEN starts ELSE 1

\* record_incident, served by any replica, ends for good the tokens that any
\* process handed out in the scope; except where SingleUse makes the exception.
WithdrawalLasts ==
    \A t \in TokenId : withdrawn[t] # None /\ ~Forgetful => runs[t] = withdrawn[t]

\* claim_nonce: with a database a signed event is executed at most once, however
\* often it is proposed, to whichever replica, before and after restarts.
EventRunsOnce ==
    settings.database =>
        \A t, u \in TokenId :
            /\ t # u /\ runs[t] > 0 /\ runs[u] > 0
            => EventScope(token[t].event) # EventScope(token[u].event)
               \/ token[t].event.nonce # token[u].event.nonce

\* auth.py: "production cannot silently run on dev auth".  Whatever an agent
\* executed rests on a rule submitted by somebody with the role for it, and in
\* strict mode by somebody the identity provider vouched for.
ExecutionTracesToAdmin ==
    \A t \in TokenId : runs[t] > 0 /\ token[t].event.requires_execution =>
        \E rule \in mandated : Matches(rule, token[t].event)

\* CHANGELOG.md: an owner cannot approve his own agent's consequential actions
\* or rules: not on another replica than the one that registered the agent, nor
\* on one started since.
SeparationOfDuties == ownCases = {}

\* ARCHITECTURE.md: "every replica verifies the same chain".  So it is wherever
\* the issuer keys are configured, which strict mode insists on; the ledger a
\* process keeps to itself verifies in any case.
EveryReplicaVerifies ==
    \A p \in Running :
        \/ settings.issuer_keys
        \/ settings.strict
        \/ LedgerPlace(p) = p
        => signers[LedgerPlace(p)] \subseteq {key[p]}

=============================================================================
