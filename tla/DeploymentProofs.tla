-------------------------- MODULE DeploymentProofs --------------------------
(***************************************************************************)
(* What is proved about Deployment, for every set of processes, settings,  *)
(* credentials, agents, events and rules, and every bound.                 *)
(***************************************************************************)
EXTENDS Deployment, PolicyLemmas

(***************************************************************************)
(* The invariant, in parts.  The types first.                              *)
(***************************************************************************)
Owner == Human \cup {e.owner : e \in EventBody} \cup {None}

Claim(e) == <<e.agent, e.nonce>>

State == [agents : [Agent -> Owner], rules : SUBSET RuleBody,
          nonces : SUBSET {Claim(e) : e \in EventBody}, events : SUBSET EventBody,
          issued : SUBSET TokenId, consumed : SUBSET TokenId, revoked : SUBSET TokenId]

Token == [event : EventBody, signer : Nat]

Shape ==
    /\ settings \in Deployed
    /\ key \in [Process -> 0 .. MaxStarts \cup {None}]
    /\ state \in [Place -> State]
    /\ decided \in [Process -> SUBSET EventBody]
    /\ signers \in [Place -> SUBSET Nat]
    /\ token \in [TokenId -> Token \cup {None}]
    /\ starts \in 0 .. MaxStarts
    /\ runs \in [TokenId -> Nat]
    /\ withdrawn \in [TokenId -> Nat \cup {None}]
    /\ owner \in [Agent -> Owner]

\* Who runs with which key.
ProcessesOK ==
    /\ \A p \in Running :
          /\ settings.issuer_keys => key[p] = ConfiguredKey
          /\ settings.strict => settings.issuer_keys
          /\ key[p] <= starts
    /\ ~settings.database => \A p, q \in Running : p = q

\* A ledger that a replica will verify is signed with its key only.
LedgersOK ==
    /\ settings.issuer_keys => \A q \in Place : signers[q] \subseteq {ConfiguredKey}
    /\ \A p \in Running : LedgerPlace(p) = p => signers[p] \subseteq {key[p]}

\* What is where, by the wiring.
PlacesOK ==
    /\ \A q \in Place, t \in TokenId : t \in state[q].issued => token[t] # None
    /\ state["db"].consumed \cup state["db"].revoked \subseteq state["db"].issued
    /\ settings.database => \A p \in Process : state[p] = Nothing

\* The store a process consults knows the owner whom the deployment registered.
OwnersOK ==
    /\ settings.database => owner = state["db"].agents
    /\ \A p \in Running : owner = state[StorePlace(p)].agents

\* Every active rule has a mandate, and every token for an execution a rule.
RulesOK ==
    /\ \A q \in Place : state[q].rules \subseteq mandated
    /\ \A t \in TokenId : token[t] # None /\ token[t].event.requires_execution =>
          \E rule \in mandated : Matches(rule, token[t].event)

\* With a database the claims of the tokens' events are there, all different.
ClaimsOK ==
    settings.database =>
       /\ \A t \in TokenId : token[t] # None =>
             Claim(token[t].event) \in state["db"].nonces
       /\ \A t, u \in TokenId : t # u /\ token[t] # None /\ token[u] # None =>
             Claim(token[t].event) # Claim(token[u].event)

\* The capability service beside p would accept the signature of t.
Knows(p, t) ==
    /\ token[t] # None
    /\ settings.database \/ (p \in Running /\ token[t].signer = key[p])

\* It then has the bookkeeping of t, and the markers of what happened to t.
MarkersAt(here, t) ==
    /\ t \in here.issued
    /\ runs[t] # 0 => t \in here.consumed
    /\ withdrawn[t] # None => t \in here.consumed \cup here.revoked

MarkersOK ==
    /\ \A t \in TokenId :
          /\ token[t] = None => runs[t] = 0 /\ withdrawn[t] = None
          /\ token[t] # None => token[t].signer <= starts
    /\ ~Forgetful => \A t \in TokenId :
          /\ runs[t] <= 1
          /\ withdrawn[t] # None => runs[t] = withdrawn[t]
          /\ \A p \in Process : Knows(p, t) => MarkersAt(state[CapabilityPlace(p)], t)
    /\ Forgetful => \A t \in TokenId :
          /\ runs[t] <= starts
          /\ \A p \in Running : t \notin state[p].consumed => runs[t] < starts

Inv ==
    /\ Shape /\ ProcessesOK /\ LedgersOK /\ PlacesOK /\ OwnersOK /\ RulesOK
    /\ ClaimsOK /\ MarkersOK /\ SeparationOfDuties

(***************************************************************************)
(* What each step does to the state, in the terms of the invariant.        *)
(***************************************************************************)

\* The function f, but for one argument.
With(f, x, value) == [f EXCEPT ![x] = value]

\* Where the parts of the state live.
LEMMA Wiring ==
    ASSUME NEW p \in Process
    PROVE  /\ CapabilityPlace(p) = StorePlace(p)
           /\ StorePlace(p) \in Place /\ LedgerPlace(p) \in Place
           /\ p \in Place /\ "db" \in Place /\ p # "db"
           /\ settings.database => StorePlace(p) = "db" /\ LedgerPlace(p) # p
           /\ ~settings.database => StorePlace(p) = p
BY DeploymentAssumption DEF CapabilityPlace, StorePlace, LedgerPlace, Place

\* The store of one place is replaced, the others stay.
LEMMA OnePlace ==
    ASSUME Shape, NEW q \in Place, NEW here \in State,
           state' = [state EXCEPT ![q] = here]
    PROVE  /\ state' \in [Place -> State]
           /\ state'[q] = here
           /\ \A other \in Place : other # q => state'[other] = state[other]
BY DEF Shape

\* A request is served by a running process, and signed with its key.
LEMMA Signing ==
    ASSUME Shape, NEW p \in Process, key[p] # None, Sign(p)
    PROVE  /\ p \in Running /\ key[p] \in 0 .. MaxStarts /\ key[p] \in Nat
           /\ signers' \in [Place -> SUBSET Nat]
           /\ signers'[LedgerPlace(p)] = signers[LedgerPlace(p)] \cup {key[p]}
           /\ \A q \in Place : q # LedgerPlace(p) => signers'[q] = signers[q]
<1>1. p \in Running /\ key[p] \in 0 .. MaxStarts
  BY DEF Shape, Running
<1>2. key[p] \in Nat
  BY <1>1, DeploymentAssumption
<1> QED
  BY <1>1, <1>2, Wiring DEF Sign, Shape

LEMMA RegisterEffect ==
    ASSUME Shape, NEW p \in Process, NEW cred, NEW a \in Agent, NEW human \in Human,
           RegisterAgent(p, cred, a, human)
    PROVE  LET S == StorePlace(p) IN
           /\ key[p] # None /\ Sign(p)
           /\ state' \in [Place -> State]
           /\ state'[S].agents = With(state[S].agents, a, human)
           /\ state'[S].rules = state[S].rules /\ state'[S].nonces = state[S].nonces
           /\ state'[S].issued = state[S].issued
           /\ state'[S].consumed = state[S].consumed
           /\ state'[S].revoked = state[S].revoked
           /\ \A q \in Place : q # S => state'[q] = state[q]
           /\ owner' = With(owner, a, human)
           /\ UNCHANGED <<settings, key, decided, token, starts, runs, withdrawn,
                          mandated, ownCases>>
<1> DEFINE S == StorePlace(p)
           here == [state[S] EXCEPT !.agents = [@ EXCEPT ![a] = human]]
<1>1. S \in Place /\ state[S] \in State
  BY Wiring DEF Shape
<1>2. here \in State
  <2>1. human \in Owner
    BY DEF Owner
  <2> QED
    BY <1>1, <2>1 DEF State
<1>3. state' = [state EXCEPT ![S] = here]
  BY DEF RegisterAgent
<1>4. /\ here.agents = [state[S].agents EXCEPT ![a] = human]
      /\ here.rules = state[S].rules /\ here.nonces = state[S].nonces
      /\ here.issued = state[S].issued /\ here.consumed = state[S].consumed
      /\ here.revoked = state[S].revoked
  BY <1>1 DEF State
<1> HIDE DEF here
<1> QED
  BY <1>1, <1>2, <1>3, <1>4, OnePlace DEF RegisterAgent, Serves, With, history

LEMMA ApproveEffect ==
    ASSUME Shape, NEW p \in Process, NEW cred, NEW rule \in RuleBody,
           ApproveRule(p, cred, rule)
    PROVE  LET S == StorePlace(p) IN
           /\ key[p] # None /\ Sign(p)
           /\ state' \in [Place -> State]
           /\ state'[S].rules = state[S].rules \cup {rule}
           /\ state'[S].agents = state[S].agents /\ state'[S].nonces = state[S].nonces
           /\ state'[S].issued = state[S].issued
           /\ state'[S].consumed = state[S].consumed
           /\ state'[S].revoked = state[S].revoked
           /\ \A q \in Place : q # S => state'[q] = state[q]
           /\ mandated' = mandated \cup {rule}
           /\ ownCases' = CasesAfter(cred, rule)
           /\ ~OwnerApproves(p, cred, rule)
           /\ UNCHANGED <<settings, key, decided, token, starts, owner, runs, withdrawn>>
<1> DEFINE S == StorePlace(p)
           here == [state[S] EXCEPT !.rules = @ \cup {rule}]
<1>1. S \in Place /\ state[S] \in State
  BY Wiring DEF Shape
<1>2. here \in State
  BY <1>1 DEF State
<1>3. state' = [state EXCEPT ![S] = here]
  BY DEF ApproveRule
<1>4. /\ here.rules = state[S].rules \cup {rule}
      /\ here.agents = state[S].agents /\ here.nonces = state[S].nonces
      /\ here.issued = state[S].issued /\ here.consumed = state[S].consumed
      /\ here.revoked = state[S].revoked
  BY <1>1 DEF State
<1>5. Accountable(cred)
  BY DEF ApproveRule, Serves, Authenticates, HasRole, Accountable
<1> HIDE DEF here
<1> QED
  BY <1>1, <1>2, <1>3, <1>4, <1>5, OnePlace DEF ApproveRule, Serves

LEMMA IncidentEffect ==
    ASSUME Shape, NEW p \in Process, NEW cred, NEW scope,
           RecordIncident(p, cred, scope)
    PROVE  LET S == StorePlace(p) IN
           /\ key[p] # None /\ Sign(p)
           /\ state' \in [Place -> State]
           /\ state'[S].rules \subseteq state[S].rules
           /\ state'[S].agents = state[S].agents /\ state'[S].nonces = state[S].nonces
           /\ state'[S].issued = state[S].issued
           /\ state'[S].consumed = state[S].consumed
           /\ state'[S].revoked = state[S].revoked \cup Outstanding(p, scope)
           /\ \A q \in Place : q # S => state'[q] = state[q]
           /\ withdrawn' = Withdrawing(scope)
           /\ UNCHANGED <<settings, key, decided, token, starts, owner, runs,
                          mandated, ownCases>>
<1> DEFINE S == StorePlace(p)
           ended == {r \in state[S].rules :
                        EventScope(r) = scope /\ state[S].agents[r.agent] # None}
           here == [state[S] EXCEPT !.rules = @ \ ended,
                                    !.revoked = @ \cup Outstanding(p, scope)]
<1>1. S \in Place /\ state[S] \in State /\ CapabilityPlace(p) = S
  BY Wiring DEF Shape
<1>2. Outstanding(p, scope) \subseteq TokenId
  BY <1>1 DEF Outstanding, State
<1> HIDE DEF ended
<1>3. here \in State
  BY <1>1, <1>2 DEF State
<1>4. state' = [state EXCEPT ![S] = here]
  <2>1. state' = [[state EXCEPT ![S].rules = @ \ ended]
                     EXCEPT ![S].revoked = @ \cup Outstanding(p, scope)]
    BY <1>1 DEF RecordIncident, ended
  <2> QED
    BY <1>1, <2>1 DEF Shape, State
<1>5. /\ here.rules \subseteq state[S].rules
      /\ here.agents = state[S].agents /\ here.nonces = state[S].nonces
      /\ here.issued = state[S].issued /\ here.consumed = state[S].consumed
      /\ here.revoked = state[S].revoked \cup Outstanding(p, scope)
  BY <1>1 DEF State
<1> HIDE DEF here
<1> QED
  BY <1>1, <1>3, <1>4, <1>5, OnePlace DEF RecordIncident, Serves

LEMMA ExecuteEffect ==
    ASSUME Shape, NEW p \in Process, NEW t \in TokenId, Execute(p, t)
    PROVE  LET S == StorePlace(p) IN
           /\ key[p] # None /\ token[t] # None /\ token[t].signer = key[p]
           /\ settings.database => t \in state[S].issued
           /\ t \notin state[S].consumed \cup state[S].revoked
           /\ state' \in [Place -> State]
           /\ state'[S].rules = state[S].rules
           /\ state'[S].agents = state[S].agents /\ state'[S].nonces = state[S].nonces
           /\ state'[S].issued = state[S].issued
           /\ state'[S].consumed = state[S].consumed \cup {t}
           /\ state'[S].revoked = state[S].revoked
           /\ \A q \in Place : q # S => state'[q] = state[q]
           /\ runs' = With(runs, t, runs[t] + 1)
           /\ UNCHANGED <<settings, key, decided, signers, token, starts, owner,
                          withdrawn, mandated, ownCases>>
<1> DEFINE S == StorePlace(p)
           here == [state[S] EXCEPT !.consumed = @ \cup {t}]
<1>1. S \in Place /\ state[S] \in State /\ CapabilityPlace(p) = S
  BY Wiring DEF Shape
<1>2. here \in State
  BY <1>1 DEF State
<1>3. state' = [state EXCEPT ![S] = here]
  BY <1>1 DEF Execute
<1>4. /\ here.rules = state[S].rules
      /\ here.agents = state[S].agents /\ here.nonces = state[S].nonces
      /\ here.issued = state[S].issued /\ here.revoked = state[S].revoked
      /\ here.consumed = state[S].consumed \cup {t}
  BY <1>1 DEF State
<1> HIDE DEF here
<1> QED
  BY <1>1, <1>2, <1>3, <1>4, OnePlace DEF Execute, SignedByIssuer, CanConsume,
      With

\* Whatever proceeds from the bottom of the ladder has a rule of the store.
LEMMA ProceedingNeedsRule ==
    ASSUME NEW p \in Process, NEW e \in EventBody, e.requires_execution,
           NEW rule \in FoundRules(p, e),
           Evaluate(default_boundary_rules, e, OBSERVE_ONLY, rule).status \in Proceeding
    PROVE  rule \in state[StorePlace(p)].rules /\ Matches(rule, e)
<1>1. e.requires_execution = TRUE
  BY DeploymentAssumption
<1>2. rule # None
  <2>1. OBSERVE_ONLY \in AutonomyLevel /\ OBSERVE_ONLY <= EXECUTE_WITH_APPROVAL
    BY DEF OBSERVE_ONLY, AutonomyLevel, EXECUTE_WITH_APPROVAL
  <2> QED
    BY <1>1, <2>1, LowNeedsRule
<1>3. rule \in {r \in state[StorePlace(p)].rules : Matches(r, e)}
  BY <1>2 DEF FoundRules
<1> QED
  BY <1>3

LEMMA ProposeEffect ==
    ASSUME Shape, NEW p \in Process, NEW cred, NEW e \in EventBody,
           ProposeEvent(p, cred, e)
    PROVE  LET S == StorePlace(p)
               human == Accepted(p, e).agents[e.agent]
           IN
           /\ key[p] # None /\ Sign(p)
           /\ state' \in [Place -> State]
           /\ state'[S].agents = With(state[S].agents, e.agent, human)
           /\ human \in Owner
           /\ state'[S].rules = state[S].rules
           /\ Claim(e) \notin state[S].nonces
           /\ state'[S].nonces = state[S].nonces \cup {Claim(e)}
           /\ state'[S].consumed = state[S].consumed
           /\ state'[S].revoked = state[S].revoked
           /\ \A q \in Place : q # S => state'[q] = state[q]
           /\ owner' = With(owner, e.agent, human)
           /\ \/ \E t \in TokenId :
                    /\ token[t] = None
                    /\ token' = With(token, t, [event |-> e, signer |-> key[p]])
                    /\ state'[S].issued = state[S].issued \cup {t}
                    /\ e.requires_execution =>
                          \E rule \in state[S].rules : Matches(rule, e)
              \/ token' = token /\ state'[S].issued = state[S].issued
           /\ UNCHANGED <<settings, key, decided, starts, runs, withdrawn, mandated,
                          ownCases>>
<1> DEFINE S == StorePlace(p)
           old == state[S]
           human == IF old.agents[e.agent] = None THEN e.owner ELSE old.agents[e.agent]
           new == Accepted(p, e)
           minted(t) == [new EXCEPT !.issued = @ \cup {t}]
<1>1. S \in Place /\ old \in State /\ CapabilityPlace(p) = S /\ e.agent \in Agent
  BY Wiring, DeploymentAssumption DEF Shape
<1>2. human \in Owner
  BY <1>1 DEF State, Owner
<1>3. /\ new = [old EXCEPT !.agents[e.agent] = human,
                           !.nonces = @ \cup {<<e.agent, e.nonce>>},
                           !.events = @ \cup {e}]
      /\ Claim(e) = <<e.agent, e.nonce>>
  BY DEF Accepted, Claim
<1> HIDE DEF human
<1>4. new = [old EXCEPT !.agents = [old.agents EXCEPT ![e.agent] = human],
                        !.nonces = old.nonces \cup {Claim(e)},
                        !.events = old.events \cup {e}]
  BY <1>1, <1>3 DEF State
<1>5. [old.agents EXCEPT ![e.agent] = human] \in [Agent -> Owner]
  BY <1>1, <1>2 DEF State
<1>6. old.nonces \cup {Claim(e)} \in SUBSET {Claim(f) : f \in EventBody}
  BY <1>1 DEF State
<1> HIDE DEF new
<1>7. /\ new \in State
      /\ new.agents = With(old.agents, e.agent, human)
      /\ new.nonces = old.nonces \cup {Claim(e)}
      /\ new.rules = old.rules /\ new.issued = old.issued
      /\ new.consumed = old.consumed /\ new.revoked = old.revoked
  BY <1>1, <1>4, <1>5, <1>6 DEF State, With
<1>8. new.agents[e.agent] = human
  BY <1>1, <1>7 DEF State, With
<1>9. \A t \in TokenId :
         /\ minted(t) \in State /\ minted(t).agents = new.agents
         /\ minted(t).nonces = new.nonces /\ minted(t).rules = new.rules
         /\ minted(t).issued = new.issued \cup {t}
         /\ minted(t).consumed = new.consumed /\ minted(t).revoked = new.revoked
  BY <1>7 DEF State
<1>10. \/ \E t \in TokenId :
             /\ token[t] = None
             /\ token' = With(token, t, [event |-> e, signer |-> key[p]])
             /\ state' = [state EXCEPT ![S] = minted(t)]
             /\ e.requires_execution => \E rule \in old.rules : Matches(rule, e)
       \/ token' = token /\ state' = [state EXCEPT ![S] = new]
  <2>1. PICK rule \in FoundRules(p, e) :
           IF Evaluate(default_boundary_rules, e, OBSERVE_ONLY, rule).status
                \in Proceeding
             THEN \E t \in TokenId :
                     /\ token[t] = None
                     /\ token' = With(token, t, [event |-> e, signer |-> key[p]])
                     /\ state' = [[state EXCEPT ![S] = new]
                                    EXCEPT ![S].issued = @ \cup {t}]
             ELSE token' = token /\ state' = [state EXCEPT ![S] = new]
    BY <1>1 DEF ProposeEvent, new, With
  <2>2. CASE Evaluate(default_boundary_rules, e, OBSERVE_ONLY, rule).status
                \in Proceeding
    <3>1. e.requires_execution => rule \in old.rules /\ Matches(rule, e)
      BY <2>2, ProceedingNeedsRule
    <3>2. PICK t \in TokenId :
             /\ token[t] = None
             /\ token' = With(token, t, [event |-> e, signer |-> key[p]])
             /\ state' = [[state EXCEPT ![S] = new] EXCEPT ![S].issued = @ \cup {t}]
      BY <2>1, <2>2
    <3>3. state' = [state EXCEPT ![S] = minted(t)]
      BY <1>1, <3>2 DEF Shape
    <3> QED
      BY <3>1, <3>2, <3>3
  <2> QED
    BY <2>1, <2>2
<1>11. /\ key[p] # None /\ Sign(p) /\ Claim(e) \notin old.nonces
       /\ owner' = With(owner, e.agent, human)
       /\ UNCHANGED <<settings, key, decided, starts, runs, withdrawn, mandated,
                       ownCases>>
  <2>1. owner' = With(owner, e.agent, new.agents[e.agent])
    BY DEF ProposeEvent, new, With
  <2> QED
    BY <1>8, <2>1 DEF ProposeEvent, Serves, Claim, history
<1> HIDE DEF minted
<1>12. CASE token' = token /\ state' = [state EXCEPT ![S] = new]
  BY <1>1, <1>2, <1>7, <1>8, <1>11, <1>12, OnePlace DEF new
<1>13. ASSUME NEW t \in TokenId, token[t] = None,
              token' = With(token, t, [event |-> e, signer |-> key[p]]),
              state' = [state EXCEPT ![S] = minted(t)],
              e.requires_execution => \E rule \in old.rules : Matches(rule, e)
       PROVE  LET h == Accepted(p, e).agents[e.agent] IN
              /\ state' \in [Place -> State]
              /\ state'[S].agents = With(state[S].agents, e.agent, h)
              /\ state'[S].rules = state[S].rules
              /\ state'[S].nonces = state[S].nonces \cup {Claim(e)}
              /\ state'[S].consumed = state[S].consumed
              /\ state'[S].revoked = state[S].revoked
              /\ state'[S].issued = state[S].issued \cup {t}
              /\ \A q \in Place : q # S => state'[q] = state[q]
  BY <1>1, <1>7, <1>8, <1>9, <1>13, OnePlace DEF new
<1> QED
  BY <1>2, <1>8, <1>10, <1>11, <1>12, <1>13 DEF new

LEMMA StartEffect ==
    ASSUME Shape, NEW p \in Process, Start(p)
    PROVE  /\ key[p] = None
           /\ key' \in [Process -> 0 .. MaxStarts \cup {None}]
           /\ key'[p] = IF settings.issuer_keys THEN ConfiguredKey ELSE starts + 1
           /\ \A q \in Process : q # p => key'[q] = key[q]
           /\ Running' = Running \cup {p}
           /\ settings.strict => settings.issuer_keys
           /\ settings.database \/ Running = {}
           /\ starts' = starts + 1 /\ starts' \in 0 .. MaxStarts
           /\ state' \in [Place -> State]
           /\ state'[p] = Nothing
           /\ \A q \in Place : q # p => state'[q] = state[q]
           /\ decided' \in [Process -> SUBSET EventBody]
           /\ signers' \in [Place -> SUBSET Nat]
           /\ signers'[p] = {}
           /\ \A q \in Place : q # p => signers'[q] = signers[q]
           /\ owner' = IF settings.database THEN owner ELSE [a \in Agent |-> None]
           /\ UNCHANGED <<settings, token, history>>
<1>1. p \in Place /\ MaxStarts \in Nat
  BY Wiring, DeploymentAssumption
<1>2. Nothing \in State
  BY DEF Nothing, State, Owner
<1>3. /\ state' \in [Place -> State] /\ state'[p] = Nothing
      /\ \A q \in Place : q # p => state'[q] = state[q]
  BY <1>1, <1>2, OnePlace DEF Start
<1>4. starts' = starts + 1 /\ starts' \in 0 .. MaxStarts
  BY <1>1 DEF Start, Shape
<1>5. /\ key' \in [Process -> 0 .. MaxStarts \cup {None}]
      /\ key'[p] = IF settings.issuer_keys THEN ConfiguredKey ELSE starts + 1
      /\ \A q \in Process : q # p => key'[q] = key[q]
  <2>1. ConfiguredKey \in 0 .. MaxStarts /\ starts + 1 \in 0 .. MaxStarts
    BY <1>1, <1>4 DEF ConfiguredKey
  <2> QED
    BY <2>1 DEF Start, FreshKey, Shape
<1>6. Running' = Running \cup {p}
  <2>1. key'[p] # None
    BY <1>4, <1>5, DeploymentAssumption DEF ConfiguredKey, Shape
  <2> QED
    BY <1>5, <2>1 DEF Running
<1>7. /\ signers' \in [Place -> SUBSET Nat] /\ signers'[p] = {}
      /\ \A q \in Place : q # p => signers'[q] = signers[q]
  BY <1>1 DEF Start, Shape
<1> QED
  BY <1>3, <1>4, <1>5, <1>6, <1>7 DEF Start, MayStart, Shape

(***************************************************************************)
(* What requests have in common.                                           *)
(***************************************************************************)

\* A process signs with the key it runs with.
LEMMA SigningKeepsLedgers ==
    ASSUME Shape, ProcessesOK, LedgersOK, NEW p \in Process, key[p] # None, Sign(p),
           UNCHANGED <<settings, key, starts>>
    PROVE  LedgersOK' /\ ProcessesOK'
<1> settings' = settings /\ key' = key /\ starts' = starts
  OBVIOUS
<1>1. Running' = Running /\ \A q \in Process : LedgerPlace(q)' = LedgerPlace(q)
  BY DEF Running, LedgerPlace
<1>2. /\ p \in Running /\ LedgerPlace(p) \in Place
      /\ signers'[LedgerPlace(p)] = signers[LedgerPlace(p)] \cup {key[p]}
      /\ \A q \in Place : q # LedgerPlace(p) => signers'[q] = signers[q]
  BY Signing, Wiring
<1>3. ASSUME settings.issuer_keys, NEW q \in Place
      PROVE  signers'[q] \subseteq {ConfiguredKey}
  BY <1>2, <1>3 DEF ProcessesOK, LedgersOK
<1>4. ASSUME NEW q \in Running, LedgerPlace(q) = q
      PROVE  signers'[q] \subseteq {key[q]}
  <2>1. q \in Process /\ q \in Place /\ signers[q] \subseteq {key[q]}
    BY <1>4, Wiring DEF Running, LedgersOK
  <2>2. CASE LedgerPlace(p) = q
    <3>1. p = q
      BY <1>2, <1>4, <2>1, <2>2, DeploymentAssumption DEF LedgerPlace
    <3> QED
      BY <1>2, <2>1, <2>2, <3>1
  <2> QED
    BY <1>2, <2>1, <2>2
<1>5. LedgersOK'
  <2>1. \A q \in Running : LedgerPlace(q)' = LedgerPlace(q)
    BY <1>1 DEF Running
  <2>2. settings.issuer_keys => \A q \in Place : signers'[q] \subseteq {ConfiguredKey}
    BY <1>3
  <2>3. \A q \in Running : LedgerPlace(q) = q => signers'[q] \subseteq {key[q]}
    BY <1>4
  <2> QED
    BY <1>1, <2>1, <2>2, <2>3 DEF LedgersOK
<1>6. ProcessesOK'
  <2>1. Running' = Running
    BY <1>1
  <2> QED
    BY <2>1, Zenon DEF ProcessesOK, ConfiguredKey
<1> QED
  BY <1>5, <1>6

\* Bookkeeping that only grows keeps describing the tokens and their runs.
LEMMA MarkersKept ==
    ASSUME Shape, MarkersOK, Shape', settings' = settings, token' = token,
           starts' = starts, runs' = runs, withdrawn' = withdrawn,
           \A q \in Process : key'[q] = key[q] \/ key'[q] = None,
           \A q \in Place : /\ state[q].issued \subseteq state'[q].issued
                            /\ state[q].consumed \subseteq state'[q].consumed
                            /\ state[q].revoked \subseteq state'[q].revoked
    PROVE  MarkersOK'
<1>1. Forgetful' = Forgetful /\ \A q \in Process : CapabilityPlace(q)' = CapabilityPlace(q)
  BY DEF Forgetful, CapabilityPlace
<1>2. Running' \subseteq Running /\ \A q \in Running' : key'[q] = key[q]
  BY DEF Running
<1>3. ASSUME NEW q \in Process, NEW t \in TokenId, Knows(q, t)' PROVE Knows(q, t)
  BY <1>2, <1>3 DEF Knows, Running
<1>4. ASSUME NEW q \in Process, NEW t \in TokenId,
             MarkersAt(state[CapabilityPlace(q)], t)
      PROVE  MarkersAt(state[CapabilityPlace(q)], t)'
  <2>1. CapabilityPlace(q) \in Place /\ CapabilityPlace(q)' = CapabilityPlace(q)
    BY <1>1, Wiring
  <2> DEFINE C == CapabilityPlace(q)
  <2>2. /\ state[C].issued \subseteq state'[C].issued
        /\ state[C].consumed \subseteq state'[C].consumed
        /\ state[C].revoked \subseteq state'[C].revoked
    BY <2>1
  <2>3. (state[CapabilityPlace(q)])' = state'[C]
    BY <2>1
  <2> QED
    BY <1>4, <2>2, <2>3 DEF MarkersAt
<1>5. ASSUME Forgetful, NEW t \in TokenId
      PROVE  /\ runs[t] <= starts
             /\ \A q \in Running' : t \notin state'[q].consumed => runs[t] < starts
  <2>1. \A q \in Running' : q \in Place /\ state[q].consumed \subseteq state'[q].consumed
    BY Wiring DEF Running
  <2> QED
    BY <1>2, <1>5, <2>1 DEF MarkersOK
<1>6. ASSUME ~Forgetful, NEW t \in TokenId
      PROVE  /\ runs'[t] <= 1
             /\ withdrawn'[t] # None => runs'[t] = withdrawn'[t]
             /\ \A q \in Process : Knows(q, t)' => MarkersAt(state[CapabilityPlace(q)], t)'
  BY <1>3, <1>4, <1>6 DEF MarkersOK
<1>7. ASSUME NEW t \in TokenId
      PROVE  /\ token'[t] = None => runs'[t] = 0 /\ withdrawn'[t] = None
             /\ token'[t] # None => token'[t].signer <= starts'
  BY DEF MarkersOK
<1> QED
  BY <1>1, <1>5, <1>6, <1>7 DEF MarkersOK

\* Owners only change together, in the store that knows them.
LEMMA OwnersStay ==
    ASSUME OwnersOK, settings' = settings, key' = key, owner' = owner,
           \A q \in Place : state'[q].agents = state[q].agents
    PROVE  OwnersOK'
<1>1. /\ Running' = Running /\ "db" \in Place
      /\ \A q \in Running : StorePlace(q)' = StorePlace(q) /\ StorePlace(q) \in Place
  BY DEF Running, StorePlace, Place
<1>2. settings'.database => owner' = state'["db"].agents
  BY <1>1 DEF OwnersOK
<1>3. \A q \in Running : owner' = state'[StorePlace(q)].agents
  BY <1>1 DEF OwnersOK
<1> QED
  BY <1>1, <1>2, <1>3 DEF OwnersOK

LEMMA OwnersFollow ==
    ASSUME ProcessesOK, OwnersOK, NEW p \in Running, NEW a, NEW human,
           settings' = settings, key' = key,
           owner' = With(owner, a, human),
           state'[StorePlace(p)].agents = With(state[StorePlace(p)].agents, a, human)
    PROVE  OwnersOK'
<1>1. Running' = Running /\ \A q \in Running : StorePlace(q)' = StorePlace(q)
  BY DEF Running, StorePlace
<1>2. owner' = state'[StorePlace(p)].agents
  BY DEF OwnersOK
<1>3. \A q \in Running : StorePlace(q) = StorePlace(p)
  BY DEF ProcessesOK, StorePlace
<1>4. settings.database => StorePlace(p) = "db"
  BY DEF StorePlace
<1>5. settings'.database => owner' = state'["db"].agents
  BY <1>2, <1>4
<1>6. \A q \in Running : owner' = state'[StorePlace(q)].agents
  BY <1>2, <1>3
<1> QED
  BY <1>1, <1>5, <1>6 DEF OwnersOK

\* An approval that its process allows is nobody's own.
LEMMA OwnersAreKnown ==
    ASSUME OwnersOK, SeparationOfDuties, NEW p \in Running, NEW cred, NEW subject,
           ~OwnerApproves(p, cred, subject)
    PROVE  CasesAfter(cred, subject) = {}
BY DEF OwnersOK, SeparationOfDuties, OwnerApproves, CasesAfter

\* With a database, a step on the store leaves the processes' dictionaries empty.
LEMMA StoreHolds ==
    ASSUME PlacesOK, NEW S \in Place, settings.database, S = "db",
           \A q \in Place : q # S => state'[q] = state[q]
    PROVE  \A q \in Process : state'[q] = Nothing
BY Wiring DEF PlacesOK

(***************************************************************************)
(* Every step preserves the invariant: one lemma per action.               *)
(***************************************************************************)
LEMMA StartKeepsInv ==
    ASSUME Inv, NEW p \in Process, Start(p)
    PROVE  Inv'
<1> USE DEF Inv
<1>1. /\ key[p] = None
      /\ key' \in [Process -> 0 .. MaxStarts \cup {None}]
      /\ key'[p] = IF settings.issuer_keys THEN ConfiguredKey ELSE starts + 1
      /\ \A q \in Process : q # p => key'[q] = key[q]
      /\ Running' = Running \cup {p}
      /\ settings.strict => settings.issuer_keys
      /\ settings.database \/ Running = {}
      /\ starts' = starts + 1 /\ starts' \in 0 .. MaxStarts
      /\ state' \in [Place -> State]
      /\ state'[p] = Nothing
      /\ \A q \in Place : q # p => state'[q] = state[q]
      /\ decided' \in [Process -> SUBSET EventBody]
      /\ signers' \in [Place -> SUBSET Nat]
      /\ signers'[p] = {}
      /\ \A q \in Place : q # p => signers'[q] = signers[q]
      /\ owner' = IF settings.database THEN owner ELSE [a \in Agent |-> None]
      /\ settings' = settings /\ token' = token /\ runs' = runs
      /\ withdrawn' = withdrawn /\ mandated' = mandated /\ ownCases' = ownCases
  BY StartEffect DEF history
<1>2. \A q \in Process : /\ StorePlace(q)' = StorePlace(q)
                         /\ CapabilityPlace(q)' = CapabilityPlace(q)
                         /\ LedgerPlace(q)' = LedgerPlace(q)
  BY <1>1 DEF StorePlace, CapabilityPlace, LedgerPlace
<1>3. p \in Place /\ "db" \in Place /\ state'["db"] = state["db"]
  BY <1>1, Wiring
<1>4. Shape'
  <2>1. owner' \in [Agent -> Owner]
    BY <1>1 DEF Shape, Owner
  <2> QED
    BY <1>1, <2>1 DEF Shape
<1>5. ProcessesOK'
  <2>1. ASSUME NEW q \in Running'
        PROVE  /\ settings.issuer_keys => key'[q] = ConfiguredKey
               /\ key'[q] <= starts'
    <3>1. CASE q = p
      BY <1>1, <3>1 DEF ConfiguredKey
    <3>2. CASE q # p
      <4>1. q \in Running /\ q \in Process /\ key'[q] = key[q] /\ key[q] <= starts
        BY <1>1, <3>2, <2>1 DEF Running, ProcessesOK
      <4>2. key[q] \in 0 .. MaxStarts /\ starts \in Int
        BY <4>1 DEF Running, Shape
      <4>3. key'[q] <= starts'
        BY <1>1, <4>1, <4>2
      <4> QED
        BY <4>1, <4>3 DEF ProcessesOK
    <3> QED
      BY <3>1, <3>2
  <2>2. ~settings.database => \A q, r \in Running' : q = r
    BY <1>1
  <2> QED
    BY <1>1, <2>1, <2>2 DEF ProcessesOK
<1>6. LedgersOK'
  <2>1. ASSUME settings.issuer_keys, NEW q \in Place
        PROVE  signers'[q] \subseteq {ConfiguredKey}
    BY <1>1, <2>1 DEF LedgersOK
  <2>2. ASSUME NEW q \in Running', LedgerPlace(q) = q
        PROVE  signers'[q] \subseteq {key'[q]}
    <3>1. CASE q # p
      <4>1. q \in Running /\ q \in Process /\ q \in Place
        BY <1>1, <2>2, <3>1, Wiring DEF Running
      <4> QED
        BY <1>1, <2>2, <3>1, <4>1 DEF LedgersOK
    <3> QED
      BY <1>1, <3>1
  <2>3. \A q \in Running' : q \in Process
    BY DEF Running
  <2> QED
    BY <1>1, <1>2, <2>1, <2>2, <2>3 DEF LedgersOK
<1>7. PlacesOK'
  <2>1. ASSUME NEW q \in Place, NEW t \in TokenId, t \in state'[q].issued
        PROVE  token[t] # None
    BY <1>1, <2>1 DEF PlacesOK, Nothing
  <2>2. ASSUME settings.database, NEW q \in Process PROVE state'[q] = Nothing
    BY <1>1, <2>2, Wiring DEF PlacesOK
  <2> QED
    BY <1>1, <1>3, <2>1, <2>2 DEF PlacesOK
<1>8. OwnersOK'
  <2>1. CASE settings.database
    <3>1. \A q \in Running' : q \in Process /\ StorePlace(q)' = "db"
      BY <1>2, <2>1, Wiring DEF Running
    <3> QED
      BY <1>1, <1>3, <2>1, <3>1 DEF OwnersOK
  <2>2. CASE ~settings.database
    <3>1. \A q \in Running' : q = p /\ StorePlace(q)' = p
      BY <1>1, <1>2, <2>2, Wiring
    <3>2. owner' = state'[p].agents
      BY <1>1, <2>2 DEF Nothing
    <3> QED
      BY <1>1, <2>2, <3>1, <3>2 DEF OwnersOK
  <2> QED
    BY <2>1, <2>2
<1>9. RulesOK'
  <2>1. \A q \in Place : state'[q].rules \subseteq mandated
    BY <1>1 DEF RulesOK, Nothing
  <2> QED
    BY <1>1, <2>1 DEF RulesOK
<1>10. ClaimsOK'
  BY <1>1, <1>3 DEF ClaimsOK
<1>11. MarkersOK'
  <2>1. starts \in Nat /\ starts' = starts + 1
    BY <1>1 DEF Shape
  <2>2. ASSUME NEW t \in TokenId, token[t] # None
        PROVE  token[t].signer \in Nat /\ token[t].signer <= starts
    BY <2>2 DEF Shape, Token, MarkersOK
  <2>3. ASSUME NEW t \in TokenId, token[t] # None PROVE token[t].signer <= starts'
    BY <2>1, <2>2, <2>3
  <2>4. ASSUME ~Forgetful, NEW t \in TokenId, NEW q \in Process, Knows(q, t)'
        PROVE  MarkersAt(state[CapabilityPlace(q)], t)'
    <3>1. CASE settings.database
      <4>1. Knows(q, t)
        BY <1>1, <2>4, <3>1 DEF Knows
      <4>2. CapabilityPlace(q) = "db" /\ CapabilityPlace(q)' = "db"
        BY <1>2, <3>1, Wiring
      <4>3. MarkersAt(state["db"], t)
        BY <2>4, <4>1, <4>2 DEF MarkersOK
      <4> QED
        BY <1>1, <1>3, <4>2, <4>3 DEF MarkersAt
    <3>2. CASE ~settings.database
      <4>1. token[t] # None /\ q \in Running' /\ token[t].signer = key'[q]
        BY <1>1, <2>4, <3>2 DEF Knows
      <4>2. q = p /\ ~settings.issuer_keys
        BY <1>1, <2>4, <3>2, <4>1 DEF Forgetful
      <4>3. token[t].signer = starts + 1
        BY <1>1, <4>1, <4>2
      <4> QED
        BY <2>1, <2>2, <4>1, <4>3
    <3> QED
      BY <3>1, <3>2
  <2>5. ASSUME Forgetful, NEW t \in TokenId PROVE runs[t] < starts'
    <3>1. runs[t] <= starts /\ runs[t] \in Nat
      BY <2>5 DEF MarkersOK, Shape
    <3> QED
      BY <2>1, <3>1
  <2>6. ASSUME Forgetful, NEW t \in TokenId PROVE runs[t] <= starts'
    <3>1. runs[t] <= starts /\ runs[t] \in Nat
      BY <2>6 DEF MarkersOK, Shape
    <3> QED
      BY <2>1, <3>1
  <2>7. Forgetful' = Forgetful
    BY <1>1 DEF Forgetful
  <2>8. \A t \in TokenId : /\ token'[t] = None => runs'[t] = 0 /\ withdrawn'[t] = None
                           /\ token'[t] # None => token'[t].signer <= starts'
    BY <1>1, <2>3 DEF MarkersOK
  <2>9. ~Forgetful => \A t \in TokenId :
           /\ runs'[t] <= 1
           /\ withdrawn'[t] # None => runs'[t] = withdrawn'[t]
    BY <1>1 DEF MarkersOK
  <2> QED
    BY <1>1, <2>4, <2>5, <2>6, <2>7, <2>8, <2>9 DEF MarkersOK
<1> QED
  BY <1>1, <1>4, <1>5, <1>6, <1>7, <1>8, <1>9, <1>10, <1>11 DEF SeparationOfDuties

LEMMA StopKeepsInv ==
    ASSUME Inv, NEW p \in Process, Stop(p)
    PROVE  Inv'
<1> USE DEF Inv
<1>1. /\ key' = [key EXCEPT ![p] = None]
      /\ settings' = settings /\ state' = state /\ decided' = decided
      /\ signers' = signers /\ token' = token /\ starts' = starts /\ owner' = owner
      /\ runs' = runs /\ withdrawn' = withdrawn /\ mandated' = mandated
      /\ ownCases' = ownCases
  BY DEF Stop, history
<1>2. \A q \in Process : /\ key'[q] = key[q] \/ key'[q] = None
                         /\ StorePlace(q)' = StorePlace(q)
                         /\ LedgerPlace(q)' = LedgerPlace(q)
  BY <1>1 DEF Shape, StorePlace, LedgerPlace
<1>3. \A q \in Running' : q \in Running /\ q \in Process /\ key'[q] = key[q]
  BY <1>2 DEF Running
<1>4. Shape'
  BY <1>1 DEF Shape
<1>5. ProcessesOK'
  BY <1>1, <1>3 DEF ProcessesOK
<1>6. LedgersOK'
  BY <1>1, <1>2, <1>3 DEF LedgersOK
<1>7. OwnersOK'
  BY <1>1, <1>2, <1>3 DEF OwnersOK
<1>8. MarkersOK'
  BY <1>1, <1>2, <1>4, MarkersKept
<1>9. PlacesOK' /\ RulesOK' /\ ClaimsOK' /\ SeparationOfDuties'
  BY <1>1 DEF PlacesOK, RulesOK, ClaimsOK, SeparationOfDuties
<1> QED
  BY <1>4, <1>5, <1>6, <1>7, <1>8, <1>9

LEMMA RegisterKeepsInv ==
    ASSUME Inv, NEW p \in Process, NEW cred, NEW a \in Agent, NEW human \in Human,
           RegisterAgent(p, cred, a, human)
    PROVE  Inv'
<1> USE DEF Inv
<1> DEFINE S == StorePlace(p)
<1>1. /\ key[p] # None /\ Sign(p)
      /\ state' \in [Place -> State]
      /\ state'[S].agents = With(state[S].agents, a, human)
      /\ state'[S].rules = state[S].rules /\ state'[S].nonces = state[S].nonces
      /\ state'[S].issued = state[S].issued
      /\ state'[S].consumed = state[S].consumed
      /\ state'[S].revoked = state[S].revoked
      /\ \A q \in Place : q # S => state'[q] = state[q]
      /\ owner' = With(owner, a, human)
      /\ settings' = settings /\ key' = key /\ decided' = decided /\ token' = token
      /\ starts' = starts /\ runs' = runs /\ withdrawn' = withdrawn
      /\ mandated' = mandated /\ ownCases' = ownCases
  BY RegisterEffect
<1>2. /\ S \in Place /\ "db" \in Place /\ p \in Running
      /\ settings.database => S = "db"
      /\ ~settings.database => S = p
      /\ \A q \in Process : q \in Place
  BY <1>1, Wiring DEF Running
<1> HIDE DEF S
<1>3. \A q \in Place : /\ state'[q].rules = state[q].rules
                       /\ state'[q].nonces = state[q].nonces
                       /\ state'[q].issued = state[q].issued
                       /\ state'[q].consumed = state[q].consumed
                       /\ state'[q].revoked = state[q].revoked
  BY <1>1, <1>2
<1>4. Shape'
  <2>1. human \in Owner
    BY DEF Owner
  <2>2. signers' \in [Place -> SUBSET Nat]
    BY <1>1, Signing
  <2> QED
    BY <1>1, <2>1, <2>2 DEF Shape, With
<1>5. LedgersOK' /\ ProcessesOK'
  BY <1>1, SigningKeepsLedgers
<1>6. PlacesOK'
  BY <1>1, <1>2, <1>3, StoreHolds DEF PlacesOK
<1>7. OwnersOK'
  BY <1>1, <1>2, OwnersFollow DEF S
<1>8. RulesOK' /\ ClaimsOK'
  BY <1>1, <1>2, <1>3 DEF RulesOK, ClaimsOK
<1>9. MarkersOK'
  BY <1>1, <1>3, <1>4, MarkersKept
<1> QED
  BY <1>1, <1>4, <1>5, <1>6, <1>7, <1>8, <1>9 DEF SeparationOfDuties

LEMMA ApproveKeepsInv ==
    ASSUME Inv, NEW p \in Process, NEW cred, NEW rule \in RuleBody,
           ApproveRule(p, cred, rule)
    PROVE  Inv'
<1> USE DEF Inv
<1> DEFINE S == StorePlace(p)
<1>1. /\ key[p] # None /\ Sign(p)
      /\ state' \in [Place -> State]
      /\ state'[S].rules = state[S].rules \cup {rule}
      /\ state'[S].agents = state[S].agents /\ state'[S].nonces = state[S].nonces
      /\ state'[S].issued = state[S].issued
      /\ state'[S].consumed = state[S].consumed
      /\ state'[S].revoked = state[S].revoked
      /\ \A q \in Place : q # S => state'[q] = state[q]
      /\ mandated' = mandated \cup {rule}
      /\ ownCases' = CasesAfter(cred, rule)
      /\ ~OwnerApproves(p, cred, rule)
      /\ settings' = settings /\ key' = key /\ decided' = decided /\ token' = token
      /\ starts' = starts /\ owner' = owner /\ runs' = runs /\ withdrawn' = withdrawn
  BY ApproveEffect
<1>2. /\ S \in Place /\ "db" \in Place /\ p \in Running
      /\ settings.database => S = "db"
      /\ ~settings.database => S = p
      /\ \A q \in Process : q \in Place
  BY <1>1, Wiring DEF Running
<1>3. ownCases' = {}
  BY <1>1, <1>2, OwnersAreKnown
<1> HIDE DEF S
<1>4. \A q \in Place : /\ state'[q].agents = state[q].agents
                       /\ state'[q].nonces = state[q].nonces
                       /\ state'[q].issued = state[q].issued
                       /\ state'[q].consumed = state[q].consumed
                       /\ state'[q].revoked = state[q].revoked
  BY <1>1, <1>2
<1>5. Shape'
  <2>1. signers' \in [Place -> SUBSET Nat]
    BY <1>1, Signing
  <2> QED
    BY <1>1, <2>1 DEF Shape
<1>6. LedgersOK' /\ ProcessesOK'
  BY <1>1, SigningKeepsLedgers
<1>7. PlacesOK'
  BY <1>1, <1>2, <1>4, StoreHolds DEF PlacesOK
<1>8. OwnersOK'
  BY <1>1, <1>2, <1>4, OwnersStay
<1>9. RulesOK'
  <2>1. \A q \in Place : state'[q].rules \subseteq mandated'
    BY <1>1, <1>2 DEF RulesOK
  <2> QED
    BY <1>1, <2>1 DEF RulesOK
<1>10. ClaimsOK'
  BY <1>1, <1>2, <1>4 DEF ClaimsOK
<1>11. MarkersOK'
  BY <1>1, <1>4, <1>5, MarkersKept
<1> QED
  BY <1>3, <1>5, <1>6, <1>7, <1>8, <1>9, <1>10, <1>11 DEF SeparationOfDuties

LEMMA DecisionKeepsInv ==
    ASSUME Inv, NEW p \in Process, NEW cred, NEW e \in EventBody,
           SubmitDecision(p, cred, e)
    PROVE  Inv'
<1> USE DEF Inv
<1>1. /\ key[p] # None /\ Sign(p) /\ ~OwnerApproves(p, cred, e)
      /\ decided' = [decided EXCEPT ![p] = @ \cup {e}]
      /\ ownCases' = CasesAfter(cred, e)
      /\ settings' = settings /\ key' = key /\ state' = state /\ token' = token
      /\ starts' = starts /\ owner' = owner /\ runs' = runs /\ withdrawn' = withdrawn
      /\ mandated' = mandated
  BY DEF SubmitDecision, Serves
<1>2. p \in Running
  BY <1>1 DEF Running
<1>3. ownCases' = {}
  BY <1>1, <1>2, OwnersAreKnown
<1>4. Shape'
  <2>1. signers' \in [Place -> SUBSET Nat]
    BY <1>1, Signing
  <2>2. decided' \in [Process -> SUBSET EventBody]
    BY <1>1 DEF Shape
  <2> QED
    BY <1>1, <2>1, <2>2 DEF Shape
<1>5. LedgersOK' /\ ProcessesOK'
  BY <1>1, SigningKeepsLedgers
<1>6. OwnersOK'
  BY <1>1, Wiring, OwnersStay DEF Running
<1>7. PlacesOK' /\ RulesOK' /\ ClaimsOK'
  BY <1>1 DEF PlacesOK, RulesOK, ClaimsOK
<1>8. MarkersOK'
  BY <1>1, <1>4, MarkersKept
<1> QED
  BY <1>3, <1>4, <1>5, <1>6, <1>7, <1>8 DEF SeparationOfDuties

\* A token in an unused slot: its event is claimed and, if it executes, ruled.
LEMMA ProposeKeepsInv ==
    ASSUME Inv, NEW p \in Process, NEW cred, NEW e \in EventBody,
           ProposeEvent(p, cred, e)
    PROVE  Inv'
<1> USE DEF Inv
<1> DEFINE S == StorePlace(p)
           human == Accepted(p, e).agents[e.agent]
           new == [event |-> e, signer |-> key[p]]
           Minted(t) == /\ token[t] = None
                        /\ token' = With(token, t, new)
                        /\ state'[S].issued = state[S].issued \cup {t}
                        /\ e.requires_execution =>
                              \E rule \in state[S].rules : Matches(rule, e)
<1>1. /\ key[p] # None /\ Sign(p)
      /\ state' \in [Place -> State]
      /\ state'[S].agents = With(state[S].agents, e.agent, human)
      /\ human \in Owner
      /\ state'[S].rules = state[S].rules
      /\ Claim(e) \notin state[S].nonces
      /\ state'[S].nonces = state[S].nonces \cup {Claim(e)}
      /\ state'[S].consumed = state[S].consumed
      /\ state'[S].revoked = state[S].revoked
      /\ \A q \in Place : q # S => state'[q] = state[q]
      /\ owner' = With(owner, e.agent, human)
      /\ \/ \E t \in TokenId : Minted(t)
         \/ token' = token /\ state'[S].issued = state[S].issued
      /\ settings' = settings /\ key' = key /\ decided' = decided
      /\ starts' = starts /\ runs' = runs /\ withdrawn' = withdrawn
      /\ mandated' = mandated /\ ownCases' = ownCases
  BY ProposeEffect
<1>2. /\ S \in Place /\ "db" \in Place /\ p \in Running
      /\ settings.database => S = "db"
      /\ ~settings.database => S = p
      /\ \A q \in Process : q \in Place
  BY <1>1, Wiring DEF Running
<1>3. OwnersOK'
  BY <1>1, <1>2, OwnersFollow
<1>4. key[p] \in Nat /\ signers' \in [Place -> SUBSET Nat]
  BY <1>1, Signing
<1> HIDE DEF S, human, Minted
<1>5. new \in Token /\ new # None /\ new.event = e /\ new.signer = key[p]
  BY <1>4, DeploymentAssumption DEF Token
<1> HIDE DEF new
<1>6. \A t \in TokenId : Minted(t) =>
         /\ token' \in [TokenId -> Token \cup {None}]
         /\ token[t] = None /\ token'[t] = new
         /\ \A u \in TokenId : u # t => token'[u] = token[u]
  BY <1>5 DEF Minted, With, Shape
<1>7. \A q \in Place : /\ state'[q].rules = state[q].rules
                       /\ state[q].nonces \subseteq state'[q].nonces
                       /\ state[q].issued \subseteq state'[q].issued
                       /\ state'[q].consumed = state[q].consumed
                       /\ state'[q].revoked = state[q].revoked
  BY <1>1, <1>2 DEF Minted
<1>8. Shape'
  <2>1. owner' \in [Agent -> Owner]
    BY <1>1 DEF Shape, With
  <2>2. token' \in [TokenId -> Token \cup {None}]
    BY <1>1, <1>6 DEF Shape
  <2> QED
    BY <1>1, <1>4, <2>1, <2>2 DEF Shape
<1>9. LedgersOK' /\ ProcessesOK'
  BY <1>1, SigningKeepsLedgers
<1>10. PlacesOK'
  <2>1. ASSUME NEW q \in Place, NEW u \in TokenId, u \in state'[q].issued
        PROVE  token'[u] # None
    <3>1. CASE u \in state[q].issued
      BY <1>1, <1>5, <1>6, <3>1 DEF PlacesOK
    <3>2. CASE u \notin state[q].issued
      <4>1. Minted(u)
        BY <1>1, <1>2, <2>1, <3>2 DEF Minted
      <4> QED
        BY <1>5, <1>6, <4>1
    <3> QED
      BY <3>1, <3>2
  <2>2. state'["db"].consumed \cup state'["db"].revoked \subseteq state'["db"].issued
    BY <1>2, <1>7 DEF PlacesOK
  <2>3. settings.database => \A q \in Process : state'[q] = Nothing
    BY <1>1, <1>2, StoreHolds
  <2> QED
    BY <1>1, <2>1, <2>2, <2>3 DEF PlacesOK
<1>11. RulesOK'
  <2>1. \A q \in Place : state'[q].rules \subseteq mandated
    BY <1>7 DEF RulesOK
  <2>2. ASSUME NEW u \in TokenId, token'[u] # None, token'[u].event.requires_execution
        PROVE  \E rule \in mandated : Matches(rule, token'[u].event)
    <3>1. CASE token'[u] = token[u]
      BY <2>2, <3>1 DEF RulesOK
    <3>2. CASE token'[u] # token[u]
      <4>1. Minted(u) /\ token'[u] = new
        BY <1>1, <1>6, <3>2
      <4>2. PICK rule \in state[S].rules : Matches(rule, e)
        BY <1>5, <2>2, <4>1 DEF Minted
      <4>3. rule \in mandated
        BY <1>2, <4>2 DEF RulesOK
      <4> QED
        BY <1>5, <4>1, <4>2, <4>3
    <3> QED
      BY <3>1, <3>2
  <2> QED
    BY <1>1, <2>1, <2>2 DEF RulesOK
<1>12. ClaimsOK'
  <2> SUFFICES ASSUME settings.database
               PROVE  /\ \A t \in TokenId : token'[t] # None =>
                            Claim(token'[t].event) \in state'["db"].nonces
                      /\ \A t, u \in TokenId :
                            t # u /\ token'[t] # None /\ token'[u] # None =>
                               Claim(token'[t].event) # Claim(token'[u].event)
    BY <1>1 DEF ClaimsOK
  <2>1. /\ \A t \in TokenId : token[t] # None =>
              Claim(token[t].event) \in state["db"].nonces
        /\ \A t, u \in TokenId : t # u /\ token[t] # None /\ token[u] # None =>
              Claim(token[t].event) # Claim(token[u].event)
    BY DEF ClaimsOK
  <2>2. /\ state["db"].nonces \subseteq state'["db"].nonces
        /\ Claim(e) \in state'["db"].nonces /\ Claim(e) \notin state["db"].nonces
    BY <1>1, <1>2, <1>7
  <2>3. CASE token' = token
    BY <2>1, <2>2, <2>3
  <2>4. ASSUME NEW t \in TokenId, Minted(t)
        PROVE  /\ \A u \in TokenId : token'[u] # None =>
                     Claim(token'[u].event) \in state'["db"].nonces
               /\ \A u, v \in TokenId :
                     u # v /\ token'[u] # None /\ token'[v] # None =>
                        Claim(token'[u].event) # Claim(token'[v].event)
    <3>1. /\ token'[t] = new /\ token[t] = None
          /\ \A u \in TokenId : u # t => token'[u] = token[u]
      BY <1>6, <2>4
    <3>2. Claim(token'[t].event) = Claim(e)
      BY <1>5, <3>1
    <3>3. ASSUME NEW u \in TokenId, u # t, token'[u] # None
          PROVE  /\ Claim(token'[u].event) \in state["db"].nonces
                 /\ token[u] # None /\ token'[u] = token[u]
      BY <2>1, <3>1, <3>3
    <3>4. \A u \in TokenId : token'[u] # None =>
             Claim(token'[u].event) \in state'["db"].nonces
      BY <2>2, <3>2, <3>3
    <3>5. ASSUME NEW u \in TokenId, NEW v \in TokenId,
                 u # v, token'[u] # None, token'[v] # None
          PROVE  Claim(token'[u].event) # Claim(token'[v].event)
      <4>1. CASE u # t /\ v # t
        BY <2>1, <3>3, <3>5, <4>1
      <4>2. CASE u = t \/ v = t
        BY <2>2, <3>2, <3>3, <3>5, <4>2
      <4> QED
        BY <4>1, <4>2
    <3> QED
      BY <3>4, <3>5
  <2> QED
    BY <1>1, <2>3, <2>4
<1>13. MarkersOK'
  <2>1. CASE token' = token
    BY <1>1, <1>7, <1>8, <2>1, MarkersKept
  <2>2. ASSUME NEW t \in TokenId, Minted(t)
        PROVE  MarkersOK'
    <3>1. /\ token[t] = None /\ token'[t] = new /\ runs[t] = 0 /\ withdrawn[t] = None
          /\ \A u \in TokenId : u # t => token'[u] = token[u]
      BY <1>6, <2>2 DEF MarkersOK
    <3>2. Forgetful' = Forgetful /\ Running' = Running
          /\ \A q \in Process : CapabilityPlace(q)' = CapabilityPlace(q)
      BY <1>1 DEF Forgetful, Running, CapabilityPlace
    <3>3. ASSUME NEW u \in TokenId
          PROVE  /\ token'[u] = None => runs'[u] = 0 /\ withdrawn'[u] = None
                 /\ token'[u] # None => token'[u].signer <= starts'
      <4>1. key[p] <= starts
        BY <1>2 DEF ProcessesOK
      <4> QED
        BY <1>1, <1>5, <3>1, <4>1 DEF MarkersOK
    <3>4. ASSUME ~Forgetful, NEW u \in TokenId, NEW q \in Process, Knows(q, u)'
          PROVE  MarkersAt(state[CapabilityPlace(q)], u)'
      <4>1. /\ CapabilityPlace(q) \in Place
            /\ CapabilityPlace(q) = StorePlace(q)
            /\ (state[CapabilityPlace(q)])' = state'[CapabilityPlace(q)]
        BY <3>2, Wiring
      <4>2. CASE u = t
        <5>1. CapabilityPlace(q) = S
          <6>1. CASE settings.database
            BY <1>2, <4>1, <6>1, Wiring
          <6>2. CASE ~settings.database
            <7>1. q \in Running
              BY <1>1, <3>2, <3>4, <6>2 DEF Knows
            <7> QED
              BY <1>2, <4>1, <6>2, <7>1, Wiring DEF ProcessesOK
          <6> QED
            BY <6>1, <6>2
        <5>2. u \in state'[S].issued
          BY <2>2, <4>2 DEF Minted
        <5> QED
          BY <1>1, <3>1, <4>1, <4>2, <5>1, <5>2 DEF MarkersAt
      <4>3. CASE u # t
        <5>1. Knows(q, u)
          BY <1>1, <3>1, <3>2, <3>4, <4>3 DEF Knows
        <5>2. MarkersAt(state[CapabilityPlace(q)], u)
          BY <3>4, <5>1 DEF MarkersOK
        <5> QED
          BY <1>1, <1>7, <4>1, <5>2 DEF MarkersAt
      <4> QED
        BY <4>2, <4>3
    <3>5. ASSUME Forgetful, NEW u \in TokenId
          PROVE  /\ runs'[u] <= starts'
                 /\ \A q \in Running : u \notin state'[q].consumed => runs'[u] < starts'
      <4>1. \A q \in Running : q \in Place /\ state'[q].consumed = state[q].consumed
        BY <1>2, <1>7 DEF Running
      <4> QED
        BY <1>1, <3>5, <4>1 DEF MarkersOK
    <3>6. ~Forgetful => \A u \in TokenId :
             runs'[u] <= 1 /\ (withdrawn'[u] # None => runs'[u] = withdrawn'[u])
      BY <1>1 DEF MarkersOK
    <3> QED
      BY <3>2, <3>3, <3>4, <3>5, <3>6 DEF MarkersOK
  <2> QED
    BY <1>1, <2>1, <2>2
<1> QED
  BY <1>1, <1>3, <1>8, <1>9, <1>10, <1>11, <1>12, <1>13 DEF SeparationOfDuties

\* Every known token of the scope that can still run is marked.
LEMMA IncidentKeepsInv ==
    ASSUME Inv, NEW p \in Process, NEW cred, NEW scope,
           RecordIncident(p, cred, scope)
    PROVE  Inv'
<1> USE DEF Inv
<1> DEFINE S == StorePlace(p)
<1>1. /\ key[p] # None /\ Sign(p)
      /\ state' \in [Place -> State]
      /\ state'[S].rules \subseteq state[S].rules
      /\ state'[S].agents = state[S].agents /\ state'[S].nonces = state[S].nonces
      /\ state'[S].issued = state[S].issued
      /\ state'[S].consumed = state[S].consumed
      /\ state'[S].revoked = state[S].revoked \cup Outstanding(p, scope)
      /\ \A q \in Place : q # S => state'[q] = state[q]
      /\ withdrawn' = Withdrawing(scope)
      /\ settings' = settings /\ key' = key /\ decided' = decided /\ token' = token
      /\ starts' = starts /\ owner' = owner /\ runs' = runs /\ mandated' = mandated
      /\ ownCases' = ownCases
  BY IncidentEffect
<1>2. /\ S \in Place /\ "db" \in Place /\ p \in Running /\ CapabilityPlace(p) = S
      /\ settings.database => S = "db"
      /\ ~settings.database => S = p
      /\ \A q \in Process : q \in Place
  BY <1>1, Wiring DEF Running
<1>3. /\ \A t \in state[S].issued \ (state[S].consumed \cup state[S].revoked) :
            EventScope(token[t].event) = scope => t \in Outstanding(p, scope)
      /\ Outstanding(p, scope) \subseteq state[S].issued
  BY <1>2 DEF Outstanding
<1> HIDE DEF S
<1>4. \A q \in Place : /\ state'[q].rules \subseteq state[q].rules
                       /\ state'[q].agents = state[q].agents
                       /\ state'[q].nonces = state[q].nonces
                       /\ state'[q].issued = state[q].issued
                       /\ state'[q].consumed = state[q].consumed
                       /\ state[q].revoked \subseteq state'[q].revoked
  BY <1>1, <1>2
<1>5. \A t \in TokenId :
         IF /\ token[t] # None
            /\ EventScope(token[t].event) = scope
            /\ withdrawn[t] = None
           THEN withdrawn'[t] = runs[t] ELSE withdrawn'[t] = withdrawn[t]
  BY <1>1 DEF Withdrawing
<1>6. Shape'
  <2>1. signers' \in [Place -> SUBSET Nat]
    BY <1>1, Signing
  <2>2. withdrawn' \in [TokenId -> Nat \cup {None}]
    BY <1>1 DEF Withdrawing, Shape
  <2> QED
    BY <1>1, <2>1, <2>2 DEF Shape
<1>7. LedgersOK' /\ ProcessesOK'
  BY <1>1, SigningKeepsLedgers
<1>8. PlacesOK'
  <2>1. state'["db"].consumed \cup state'["db"].revoked \subseteq state'["db"].issued
    <3>1. CASE S = "db"
      BY <1>1, <1>3, <3>1 DEF PlacesOK
    <3>2. CASE S # "db"
      BY <1>1, <1>2, <3>2 DEF PlacesOK
    <3> QED
      BY <3>1, <3>2
  <2>2. settings.database => \A q \in Process : state'[q] = Nothing
    BY <1>1, <1>2, StoreHolds
  <2> QED
    BY <1>1, <1>4, <2>1, <2>2 DEF PlacesOK
<1>9. OwnersOK'
  BY <1>1, <1>4, OwnersStay
<1>10. RulesOK' /\ ClaimsOK'
  BY <1>1, <1>2, <1>4 DEF RulesOK, ClaimsOK
<1>11. MarkersOK'
  <2>1. Forgetful' = Forgetful /\ Running' = Running
        /\ \A q \in Process : CapabilityPlace(q)' = CapabilityPlace(q)
    BY <1>1 DEF Forgetful, Running, CapabilityPlace
  <2>2. \A t \in TokenId :
           /\ token'[t] = None => runs'[t] = 0 /\ withdrawn'[t] = None
           /\ token'[t] # None => token'[t].signer <= starts'
    BY <1>1, <1>5 DEF MarkersOK
  <2>3. ASSUME ~Forgetful, NEW t \in TokenId
        PROVE  /\ runs'[t] <= 1
               /\ withdrawn'[t] # None => runs'[t] = withdrawn'[t]
    BY <1>1, <1>5, <2>3 DEF MarkersOK
  <2>4. ASSUME ~Forgetful, NEW t \in TokenId, NEW q \in Process, Knows(q, t)'
        PROVE  MarkersAt(state[CapabilityPlace(q)], t)'
    <3>1. Knows(q, t)
      BY <1>1, <2>1, <2>4 DEF Knows
    <3>2. MarkersAt(state[CapabilityPlace(q)], t)
      BY <2>4, <3>1 DEF MarkersOK
    <3>3. CapabilityPlace(q) = S
      <4>1. CASE settings.database
        BY <1>2, <4>1, Wiring
      <4>2. CASE ~settings.database
        <5>1. q = p
          BY <1>2, <3>1, <4>2 DEF Knows, ProcessesOK
        <5> QED
          BY <1>2, <5>1
      <4> QED
        BY <4>1, <4>2
    <3>4. (state[CapabilityPlace(q)])' = state'[S]
      BY <2>1, <3>3
    <3>5. t \in state'[S].issued /\ (runs'[t] # 0 => t \in state'[S].consumed)
      BY <1>1, <3>2, <3>3 DEF MarkersAt
    <3>6. ASSUME withdrawn'[t] # None
          PROVE  t \in state'[S].consumed \cup state'[S].revoked
      <4>1. CASE withdrawn[t] # None
        BY <1>1, <3>2, <3>3, <4>1 DEF MarkersAt
      <4>2. CASE withdrawn[t] = None
        <5>1. EventScope(token[t].event) = scope
          BY <1>5, <3>6, <4>2
        <5> QED
          BY <1>1, <1>3, <3>5, <5>1
      <4> QED
        BY <4>1, <4>2
    <3> QED
      BY <3>4, <3>5, <3>6 DEF MarkersAt
  <2>5. ASSUME Forgetful, NEW t \in TokenId
        PROVE  /\ runs'[t] <= starts'
               /\ \A q \in Running : t \notin state'[q].consumed => runs'[t] < starts'
    <3>1. \A q \in Running : q \in Place /\ state'[q].consumed = state[q].consumed
      BY <1>2, <1>4 DEF Running
    <3> QED
      BY <1>1, <2>5, <3>1 DEF MarkersOK
  <2> QED
    BY <2>1, <2>2, <2>3, <2>4, <2>5 DEF MarkersOK
<1> QED
  BY <1>1, <1>6, <1>7, <1>8, <1>9, <1>10, <1>11 DEF SeparationOfDuties

\* Whoever accepts the signature has the markers, so this is the first run.
LEMMA ExecuteKeepsInv ==
    ASSUME Inv, NEW p \in Process, NEW t \in TokenId, Execute(p, t)
    PROVE  Inv'
<1> USE DEF Inv
<1> DEFINE S == StorePlace(p)
<1>1. /\ key[p] # None /\ token[t] # None /\ token[t].signer = key[p]
      /\ settings.database => t \in state[S].issued
      /\ t \notin state[S].consumed \cup state[S].revoked
      /\ state' \in [Place -> State]
      /\ state'[S].rules = state[S].rules
      /\ state'[S].agents = state[S].agents /\ state'[S].nonces = state[S].nonces
      /\ state'[S].issued = state[S].issued
      /\ state'[S].consumed = state[S].consumed \cup {t}
      /\ state'[S].revoked = state[S].revoked
      /\ \A q \in Place : q # S => state'[q] = state[q]
      /\ runs' = With(runs, t, runs[t] + 1)
      /\ settings' = settings /\ key' = key /\ decided' = decided
      /\ signers' = signers /\ token' = token /\ starts' = starts /\ owner' = owner
      /\ withdrawn' = withdrawn /\ mandated' = mandated /\ ownCases' = ownCases
  BY ExecuteEffect
<1>2. /\ S \in Place /\ "db" \in Place /\ p \in Running /\ CapabilityPlace(p) = S
      /\ settings.database => S = "db"
      /\ ~settings.database => S = p
      /\ \A q \in Process : q \in Place
  BY <1>1, Wiring DEF Running
<1> HIDE DEF S
<1>3. \A q \in Place : /\ state'[q].rules = state[q].rules
                       /\ state'[q].agents = state[q].agents
                       /\ state'[q].nonces = state[q].nonces
                       /\ state'[q].issued = state[q].issued
                       /\ state[q].consumed \subseteq state'[q].consumed
                       /\ state'[q].revoked = state[q].revoked
  BY <1>1, <1>2
<1>4. /\ runs[t] \in Nat /\ runs'[t] = runs[t] + 1
      /\ \A u \in TokenId : u # t => runs'[u] = runs[u]
  BY <1>1 DEF With, Shape
<1>5. Shape'
  <2>1. runs' \in [TokenId -> Nat]
    BY <1>1 DEF With, Shape
  <2> QED
    BY <1>1, <2>1 DEF Shape
<1>6. /\ Running' = Running /\ Forgetful' = Forgetful
      /\ \A q \in Process : /\ CapabilityPlace(q)' = CapabilityPlace(q)
                            /\ LedgerPlace(q)' = LedgerPlace(q)
      /\ \A q \in Running : q \in Process
  BY <1>1 DEF Running, Forgetful, CapabilityPlace, LedgerPlace
<1>7. ProcessesOK'
  BY <1>1, <1>6, Zenon DEF ProcessesOK, ConfiguredKey
<1>8. LedgersOK'
  BY <1>1, <1>6 DEF LedgersOK
<1>9. PlacesOK'
  <2>1. state'["db"].consumed \cup state'["db"].revoked \subseteq state'["db"].issued
    <3>1. CASE S = "db"
      <4>1. settings.database
        BY <1>2, <3>1, Wiring
      <4> QED
        BY <1>1, <3>1, <4>1 DEF PlacesOK
    <3>2. CASE S # "db"
      BY <1>1, <1>2, <3>2 DEF PlacesOK
    <3> QED
      BY <3>1, <3>2
  <2>2. settings.database => \A q \in Process : state'[q] = Nothing
    BY <1>1, <1>2, StoreHolds
  <2> QED
    BY <1>1, <1>3, <2>1, <2>2 DEF PlacesOK
<1>10. OwnersOK'
  BY <1>1, <1>3, OwnersStay
<1>11. RulesOK' /\ ClaimsOK'
  BY <1>1, <1>2, <1>3 DEF RulesOK, ClaimsOK
<1>12. MarkersOK'
  <2>1. \A u \in TokenId :
           /\ token'[u] = None => runs'[u] = 0 /\ withdrawn'[u] = None
           /\ token'[u] # None => token'[u].signer <= starts'
    BY <1>1, <1>4 DEF MarkersOK
  <2>2. ASSUME ~Forgetful
        PROVE  runs[t] = 0 /\ withdrawn[t] = None /\ t \in state[S].issued
    <3>1. Knows(p, t)
      BY <1>1, <1>2 DEF Knows
    <3>2. MarkersAt(state[S], t)
      BY <1>2, <2>2, <3>1 DEF MarkersOK
    <3> QED
      BY <1>1, <3>2 DEF MarkersAt
  <2>3. ASSUME ~Forgetful, NEW u \in TokenId
        PROVE  /\ runs'[u] <= 1
               /\ withdrawn'[u] # None => runs'[u] = withdrawn'[u]
    <3>1. CASE u = t
      BY <1>1, <1>4, <2>2, <2>3, <3>1
    <3>2. CASE u # t
      BY <1>1, <1>4, <2>3, <3>2 DEF MarkersOK
    <3> QED
      BY <3>1, <3>2
  <2>4. ASSUME ~Forgetful, NEW u \in TokenId, NEW q \in Process, Knows(q, u)'
        PROVE  MarkersAt(state[CapabilityPlace(q)], u)'
    <3>1. Knows(q, u)
      BY <1>1, <1>6, <2>4 DEF Knows
    <3>2. MarkersAt(state[CapabilityPlace(q)], u)
      BY <2>4, <3>1 DEF MarkersOK
    <3>3. CapabilityPlace(q) = S
      <4>1. CASE settings.database
        BY <1>2, <4>1, Wiring
      <4>2. CASE ~settings.database
        <5>1. q = p
          BY <1>2, <3>1, <4>2 DEF Knows, ProcessesOK
        <5> QED
          BY <1>2, <5>1
      <4> QED
        BY <4>1, <4>2
    <3>4. (state[CapabilityPlace(q)])' = state'[S]
      BY <1>6, <3>3
    <3>5. /\ u \in state'[S].issued
          /\ withdrawn'[u] # None => u \in state'[S].consumed \cup state'[S].revoked
      BY <1>1, <3>2, <3>3 DEF MarkersAt
    <3>6. runs'[u] # 0 => u \in state'[S].consumed
      BY <1>1, <1>4, <3>2, <3>3 DEF MarkersAt
    <3> QED
      BY <3>4, <3>5, <3>6 DEF MarkersAt
  <2>5. ASSUME Forgetful, NEW u \in TokenId
        PROVE  /\ runs'[u] <= starts'
               /\ \A q \in Running : u \notin state'[q].consumed => runs'[u] < starts'
    <3>1. ~settings.database /\ S = p /\ \A q \in Running : q = p
      BY <1>2, <2>5 DEF Forgetful, ProcessesOK
    <3>2. CASE u # t
      BY <1>1, <1>2, <1>4, <2>5, <3>1, <3>2 DEF MarkersOK
    <3>3. CASE u = t
      <4>1. runs[t] < starts
        BY <1>1, <1>2, <2>5, <3>1 DEF MarkersOK
      <4>2. starts \in Nat
        BY DEF Shape
      <4>3. runs'[t] <= starts
        BY <1>4, <4>1, <4>2
      <4> QED
        BY <1>1, <3>1, <3>3, <4>3
    <3> QED
      BY <3>2, <3>3
  <2> QED
    BY <1>1, <1>6, <2>1, <2>3, <2>4, <2>5 DEF MarkersOK
<1> QED
  BY <1>1, <1>5, <1>7, <1>8, <1>9, <1>10, <1>11, <1>12 DEF SeparationOfDuties

(***************************************************************************)
(* The invariant holds, and with it what the runs check.                   *)
(***************************************************************************)
LEMMA InitInv ==
    ASSUME Init
    PROVE  Inv
<1>1. \A q \in Place : state[q] = Nothing
  BY DEF Init
<1>2. "db" \in Place /\ Running = {}
  BY DEF Init, Running, Place
<1>3. Shape
  <2>1. Nothing \in State
    BY DEF Nothing, State, Owner
  <2>2. MaxStarts \in Nat
    BY DeploymentAssumption
  <2> QED
    BY <2>1, <2>2 DEF Init, Shape, Owner
<1>4. ProcessesOK
  BY <1>2 DEF ProcessesOK
<1>5. LedgersOK
  BY <1>2 DEF LedgersOK, Init
<1>6. PlacesOK
  <2>1. \A q \in Place : state[q].issued = {} /\ state[q].consumed = {}
                         /\ state[q].revoked = {}
    BY <1>1 DEF Nothing
  <2>2. \A p \in Process : state[p] = Nothing
    BY <1>1 DEF Place
  <2> QED
    BY <1>2, <2>1, <2>2 DEF PlacesOK
<1>7. OwnersOK
  BY <1>1, <1>2 DEF Init, OwnersOK, Nothing
<1>8. RulesOK
  BY <1>1 DEF Init, RulesOK, Nothing
<1>9. ClaimsOK
  BY DEF Init, ClaimsOK
<1>10. MarkersOK
  <2>1. \A t \in TokenId : token[t] = None /\ runs[t] = 0 /\ withdrawn[t] = None
    BY DEF Init
  <2>2. \A t \in TokenId, p \in Process : ~Knows(p, t)
    BY <2>1 DEF Knows
  <2>3. starts = 0
    BY DEF Init
  <2> QED
    BY <1>2, <2>1, <2>2, <2>3 DEF MarkersOK
<1> QED
  BY <1>3, <1>4, <1>5, <1>6, <1>7, <1>8, <1>9, <1>10
  DEF Inv, Init, SeparationOfDuties

LEMMA StepInv ==
    ASSUME Inv, [Next]_vars
    PROVE  Inv'
<1>1. CASE UNCHANGED vars
  <2>1. /\ settings' = settings /\ key' = key /\ state' = state /\ decided' = decided
        /\ signers' = signers /\ token' = token /\ starts' = starts /\ owner' = owner
        /\ runs' = runs /\ withdrawn' = withdrawn /\ mandated' = mandated
        /\ ownCases' = ownCases
    BY <1>1 DEF vars, history
  <2>2. Shape' /\ ProcessesOK'
    BY <2>1 DEF Inv, Shape, ProcessesOK, Running
  <2>3. LedgersOK'
    BY <2>1 DEF Inv, LedgersOK, Running, LedgerPlace
  <2>4. PlacesOK' /\ RulesOK' /\ ClaimsOK' /\ SeparationOfDuties'
    BY <2>1 DEF Inv, PlacesOK, RulesOK, ClaimsOK, SeparationOfDuties
  <2>5. OwnersOK'
    BY <2>1, OwnersStay DEF Inv
  <2>6. MarkersOK'
    BY <2>1, <2>2, MarkersKept DEF Inv
  <2> QED
    BY <2>2, <2>3, <2>4, <2>5, <2>6 DEF Inv
<1>2. ASSUME NEW p \in Process, Request(p)
      PROVE  Inv'
  <2>1. PICK cred \in Credential :
           \/ \E a \in Agent, human \in Human : RegisterAgent(p, cred, a, human)
           \/ \E e \in EventBody : ProposeEvent(p, cred, e) \/ SubmitDecision(p, cred, e)
           \/ \E rule \in RuleBody : ApproveRule(p, cred, rule)
           \/ \E e \in EventBody : RecordIncident(p, cred, EventScope(e))
    BY <1>2 DEF Request
  <2>2. CASE \E a \in Agent, human \in Human : RegisterAgent(p, cred, a, human)
    BY <2>2, RegisterKeepsInv
  <2>3. CASE \E e \in EventBody : ProposeEvent(p, cred, e)
    BY <2>3, ProposeKeepsInv
  <2>4. CASE \E e \in EventBody : SubmitDecision(p, cred, e)
    BY <2>4, DecisionKeepsInv
  <2>5. CASE \E rule \in RuleBody : ApproveRule(p, cred, rule)
    BY <2>5, ApproveKeepsInv
  <2>6. CASE \E e \in EventBody : RecordIncident(p, cred, EventScope(e))
    BY <2>6, IncidentKeepsInv
  <2> QED
    BY <2>1, <2>2, <2>3, <2>4, <2>5, <2>6
<1> QED
  BY <1>1, <1>2, StartKeepsInv, StopKeepsInv, ExecuteKeepsInv DEF Next

THEOREM Invariance == Spec => []Inv
BY InitInv, StepInv, PTL DEF Spec

\* Types, and what is where by the wiring: build_control_plane_from_settings.
THEOREM TypeCorrect == Spec => []TypeOK
<1>1. Inv => TypeOK
  BY DEF Inv, Shape, PlacesOK, TypeOK
<1> QED
  BY <1>1, Invariance, PTL

\* A single-use token runs once, across replicas and restarts: consume(), with
\* the exception that SingleUse makes.
THEOREM TokensRunOnce == Spec => []SingleUse
<1>1. Inv => SingleUse
  BY DEF Inv, MarkersOK, SingleUse
<1> QED
  BY <1>1, Invariance, PTL

\* record_incident, served by any replica, ends the tokens of the scope for good.
THEOREM IncidentsLast == Spec => []WithdrawalLasts
<1>1. Inv => WithdrawalLasts
  BY DEF Inv, MarkersOK, WithdrawalLasts
<1> QED
  BY <1>1, Invariance, PTL

\* claim_nonce: with a database an event is executed once, however it is replayed.
THEOREM ReplaysDoNotRun == Spec => []EventRunsOnce
<1>1. ASSUME Inv, settings.database, NEW t \in TokenId, NEW u \in TokenId,
             t # u, runs[t] > 0, runs[u] > 0
      PROVE  \/ EventScope(token[t].event) # EventScope(token[u].event)
             \/ token[t].event.nonce # token[u].event.nonce
  <2>1. token[t] # None /\ token[u] # None
    BY <1>1 DEF Inv, MarkersOK
  <2>2. Claim(token[t].event) # Claim(token[u].event)
    BY <1>1, <2>1 DEF Inv, ClaimsOK
  <2> QED
    BY <2>2 DEF Claim, EventScope
<1>2. Inv => EventRunsOnce
  BY <1>1 DEF EventRunsOnce
<1> QED
  BY <1>2, Invariance, PTL

\* No execution without a rule from somebody accountable: authentication, roles,
\* the ladder and the rules together.
THEOREM ExecutionsHaveMandate == Spec => []ExecutionTracesToAdmin
<1>1. ASSUME Inv, NEW t \in TokenId, runs[t] > 0
      PROVE  token[t] # None
  BY <1>1 DEF Inv, MarkersOK
<1>2. Inv => ExecutionTracesToAdmin
  BY <1>1 DEF Inv, RulesOK, ExecutionTracesToAdmin
<1> QED
  BY <1>2, Invariance, PTL

\* No owner approved his own agent's case, on whatever replica.
THEOREM OwnersNeverApprove == Spec => []SeparationOfDuties
<1>1. Inv => SeparationOfDuties
  BY DEF Inv
<1> QED
  BY <1>1, Invariance, PTL

\* The ledger a replica verifies holds signatures of its own key only.
THEOREM ReplicasVerify == Spec => []EveryReplicaVerifies
<1>1. ASSUME Inv, NEW p \in Running,
             settings.issuer_keys \/ settings.strict \/ LedgerPlace(p) = p
      PROVE  signers[LedgerPlace(p)] \subseteq {key[p]}
  <2>1. LedgerPlace(p) \in Place
    BY Wiring DEF Running
  <2>2. CASE settings.issuer_keys
    BY <1>1, <2>1, <2>2 DEF Inv, LedgersOK, ProcessesOK
  <2>3. CASE ~settings.issuer_keys
    BY <1>1, <2>3 DEF Inv, LedgersOK, ProcessesOK
  <2> QED
    BY <2>2, <2>3
<1>2. Inv => EveryReplicaVerifies
  BY <1>1 DEF EveryReplicaVerifies
<1> QED
  BY <1>2, Invariance, PTL

=============================================================================
