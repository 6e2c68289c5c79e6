-------------------------- MODULE CapabilityProofs --------------------------
(***************************************************************************)
(* What is proved about Capability, for every set of tokens, threads,      *)
(* grants and requests, every lifetime and every bound.                    *)
(***************************************************************************)
EXTENDS Capability, TLAPS

(***************************************************************************)
(* Type correctness.                                                       *)
(***************************************************************************)

\* The steps and the results the actions name are steps and results.
LEMMA Names ==
    /\ "idle" \in Step /\ "is_revoked" \in Step /\ "expiry" \in Step
    /\ "try_consume" \in Step /\ "why" \in Step /\ "action" \in Step
    /\ "none" \in Outcome /\ "no_token" \in Outcome
    /\ "invalid_token_signature" \in Outcome /\ "token_revoked" \in Outcome
    /\ "token_expired" \in Outcome /\ "out_of_scope" \in Outcome
    /\ "already_consumed" \in Outcome /\ "executed" \in Outcome
    /\ "raised" \in Outcome
BY DEF Step, Outcome

\* The state of the store, the threads and the histories always have their
\* types, and a thread inside execute always holds a minted token.
THEOREM TypeCorrect == Spec => []TypeOK
<1>1. Init => TypeOK
  BY DEF Init, StoreInit, TypeOK, StoreTypeOK, Step, Outcome
<1>2. TypeOK /\ [Next]_vars => TypeOK'
  <2> SUFFICES ASSUME TypeOK, [Next]_vars
               PROVE  TypeOK'
    OBVIOUS
  <2> USE DEF TypeOK, StoreTypeOK
  <2>1. ASSUME NEW t \in TokenId, NEW g \in Grant, NEW ttl \in TTL, Mint(t, g, ttl)
        PROVE  TypeOK'
    <3>1. now + ttl \in Nat
      BY CapabilityAssumption
    <3>2. [grant |-> g, expires |-> now + ttl] \in Token
      BY <3>1 DEF Token
    <3>3. [grant |-> g, expires |-> now + ttl] # None
      BY <3>2, NoneAssumption
    <3> QED
      BY <2>1, <3>2, <3>3 DEF Mint, RecordIssued, threadVars, history
  <2>2. ASSUME NEW t \in TokenId, Revoke(t)
        PROVE  TypeOK'
    BY <2>2 DEF Revoke, MarkRevoked, InMemoryRevoked, SqlRevoked, threadVars
  <2>3. ASSUME NEW scope, RevokeScope(scope)
        PROVE  TypeOK'
    BY <2>3 DEF RevokeScope, MarkScopeRevoked, LiveInScope, threadVars
  <2>4. ASSUME NEW at, PurgeExpired(at)
        PROVE  TypeOK'
    BY <2>4 DEF PurgeExpired, Forget, ExpiredBefore, threadVars, history
  <2>5. CASE Tick
    BY <2>5 DEF Tick, storeVars, threadVars, history
  <2>6. ASSUME NEW th \in Thread, NEW t \in TokenId, NEW g \in Grant,
               NEW r \in Request, Execute(th, t, g, r)
        PROVE  TypeOK'
    <3>1. UNCHANGED storeVars /\ UNCHANGED <<now, wins, runs, withdrawn>>
      BY <2>6 DEF Execute
    <3>2. /\ pc' \in [Thread -> Step] /\ outcome' \in [Thread -> Outcome]
          /\ \A u \in Thread : u # th => pc'[u] = pc[u]
          /\ pc'[th] # "idle" => token[t] # None
      BY <2>6, Names DEF Execute, SignatureValid
    <3>3. /\ presented' = [presented EXCEPT ![th] = t]
          /\ request' = [request EXCEPT ![th] = r]
          /\ calls' = calls + 1
      BY <2>6 DEF Execute
    <3>4. late' \in [Thread -> BOOLEAN]
      <4>1. late' = [late EXCEPT ![th] = t \in withdrawn \/ Expired(t)]
        BY <2>6 DEF Execute
      <4> QED
        BY <4>1
    <3>5. calls' \in Nat
      BY <3>2, <3>3
    <3>6. outcome' \in [Thread -> Outcome]
      BY <3>2, Names
    <3>7. /\ presented' \in [Thread -> TokenId \cup {None}]
          /\ request' \in [Thread -> Request \cup {None}]
      BY <3>3
    <3>8. \A u \in Thread : pc'[u] # "idle" =>
             /\ presented'[u] \in TokenId
             /\ token[presented'[u]] # None
             /\ request'[u] \in Request
      BY <3>1, <3>2, <3>3
    <3> QED
      BY <3>1, <3>2, <3>4, <3>5, <3>6, <3>7, <3>8 DEF storeVars
  <2>7. ASSUME NEW th \in Thread, ExecuteWithoutToken(th)
        PROVE  TypeOK'
    <3>1. /\ UNCHANGED storeVars /\ UNCHANGED <<now, pc, wins, runs, withdrawn>>
          /\ pc[th] = "idle"
      BY <2>7 DEF ExecuteWithoutToken
    <3>2. outcome' = [outcome EXCEPT ![th] = "no_token"]
      BY <2>7 DEF ExecuteWithoutToken
    <3>3. /\ presented' = [presented EXCEPT ![th] = None]
          /\ request' = [request EXCEPT ![th] = None]
      BY <2>7 DEF ExecuteWithoutToken
    <3>4. late' \in [Thread -> BOOLEAN]
      <4>1. late' = [late EXCEPT ![th] = FALSE]
        BY <2>7 DEF ExecuteWithoutToken
      <4> QED
        BY <4>1
    <3>5. calls' \in Nat
      <4>1. calls' = calls + 1
        BY <2>7 DEF ExecuteWithoutToken
      <4> QED
        BY <4>1
    <3>6. outcome' \in [Thread -> Outcome]
      BY <3>2, Names
    <3>7. /\ presented' \in [Thread -> TokenId \cup {None}]
          /\ request' \in [Thread -> Request \cup {None}]
      BY <3>3
    <3>8. \A u \in Thread : pc'[u] # "idle" =>
             /\ presented'[u] \in TokenId
             /\ token[presented'[u]] # None
             /\ request'[u] \in Request
      BY <3>1, <3>2, <3>3
    <3> QED
      BY <3>1, <3>2, <3>4, <3>5, <3>6, <3>7, <3>8 DEF storeVars
  <2>8. ASSUME NEW th \in Thread, CheckRevoked(th)
        PROVE  TypeOK'
    BY <2>8, Names DEF CheckRevoked, Return, Goto, storeVars, history
  <2>9. ASSUME NEW th \in Thread, CheckExpiryAndScope(th)
        PROVE  TypeOK'
    BY <2>9, Names DEF CheckExpiryAndScope, AfterScope, Return, Goto, storeVars, history
  <2>10. ASSUME NEW th \in Thread, TryConsume(th)
         PROVE  TypeOK'
    <3>1. presented[th] \in TokenId /\ pc[th] # "idle"
      BY <2>10 DEF TryConsume
    <3>2. /\ UNCHANGED <<token, issued, revoked, presented, request, outcome>>
          /\ UNCHANGED <<now, calls, runs, withdrawn, late>>
      BY <2>10 DEF TryConsume, MarkConsumed, Goto, storeVars
    <3>3. consumed' \subseteq TokenId /\ wins' \in [TokenId -> Nat]
      BY <2>10, <3>1 DEF TryConsume, MarkConsumed, storeVars
    <3>4. /\ pc' \in [Thread -> Step]
          /\ \A u \in Thread : pc'[u] # "idle" => pc[u] # "idle"
      BY <2>10, <3>1, Names DEF TryConsume, Goto
    <3> QED
      BY <3>2, <3>3, <3>4
  <2>11. ASSUME NEW th \in Thread, WhyRefused(th)
         PROVE  TypeOK'
    BY <2>11, Names DEF WhyRefused, Refuse, Return, storeVars, history
  <2>12. ASSUME NEW th \in Thread, RunAction(th)
         PROVE  TypeOK'
    <3>1. presented[th] \in TokenId
      BY <2>12 DEF RunAction
    <3>2. /\ UNCHANGED storeVars /\ UNCHANGED <<presented, request>>
          /\ UNCHANGED <<now, calls, wins, withdrawn, late>>
      BY <2>12 DEF RunAction, Return
    <3>3. runs' \in [TokenId -> Nat]
      BY <2>12, <3>1 DEF RunAction
    <3>4. /\ pc' \in [Thread -> Step] /\ outcome' \in [Thread -> Outcome]
          /\ \A u \in Thread : pc'[u] # "idle" => pc[u] # "idle"
      BY <2>12, Names DEF RunAction, Return
    <3> QED
      BY <3>2, <3>3, <3>4 DEF storeVars
  <2>13. ASSUME NEW th \in Thread, Abandon(th)
         PROVE  TypeOK'
    BY <2>13, Names DEF Abandon, Refuse, Return, storeVars, history
  <2>14. CASE UNCHANGED vars
    BY <2>14 DEF vars, storeVars, threadVars, history
  <2> QED
    BY <2>1, <2>2, <2>3, <2>4, <2>5, <2>6, <2>7, <2>8, <2>9, <2>10, <2>11,
       <2>12, <2>13, <2>14
    DEF Next, Service, Call, Advance
<1> QED
  BY <1>1, <1>2, PTL DEF Spec

(***************************************************************************)
(* Once-only.  The invariant is not inductive: that a second try_consume   *)
(* fails needs that a token once won stays burnt (its marker stays, or on  *)
(* the SQL backend its row is gone for good), and that at most one run     *)
(* follows needs that at most one thread stands before action().           *)
(***************************************************************************)
Burnt(t) == t \in consumed \/ (Backend = "sql" /\ t \notin issued)

AtAction(th, t) == pc[th] = "action" /\ presented[th] = t

OnceInv ==
    /\ \A t \in TokenId : token[t] = None => wins[t] = 0 /\ runs[t] = 0
    /\ \A t \in TokenId : SingleUse(t) =>
          /\ wins[t] = 0 \/ (wins[t] = 1 /\ Burnt(t))
          /\ runs[t] = 0 \/ (runs[t] = 1 /\ wins[t] = 1)
          /\ \A th \in Thread : AtAction(th, t) => wins[t] = 1 /\ runs[t] = 0
          /\ \A th, u \in Thread : AtAction(th, t) /\ AtAction(u, t) => th = u
    /\ \A th \in Thread : pc[th] = "try_consume" => SingleUse(presented[th])

\* A step that leaves the store and the counts alone, and brings no thread of a
\* single-use token before action(), preserves the invariant.
LEMMA QuietStep ==
    ASSUME OnceInv, UNCHANGED <<storeVars, wins, runs>>,
           \A u \in Thread : pc'[u] = "action" =>
              /\ presented'[u] = presented[u]
              /\ pc[u] = "action" \/ ~SingleUse(presented[u]),
           \A u \in Thread : pc'[u] = "try_consume" =>
              /\ presented'[u] = presented[u]
              /\ pc[u] = "try_consume" \/ SingleUse(presented[u])
    PROVE  OnceInv'
<1>1. \A t \in TokenId : (SingleUse(t)' <=> SingleUse(t)) /\ (Burnt(t)' <=> Burnt(t))
  BY DEF SingleUse, Burnt, storeVars
<1>2. \A t \in TokenId, u \in Thread :
         SingleUse(t) /\ AtAction(u, t)' => AtAction(u, t)
  BY DEF AtAction
<1>3. \A u \in Thread : pc'[u] = "try_consume" => SingleUse(presented[u])
  BY DEF OnceInv
<1>4. \A u \in Thread : pc'[u] = "try_consume" => SingleUse(presented[u])'
  BY <1>3 DEF SingleUse, storeVars
<1> QED
  BY <1>1, <1>2, <1>4 DEF OnceInv, storeVars

LEMMA OnceInvInductive ==
    ASSUME Backend = "sql" \/ ~Purging, TypeOK, OnceInv, [Next]_vars
    PROVE  OnceInv'
<1>1. ASSUME NEW t \in TokenId, NEW g \in Grant, NEW ttl \in TTL, Mint(t, g, ttl)
      PROVE  OnceInv'
  <2>1. /\ token[t] = None
        /\ \A s \in TokenId : s # t => token'[s] = token[s]
        /\ issued' = issued \cup {t} /\ consumed' = consumed
        /\ UNCHANGED <<wins, runs, pc, presented>>
    BY <1>1 DEF Mint, RecordIssued, TypeOK, StoreTypeOK, threadVars, history
  <2>2. wins[t] = 0 /\ runs[t] = 0
    BY <2>1 DEF OnceInv
  <2>3. \A th \in Thread : pc[th] # "idle" => presented[th] # t
    BY <2>1 DEF TypeOK
  <2>4. \A s \in TokenId : s # t =>
           (SingleUse(s)' <=> SingleUse(s)) /\ (Burnt(s)' <=> Burnt(s))
    BY <2>1 DEF SingleUse, Burnt
  <2>5. \A s \in TokenId, th \in Thread : AtAction(th, s)' <=> AtAction(th, s)
    BY <2>1 DEF AtAction
  <2>6. \A th \in Thread : ~AtAction(th, t)
    BY <2>3 DEF AtAction
  <2>7. \A th \in Thread : pc'[th] = "try_consume" => SingleUse(presented[th])'
    BY <2>1, <2>3, <2>4 DEF OnceInv, TypeOK
  <2> QED
    BY <2>1, <2>2, <2>4, <2>5, <2>6, <2>7 DEF OnceInv
<1>2. ASSUME NEW t \in TokenId, Revoke(t)
      PROVE  OnceInv'
  <2>1. UNCHANGED <<token, issued, consumed, wins, runs, pc, presented>>
    BY <1>2 DEF Revoke, MarkRevoked, threadVars
  <2> QED
    BY <2>1 DEF OnceInv, SingleUse, Burnt, AtAction
<1>3. ASSUME NEW scope, RevokeScope(scope)
      PROVE  OnceInv'
  <2>1. UNCHANGED <<token, issued, consumed, wins, runs, pc, presented>>
    BY <1>3 DEF RevokeScope, MarkScopeRevoked, threadVars
  <2> QED
    BY <2>1 DEF OnceInv, SingleUse, Burnt, AtAction
<1>4. ASSUME NEW at, PurgeExpired(at)
      PROVE  OnceInv'
  <2>1. Backend = "sql"
    BY <1>4 DEF PurgeExpired
  <2>2. /\ UNCHANGED <<token, wins, runs, pc, presented>>
        /\ issued' = issued \ ExpiredBefore(at)
        /\ consumed' = consumed \ ExpiredBefore(at)
    BY <1>4 DEF PurgeExpired, Forget, threadVars, history
  <2>3. \A t \in TokenId : Burnt(t) => Burnt(t)'
    BY <2>1, <2>2 DEF Burnt
  <2>4. \A t \in TokenId : SingleUse(t)' <=> SingleUse(t)
    BY <2>2 DEF SingleUse
  <2> QED
    BY <2>2, <2>3, <2>4 DEF OnceInv, SingleUse, AtAction
<1>5. CASE Tick
  BY <1>5, QuietStep DEF Tick, threadVars, history
<1>6. ASSUME NEW th \in Thread, NEW t \in TokenId, NEW g \in Grant,
             NEW r \in Request, Execute(th, t, g, r)
      PROVE  OnceInv'
  <2>1. /\ UNCHANGED <<storeVars, wins, runs>>
        /\ \A u \in Thread : u # th => pc'[u] = pc[u] /\ presented'[u] = presented[u]
        /\ pc'[th] = "is_revoked" \/ pc'[th] = "idle"
    BY <1>6 DEF Execute, TypeOK
  <2> QED
    BY <2>1, QuietStep
<1>7. ASSUME NEW th \in Thread, ExecuteWithoutToken(th)
      PROVE  OnceInv'
  <2>1. /\ UNCHANGED <<storeVars, wins, runs, pc>>
        /\ \A u \in Thread : u # th => presented'[u] = presented[u]
        /\ pc[th] = "idle"
    BY <1>7 DEF ExecuteWithoutToken, TypeOK
  <2> QED
    BY <2>1, QuietStep
<1>8. ASSUME NEW th \in Thread, CheckRevoked(th)
      PROVE  OnceInv'
  <2>1. /\ UNCHANGED <<storeVars, wins, runs, presented>>
        /\ \A u \in Thread : u # th => pc'[u] = pc[u]
        /\ pc'[th] = "expiry" \/ pc'[th] = "idle"
    BY <1>8 DEF CheckRevoked, Return, Goto, TypeOK, history
  <2> QED
    BY <2>1, QuietStep
<1>9. ASSUME NEW th \in Thread, CheckExpiryAndScope(th)
      PROVE  OnceInv'
  <2>1. /\ UNCHANGED <<storeVars, wins, runs, presented>>
        /\ \A u \in Thread : u # th => pc'[u] = pc[u]
        /\ pc'[th] = AfterScope(th) \/ pc'[th] = "idle"
        /\ pc[th] = "expiry"
    BY <1>9 DEF CheckExpiryAndScope, Return, Goto, TypeOK, history
  <2>2. token[presented[th]] # None
    BY <2>1 DEF TypeOK
  <2>3. /\ pc'[th] = "try_consume" => SingleUse(presented[th])
        /\ pc'[th] = "action" => ~SingleUse(presented[th])
    BY <2>1, <2>2 DEF AfterScope, SingleUse
  <2> QED
    BY <2>1, <2>3, QuietStep
<1>10. ASSUME NEW th \in Thread, TryConsume(th)
       PROVE  OnceInv'
  <2> DEFINE t == presented[th]
  <2>0. t \in TokenId /\ SingleUse(t) /\ pc[th] = "try_consume"
    BY <1>10 DEF TryConsume, TypeOK, OnceInv
  <2>1. CASE CanConsume(t)
    <3>1. /\ consumed' = consumed \cup {t}
          /\ UNCHANGED <<token, issued, runs, presented>>
          /\ wins' = [wins EXCEPT ![t] = @ + 1]
          /\ pc' = [pc EXCEPT ![th] = "action"]
      BY <1>10, <2>1 DEF TryConsume, MarkConsumed, Goto
    <3>2. ~Burnt(t)
      BY <2>1, BackendAssumption
      DEF CanConsume, SqlCanConsume, InMemoryCanConsume, Burnt
    <3>3. wins[t] = 0 /\ runs[t] = 0 /\ \A u \in Thread : ~AtAction(u, t)
      BY <2>0, <3>2 DEF OnceInv
    <3>4. wins'[t] = 1 /\ Burnt(t)' /\ \A s \in TokenId : s # t => wins'[s] = wins[s]
      BY <2>0, <3>1, <3>3 DEF TypeOK, Burnt
    <3>5. \A s \in TokenId : (SingleUse(s)' <=> SingleUse(s)) /\ (Burnt(s) => Burnt(s)')
      BY <3>1 DEF SingleUse, Burnt
    <3>6. /\ \A u \in Thread : AtAction(u, t)' => u = th
          /\ \A s \in TokenId, u \in Thread :
                s # t => (AtAction(u, s)' => AtAction(u, s))
      BY <3>1, <3>3 DEF AtAction, TypeOK
    <3>7. \A u \in Thread : pc'[u] = "try_consume" => SingleUse(presented[u])'
      BY <3>1, <3>5 DEF OnceInv, TypeOK, SingleUse
    <3>8. \A s \in TokenId : token'[s] = None => wins'[s] = 0 /\ runs'[s] = 0
      BY <2>0, <3>1, <3>4 DEF OnceInv, SingleUse
    <3>9. runs'[t] = 0
      BY <3>1, <3>3
    <3> QED
      BY <3>1, <3>4, <3>5, <3>6, <3>7, <3>8, <3>9 DEF OnceInv
  <2>2. CASE ~CanConsume(t)
    <3>1. /\ UNCHANGED <<storeVars, wins, runs, presented>>
          /\ \A u \in Thread : u # th => pc'[u] = pc[u]
          /\ pc'[th] = "why"
      BY <1>10, <2>2 DEF TryConsume, Goto, TypeOK
    <3> QED
      BY <3>1, QuietStep
  <2> QED
    BY <2>1, <2>2
<1>11. ASSUME NEW th \in Thread, WhyRefused(th) \/ Abandon(th)
       PROVE  OnceInv'
  <2>1. /\ UNCHANGED <<storeVars, wins, runs, presented>>
        /\ \A u \in Thread : u # th => pc'[u] = pc[u]
        /\ pc'[th] = "idle"
    BY <1>11 DEF WhyRefused, Abandon, Refuse, Return, TypeOK, history
  <2> QED
    BY <2>1, QuietStep
<1>12. ASSUME NEW th \in Thread, RunAction(th)
       PROVE  OnceInv'
  <2> DEFINE t == presented[th]
  <2>1. /\ t \in TokenId /\ AtAction(th, t) /\ token[t] # None
        /\ UNCHANGED <<token, issued, consumed, wins, presented>>
        /\ runs' = [runs EXCEPT ![t] = @ + 1]
        /\ pc' = [pc EXCEPT ![th] = "idle"]
    BY <1>12 DEF RunAction, Return, storeVars, TypeOK, AtAction
  <2>2. /\ runs'[t] = runs[t] + 1
        /\ \A s \in TokenId : s # t => runs'[s] = runs[s]
    BY <2>1 DEF TypeOK
  <2>3. \A s \in TokenId : (SingleUse(s)' <=> SingleUse(s)) /\ (Burnt(s)' <=> Burnt(s))
    BY <2>1 DEF SingleUse, Burnt
  <2>4. \A s \in TokenId, u \in Thread :
           AtAction(u, s)' => AtAction(u, s) /\ u # th
    BY <2>1 DEF AtAction, TypeOK
  <2>5. SingleUse(t) => /\ wins[t] = 1 /\ runs'[t] = 1
                        /\ \A u \in Thread : ~AtAction(u, t)'
    BY <2>1, <2>2, <2>4 DEF OnceInv
  <2>6. \A u \in Thread : pc'[u] = "try_consume" => SingleUse(presented[u])'
    BY <2>1 DEF OnceInv, TypeOK, SingleUse
  <2> QED
    BY <2>1, <2>2, <2>3, <2>4, <2>5, <2>6 DEF OnceInv
<1>13. CASE UNCHANGED vars
  BY <1>13, QuietStep DEF vars, threadVars, history
<1> QED
  BY <1>1, <1>2, <1>3, <1>4, <1>5, <1>6, <1>7, <1>8, <1>9, <1>10, <1>11,
     <1>12, <1>13
  DEF Next, Service, Call, Advance

\* The inductive invariant holds from the start and implies the property.
LEMMA OnceInvInvariant ==
    ASSUME Backend = "sql" \/ ~Purging
    PROVE  Spec => []OnceInv
<1>1. Init => OnceInv
  BY DEF Init, StoreInit, OnceInv, SingleUse, AtAction
<1>2. TypeOK /\ OnceInv /\ [Next]_vars => OnceInv'
  BY OnceInvInductive
<1> QED
  BY <1>1, <1>2, TypeCorrect, PTL DEF Spec

\* Whatever the number of replicas, threads, tokens and calls, and however far
\* the clocks of purging replicas are ahead, a single-use token is consumed at
\* most once and its action runs at most once, on the SQL backend always and
\* in memory as long as purge_expired is never called.
THEOREM SingleUseRunsOnce ==
    ASSUME Backend = "sql" \/ ~Purging
    PROVE  Spec => []OnceOnly
<1>1. TypeOK /\ OnceInv => OnceOnly
  BY DEF TypeOK, OnceInv, OnceOnly
<1> QED
  BY <1>1, OnceInvInvariant, TypeCorrect, PTL

(***************************************************************************)
(* Frames: what a step of the service or of one thread leaves alone.       *)
(***************************************************************************)
Acting(th) == Call(th) \/ Advance(th) \/ Abandon(th)

LEMMA Steps ==
    ASSUME [Next]_vars
    PROVE  \/ Service \/ Tick \/ UNCHANGED vars
           \/ \E th \in Thread : Acting(th)
BY DEF Next, Acting

LEMMA ServiceFrame ==
    ASSUME TypeOK, Service \/ Tick \/ UNCHANGED vars
    PROVE  /\ pc' = pc /\ presented' = presented /\ request' = request
           /\ outcome' = outcome /\ wins' = wins /\ runs' = runs
           /\ consumed' \subseteq consumed /\ now <= now'
           /\ ~Purging => consumed' = consumed /\ revoked \subseteq revoked'
<1>1. ASSUME NEW t \in TokenId, NEW g \in Grant, NEW ttl \in TTL, Mint(t, g, ttl)
      PROVE  /\ UNCHANGED <<threadVars, now, wins, runs, consumed, revoked>>
  BY <1>1 DEF Mint, RecordIssued, history
<1>2. ASSUME NEW t \in TokenId, Revoke(t)
      PROVE  /\ UNCHANGED <<threadVars, now, wins, runs, consumed>>
             /\ revoked \subseteq revoked'
  BY <1>2 DEF Revoke, MarkRevoked, SqlRevoked, InMemoryRevoked
<1>3. ASSUME NEW scope, RevokeScope(scope)
      PROVE  /\ UNCHANGED <<threadVars, now, wins, runs, consumed>>
             /\ revoked \subseteq revoked'
  BY <1>3 DEF RevokeScope, MarkScopeRevoked
<1>4. ASSUME NEW at, PurgeExpired(at)
      PROVE  /\ UNCHANGED <<threadVars, now, wins, runs>>
             /\ consumed' \subseteq consumed /\ Purging
  BY <1>4 DEF PurgeExpired, Forget
<1>5. CASE Tick
  BY <1>5 DEF Tick, TypeOK, storeVars, threadVars, history
<1>6. CASE UNCHANGED vars
  BY <1>6 DEF vars, TypeOK, storeVars, threadVars, history
<1>7. now <= now
  BY DEF TypeOK
<1> QED
  BY <1>1, <1>2, <1>3, <1>4, <1>5, <1>6, <1>7 DEF Service, threadVars

\* How a call ends and how it goes on: other threads do not move.
Alone(th) ==
    \A u \in Thread : u # th =>
        /\ pc'[u] = pc[u] /\ presented'[u] = presented[u]
        /\ request'[u] = request[u] /\ outcome'[u] = outcome[u]
        /\ late'[u] = late[u]

\* The call under way keeps its token, its request and its history.
SameCall(th) ==
    /\ presented'[th] = presented[th] /\ request'[th] = request[th]
    /\ late'[th] = late[th]

TokensKept == UNCHANGED <<token, issued, revoked, now, withdrawn>>

Unspent == UNCHANGED <<consumed, wins, runs>>

LEMMA Returned ==
    ASSUME TypeOK, NEW th \in Thread, NEW result, Return(th, result), late' = late
    PROVE  /\ Alone(th) /\ SameCall(th)
           /\ pc'[th] = "idle" /\ outcome'[th] = result
<1>1. /\ pc' = [pc EXCEPT ![th] = "idle"]
      /\ outcome' = [outcome EXCEPT ![th] = result]
      /\ presented' = presented /\ request' = request
  BY DEF Return
<1>2. /\ pc \in [Thread -> Step] /\ outcome \in [Thread -> Outcome]
  BY DEF TypeOK
<1> QED
  BY <1>1, <1>2 DEF Alone, SameCall

LEMMA Went ==
    ASSUME TypeOK, NEW th \in Thread, NEW step, Goto(th, step), late' = late
    PROVE  /\ Alone(th) /\ SameCall(th)
           /\ pc'[th] = step /\ outcome'[th] = outcome[th]
<1>1. /\ pc' = [pc EXCEPT ![th] = step]
      /\ outcome' = outcome /\ presented' = presented /\ request' = request
  BY DEF Goto
<1>2. pc \in [Thread -> Step]
  BY DEF TypeOK
<1> QED
  BY <1>1, <1>2 DEF Alone, SameCall

\* What each step of execute does, thread by thread.
LEMMA StartEffect ==
    ASSUME TypeOK, NEW th \in Thread, Call(th)
    PROVE  /\ Alone(th) /\ TokensKept /\ Unspent
           /\ pc[th] = "idle" /\ pc'[th] \in {"idle", "is_revoked"}
           /\ outcome'[th] \in {"none", "no_token", "invalid_token_signature"}
           /\ late'[th] => presented'[th] \in withdrawn \/ Expired(presented'[th])
<1>0. /\ pc \in [Thread -> Step] /\ outcome \in [Thread -> Outcome]
      /\ late \in [Thread -> BOOLEAN]
      /\ presented \in [Thread -> TokenId \cup {None}]
      /\ request \in [Thread -> Request \cup {None}]
  BY DEF TypeOK
<1>1. CASE ExecuteWithoutToken(th)
  <2>1. TokensKept /\ Unspent
    BY <1>1 DEF ExecuteWithoutToken, TokensKept, Unspent, storeVars
  <2>2. /\ pc[th] = "idle" /\ pc' = pc
        /\ presented' = [presented EXCEPT ![th] = None]
        /\ request' = [request EXCEPT ![th] = None]
        /\ outcome' = [outcome EXCEPT ![th] = "no_token"]
        /\ late' = [late EXCEPT ![th] = FALSE]
    BY <1>1 DEF ExecuteWithoutToken
  <2>3. Alone(th)
    BY <1>0, <2>2 DEF Alone
  <2>4. outcome'[th] = "no_token" /\ late'[th] = FALSE
    BY <1>0, <2>2
  <2> QED
    BY <2>1, <2>2, <2>3, <2>4
<1>2. ASSUME NEW t \in TokenId, NEW g \in Grant, NEW r \in Request,
             Execute(th, t, g, r)
      PROVE  /\ Alone(th) /\ TokensKept /\ Unspent
             /\ pc[th] = "idle" /\ pc'[th] \in {"idle", "is_revoked"}
             /\ outcome'[th] \in {"none", "no_token", "invalid_token_signature"}
             /\ late'[th] => presented'[th] \in withdrawn \/ Expired(presented'[th])
  <2>1. TokensKept /\ Unspent
    BY <1>2 DEF Execute, TokensKept, Unspent, storeVars
  <2>2. /\ pc[th] = "idle"
        /\ presented' = [presented EXCEPT ![th] = t]
        /\ request' = [request EXCEPT ![th] = r]
        /\ late' = [late EXCEPT ![th] = t \in withdrawn \/ Expired(t)]
    BY <1>2 DEF Execute
  <2>3. PICK step \in {"idle", "is_revoked"},
             result \in {"none", "invalid_token_signature"} :
           /\ pc' = [pc EXCEPT ![th] = step]
           /\ outcome' = [outcome EXCEPT ![th] = result]
    <3>1. CASE SignatureValid(t, g)
      BY <1>2, <3>1 DEF Execute
    <3>2. CASE ~SignatureValid(t, g)
      <4>1. pc' = [pc EXCEPT ![th] = "idle"]
        BY <1>0, <1>2, <2>2, <3>2 DEF Execute
      <4> QED
        BY <1>2, <3>2, <4>1 DEF Execute
    <3> QED
      BY <3>1, <3>2
  <2>4. Alone(th)
    BY <1>0, <2>2, <2>3 DEF Alone
  <2>5. pc'[th] = step /\ outcome'[th] = result /\ presented'[th] = t
    BY <1>0, <2>2, <2>3
  <2>6. late'[th] = (t \in withdrawn \/ Expired(t))
    BY <1>0, <2>2
  <2> QED
    BY <2>1, <2>2, <2>4, <2>5, <2>6
<1> QED
  BY <1>1, <1>2 DEF Call

LEMMA CheckRevokedEffect ==
    ASSUME TypeOK, NEW th \in Thread, CheckRevoked(th)
    PROVE  /\ Alone(th) /\ SameCall(th) /\ TokensKept /\ Unspent
           /\ pc[th] = "is_revoked"
           /\ \/ pc'[th] = "idle" /\ outcome'[th] = "token_revoked"
              \/ /\ presented[th] \notin revoked
                 /\ pc'[th] = "expiry" /\ outcome'[th] = outcome[th]
<1>1. TokensKept /\ Unspent /\ late' = late
  BY DEF CheckRevoked, TokensKept, Unspent, storeVars, history
<1>2. CASE presented[th] \in revoked
  BY <1>1, <1>2, Returned DEF CheckRevoked
<1>3. CASE presented[th] \notin revoked
  BY <1>1, <1>3, Went DEF CheckRevoked
<1> QED
  BY <1>2, <1>3

LEMMA CheckExpiryEffect ==
    ASSUME TypeOK, NEW th \in Thread, CheckExpiryAndScope(th)
    PROVE  /\ Alone(th) /\ SameCall(th) /\ TokensKept /\ Unspent
           /\ pc[th] = "expiry"
           /\ \/ pc'[th] = "idle" /\ outcome'[th] \in {"token_expired", "out_of_scope"}
              \/ /\ now < token[presented[th]].expires
                 /\ InScope(token[presented[th]].grant, request[th])
                 /\ pc'[th] = AfterScope(th) /\ outcome'[th] = outcome[th]
<1>1. TokensKept /\ Unspent /\ late' = late
  BY DEF CheckExpiryAndScope, TokensKept, Unspent, storeVars, history
<1>2. now < token[presented[th]].expires \/ now >= token[presented[th]].expires
      \/ pc[th] # "expiry"
  <2>1. ASSUME pc[th] = "expiry"
        PROVE  token[presented[th]].expires \in Nat /\ now \in Nat
    BY <2>1, NoneAssumption DEF TypeOK, StoreTypeOK, Token
  <2> QED
    BY <2>1
<1>3. CASE now >= token[presented[th]].expires
  BY <1>1, <1>3, Returned DEF CheckExpiryAndScope
<1>4. CASE ~(now >= token[presented[th]].expires)
           /\ ~InScope(token[presented[th]].grant, request[th])
  BY <1>1, <1>4, Returned DEF CheckExpiryAndScope
<1>5. CASE ~(now >= token[presented[th]].expires)
           /\ InScope(token[presented[th]].grant, request[th])
  BY <1>1, <1>2, <1>5, Went DEF CheckExpiryAndScope
<1> QED
  BY <1>3, <1>4, <1>5

LEMMA TryConsumeEffect ==
    ASSUME TypeOK, NEW th \in Thread, TryConsume(th)
    PROVE  /\ Alone(th) /\ SameCall(th) /\ TokensKept
           /\ pc[th] = "try_consume" /\ outcome'[th] = outcome[th]
           /\ runs' = runs
           /\ \/ /\ CanConsume(presented[th]) /\ MarkConsumed(presented[th])
                 /\ wins' = [wins EXCEPT ![presented[th]] = @ + 1]
                 /\ pc'[th] = "action"
              \/ /\ ~CanConsume(presented[th]) /\ Unspent
                 /\ pc'[th] = "why"
<1>1. TokensKept /\ late' = late /\ runs' = runs /\ pc[th] = "try_consume"
  BY DEF TryConsume, MarkConsumed, TokensKept, storeVars
<1>2. CASE CanConsume(presented[th])
  BY <1>1, <1>2, Went DEF TryConsume
<1>3. CASE ~CanConsume(presented[th])
  <2>1. Unspent /\ Goto(th, "why")
    BY <1>3 DEF TryConsume, Unspent, storeVars
  <2> QED
    BY <1>1, <1>3, <2>1, Went
<1> QED
  BY <1>2, <1>3

LEMMA WhyRefusedEffect ==
    ASSUME TypeOK, NEW th \in Thread, WhyRefused(th)
    PROVE  /\ Alone(th) /\ SameCall(th) /\ TokensKept /\ Unspent
           /\ pc[th] = "why" /\ pc'[th] = "idle"
           /\ \/ outcome'[th] = "token_revoked"
              \/ outcome'[th] = "already_consumed" /\ presented[th] \notin revoked
<1>1. TokensKept /\ Unspent /\ late' = late
  BY DEF WhyRefused, Refuse, TokensKept, Unspent, storeVars, history
<1> QED
  BY <1>1, Returned DEF WhyRefused, Refuse

LEMMA RunEffect ==
    ASSUME TypeOK, NEW th \in Thread, RunAction(th)
    PROVE  /\ Alone(th) /\ SameCall(th) /\ TokensKept
           /\ consumed' = consumed /\ wins' = wins
           /\ runs' = [runs EXCEPT ![presented[th]] = @ + 1]
           /\ pc[th] = "action" /\ pc'[th] = "idle" /\ outcome'[th] = "executed"
<1>1. /\ TokensKept /\ late' = late /\ consumed' = consumed /\ wins' = wins
  BY DEF RunAction, TokensKept, storeVars
<1> QED
  BY <1>1, Returned DEF RunAction

LEMMA AbandonEffect ==
    ASSUME TypeOK, NEW th \in Thread, Abandon(th)
    PROVE  /\ Alone(th) /\ SameCall(th) /\ TokensKept /\ Unspent
           /\ pc'[th] = "idle" /\ outcome'[th] = "raised"
<1>1. TokensKept /\ Unspent /\ late' = late
  BY DEF Abandon, Refuse, TokensKept, Unspent, storeVars, history
<1> QED
  BY <1>1, Returned DEF Abandon, Refuse

\* A thread changes nothing of the tokens but the mark of consumption.
LEMMA ThreadFrame ==
    ASSUME TypeOK, NEW th \in Thread, Acting(th)
    PROVE  Alone(th) /\ TokensKept /\ consumed \subseteq consumed'
<1>1. ASSUME TryConsume(th) PROVE consumed \subseteq consumed'
  BY <1>1, TryConsumeEffect DEF MarkConsumed, Unspent
<1> QED
  BY <1>1, StartEffect, CheckRevokedEffect, CheckExpiryEffect, TryConsumeEffect,
     WhyRefusedEffect, RunEffect, AbandonEffect DEF Acting, Advance, Unspent

\* Nothing rewrites a token, and its bookkeeping does not come back.
LEMMA TokensStay ==
    ASSUME TypeOK, [Next]_vars, NEW t \in TokenId, token[t] # None
    PROVE  token'[t] = token[t] /\ (t \notin issued => t \notin issued')
<1>1. ASSUME NEW s \in TokenId, NEW g \in Grant, NEW ttl \in TTL, Mint(s, g, ttl)
      PROVE  token'[t] = token[t] /\ (t \notin issued => t \notin issued')
  BY <1>1 DEF Mint, RecordIssued, TypeOK, StoreTypeOK
<1>2. CASE Service
  <2>1. (\E s \in TokenId, g \in Grant, ttl \in TTL : Mint(s, g, ttl))
        \/ (token' = token /\ issued' \subseteq issued)
    BY <1>2 DEF Service, Revoke, MarkRevoked, RevokeScope, MarkScopeRevoked,
       PurgeExpired, Forget
  <2> QED
    BY <1>1, <2>1
<1>3. CASE Tick \/ UNCHANGED vars
  BY <1>3 DEF Tick, vars, storeVars
<1>4. CASE \E th \in Thread : Acting(th)
  BY <1>4, ThreadFrame DEF TokensKept
<1> QED
  BY <1>2, <1>3, <1>4, Steps

(***************************************************************************)
(* Scope: between the scope tests and the action a call keeps its request, *)
(* and the token it presents keeps its grant.                              *)
(***************************************************************************)
ScopeInv ==
    \A th \in Thread : pc[th] \in {"try_consume", "action"} =>
        InScope(token[presented[th]].grant, request[th])

LEMMA ScopeInvInductive ==
    ASSUME TypeOK, ScopeInv, [Next]_vars
    PROVE  ScopeInv'
<1>1. ASSUME NEW u \in Thread, pc'[u] \in {"try_consume", "action"},
             pc[u] \in {"try_consume", "action"},
             presented'[u] = presented[u], request'[u] = request[u]
      PROVE  InScope(token'[presented'[u]].grant, request'[u])
  <2>1. presented[u] \in TokenId /\ token[presented[u]] # None
    BY <1>1 DEF TypeOK
  <2>2. token'[presented[u]] = token[presented[u]]
    BY <2>1, TokensStay
  <2> QED
    BY <1>1, <2>2 DEF ScopeInv
<1>2. CASE Service \/ Tick \/ UNCHANGED vars
  BY <1>1, <1>2, ServiceFrame DEF ScopeInv
<1>3. ASSUME NEW th \in Thread, Acting(th) PROVE ScopeInv'
  <2>1. ASSUME pc'[th] \in {"try_consume", "action"}
        PROVE  InScope(token'[presented'[th]].grant, request'[th])
    <3>1. CASE TryConsume(th)
      BY <1>1, <2>1, <3>1, TryConsumeEffect DEF SameCall
    <3>2. CASE CheckExpiryAndScope(th)
      <4>1. /\ SameCall(th) /\ TokensKept
            /\ InScope(token[presented[th]].grant, request[th])
        BY <2>1, <3>2, CheckExpiryEffect
      <4> QED
        BY <4>1 DEF SameCall, TokensKept
    <3> QED
      BY <1>3, <2>1, <3>1, <3>2, StartEffect, CheckRevokedEffect,
         WhyRefusedEffect, RunEffect, AbandonEffect DEF Acting, Advance
  <2>2. ASSUME NEW u \in Thread, u # th, pc'[u] \in {"try_consume", "action"}
        PROVE  InScope(token'[presented'[u]].grant, request'[u])
    BY <1>1, <1>3, <2>2, ThreadFrame DEF Alone
  <2> QED
    BY <2>1, <2>2 DEF ScopeInv
<1> QED
  BY <1>2, <1>3, Steps

\* Whatever other threads, revocations and purges do between its tests, a call
\* that spends a token or runs an action does so within the grant.
THEOREM UseStaysInScope == Spec => OnlyScopedUse
<1>1. Init => ScopeInv
  BY DEF Init, ScopeInv
<1>2. TypeOK /\ ScopeInv /\ [Next]_vars => ScopeInv'
  BY ScopeInvInductive
<1> DEFINE Used(t) ==
             \E th \in Thread :
                /\ pc[th] \in {"try_consume", "action"}
                /\ pc[th] = "try_consume" => pc'[th] = "action"
                /\ presented[th] = t
                /\ InScope(token[t].grant, request[th])
<1>3. TypeOK /\ ScopeInv /\ [Next]_vars
      => [\A t \in TokenId : wins'[t] # wins[t] \/ runs'[t] # runs[t] => Used(t)]_vars
  <2> SUFFICES ASSUME TypeOK, ScopeInv, [Next]_vars, NEW t \in TokenId,
                      wins'[t] # wins[t] \/ runs'[t] # runs[t]
               PROVE  Used(t)
    OBVIOUS
  <2>1. PICK th \in Thread : Acting(th)
    BY Steps, ServiceFrame
  <2>2. TryConsume(th) \/ RunAction(th)
    BY <2>1, StartEffect, CheckRevokedEffect, CheckExpiryEffect, WhyRefusedEffect,
       AbandonEffect DEF Acting, Advance, Unspent
  <2>3. CASE TryConsume(th)
    <3>1. /\ pc[th] = "try_consume" /\ pc'[th] = "action"
          /\ wins' = [wins EXCEPT ![presented[th]] = @ + 1]
      BY <2>3, TryConsumeEffect DEF Unspent
    <3>2. presented[th] = t
      BY <2>3, <3>1, TryConsumeEffect DEF TypeOK
    <3> QED
      BY <3>1, <3>2 DEF ScopeInv
  <2>4. CASE RunAction(th)
    <3>1. pc[th] = "action" /\ presented[th] = t
      BY <2>4, RunEffect DEF TypeOK
    <3> QED
      BY <3>1 DEF ScopeInv
  <2> QED
    BY <2>2, <2>3, <2>4
<1> QED
  BY <1>1, <1>2, <1>3, TypeCorrect, PTL DEF Spec, OnlyScopedUse

(***************************************************************************)
(* Withdrawal.  A purge drops revocation markers, so that "a withdrawn     *)
(* token is marked revoked" is not an invariant: what stays true is that   *)
(* the token is void, marked, expired or gone together with its row; that  *)
(* a call that did not see the marker holds a token that is gone or        *)
(* expired, and one that passed the clock too holds one that is gone.      *)
(***************************************************************************)
Gone(t) ==
    /\ Backend = "sql" /\ t \notin issued
    /\ SingleUse(t) \/ now >= token[t].expires

Void(t) == t \in revoked \/ Gone(t) \/ Expired(t)

\* What a purge makes the histories forget: a clock that runs ahead.
Lost(t) == \E at : /\ PurgeExpired(at)
                   /\ t \in ExpiredBefore(at) \cap StillReusable

LateInv(th) ==
    /\ pc[th] # "action" /\ outcome[th] # "executed"
    /\ pc[th] # "idle" => Void(presented[th])
    /\ pc[th] = "expiry" => Gone(presented[th]) \/ Expired(presented[th])
    /\ pc[th] = "try_consume" => Gone(presented[th])

WithdrawnInv ==
    /\ \A t \in withdrawn : token[t] # None /\ Void(t)
    /\ \A th \in Thread : late[th] => LateInv(th)

LEMMA TimePasses ==
    ASSUME TypeOK, [Next]_vars
    PROVE  now \in Nat /\ now' \in Nat /\ now <= now'
<1>1. CASE Service \/ Tick \/ UNCHANGED vars
  <2>1. now <= now' /\ now \in Nat
    BY <1>1, ServiceFrame DEF TypeOK
  <2>2. now' = now \/ now' = now + 1
    BY <1>1 DEF Service, Mint, Revoke, RevokeScope, PurgeExpired, Tick, vars
  <2> QED
    BY <2>1, <2>2
<1>2. CASE \E th \in Thread : Acting(th)
  BY <1>2, ThreadFrame DEF TokensKept, TypeOK
<1> QED
  BY <1>1, <1>2, Steps

LEMMA GoneStays ==
    ASSUME TypeOK, [Next]_vars, NEW t \in TokenId, token[t] # None, Gone(t)
    PROVE  Gone(t)'
<1>1. token'[t] = token[t] /\ t \notin issued'
  BY TokensStay DEF Gone
<1>2. now \in Nat /\ now' \in Nat /\ now <= now'
  BY TimePasses
<1>3. token[t].expires \in Nat
  BY DEF TypeOK, StoreTypeOK, Token
<1>4. now >= token[t].expires => now' >= token'[t].expires
  BY <1>1, <1>2, <1>3
<1> QED
  BY <1>1, <1>4 DEF Gone, SingleUse

LEMMA ExpiredStays ==
    ASSUME TypeOK, [Next]_vars, NEW t \in TokenId, Expired(t)
    PROVE  Expired(t)'
<1>1. token[t] # None /\ token'[t] = token[t] /\ token'[t] # None
  BY TokensStay DEF Expired
<1>2. now \in Nat /\ now' \in Nat /\ now <= now'
  BY TimePasses
<1>3. token[t].expires \in Nat
  BY <1>1 DEF TypeOK, StoreTypeOK, Token
<1> QED
  BY <1>1, <1>2, <1>3 DEF Expired

LEMMA VoidStays ==
    ASSUME Backend = "sql" \/ ~Purging, TypeOK, [Next]_vars,
           NEW t \in TokenId, token[t] # None, Void(t), ~Lost(t)
    PROVE  Void(t)'
<1>1. CASE Gone(t) \/ Expired(t)
  BY <1>1, GoneStays, ExpiredStays DEF Void
<1>2. CASE t \in revoked
  <2>1. CASE ~\E at : PurgeExpired(at)
    <3>1. t \in revoked'
      <4>1. CASE Service \/ Tick \/ UNCHANGED vars
        BY <1>2, <2>1, <4>1 DEF Service, Mint, RecordIssued, Revoke, MarkRevoked,
           SqlRevoked, InMemoryRevoked, RevokeScope, MarkScopeRevoked, Tick, vars,
           storeVars
      <4>2. CASE \E th \in Thread : Acting(th)
        BY <1>2, <4>2, ThreadFrame DEF TokensKept
      <4> QED
        BY <4>1, <4>2, Steps
    <3> QED
      BY <3>1 DEF Void
  <2>2. ASSUME NEW at, PurgeExpired(at)
        PROVE  Void(t)'
    <3>1. /\ Backend = "sql" /\ now' = now /\ token' = token
          /\ issued' = issued \ ExpiredBefore(at)
          /\ revoked' = revoked \ ExpiredBefore(at)
      BY <2>2 DEF PurgeExpired, Forget
    <3>2. CASE t \notin ExpiredBefore(at)
      BY <1>2, <3>1, <3>2 DEF Void
    <3>3. CASE t \in ExpiredBefore(at)
      <4>1. t \notin StillReusable
        BY <2>2, <3>3 DEF Lost
      <4>2. token[t].expires \in Nat /\ now \in Nat
        BY DEF TypeOK, StoreTypeOK, Token
      <4>3. SingleUse(t) \/ now >= token[t].expires
        BY <4>1, <4>2 DEF StillReusable, SingleUse
      <4>4. Gone(t)'
        BY <3>1, <3>3, <4>3 DEF Gone, SingleUse
      <4> QED
        BY <4>4 DEF Void
    <3> QED
      BY <3>2, <3>3
  <2> QED
    BY <2>1, <2>2
<1> QED
  BY <1>1, <1>2 DEF Void

\* A call that stays where it was, on a token no purge lost, keeps its part.
LEMMA LateStays ==
    ASSUME Backend = "sql" \/ ~Purging, TypeOK, [Next]_vars,
           NEW u \in Thread, LateInv(u), ~Lost(presented[u]),
           pc'[u] = pc[u], presented'[u] = presented[u], outcome'[u] = outcome[u]
    PROVE  LateInv(u)'
<1>1. CASE pc[u] = "idle"
  BY <1>1 DEF LateInv
<1>2. CASE pc[u] # "idle"
  <2>1. PICK t \in TokenId : t = presented[u]
    BY <1>2 DEF TypeOK
  <2>2. token[t] # None /\ Void(t) /\ ~Lost(t)
    BY <1>2, <2>1 DEF TypeOK, LateInv
  <2>3. Void(t)'
    BY <2>2, VoidStays
  <2>4. (Gone(t) => Gone(t)') /\ (Expired(t) => Expired(t)')
    BY <2>2, GoneStays, ExpiredStays
  <2>5. presented'[u] = t
    BY <2>1
  <2>6. /\ pc[u] = "expiry" => Gone(t) \/ Expired(t)
        /\ pc[u] = "try_consume" => Gone(t)
    BY <2>1 DEF LateInv
  <2>7. pc[u] # "action" /\ outcome[u] # "executed"
    BY DEF LateInv
  <2>8. /\ Void(presented[u])' /\ (Gone(t)' => Gone(presented[u])')
        /\ Expired(t)' => Expired(presented[u])'
    BY <2>3, <2>5, Zenon
  <2> QED
    BY <2>4, <2>6, <2>7, <2>8 DEF LateInv
<1> QED
  BY <1>1, <1>2

\* The services keep the tokens withdrawn void, and so void the calls made late.
LEMMA WithdrawnByService ==
    ASSUME Backend = "sql" \/ ~Purging, TypeOK, WithdrawnInv, [Next]_vars,
           Service \/ Tick \/ UNCHANGED vars
    PROVE  WithdrawnInv'
<1>1. ASSUME NEW t \in TokenId, token[t] # None, Void(t), ~Lost(t)
      PROVE  token'[t] # None /\ Void(t)'
  BY <1>1, TokensStay, VoidStays
<1>2. ASSUME NEW t \in withdrawn', t \in withdrawn
      PROVE  token'[t] # None /\ Void(t)'
  <2>1. ~Lost(t)
    BY <1>2 DEF Lost, PurgeExpired
  <2> QED
    BY <1>1, <1>2, <2>1 DEF WithdrawnInv, TypeOK
<1>3. ASSUME NEW t \in withdrawn', t \notin withdrawn
      PROVE  token'[t] # None /\ Void(t)'
  <2>1. ASSUME t \in TokenId, Revoke(t)
        PROVE  token'[t] # None /\ Void(t)'
    <3>1. /\ token[t] # None /\ token' = token /\ now' = now /\ issued' = issued
          /\ t \in issued \/ t \notin StillReusable
      BY <1>3, <2>1 DEF Revoke, MarkRevoked
    <3>2. revoked' = IF Backend = "sql" THEN SqlRevoked(t) ELSE InMemoryRevoked(t)
      BY <2>1 DEF Revoke, MarkRevoked
    <3>4. CASE t \in issued \/ Backend # "sql"
      BY <3>1, <3>2, <3>4 DEF SqlRevoked, InMemoryRevoked, Void
    <3>5. CASE t \notin issued /\ Backend = "sql"
      <4>1. token[t].expires \in Nat /\ now \in Nat
        BY <2>1, <3>1 DEF TypeOK, StoreTypeOK, Token
      <4>2. SingleUse(t) \/ now >= token[t].expires
        BY <2>1, <3>1, <3>5, <4>1 DEF StillReusable, SingleUse
      <4> QED
        BY <3>1, <3>5, <4>2 DEF Void, Gone, SingleUse
    <3> QED
      BY <3>1, <3>4, <3>5
  <2>2. ASSUME NEW scope, RevokeScope(scope)
        PROVE  token'[t] # None /\ Void(t)'
    <3>1. /\ t \in LiveInScope(scope) /\ token' = token
          /\ revoked' = revoked \cup LiveInScope(scope)
      BY <1>3, <2>2 DEF RevokeScope, MarkScopeRevoked
    <3>2. t \in issued
      BY <3>1 DEF LiveInScope
    <3> QED
      BY <3>1, <3>2 DEF TypeOK, StoreTypeOK, Void
  <2>3. (\E s \in TokenId : Revoke(s)) \/ (\E scope : RevokeScope(scope))
    BY <1>3 DEF Service, Mint, PurgeExpired, Tick, vars, history
  <2>4. ASSUME NEW s \in TokenId, Revoke(s)
        PROVE  s = t
    BY <1>3, <2>4 DEF Revoke
  <2> QED
    BY <2>1, <2>2, <2>3, <2>4
<1>4. ASSUME NEW u \in Thread, late'[u]
      PROVE  LateInv(u)'
  <2>1. /\ pc'[u] = pc[u] /\ presented'[u] = presented[u] /\ outcome'[u] = outcome[u]
    BY ServiceFrame
  <2>2. late[u] /\ ~Lost(presented[u])
    <3>1. CASE ~\E at : PurgeExpired(at)
      <4>1. late' = late
        BY <1>4, <3>1 DEF Service, Mint, Revoke, RevokeScope, Tick, vars, history
      <4> QED
        BY <1>4, <3>1, <4>1 DEF Lost
    <3>2. ASSUME NEW at, PurgeExpired(at)
          PROVE  late[u] /\ presented[u] \notin ExpiredBefore(at) \cap StillReusable
      BY <1>4, <3>2 DEF PurgeExpired
    <3> QED
      BY <3>1, <3>2 DEF Lost
  <2> QED
    BY <2>1, <2>2, LateStays DEF WithdrawnInv
<1> QED
  BY <1>2, <1>3, <1>4 DEF WithdrawnInv

\* What a late call reads at each step sends it to a refusal.
LEMMA LateMoves ==
    ASSUME TypeOK, NEW th \in Thread, Advance(th) \/ Abandon(th), LateInv(th),
           NEW t \in TokenId, t = presented[th]
    PROVE  /\ pc'[th] # "action" /\ outcome'[th] # "executed"
           /\ pc'[th] # "idle" => pc[th] # "idle"
           /\ pc'[th] = "expiry" => Gone(t) \/ Expired(t)
           /\ pc'[th] = "try_consume" => Gone(t)
<1>1. ASSUME CheckRevoked(th), pc'[th] = "expiry"
      PROVE  Gone(t) \/ Expired(t)
  BY <1>1, CheckRevokedEffect DEF LateInv, Void
<1>2. ASSUME CheckExpiryAndScope(th), pc'[th] # "idle"
      PROVE  pc'[th] = "try_consume" /\ Gone(t)
  <2>1. /\ pc[th] = "expiry" /\ now < token[t].expires /\ pc'[th] = AfterScope(th)
    BY <1>2, CheckExpiryEffect
  <2>2. token[t] # None
    BY <2>1 DEF TypeOK
  <2>3. token[t].expires \in Nat /\ now \in Nat
    BY <2>2 DEF TypeOK, StoreTypeOK, Token
  <2>4. Gone(t)
    BY <2>1, <2>3 DEF LateInv, Expired
  <2>5. SingleUse(t)
    BY <2>1, <2>3, <2>4 DEF Gone
  <2> QED
    BY <2>1, <2>4, <2>5 DEF AfterScope, SingleUse
<1>3. ASSUME TryConsume(th)
      PROVE  pc'[th] = "why"
  <2>1. pc[th] = "try_consume"
    BY <1>3, TryConsumeEffect
  <2>2. Gone(t)
    BY <2>1 DEF LateInv
  <2>3. ~CanConsume(presented[th])
    BY <2>2 DEF Gone, CanConsume, SqlCanConsume
  <2> QED
    BY <1>3, <2>3, TryConsumeEffect
<1>4. ~RunAction(th)
  BY RunEffect DEF LateInv
<1>5. outcome[th] # "executed"
  BY DEF LateInv
<1>6. CASE CheckRevoked(th)
  BY <1>1, <1>5, <1>6, CheckRevokedEffect
<1>7. CASE CheckExpiryAndScope(th)
  BY <1>2, <1>5, <1>7, CheckExpiryEffect
<1>8. CASE TryConsume(th)
  BY <1>3, <1>5, <1>8, TryConsumeEffect
<1>9. CASE WhyRefused(th)
  BY <1>9, WhyRefusedEffect
<1>10. CASE Abandon(th)
  BY <1>10, AbandonEffect
<1> QED
  BY <1>4, <1>6, <1>7, <1>8, <1>9, <1>10 DEF Advance

LEMMA WithdrawnByThread ==
    ASSUME Backend = "sql" \/ ~Purging, TypeOK, WithdrawnInv, [Next]_vars,
           NEW th \in Thread, Acting(th)
    PROVE  WithdrawnInv'
<1>0. /\ Alone(th) /\ TokensKept
  BY ThreadFrame
<1>1. \A t : /\ (Void(t)' <=> Void(t)) /\ (Gone(t)' <=> Gone(t))
             /\ (Expired(t)' <=> Expired(t))
  BY <1>0 DEF TokensKept, Void, Gone, SingleUse, Expired
<1>2. \A t \in withdrawn' : token'[t] # None /\ Void(t)'
  BY <1>0, <1>1 DEF TokensKept, WithdrawnInv
<1>3. ASSUME NEW u \in Thread, u # th, late'[u]
      PROVE  LateInv(u)'
  <2>1. pc'[u] = pc[u] /\ presented'[u] = presented[u] /\ outcome'[u] = outcome[u]
        /\ late[u]
    BY <1>0, <1>3 DEF Alone
  <2>2. ~Lost(presented[u])
    <3>1. ASSUME NEW at, PurgeExpired(at)
          PROVE  ExpiredBefore(at) = {}
      <4>1. issued' = issued \ ExpiredBefore(at) /\ issued' = issued
        BY <1>0, <3>1 DEF PurgeExpired, Forget, TokensKept
      <4>2. ExpiredBefore(at) \subseteq issued
        BY DEF ExpiredBefore
      <4> QED
        BY <4>1, <4>2
    <3> QED
      BY <3>1 DEF Lost
  <2> QED
    BY <2>1, <2>2, LateStays DEF WithdrawnInv
<1>4. ASSUME late'[th]
      PROVE  LateInv(th)'
  <2>1. CASE Call(th)
    <3>1. /\ presented'[th] \in withdrawn \/ Expired(presented'[th])
          /\ pc'[th] \in {"idle", "is_revoked"}
          /\ outcome'[th] # "executed"
      BY <1>4, <2>1, StartEffect
    <3>2. PICK t : t = presented'[th]
      OBVIOUS
    <3>3. Void(t)'
      BY <1>1, <3>1, <3>2 DEF WithdrawnInv, Void
    <3>4. Void(presented[th])'
      BY <3>2, <3>3, Zenon
    <3> QED
      BY <3>1, <3>4 DEF LateInv
  <2>2. CASE Advance(th) \/ Abandon(th)
    <3>1. SameCall(th)
      BY <2>2, CheckRevokedEffect, CheckExpiryEffect, TryConsumeEffect,
         WhyRefusedEffect, RunEffect, AbandonEffect DEF Advance
    <3>2. LateInv(th) /\ pc[th] # "idle"
      <4>1. late[th]
        BY <1>4, <3>1 DEF SameCall
      <4>2. pc[th] # "idle"
        BY <2>2, CheckRevokedEffect, CheckExpiryEffect, TryConsumeEffect,
           WhyRefusedEffect, RunEffect DEF Advance, Abandon
      <4> QED
        BY <4>1, <4>2 DEF WithdrawnInv
    <3>3. PICK t \in TokenId : t = presented[th]
      BY <3>2 DEF TypeOK
    <3>4. Void(t)
      BY <3>2, <3>3 DEF LateInv
    <3>5. /\ pc'[th] # "action" /\ outcome'[th] # "executed"
          /\ pc'[th] = "expiry" => Gone(t) \/ Expired(t)
          /\ pc'[th] = "try_consume" => Gone(t)
      BY <2>2, <3>2, <3>3, LateMoves
    <3>6. Void(t)' /\ (Gone(t) => Gone(t)') /\ (Expired(t) => Expired(t)')
      BY <1>1, <3>4
    <3>7. presented'[th] = t
      BY <3>1, <3>3 DEF SameCall
    <3>8. /\ Void(presented[th])' /\ (Gone(t)' => Gone(presented[th])')
          /\ Expired(t)' => Expired(presented[th])'
      BY <3>6, <3>7, Zenon
    <3> QED
      BY <3>5, <3>6, <3>8 DEF LateInv
  <2> QED
    BY <2>1, <2>2 DEF Acting
<1> QED
  BY <1>2, <1>3, <1>4 DEF WithdrawnInv

\* A call made after its token was withdrawn or expired never runs its action, whatever
\* the interleaving of revocations, purges, skewed clocks and other calls: on
\* the SQL backend always, in memory as long as purge_expired is never called.
THEOREM LateCallsNeverRun ==
    ASSUME Backend = "sql" \/ ~Purging
    PROVE  Spec => []NoLateRun
<1>1. Init => WithdrawnInv
  BY DEF Init, WithdrawnInv
<1>2. TypeOK /\ WithdrawnInv /\ [Next]_vars => WithdrawnInv'
  BY WithdrawnByService, WithdrawnByThread, Steps
<1>3. WithdrawnInv => NoLateRun
  BY DEF WithdrawnInv, LateInv, NoLateRun
<1> QED
  BY <1>1, <1>2, <1>3, TypeCorrect, PTL DEF Spec

(***************************************************************************)
(* The reason given.  Without a purge the bookkeeping of a minted token    *)
(* stays, a consumed mark witnesses a win, and a call that lost the race   *)
(* lost it to one of the two marks.                                        *)
(***************************************************************************)
ReasonInv ==
    /\ \A t \in TokenId : token[t] # None => t \in issued
    /\ \A t \in consumed : wins[t] > 0
    /\ \A th \in Thread : pc[th] = "why" => presented[th] \in consumed \cup revoked
    /\ \A th \in Thread : outcome[th] = "already_consumed" =>
          presented[th] \in TokenId /\ wins[presented[th]] > 0

LEMMA BookkeptStays ==
    ASSUME ~Purging, TypeOK, [Next]_vars,
           \A t \in TokenId : token[t] # None => t \in issued,
           NEW t \in TokenId, token'[t] # None
    PROVE  t \in issued'
<1>1. ASSUME NEW s \in TokenId, NEW g \in Grant, NEW ttl \in TTL, Mint(s, g, ttl)
      PROVE  t \in issued'
  BY <1>1 DEF Mint, RecordIssued, TypeOK, StoreTypeOK
<1>2. CASE Service
  <2>1. (\E s \in TokenId, g \in Grant, ttl \in TTL : Mint(s, g, ttl))
        \/ (token' = token /\ issued' = issued)
    BY <1>2 DEF Service, Revoke, MarkRevoked, RevokeScope, MarkScopeRevoked,
       PurgeExpired
  <2> QED
    BY <1>1, <2>1
<1>3. CASE Tick \/ UNCHANGED vars
  BY <1>3 DEF Tick, vars, storeVars
<1>4. CASE \E th \in Thread : Acting(th)
  BY <1>4, ThreadFrame DEF TokensKept
<1> QED
  BY <1>2, <1>3, <1>4, Steps

LEMMA WinsGrow ==
    ASSUME TypeOK, NEW th \in Thread, Acting(th), NEW t \in TokenId
    PROVE  /\ wins[t] > 0 => wins'[t] > 0
           /\ t \in consumed' /\ t \notin consumed => wins'[t] > 0
<1>1. CASE TryConsume(th)
  <2>1. CASE CanConsume(presented[th])
    <3>1. /\ consumed' = consumed \cup {presented[th]}
          /\ wins' = [wins EXCEPT ![presented[th]] = @ + 1]
      BY <1>1, <2>1, TryConsumeEffect DEF MarkConsumed
    <3>2. wins \in [TokenId -> Nat]
      BY DEF TypeOK
    <3>3. wins'[t] = IF t = presented[th] THEN wins[t] + 1 ELSE wins[t]
      BY <3>1, <3>2
    <3> QED
      BY <3>1, <3>2, <3>3
  <2>2. CASE ~CanConsume(presented[th])
    BY <1>1, <2>2, TryConsumeEffect DEF Unspent
  <2> QED
    BY <2>1, <2>2
<1>2. CASE ~TryConsume(th)
  BY <1>2, StartEffect, CheckRevokedEffect, CheckExpiryEffect, WhyRefusedEffect,
     RunEffect, AbandonEffect DEF Acting, Advance, Unspent
<1> QED
  BY <1>1, <1>2

LEMMA ReasonByThread ==
    ASSUME ~Purging, TypeOK, ReasonInv, NEW th \in Thread, Acting(th)
    PROVE  /\ pc'[th] = "why" => presented'[th] \in consumed' \cup revoked'
           /\ outcome'[th] = "already_consumed" =>
                presented'[th] \in TokenId /\ wins'[presented'[th]] > 0
<1>0. Alone(th) /\ TokensKept /\ consumed \subseteq consumed'
  BY ThreadFrame
<1>1. ASSUME Call(th)
      PROVE  pc'[th] # "why" /\ outcome'[th] # "already_consumed"
  BY <1>1, StartEffect
<1>2. ASSUME SameCall(th), outcome'[th] = outcome[th], presented[th] \in TokenId
      PROVE  outcome'[th] = "already_consumed" =>
                presented'[th] \in TokenId /\ wins'[presented'[th]] > 0
  BY <1>2, WinsGrow DEF SameCall, ReasonInv
<1>3. CASE CheckRevoked(th)
  BY <1>2, <1>3, CheckRevokedEffect DEF TypeOK
<1>4. CASE CheckExpiryAndScope(th)
  BY <1>2, <1>4, CheckExpiryEffect DEF TypeOK, AfterScope
<1>5. CASE TryConsume(th)
  <2>1. /\ SameCall(th) /\ outcome'[th] = outcome[th] /\ presented[th] \in TokenId
        /\ token[presented[th]] # None
    BY <1>5, TryConsumeEffect DEF TypeOK
  <2>2. ASSUME pc'[th] = "why"
        PROVE  presented[th] \in consumed \cup revoked
    <3>1. ~CanConsume(presented[th])
      BY <1>5, <2>2, TryConsumeEffect
    <3>2. presented[th] \in issued
      BY <2>1 DEF ReasonInv
    <3> QED
      BY <3>1, <3>2 DEF CanConsume, SqlCanConsume, InMemoryCanConsume
  <2> QED
    BY <1>0, <1>2, <2>1, <2>2 DEF SameCall, TokensKept
<1>6. CASE WhyRefused(th)
  <2>1. SameCall(th) /\ pc[th] = "why" /\ pc'[th] = "idle" /\ wins' = wins
        /\ (outcome'[th] = "token_revoked" \/ presented[th] \notin revoked)
    BY <1>6, WhyRefusedEffect DEF Unspent
  <2>2. presented[th] \notin revoked =>
           presented[th] \in TokenId /\ wins[presented[th]] > 0
    BY <2>1 DEF ReasonInv, TypeOK
  <2> QED
    BY <2>1, <2>2 DEF SameCall
<1>7. CASE RunAction(th)
  BY <1>7, RunEffect
<1>8. CASE Abandon(th)
  BY <1>8, AbandonEffect
<1> QED
  BY <1>1, <1>3, <1>4, <1>5, <1>6, <1>7, <1>8 DEF Acting, Advance

LEMMA ReasonInvInductive ==
    ASSUME ~Purging, TypeOK, ReasonInv, [Next]_vars
    PROVE  ReasonInv'
<1>1. \A t \in TokenId : token'[t] # None => t \in issued'
  BY BookkeptStays DEF ReasonInv
<1>2. CASE Service \/ Tick \/ UNCHANGED vars
  <2>1. /\ pc' = pc /\ presented' = presented /\ outcome' = outcome /\ wins' = wins
        /\ consumed' = consumed /\ revoked \subseteq revoked'
    BY <1>2, ServiceFrame
  <2> QED
    BY <1>1, <2>1 DEF ReasonInv
<1>3. ASSUME NEW th \in Thread, Acting(th)
      PROVE  ReasonInv'
  <2>0. Alone(th) /\ TokensKept /\ consumed \subseteq consumed'
    BY <1>3, ThreadFrame
  <2>1. \A t \in consumed' : wins'[t] > 0
    <3>1. consumed' \subseteq TokenId
      <4>1. CASE TryConsume(th)
        BY <4>1, TryConsumeEffect DEF MarkConsumed, Unspent, TypeOK, StoreTypeOK
      <4>2. CASE ~TryConsume(th)
        BY <1>3, <4>2, StartEffect, CheckRevokedEffect, CheckExpiryEffect,
           WhyRefusedEffect, RunEffect, AbandonEffect
        DEF Acting, Advance, Unspent, TypeOK, StoreTypeOK
      <4> QED
        BY <4>1, <4>2
    <3> QED
      BY <1>3, <3>1, WinsGrow DEF ReasonInv
  <2>2. ASSUME NEW u \in Thread, u # th
        PROVE  /\ pc'[u] = "why" => presented'[u] \in consumed' \cup revoked'
               /\ outcome'[u] = "already_consumed" =>
                    presented'[u] \in TokenId /\ wins'[presented'[u]] > 0
    <3>1. pc'[u] = pc[u] /\ presented'[u] = presented[u] /\ outcome'[u] = outcome[u]
      BY <2>0, <2>2 DEF Alone
    <3>2. pc[u] = "why" => presented[u] \in consumed \cup revoked
      BY DEF ReasonInv
    <3>3. ASSUME outcome[u] = "already_consumed"
          PROVE  presented[u] \in TokenId /\ wins'[presented[u]] > 0
      BY <1>3, <3>3, WinsGrow DEF ReasonInv
    <3> QED
      BY <2>0, <3>1, <3>2, <3>3 DEF TokensKept
  <2>3. /\ pc'[th] = "why" => presented'[th] \in consumed' \cup revoked'
        /\ outcome'[th] = "already_consumed" =>
                presented'[th] \in TokenId /\ wins'[presented'[th]] > 0
    BY <1>3, ReasonByThread
  <2> QED
    BY <1>1, <2>1, <2>2, <2>3 DEF ReasonInv
<1> QED
  BY <1>2, <1>3, Steps

\* As long as purge_expired is never called, a caller that is told "already
\* consumed" did lose its token to another use of it.
THEOREM RefusalsTellTheTruth ==
    ASSUME ~Purging
    PROVE  Spec => []RefusalReasonTrue
<1>1. Init => ReasonInv
  BY DEF Init, StoreInit, ReasonInv
<1>2. TypeOK /\ ReasonInv /\ [Next]_vars => ReasonInv'
  BY ReasonInvInductive
<1>3. ReasonInv => RefusalReasonTrue
  BY DEF ReasonInv, RefusalReasonTrue
<1> QED
  BY <1>1, <1>2, <1>3, TypeCorrect, PTL DEF Spec

(***************************************************************************)
(* The refinement: the single-use tokens behave as the once-only grant.    *)
(***************************************************************************)
StatusOf(t) ==
    IF ~SingleUse(t) THEN "none"
    ELSE IF wins[t] > 0 THEN "used"
    ELSE IF t \in issued /\ t \notin revoked THEN "live"
    ELSE "dead"

\* Only minted tokens are marked; without a purge they stay bookkept.
MintedInv ==
    /\ \A t \in revoked : token[t] # None
    /\ ~Purging => \A t \in TokenId : token[t] # None => t \in issued

LEMMA StatusIs ==
    /\ GrantStatus \in [TokenId -> {"none", "live", "used", "dead"}]
    /\ GrantStatus' \in [TokenId -> {"none", "live", "used", "dead"}]
    /\ \A t \in TokenId : /\ GrantStatus[t] = StatusOf(t)
                          /\ GrantStatus'[t] = StatusOf(t)'
<1> DEFINE Was == [t \in TokenId |-> StatusOf(t)]
           Is == [t \in TokenId |-> StatusOf(t)']
<1>1. GrantStatus = Was /\ GrantStatus' = Is
  BY DEF GrantStatus, StatusOf
<1>2. \A t : /\ StatusOf(t) \in {"none", "live", "used", "dead"}
             /\ StatusOf(t)' \in {"none", "live", "used", "dead"}
  BY DEF StatusOf
<1> QED
  BY <1>1, <1>2

LEMMA MintedInvInductive ==
    ASSUME TypeOK, MintedInv, [Next]_vars
    PROVE  MintedInv'
<1>1. ~Purging => \A t \in TokenId : token'[t] # None => t \in issued'
  BY BookkeptStays DEF MintedInv
<1>2. ASSUME NEW t \in revoked', t \in revoked
      PROVE  token'[t] # None
  BY <1>2, TokensStay DEF MintedInv, TypeOK, StoreTypeOK
<1>3. ASSUME NEW t \in revoked', t \notin revoked
      PROVE  token'[t] # None
  <2>1. Service
    <3>1. CASE Tick \/ UNCHANGED vars
      BY <1>3, <3>1 DEF Tick, vars, storeVars
    <3>2. CASE \E th \in Thread : Acting(th)
      BY <1>3, <3>2, ThreadFrame DEF TokensKept
    <3> QED
      BY <3>1, <3>2, Steps
  <2>2. ASSUME NEW s \in TokenId, Revoke(s)
        PROVE  token'[t] # None
    BY <1>3, <2>2 DEF Revoke, MarkRevoked, SqlRevoked, InMemoryRevoked
  <2>3. ASSUME NEW scope, RevokeScope(scope)
        PROVE  token'[t] # None
    BY <1>3, <2>3 DEF RevokeScope, MarkScopeRevoked, LiveInScope, TypeOK, StoreTypeOK
  <2> QED
    BY <1>3, <2>1, <2>2, <2>3 DEF Service, Mint, RecordIssued, PurgeExpired, Forget
<1> QED
  BY <1>1, <1>2, <1>3 DEF MintedInv

\* Giving, using and withdrawing, read off the statuses before and after.
LEMMA AbstractGive ==
    ASSUME NEW t \in TokenId, StatusOf(t) = "none", StatusOf(t)' = "live",
           \A s \in TokenId : s # t => StatusOf(s)' = StatusOf(s),
           GrantRuns' = GrantRuns
    PROVE  Abstract!Next
<1>1. GrantStatus[t] = "none" /\ GrantStatus' = [GrantStatus EXCEPT ![t] = "live"]
  BY StatusIs
<1> QED
  BY <1>1 DEF Abstract!Next, Abstract!Give

LEMMA AbstractUse ==
    ASSUME NEW t \in TokenId, StatusOf(t) = "live", StatusOf(t)' = "used",
           \A s \in TokenId : s # t => StatusOf(s)' = StatusOf(s),
           GrantRuns' = GrantRuns
    PROVE  Abstract!Next
<1>1. GrantStatus[t] = "live" /\ GrantStatus' = [GrantStatus EXCEPT ![t] = "used"]
  BY StatusIs
<1> QED
  BY <1>1 DEF Abstract!Next, Abstract!Use

LEMMA AbstractWithdraw ==
    ASSUME \A s \in TokenId : \/ StatusOf(s)' = StatusOf(s)
                              \/ StatusOf(s) = "live" /\ StatusOf(s)' = "dead",
           GrantRuns' = GrantRuns
    PROVE  Abstract!Next
<1> DEFINE S == {s \in TokenId : GrantStatus[s] = "live" /\ GrantStatus'[s] = "dead"}
<1>1. \A s \in S : GrantStatus[s] = "live"
  OBVIOUS
<1>2. GrantStatus' = [s \in TokenId |-> IF s \in S THEN "dead" ELSE GrantStatus[s]]
  BY StatusIs
<1>3. S \in SUBSET TokenId
  OBVIOUS
<1> HIDE DEF S
<1>4. Abstract!WithdrawAll(S)
  BY <1>1, <1>2 DEF Abstract!WithdrawAll
<1> QED
  BY <1>3, <1>4 DEF Abstract!Next

LEMMA AbstractStutter ==
    ASSUME \A s \in TokenId : StatusOf(s)' = StatusOf(s), GrantRuns' = GrantRuns
    PROVE  UNCHANGED Abstract!vars
<1>1. GrantStatus' = GrantStatus
  BY StatusIs
<1> QED
  BY <1>1 DEF Abstract!vars

RunsOf(t) == IF SingleUse(t) THEN runs[t] ELSE 0

LEMMA RunsAre ==
    /\ GrantRuns = [t \in TokenId |-> RunsOf(t)]
    /\ GrantRuns' = [t \in TokenId |-> RunsOf(t)']
BY DEF GrantRuns, RunsOf

LEMMA RunsStay ==
    ASSUME \A t \in TokenId : RunsOf(t)' = RunsOf(t)
    PROVE  GrantRuns' = GrantRuns
BY RunsAre

\* Minting a single-use token gives the grant; another token is no grant.
LEMMA MintRefines ==
    ASSUME TypeOK, OnceInv, MintedInv,
           NEW t \in TokenId, NEW g \in Grant, NEW ttl \in TTL, Mint(t, g, ttl)
    PROVE  [Abstract!Next]_(Abstract!vars)
<1>1. /\ token[t] = None
      /\ \A s \in TokenId : s # t => token'[s] = token[s] /\ (s \in issued' <=> s \in issued)
      /\ t \in issued' /\ revoked' = revoked /\ wins' = wins /\ runs' = runs
  BY DEF Mint, RecordIssued, TypeOK, StoreTypeOK, history
<1>2. wins[t] = 0 /\ runs[t] = 0 /\ t \notin revoked
  BY <1>1 DEF OnceInv, MintedInv
<1>3. \A s \in TokenId : s # t => StatusOf(s)' = StatusOf(s) /\ RunsOf(s)' = RunsOf(s)
  BY <1>1 DEF StatusOf, RunsOf, SingleUse
<1>4. StatusOf(t) = "none" /\ RunsOf(t) = 0
  BY <1>1 DEF StatusOf, RunsOf, SingleUse
<1>5. RunsOf(t)' = 0
  BY <1>1, <1>2 DEF RunsOf
<1>6. GrantRuns' = GrantRuns
  BY <1>3, <1>4, <1>5, RunsStay
<1>7. StatusOf(t)' = IF SingleUse(t)' THEN "live" ELSE "none"
  BY <1>1, <1>2 DEF StatusOf
<1>8. CASE SingleUse(t)'
  BY <1>3, <1>4, <1>6, <1>7, <1>8, AbstractGive
<1>9. CASE ~SingleUse(t)'
  <2>1. \A s \in TokenId : StatusOf(s)' = StatusOf(s)
    BY <1>3, <1>4, <1>7, <1>9
  <2> QED
    BY <1>6, <2>1, AbstractStutter
<1> QED
  BY <1>8, <1>9

\* Revocations and purges withdraw grants that were live, and revive none.
LEMMA WithdrawalRefines ==
    ASSUME TypeOK, OnceInv, Service \/ Tick \/ UNCHANGED vars,
           ~\E t \in TokenId, g \in Grant, ttl \in TTL : Mint(t, g, ttl)
    PROVE  Abstract!Next
<1>1. wins' = wins /\ runs' = runs
  BY ServiceFrame
<1>2. /\ token' = token
      /\ \A t \in TokenId :
            t \in issued' /\ t \notin revoked' => t \in issued /\ t \notin revoked
  <2>1. ASSUME NEW t \in TokenId, Revoke(t)
        PROVE  token' = token /\ issued' = issued /\ revoked \subseteq revoked'
    BY <2>1 DEF Revoke, MarkRevoked, SqlRevoked, InMemoryRevoked
  <2>2. ASSUME NEW scope, RevokeScope(scope)
        PROVE  token' = token /\ issued' = issued /\ revoked \subseteq revoked'
    BY <2>2 DEF RevokeScope, MarkScopeRevoked
  <2>3. ASSUME NEW at, PurgeExpired(at)
        PROVE  /\ token' = token /\ issued' = issued \ ExpiredBefore(at)
               /\ revoked' = revoked \ ExpiredBefore(at)
    BY <2>3 DEF PurgeExpired, Forget
  <2>4. CASE Tick \/ UNCHANGED vars
    BY <2>4 DEF Tick, vars, storeVars
  <2> QED
    BY <2>1, <2>2, <2>3, <2>4 DEF Service
<1>3. \A t \in TokenId : \/ StatusOf(t)' = StatusOf(t)
                         \/ StatusOf(t) = "live" /\ StatusOf(t)' = "dead"
  BY <1>1, <1>2 DEF StatusOf, SingleUse
<1>4. \A t \in TokenId : RunsOf(t)' = RunsOf(t)
  BY <1>1, <1>2 DEF RunsOf, SingleUse
<1> QED
  BY <1>3, <1>4, RunsStay, AbstractWithdraw

\* A won race uses the grant, action() of a single-use token is its one run.
LEMMA ThreadRefines ==
    ASSUME Backend = "sql" \/ ~Purging, TypeOK, OnceInv, MintedInv,
           NEW th \in Thread, Acting(th)
    PROVE  [Abstract!Next]_(Abstract!vars)
<1>1. TokensKept
  BY ThreadFrame
<1>2. \A t \in TokenId : SingleUse(t)' <=> SingleUse(t)
  BY <1>1 DEF TokensKept, SingleUse
<1>3. ASSUME wins' = wins, runs' = runs
      PROVE  UNCHANGED Abstract!vars
  <2>1. \A t \in TokenId : StatusOf(t)' = StatusOf(t) /\ RunsOf(t)' = RunsOf(t)
    BY <1>1, <1>2, <1>3 DEF StatusOf, RunsOf, TokensKept
  <2> QED
    BY <2>1, RunsStay, AbstractStutter
<1>4. ASSUME TryConsume(th), CanConsume(presented[th])
      PROVE  Abstract!Next
  <2>1. PICK t \in TokenId : t = presented[th]
    BY <1>4, TryConsumeEffect DEF TypeOK
  <2>2. /\ pc[th] = "try_consume" /\ token[t] # None /\ runs' = runs
        /\ wins' = [wins EXCEPT ![t] = @ + 1]
    BY <1>4, <2>1, TryConsumeEffect DEF Unspent, TypeOK
  <2>3. SingleUse(t)
    BY <2>1, <2>2 DEF OnceInv
  <2>4. t \in issued /\ t \notin revoked /\ ~Burnt(t)
    BY <1>4, <2>1, <2>2, BackendAssumption
    DEF CanConsume, SqlCanConsume, InMemoryCanConsume, MintedInv, Burnt
  <2>5. wins[t] = 0
    BY <2>3, <2>4 DEF OnceInv
  <2>6. /\ wins'[t] > 0
        /\ \A s \in TokenId : s # t => wins'[s] = wins[s]
    BY <2>2, <2>5 DEF TypeOK
  <2>7. StatusOf(t) = "live" /\ StatusOf(t)' = "used"
    BY <1>2, <2>3, <2>4, <2>5, <2>6 DEF StatusOf
  <2>8. \A s \in TokenId : s # t => StatusOf(s)' = StatusOf(s)
    BY <1>1, <1>2, <2>6 DEF StatusOf, TokensKept
  <2>9. \A s \in TokenId : RunsOf(s)' = RunsOf(s)
    BY <1>2, <2>2 DEF RunsOf
  <2> QED
    BY <2>7, <2>8, <2>9, RunsStay, AbstractUse
<1>5. ASSUME RunAction(th)
      PROVE  [Abstract!Next]_(Abstract!vars)
  <2>1. PICK t \in TokenId : t = presented[th]
    BY <1>5, RunEffect DEF TypeOK
  <2>2. /\ pc[th] = "action" /\ wins' = wins
        /\ runs' = [runs EXCEPT ![t] = @ + 1]
    BY <1>5, <2>1, RunEffect
  <2>3. \A s \in TokenId : StatusOf(s)' = StatusOf(s)
    BY <1>1, <1>2, <2>2 DEF StatusOf, TokensKept
  <2>4. \A s \in TokenId : s # t => RunsOf(s)' = RunsOf(s)
    BY <1>2, <2>2 DEF RunsOf, TypeOK
  <2>5. CASE SingleUse(t)
    <3>1. wins[t] = 1 /\ runs[t] = 0
      BY <2>1, <2>2, <2>5 DEF OnceInv, AtAction
    <3>2. runs'[t] = 1
      BY <2>2, <3>1 DEF TypeOK
    <3>3. RunsOf(t) = 0 /\ RunsOf(t)' = 1
      BY <1>2, <2>5, <3>1, <3>2 DEF RunsOf
    <3>4. GrantStatus[t] = "used" /\ GrantStatus' = GrantStatus
      BY <2>3, <2>5, <3>1, StatusIs DEF StatusOf
    <3>5. GrantRuns[t] = 0 /\ GrantRuns' = [GrantRuns EXCEPT ![t] = 1]
      BY <2>4, <3>3, RunsAre
    <3>6. Abstract!Run(t)
      BY <3>4, <3>5 DEF Abstract!Run
    <3> QED
      BY <3>6 DEF Abstract!Next
  <2>6. CASE ~SingleUse(t)
    <3>1. RunsOf(t)' = RunsOf(t)
      BY <1>2, <2>6 DEF RunsOf
    <3> QED
      BY <2>3, <2>4, <3>1, RunsStay, AbstractStutter
  <2> QED
    BY <2>5, <2>6
<1>6. CASE ~RunAction(th) /\ ~(TryConsume(th) /\ CanConsume(presented[th]))
  <2>1. wins' = wins /\ runs' = runs
    BY <1>6, StartEffect, CheckRevokedEffect, CheckExpiryEffect, TryConsumeEffect,
       WhyRefusedEffect, AbandonEffect DEF Acting, Advance, Unspent
  <2> QED
    BY <1>3, <2>1
<1> QED
  BY <1>4, <1>5, <1>6

\* Whatever threads, replicas, crashes, revocations and purges do, the single-
\* use tokens behave as grants given once, used by one caller or withdrawn for
\* good, and run once by the caller that used them: on the SQL backend always,
\* in memory as long as purge_expired is never called.
THEOREM TokensImplementOnceOnlyGrant ==
    ASSUME Backend = "sql" \/ ~Purging
    PROVE  Spec => ImplementsOnceOnlyGrant
<1>1. Init => Abstract!Init /\ MintedInv
  <2> SUFFICES ASSUME Init
               PROVE  Abstract!Init /\ MintedInv
    OBVIOUS
  <2>1. \A t \in TokenId : ~SingleUse(t)
    BY DEF Init, StoreInit, SingleUse
  <2>2. GrantStatus = [t \in TokenId |-> "none"] /\ GrantRuns = [t \in TokenId |-> 0]
    BY <2>1 DEF GrantStatus, GrantRuns
  <2> QED
    BY <2>2 DEF Abstract!Init, MintedInv, Init, StoreInit
<1>2. TypeOK /\ MintedInv /\ [Next]_vars => MintedInv'
  BY MintedInvInductive
<1>3. TypeOK /\ OnceInv /\ MintedInv /\ [Next]_vars => [Abstract!Next]_(Abstract!vars)
  <2> SUFFICES ASSUME TypeOK, OnceInv, MintedInv, [Next]_vars
               PROVE  [Abstract!Next]_(Abstract!vars)
    OBVIOUS
  <2>1. CASE \E t \in TokenId, g \in Grant, ttl \in TTL : Mint(t, g, ttl)
    BY <2>1, MintRefines
  <2>2. CASE /\ Service \/ Tick \/ UNCHANGED vars
             /\ ~\E t \in TokenId, g \in Grant, ttl \in TTL : Mint(t, g, ttl)
    BY <2>2, WithdrawalRefines
  <2>3. CASE \E th \in Thread : Acting(th)
    BY <2>3, ThreadRefines
  <2> QED
    BY <2>1, <2>2, <2>3, Steps
<1> QED
  BY <1>1, <1>2, <1>3, TypeCorrect, OnceInvInvariant, PTL
  DEF Spec, ImplementsOnceOnlyGrant, Abstract!Spec

=============================================================================
