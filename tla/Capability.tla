----------------------------- MODULE Capability -----------------------------
(***************************************************************************)
(* Capability tokens from mint to use: CapabilityService                   *)
(* (core/capability.py) called by policy enforcement points                *)
(* (enforcement/pep.py) that run as concurrent threads of one process      *)
(* (in-memory backend) or of several replicas (SQL backend).               *)
(*                                                                         *)
(* PolicyEnforcementPoint.execute is a sequence of steps of its thread.    *)
(* verify_for_action touches shared state three times (is_revoked, then    *)
(* the clock, then try_consume), each time through a separate locked       *)
(* section or transaction, so mints, revocations, purges, the clock and    *)
(* other threads may come in between: these are the steps of the model.    *)
(* The signature test and the scope tests are local to the thread and      *)
(* belong to the step before which they run.                               *)
(***************************************************************************)
EXTENDS CapabilityStore

CONSTANTS
    Thread,     \* enforcement-point threads
    Request,    \* actions a caller may be about to perform
    TTL,        \* lifetimes a token may be minted with
    MaxTime,    \* bound: last instant of the clock
    MaxCalls,   \* bound: number of calls of execute
    Skew,       \* how far a purging replica's clock may run ahead
    Purging     \* TRUE if the deployment runs purge_expired

ASSUME CapabilityAssumption ==
    /\ TTL \subseteq Nat
    /\ MaxTime \in Nat
    /\ MaxCalls \in Nat
    /\ Skew \in Nat
    /\ Purging \in BOOLEAN

VARIABLES
    now,        \* the wall clock
    calls,      \* calls of execute so far
    pc,         \* next step of the thread, "idle" outside execute
    presented,  \* the token the thread's call presents
    request,    \* the action the thread's call is about to perform
    outcome,    \* the ExecutionResult of the thread's last call
    wins,       \* history: successful try_consume calls per token
    runs,       \* history: executions of action() per token
    withdrawn,  \* history: tokens a revocation was asked for (see StillReusable)
    late        \* history: the call was made after the token was withdrawn or expired

threadVars == <<pc, presented, request, outcome>>
history == <<wins, runs, withdrawn, late>>
vars == <<storeVars, now, calls, threadVars, history>>

Step == {"idle", "is_revoked", "expiry", "try_consume", "why", "action"}

\* The reasons of the code, with _ for a space.
Outcome == {"none", "no_token", "invalid_token_signature", "token_revoked",
            "token_expired", "out_of_scope", "already_consumed",
            "executed", "raised"}

SingleUse(t) == token[t] # None /\ token[t].grant.single

TypeOK ==
    /\ StoreTypeOK
    /\ now \in Nat
    /\ calls \in Nat
    /\ pc \in [Thread -> Step]
    /\ presented \in [Thread -> TokenId \cup {None}]
    /\ request \in [Thread -> Request \cup {None}]
    /\ outcome \in [Thread -> Outcome]
    /\ wins \in [TokenId -> Nat]
    /\ runs \in [TokenId -> Nat]
    /\ withdrawn \subseteq TokenId
    /\ late \in [Thread -> BOOLEAN]
    /\ \A th \in Thread : pc[th] # "idle" =>
          /\ presented[th] \in TokenId
          /\ token[presented[th]] # None
          /\ request[th] \in Request

Init ==
    /\ StoreInit
    /\ now = 0
    /\ calls = 0
    /\ pc = [th \in Thread |-> "idle"]
    /\ presented = [th \in Thread |-> None]
    /\ request = [th \in Thread |-> None]
    /\ outcome = [th \in Thread |-> "none"]
    /\ wins = [t \in TokenId |-> 0]
    /\ runs = [t \in TokenId |-> 0]
    /\ withdrawn = {}
    /\ late = [th \in Thread |-> FALSE]

(***************************************************************************)
(* The service's own operations, called by the control plane.              *)
(***************************************************************************)
Mint(t, grant, ttl) ==
    /\ RecordIssued(t, grant, now + ttl)
    /\ UNCHANGED <<now, calls, threadVars, history>>

\* History: when a clock that runs ahead purges one of these, its revocation
\* marker is lost, and revoking it later marks nothing.
StillReusable ==
    {t \in TokenId : token[t] # None /\ ~token[t].grant.single /\ now < token[t].expires}

\* revoke, of a token that was minted.
Revoke(t) ==
    /\ token[t] # None
    /\ MarkRevoked(t)
    /\ withdrawn' = withdrawn \cup ({t} \ (StillReusable \ issued))
    /\ UNCHANGED <<now, calls, threadVars, wins, runs, late>>

\* revoke_scope, called by an incident or a manual rule revocation.
RevokeScope(scope) ==
    /\ MarkScopeRevoked(scope)
    /\ withdrawn' = withdrawn \cup LiveInScope(scope)
    /\ UNCHANGED <<now, calls, threadVars, wins, runs, late>>

\* purge_expired(now_iso): now_iso is the caller's clock, at most Skew ahead.
PurgeExpired(at) ==
    /\ Purging
    /\ Forget(ExpiredBefore(at))
    /\ withdrawn' = withdrawn \ (ExpiredBefore(at) \cap StillReusable)
    /\ late' = [th \in Thread |->
                  late[th] /\ presented[th] \notin ExpiredBefore(at) \cap StillReusable]
    /\ UNCHANGED <<now, calls, threadVars, wins, runs>>

Tick ==
    /\ now < MaxTime
    /\ now' = now + 1
    /\ UNCHANGED <<storeVars, calls, threadVars, history>>

\* History: what purge_expired may forget without a clock that runs ahead.
Expired(t) == token[t] # None /\ now >= token[t].expires

(***************************************************************************)
(* PolicyEnforcementPoint.execute.                                         *)
(***************************************************************************)
Goto(th, step) ==
    /\ pc' = [pc EXCEPT ![th] = step]
    /\ UNCHANGED <<presented, request, outcome>>

Return(th, result) ==
    /\ pc' = [pc EXCEPT ![th] = "idle"]
    /\ outcome' = [outcome EXCEPT ![th] = result]
    /\ UNCHANGED <<presented, request>>

Refuse(th, reason) ==
    /\ Return(th, reason)
    /\ UNCHANGED <<storeVars, history>>

\* A bug: the signature is not verified.
SignatureUnchecked(t, grant) == TRUE

\* The signature covers every field: it verifies for the minted token only.
SignatureValid(t, grant) == token[t] # None /\ token[t].grant = grant

Execute(th, t, grant, r) ==
    /\ pc[th] = "idle"
    /\ calls < MaxCalls
    /\ calls' = calls + 1
    /\ presented' = [presented EXCEPT ![th] = t]
    /\ request' = [request EXCEPT ![th] = r]
    /\ IF SignatureValid(t, grant)
         THEN /\ pc' = [pc EXCEPT ![th] = "is_revoked"]
              /\ outcome' = [outcome EXCEPT ![th] = "none"]
         ELSE /\ outcome' = [outcome EXCEPT ![th] = "invalid_token_signature"]
              /\ UNCHANGED pc
    /\ late' = [late EXCEPT ![th] = t \in withdrawn \/ Expired(t)]
    /\ UNCHANGED <<storeVars, now, wins, runs, withdrawn>>

ExecuteWithoutToken(th) ==
    /\ pc[th] = "idle"
    /\ calls < MaxCalls
    /\ calls' = calls + 1
    /\ presented' = [presented EXCEPT ![th] = None]
    /\ request' = [request EXCEPT ![th] = None]
    /\ outcome' = [outcome EXCEPT ![th] = "no_token"]
    /\ late' = [late EXCEPT ![th] = FALSE]
    /\ UNCHANGED <<storeVars, now, pc, wins, runs, withdrawn>>

\* A bug: the revocation marker is not read.
CheckRevokedSkipped(th) ==
    /\ pc[th] = "is_revoked"
    /\ Goto(th, "expiry")
    /\ UNCHANGED <<storeVars, now, calls, history>>

CheckRevoked(th) ==
    /\ pc[th] = "is_revoked"
    /\ IF presented[th] \in revoked THEN Return(th, "token_revoked")
                                    ELSE Goto(th, "expiry")
    /\ UNCHANGED <<storeVars, now, calls, history>>

AfterScope(th) == IF token[presented[th]].grant.single THEN "try_consume"
                                                       ELSE "action"

\* A bug: the scope is not tested before consumption.
CheckExpiryOnly(th) ==
    /\ pc[th] = "expiry"
    /\ IF now >= token[presented[th]].expires THEN Return(th, "token_expired")
                                              ELSE Goto(th, AfterScope(th))
    /\ UNCHANGED <<storeVars, now, calls, history>>

\* The clock is read once; the scope tests that follow it are pure.
CheckExpiryAndScope(th) ==
    LET tok == token[presented[th]] IN
    /\ pc[th] = "expiry"
    /\ IF now >= tok.expires THEN Return(th, "token_expired")
       ELSE IF ~InScope(tok.grant, request[th]) THEN Return(th, "out_of_scope")
       ELSE Goto(th, AfterScope(th))
    /\ UNCHANGED <<storeVars, now, calls, history>>

\* A bug: a lost race is retried instead of reported.
TryConsumeForever(th) ==
    LET t == presented[th] IN
    /\ pc[th] = "try_consume"
    /\ IF CanConsume(t)
         THEN /\ MarkConsumed(t)
              /\ wins' = [wins EXCEPT ![t] = @ + 1]
              /\ Goto(th, "action")
         ELSE /\ Goto(th, "try_consume")
              /\ UNCHANGED <<storeVars, wins>>
    /\ UNCHANGED <<now, calls, runs, withdrawn, late>>

TryConsume(th) ==
    LET t == presented[th] IN
    /\ pc[th] = "try_consume"
    /\ IF CanConsume(t)
         THEN /\ MarkConsumed(t)
              /\ wins' = [wins EXCEPT ![t] = @ + 1]
              /\ Goto(th, "action")
         ELSE /\ Goto(th, "why")
              /\ UNCHANGED <<storeVars, wins>>
    /\ UNCHANGED <<now, calls, runs, withdrawn, late>>

\* A bug: every lost race is put down to another caller.
WhyRefusedAssumed(th) ==
    /\ pc[th] = "why"
    /\ Refuse(th, "already_consumed")
    /\ UNCHANGED <<now, calls>>

\* Lost the race or revoked in between: read is_revoked again for the reason.
WhyRefused(th) ==
    /\ pc[th] = "why"
    /\ Refuse(th, IF presented[th] \in revoked THEN "token_revoked"
                                               ELSE "already_consumed")
    /\ UNCHANGED <<now, calls>>

\* action() of the integration, then ExecutionResult(True, ...).
RunAction(th) ==
    /\ pc[th] = "action"
    /\ runs' = [runs EXCEPT ![presented[th]] = @ + 1]
    /\ Return(th, "executed")
    /\ UNCHANGED <<storeVars, now, calls, wins, withdrawn, late>>

\* A store call or action() raises, or the process dies: the call ends here.
Abandon(th) ==
    /\ pc[th] # "idle"
    /\ Refuse(th, "raised")
    /\ UNCHANGED <<now, calls>>

Advance(th) ==
    \/ CheckRevoked(th)
    \/ CheckExpiryAndScope(th)
    \/ TryConsume(th)
    \/ WhyRefused(th)
    \/ RunAction(th)

Call(th) ==
    \/ ExecuteWithoutToken(th)
    \/ \E t \in TokenId, grant \in Grant, r \in Request : Execute(th, t, grant, r)

Service ==
    \/ \E t \in TokenId, grant \in Grant, ttl \in TTL : Mint(t, grant, ttl)
    \/ \E t \in TokenId : Revoke(t)
    \/ \E g \in Grant : RevokeScope(<<g.agent, g.workflow, g.authority>>)
    \/ \E at \in 0 .. (now + Skew) : PurgeExpired(at)

Next ==
    \/ Service
    \/ Tick
    \/ \E th \in Thread : Call(th) \/ Advance(th) \/ Abandon(th)

Spec == Init /\ [][Next]_vars

\* A thread the operating system schedules finishes its call.
FairSpec == Spec /\ \A th \in Thread : WF_vars(Advance(th))

-----------------------------------------------------------------------------
(***************************************************************************)
(* Properties.                                                             *)
(***************************************************************************)

\* A single-use token lets at most one call through, whatever the number of
\* threads and replicas that present it (capability_store.py, try_consume),
\* and its action runs at most once, also when calls are abandoned.
OnceOnly ==
    \A t \in TokenId : SingleUse(t) => wins[t] <= 1 /\ runs[t] <= wins[t]

\* A call made after the token was revoked, or after it expired, never runs its
\* action, single-use or not, even when a purge has meanwhile dropped the
\* revocation marker or a consumed one: the marker is read before the clock, and
\* only expired tokens are purged.  Only reusable tokens purged by a clock that
\* runs ahead are lost (StillReusable).
NoLateRun ==
    \A th \in Thread : late[th] => pc[th] # "action" /\ outcome[th] # "executed"

\* A token is only spent, and an action only run, by a call whose action is
\* within the grant: a refused call does not burn the token (the scope tests
\* run before consumption).
OnlyScopedUse ==
    [][\A t \in TokenId : wins'[t] # wins[t] \/ runs'[t] # runs[t] =>
          \E th \in Thread :
             /\ pc[th] \in {"try_consume", "action"}
             /\ pc[th] = "try_consume" => pc'[th] = "action"
             /\ presented[th] = t
             /\ InScope(token[t].grant, request[th])]_vars

\* The reason a losing caller is given is true: "already_consumed" is said of
\* a token that some call did consume, never of one that was revoked.
RefusalReasonTrue ==
    \A th \in Thread : outcome[th] = "already_consumed" => wins[presented[th]] > 0

\* Every call of execute returns.
CallReturns == \A th \in Thread : pc[th] # "idle" ~> pc[th] = "idle"

(***************************************************************************)
(* The single-use tokens implement the once-only grant.                    *)
(***************************************************************************)
GrantStatus ==
    [t \in TokenId |->
        IF ~SingleUse(t) THEN "none"
        ELSE IF wins[t] > 0 THEN "used"
        ELSE IF t \in issued /\ t \notin revoked THEN "live"
        ELSE "dead"]

GrantRuns == [t \in TokenId |-> IF SingleUse(t) THEN runs[t] ELSE 0]

Abstract == INSTANCE OnceOnlyGrant WITH status <- GrantStatus, ran <- GrantRuns

ImplementsOnceOnlyGrant == Abstract!Spec

=============================================================================
