-------------------------- MODULE CapabilityStore --------------------------
(***************************************************************************)
(* The state behind capability tokens: core/capability_store.py.  Two      *)
(* backends implement one protocol: InMemoryCapabilityStore (three         *)
(* collections behind one lock) and SqlCapabilityStore (one row per token, *)
(* every operation one transaction).  An operation is therefore one atomic *)
(* step of either backend, and the operators below are its effect.         *)
(*                                                                         *)
(* token[t] is the signed token itself (what the agent holds): its grant   *)
(* and its expiry.  record_issued copies scope and expiry into the store   *)
(* and nothing ever updates the copy, so the store's copy is token[t].     *)
(***************************************************************************)
EXTENDS Scope, FiniteSets

CONSTANTS
    TokenId,    \* token identifiers (uuids: never reused)
    Grant,      \* what a token may authorize
    Backend     \* "memory" or "sql"

ASSUME BackendAssumption == Backend \in {"memory", "sql"}

VARIABLES
    token,      \* [TokenId -> [grant, expires] or None]: None until minted
    issued,     \* tokens with bookkeeping (dictionary entry or row)
    consumed,   \* tokens marked consumed
    revoked     \* tokens marked revoked

storeVars == <<token, issued, consumed, revoked>>

Token == [grant : Grant, expires : Nat]

ASSUME NoneAssumption == None \notin Token

StoreTypeOK ==
    /\ token \in [TokenId -> Token \cup {None}]
    /\ issued \subseteq TokenId
    /\ consumed \subseteq TokenId
    /\ revoked \subseteq TokenId
    /\ \A t \in issued : token[t] # None

StoreInit ==
    /\ token = [t \in TokenId |-> None]
    /\ issued = {}
    /\ consumed = {}
    /\ revoked = {}

\* CapabilityService.mint: a fresh id, a signed token, one bookkeeping row.
RecordIssued(t, grant, expires) ==
    /\ token[t] = None
    /\ token' = [token EXCEPT ![t] = [grant |-> grant, expires |-> expires]]
    /\ issued' = issued \cup {t}
    /\ UNCHANGED <<consumed, revoked>>

(***************************************************************************)
(* try_consume.  The dictionary backend looks only at the two marker sets; *)
(* the conditional UPDATE matches no row when the row is gone.             *)
(***************************************************************************)
\* Two bugs: a predicate of the UPDATE is left out.
SqlForgetsConsumed(t) == t \in issued /\ t \notin revoked
SqlForgetsRevoked(t) == t \in issued /\ t \notin consumed

InMemoryCanConsume(t) == t \notin consumed \cup revoked

SqlCanConsume(t) == /\ t \in issued
                    /\ t \notin consumed
                    /\ t \notin revoked

CanConsume(t) == IF Backend = "sql" THEN SqlCanConsume(t)
                                    ELSE InMemoryCanConsume(t)

MarkConsumed(t) ==
    /\ consumed' = consumed \cup {t}
    /\ UNCHANGED <<token, issued, revoked>>

\* revoke: the dictionary backend marks any id, the UPDATE only a present row.
InMemoryRevoked(t) == revoked \cup {t}
SqlRevoked(t) == revoked \cup ({t} \cap issued)

MarkRevoked(t) ==
    /\ revoked' = IF Backend = "sql" THEN SqlRevoked(t) ELSE InMemoryRevoked(t)
    /\ UNCHANGED <<token, issued, consumed>>

\* revoke_scope: every bookkept token of the scope neither revoked nor consumed.
ScopeOf(t) == LET g == token[t].grant IN <<g.agent, g.workflow, g.authority>>

LiveInScope(scope) ==
    {t \in issued : ScopeOf(t) = scope /\ t \notin revoked /\ t \notin consumed}

MarkScopeRevoked(scope) ==
    /\ revoked' = revoked \cup LiveInScope(scope)
    /\ UNCHANGED <<token, issued, consumed>>

\* purge_expired: forgets everything about tokens that expired before `at`.
ExpiredBefore(at) == {t \in issued : token[t].expires < at}

Forget(expired) ==
    /\ issued' = issued \ expired
    /\ consumed' = consumed \ expired
    /\ revoked' = revoked \ expired
    /\ UNCHANGED token

=============================================================================
