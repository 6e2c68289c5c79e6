------------------------------- MODULE Scope -------------------------------
(***************************************************************************)
(* The constraint language shared by a delegation rule and a capability    *)
(* token (core/models.py, core/capability.py).  A rule carries a mapping   *)
(* from metadata keys to what the key must look like; a token minted under *)
(* the rule carries the same mapping, and the enforcement point tests it   *)
(* again against the action really performed.                              *)
(*                                                                         *)
(* A Python dictionary is a function here; context.get(key) of a missing   *)
(* key is None.                                                            *)
(***************************************************************************)
EXTENDS Integers

CONSTANT None           \* Python's None

Get(dict, key) == IF key \in DOMAIN dict THEN dict[key] ELSE None

(***************************************************************************)
(* The three forms of an expected value: {"min": lo, "max": hi} (either    *)
(* bound may be absent), a list of allowed values, a plain value.          *)
(***************************************************************************)
Bounds(lo, hi) == [kind |-> "range", min |-> lo, max |-> hi]
OneOf(values) == [kind |-> "oneOf", values |-> values]
Equals(value) == [kind |-> "equals", value |-> value]

AboveMin(expected, actual) ==
    expected.min # None => actual # None /\ actual >= expected.min

BelowMax(expected, actual) ==
    expected.max # None => actual # None /\ actual <= expected.max

Meets(expected, actual) ==
    CASE expected.kind = "range"  -> /\ AboveMin(expected, actual)
                                     /\ BelowMax(expected, actual)
      [] expected.kind = "oneOf"  -> actual \in expected.values
      [] expected.kind = "equals" -> actual = expected.value

\* The loop over rule.conditions in DelegationRule.matches.
MeetsAll(conditions, metadata) ==
    \A key \in DOMAIN conditions : Meets(conditions[key], Get(metadata, key))

(***************************************************************************)
(* DelegationRule.matches: an inactive rule, or one for another workflow,  *)
(* agent or authority class, never matches.                                *)
(***************************************************************************)
Matches(rule, event) ==
    /\ rule.active
    /\ rule.workflow = event.workflow
    /\ rule.agent = event.agent
    /\ rule.authority = event.authority
    /\ MeetsAll(rule.conditions, event.metadata)

(***************************************************************************)
(* The pure reads of verify_for_action: the action performed must have the *)
(* token's agent, workflow and authority class, its declared consequence   *)
(* rank (if the caller declares one) must not exceed the token's, and its  *)
(* context must meet the token's conditions.                               *)
(***************************************************************************)
RankWithin(grant, request) == request.rank # None => request.rank <= grant.rank

InScope(grant, request) ==
    /\ request.agent = grant.agent
    /\ request.workflow = grant.workflow
    /\ request.authority = grant.authority
    /\ RankWithin(grant, request)
    /\ MeetsAll(grant.conditions, request.context)

=============================================================================
