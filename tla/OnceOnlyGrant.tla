--------------------------- MODULE OnceOnlyGrant ---------------------------
(***************************************************************************)
(* What a store of single-use grants promises, with no word on how: a      *)
(* grant is given once, is then used by exactly one caller or withdrawn    *)
(* for good, and only the caller that used it runs the action, once.       *)
(***************************************************************************)
EXTENDS Naturals

CONSTANT TokenId

VARIABLES
    status,     \* "none" -> "live" -> "used" or "dead"
    ran         \* how many times the granted action was performed

vars == <<status, ran>>

Status == {"none", "live", "used", "dead"}

TypeOK ==
    /\ status \in [TokenId -> Status]
    /\ ran \in [TokenId -> Nat]

Init ==
    /\ status = [t \in TokenId |-> "none"]
    /\ ran = [t \in TokenId |-> 0]

Give(t) ==
    /\ status[t] = "none"
    /\ status' = [status EXCEPT ![t] = "live"]
    /\ UNCHANGED ran

Use(t) ==
    /\ status[t] = "live"
    /\ status' = [status EXCEPT ![t] = "used"]
    /\ UNCHANGED ran

\* One revocation, incident or purge may withdraw several grants at once.
WithdrawAll(tokens) ==
    /\ \A t \in tokens : status[t] = "live"
    /\ status' = [t \in TokenId |-> IF t \in tokens THEN "dead" ELSE status[t]]
    /\ UNCHANGED ran

Run(t) ==
    /\ status[t] = "used"
    /\ ran[t] = 0
    /\ ran' = [ran EXCEPT ![t] = 1]
    /\ UNCHANGED status

Next ==
    \/ \E t \in TokenId : Give(t) \/ Use(t) \/ Run(t)
    \/ \E tokens \in SUBSET TokenId : WithdrawAll(tokens)

Spec == Init /\ [][Next]_vars

=============================================================================
