---------------------------- MODULE MCCapability ----------------------------
(***************************************************************************)
(* Instances of Capability for TLC: one agent, one workflow, two authority *)
(* classes of different consequence rank, one condition key.               *)
(***************************************************************************)
EXTENDS Capability, TLC

CONSTANTS agent, workflow, draft, send, amount

\* A single-use grant to send up to amount 1, as the control plane mints them.
SendOnce ==
    [agent |-> agent, workflow |-> workflow, authority |-> send, rank |-> 2,
     conditions |-> (amount :> Bounds(None, 1)), single |-> TRUE]

\* A reusable grant to draft, with no condition.
DraftMany ==
    [agent |-> agent, workflow |-> workflow, authority |-> draft, rank |-> 1,
     conditions |-> << >>, single |-> FALSE]

MCGrant == {SendOnce, DraftMany}
MCSendGrant == {SendOnce}

Act(authority, rank, value) ==
    [agent |-> agent, workflow |-> workflow, authority |-> authority,
     rank |-> rank, context |-> (amount :> value)]

\* In scope of one grant or the other, above the amount, above the rank.
MCRequest ==
    {Act(send, 2, 1), Act(send, 2, 2), Act(draft, None, 1), Act(draft, 3, 1)}

MCSmallRequest == {Act(send, 2, 1), Act(send, 2, 2)}

MCTTL == {1}

MCSymmetry == Permutations(Thread) \cup Permutations(TokenId)

=============================================================================
