------------------------- MODULE MCDelegationMemory -------------------------
(***************************************************************************)
(* An instance of DelegationMemory for TLC: a scope nobody touched yet.    *)
(***************************************************************************)
EXTENDS DelegationMemory, TLC

MCSymmetry == Permutations(Object) \cup Permutations(Thread) \cup Permutations(EventId)

=============================================================================
