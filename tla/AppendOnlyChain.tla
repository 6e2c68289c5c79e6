-------------------------- MODULE AppendOnlyChain --------------------------
(***************************************************************************)
(* What an audit ledger promises: facts are recorded one after another,    *)
(* each at most once, and what is recorded stays where it is.              *)
(***************************************************************************)
EXTENDS Sequences

CONSTANT Fact

VARIABLE chain

Recorded == {chain[i] : i \in DOMAIN chain}

Init == chain = << >>

Record(fact) ==
    /\ fact \notin Recorded
    /\ chain' = Append(chain, fact)

Next == \E fact \in Fact : Record(fact)

Spec == Init /\ [][Next]_chain

=============================================================================
