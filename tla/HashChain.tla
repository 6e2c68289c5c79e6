----------------------------- MODULE HashChain -----------------------------
(***************************************************************************)
(* Records of the audit ledgers and what verify() tests about them.  The   *)
(* hash of a record covers its content and the previous record's hash, and *)
(* every record has an id of its own; so the fact it records stands for    *)
(* its hash.  A record is [fact, sequence, previous]; sequences are        *)
(* numbered from 0.                                                        *)
(***************************************************************************)
EXTENDS Integers, Sequences, FiniteSets

CONSTANTS
    None,
    Fact        \* what is recorded, one fact per call of append

\* A bug: the number of the previous record in place of its hash.
RecordAfterNumber(head, fact) ==
    IF head = None THEN [fact |-> fact, sequence |-> 0, previous |-> None]
    ELSE [fact |-> fact, sequence |-> head.sequence + 1, previous |-> head.sequence]

\* The record append builds on top of the last record, head.
RecordAfter(head, fact) ==
    IF head = None THEN [fact |-> fact, sequence |-> 0, previous |-> None]
    ELSE [fact |-> fact, sequence |-> head.sequence + 1, previous |-> head.fact]

Verifies(records) ==
    \A i \in DOMAIN records :
        /\ records[i].sequence = i - 1
        /\ records[i].previous = IF i = 1 THEN None ELSE records[i - 1].fact

FactsIn(records) == {records[i].fact : i \in DOMAIN records}

=============================================================================
