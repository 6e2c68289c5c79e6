---------------------------- MODULE AuditLedger ----------------------------
(***************************************************************************)
(* AuditLedger (core/ledger.py): a list of records in memory and, with a   *)
(* path, a file of lines that a restarted process loads.  append takes no  *)
(* lock; a thread is preempted while the record is constructed, hashed and *)
(* signed, before the list append, before the line is written and before   *)
(* the checkpoint.  A write may raise, and the record then stays in the    *)
(* list.                                                                   *)
(***************************************************************************)
EXTENDS HashChain

CONSTANTS
    Thread,
    CheckpointEvery     \* 0: no checkpoints

ASSUME LedgerAssumption == CheckpointEvery \in Nat

VARIABLES
    records,    \* the list
    file,       \* the lines
    pc,         \* [Thread -> the next step of append, "idle" outside]
    draft,      \* [Thread -> the record being appended, or None]
    anchored,   \* checkpoints given to the anchor sink
    begun,      \* history: facts append was called with
    returned,   \* history: facts append returned for
    orderly     \* history: no two appends overlapped, no line failed

vars == <<records, file, pc, draft, anchored, begun, returned, orderly>>

Record == [fact : Fact, sequence : Nat, previous : Fact \cup {None}]

Step == {"idle", "append", "write", "checkpoint"}

TypeOK ==
    /\ records \in Seq(Record)
    /\ file \in Seq(Record)
    /\ pc \in [Thread -> Step]
    /\ \A th \in Thread : pc[th] # "idle" => draft[th] \in Record
    /\ returned \subseteq begun
    /\ orderly \in BOOLEAN

Init ==
    /\ records = << >>
    /\ file = << >>
    /\ pc = [th \in Thread |-> "idle"]
    /\ draft = [th \in Thread |-> None]
    /\ anchored = {}
    /\ begun = {}
    /\ returned = {}
    /\ orderly = TRUE

Goto(th, step) == pc' = [pc EXCEPT ![th] = step]

\* A bug: the number of the previous record in place of its hash.
ReadHeadNumber(th, fact) ==
    LET head == IF records = << >> THEN None ELSE records[Len(records)].sequence IN
    /\ pc[th] = "idle"
    /\ fact \notin begun
    /\ draft' = [draft EXCEPT ![th] =
          [fact |-> fact, sequence |-> Len(records), previous |-> head]]
    /\ Goto(th, "append")
    /\ begun' = begun \cup {fact}
    /\ orderly' = (orderly /\ \A other \in Thread : pc[other] = "idle")
    /\ UNCHANGED <<records, file, anchored, returned>>

\* The head's hash and the number of records, then the new record.
ReadHead(th, fact) ==
    LET head == IF records = << >> THEN None ELSE records[Len(records)].fact IN
    /\ pc[th] = "idle"
    /\ fact \notin begun
    /\ draft' = [draft EXCEPT ![th] =
          [fact |-> fact, sequence |-> Len(records), previous |-> head]]
    /\ Goto(th, "append")
    /\ begun' = begun \cup {fact}
    /\ orderly' = (orderly /\ \A other \in Thread : pc[other] = "idle")
    /\ UNCHANGED <<records, file, anchored, returned>>

\* A bug: the record only goes to the list.
AppendInMemoryOnly(th) ==
    /\ pc[th] = "append"
    /\ records' = Append(records, draft[th])
    /\ Goto(th, "checkpoint")
    /\ UNCHANGED <<file, draft, anchored, begun, returned, orderly>>

AppendRecord(th) ==
    /\ pc[th] = "append"
    /\ records' = Append(records, draft[th])
    /\ Goto(th, "write")
    /\ UNCHANGED <<file, draft, anchored, begun, returned, orderly>>

\* A bug: the file is opened for writing, not for appending.
OverwriteFile(th) ==
    /\ pc[th] = "write"
    /\ file' = <<draft[th]>>
    /\ Goto(th, "checkpoint")
    /\ UNCHANGED <<records, draft, anchored, begun, returned, orderly>>

WriteLine(th) ==
    /\ pc[th] = "write"
    /\ file' = Append(file, draft[th])
    /\ Goto(th, "checkpoint")
    /\ UNCHANGED <<records, draft, anchored, begun, returned, orderly>>

\* The line cannot be written: append raises, the record stays in the list.
FailWrite(th) ==
    /\ pc[th] = "write"
    /\ Goto(th, "idle")
    /\ orderly' = FALSE
    /\ UNCHANGED <<records, file, draft, anchored, begun, returned>>

\* Every CheckpointEvery-th record: the head of the list as it is by now.
CheckpointDue(th) ==
    CheckpointEvery # 0 /\ (draft[th].sequence + 1) % CheckpointEvery = 0

\* A bug: the number of the head is taken for its position.
EmitCheckpointOffByOne(th) ==
    LET head == records[Len(records)] IN
    /\ pc[th] = "checkpoint"
    /\ anchored' = IF CheckpointDue(th)
         THEN anchored \cup {[sequence |-> head.sequence, head_hash |-> head.fact,
                              count |-> head.sequence]}
         ELSE anchored
    /\ returned' = returned \cup {draft[th].fact}
    /\ Goto(th, "idle")
    /\ UNCHANGED <<records, file, draft, begun, orderly>>

EmitCheckpoint(th) ==
    LET head == records[Len(records)] IN
    /\ pc[th] = "checkpoint"
    /\ anchored' = IF CheckpointDue(th)
         THEN anchored \cup {[sequence |-> head.sequence, head_hash |-> head.fact,
                              count |-> Len(records)]}
         ELSE anchored
    /\ returned' = returned \cup {draft[th].fact}
    /\ Goto(th, "idle")
    /\ UNCHANGED <<records, file, draft, begun, orderly>>

\* The anchor sink raises: the record is written, the caller gets an error.
FailAnchor(th) ==
    /\ pc[th] = "checkpoint"
    /\ CheckpointDue(th)
    /\ Goto(th, "idle")
    /\ UNCHANGED <<records, file, draft, anchored, begun, returned, orderly>>

\* A bug: the new process starts an empty list.
RestartEmpty ==
    /\ records' = << >>
    /\ pc' = [th \in Thread |-> "idle"]
    /\ UNCHANGED <<file, draft, anchored, begun, returned, orderly>>

\* The process dies and another one loads the file.
Restart ==
    /\ records' = file
    /\ pc' = [th \in Thread |-> "idle"]
    /\ UNCHANGED <<file, draft, anchored, begun, returned, orderly>>

Next ==
    \/ \E th \in Thread :
          \/ \E fact \in Fact : ReadHead(th, fact)
          \/ AppendRecord(th)
          \/ WriteLine(th) \/ FailWrite(th)
          \/ EmitCheckpoint(th) \/ FailAnchor(th)
    \/ Restart

Spec == Init /\ [][Next]_vars

-----------------------------------------------------------------------------
\* As long as appends do not overlap and no line fails, the list is a chain
\* that verifies and so is what a restart loads, wherever the process dies or
\* the anchor sink raises (AuditLedger: "hash-chained", "a monotonic sequence
\* number").
LedgerVerifies == orderly => Verifies(records) /\ Verifies(file)

\* Whatever the threads and the failed writes, what append returned for is in
\* the file.
ReturnedSurvives == returned \subseteq FactsIn(file)

\* A checkpoint given to the anchor sink describes the file for good: the
\* ledger a restart loads has that head at that place.
CheckpointsHold ==
    orderly => \A c \in anchored :
        /\ c.count = c.sequence + 1
        /\ c.count \in DOMAIN file
        /\ file[c.count].fact = c.head_hash

Chain == INSTANCE AppendOnlyChain
            WITH chain <- [i \in DOMAIN file |-> file[i].fact]

ImplementsAppendOnlyChain == Chain!Spec

=============================================================================
