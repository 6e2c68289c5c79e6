--------------------------- MODULE SqlAuditLedger ---------------------------
(***************************************************************************)
(* SqlAuditLedger (core/ledger_sql.py): one table of records that all      *)
(* replicas append to, its primary key the sequence number.  append is one *)
(* transaction: the advisory lock (PostgreSQL) or BEGIN IMMEDIATE (SQLite) *)
(* makes it wait for the one in progress; another dialect takes no lock.   *)
(* It then reads the head, inserts the next record and commits, which      *)
(* makes the row visible and releases the lock; what is left is to return  *)
(* the record.  The read of the head and the insert are statements of      *)
(* their own (read committed).                                             *)
(***************************************************************************)
EXTENDS HashChain

CONSTANTS
    Thread,
    Dialects,       \* databases the ledger may run on
    LockingDialects \* those append takes a lock on

ASSUME DialectAssumption == LockingDialects \subseteq Dialects

VARIABLES
    dialect,    \* the database of this deployment
    ledger,     \* the committed rows
    lock,       \* the thread whose transaction holds the lock, or None
    pc,         \* [Thread -> the next step of append, "idle" outside]
    draft,      \* [Thread -> the record being appended, or None]
    begun,      \* history: facts append was called with
    returned    \* history: facts append returned for

vars == <<dialect, ledger, lock, pc, draft, begun, returned>>

Record == [fact : Fact, sequence : Nat, previous : Fact \cup {None}]

ASSUME NoneAssumption == None \notin Record /\ None \notin Thread

Step == {"idle", "lock", "read", "insert", "commit", "return"}

Locking == dialect \in LockingDialects

TypeOK ==
    /\ dialect \in Dialects
    /\ ledger \subseteq Record
    /\ lock \in Thread \cup {None}
    /\ pc \in [Thread -> Step]
    /\ \A th \in Thread : pc[th] \in {"insert", "commit", "return"} => draft[th] \in Record

Init ==
    /\ dialect \in Dialects
    /\ ledger = {}
    /\ lock = None
    /\ pc = [th \in Thread |-> "idle"]
    /\ draft = [th \in Thread |-> None]
    /\ begun = {}
    /\ returned = {}

Goto(th, step) == pc' = [pc EXCEPT ![th] = step]

Release(th) == lock' = IF lock = th THEN None ELSE lock

BeginAppend(th, fact) ==
    /\ pc[th] = "idle"
    /\ fact \notin begun
    /\ begun' = begun \cup {fact}
    /\ draft' = [draft EXCEPT ![th] = [fact |-> fact, sequence |-> 0,
                                       previous |-> None]]
    /\ Goto(th, "lock")
    /\ UNCHANGED <<dialect, ledger, lock, returned>>

\* A bug: the lock of the dialect is not taken.
LockSkipped(th) ==
    /\ pc[th] = "lock"
    /\ Goto(th, "read")
    /\ UNCHANGED <<dialect, ledger, lock, draft, begun, returned>>

Lock(th) ==
    /\ pc[th] = "lock"
    /\ Locking => lock = None
    /\ lock' = IF Locking THEN th ELSE lock
    /\ Goto(th, "read")
    /\ UNCHANGED <<dialect, ledger, draft, begun, returned>>

\* ORDER BY sequence DESC LIMIT 1
LastRow == IF ledger = {} THEN None
           ELSE CHOOSE r \in ledger : \A s \in ledger : s.sequence <= r.sequence

ReadHead(th) ==
    /\ pc[th] = "read"
    /\ draft' = [draft EXCEPT ![th] = RecordAfter(LastRow, @.fact)]
    /\ Goto(th, "insert")
    /\ UNCHANGED <<dialect, ledger, lock, begun, returned>>

Taken(sequence) == \E r \in ledger : r.sequence = sequence

\* Inserted by a transaction in progress.
Pending(sequence) ==
    \E other \in Thread : pc[other] = "commit" /\ draft[other].sequence = sequence

\* A bug: sequence is not the primary key.
InsertAnyway(th) ==
    /\ pc[th] = "insert"
    /\ Goto(th, "commit")
    /\ UNCHANGED <<dialect, ledger, lock, draft, begun, returned>>

\* The primary key makes it wait for a transaction that inserted the same number.
Insert(th) ==
    /\ pc[th] = "insert"
    /\ ~Taken(draft[th].sequence)
    /\ ~Pending(draft[th].sequence)
    /\ Goto(th, "commit")
    /\ UNCHANGED <<dialect, ledger, lock, draft, begun, returned>>

\* The end of the with block.
Commit(th) ==
    /\ pc[th] = "commit"
    /\ ledger' = ledger \cup {draft[th]}
    /\ Goto(th, "return")
    /\ Release(th)
    /\ UNCHANGED <<dialect, draft, begun, returned>>

Return(th) ==
    /\ pc[th] = "return"
    /\ returned' = returned \cup {draft[th].fact}
    /\ Goto(th, "idle")
    /\ UNCHANGED <<dialect, ledger, lock, draft, begun>>

\* The connection breaks before the answer to COMMIT, or the process dies before
\* it returns: the row stays, and nobody was given its record.
AnswerLost(th) ==
    /\ pc[th] = "return"
    /\ Goto(th, "idle")
    /\ UNCHANGED <<dialect, ledger, lock, draft, begun, returned>>

\* A bug: a failed transaction keeps the lock.
RollbackWithoutRelease(th) ==
    /\ pc[th] \notin {"idle", "return"}
    /\ Goto(th, "idle")
    /\ UNCHANGED <<dialect, ledger, lock, draft, begun, returned>>

\* The primary key refuses the row, the connection breaks or the process dies.
Rollback(th) ==
    /\ pc[th] \notin {"idle", "return"}
    /\ Goto(th, "idle")
    /\ Release(th)
    /\ UNCHANGED <<dialect, ledger, draft, begun, returned>>

Collide(th) == pc[th] = "insert" /\ Taken(draft[th].sequence) /\ Rollback(th)

Advance(th) ==
    \/ Lock(th) \/ ReadHead(th) \/ Insert(th) \/ Collide(th)
    \/ Commit(th) \/ Return(th)

Next == \E th \in Thread :
    \/ \E fact \in Fact : BeginAppend(th, fact)
    \/ Advance(th)
    \/ Rollback(th)
    \/ AnswerLost(th)

Spec == Init /\ [][Next]_vars

\* The database serves every transaction; one that fails fails by itself.
FairSpec == Spec /\ \A th \in Thread : WF_vars(Advance(th))

-----------------------------------------------------------------------------
\* ORDER BY sequence ASC
InOrder(rows) ==
    CHOOSE list \in [1..Cardinality(rows) -> rows] :
        /\ {list[i] : i \in DOMAIN list} = rows
        /\ \A i, j \in DOMAIN list : i < j => list[i].sequence <= list[j].sequence

Rows == InOrder(ledger)

\* With or without the lock, whatever transactions fail, what is committed is
\* one chain that verifies, and it holds every fact append returned for.  It may
\* hold more: a record whose append failed after its COMMIT is in the ledger, and
\* the chain goes on from it.
LedgerVerifies == Verifies(Rows) /\ returned \subseteq FactsIn(Rows)

\* Under the lock no append is refused for a sequence number already taken.
NeverCollides ==
    Locking => \A th \in Thread : pc[th] = "insert" => ~Taken(draft[th].sequence)

\* No append waits forever for the lock of another replica.
AppendReturns == \A th \in Thread : pc[th] # "idle" ~> pc[th] = "idle"

Chain == INSTANCE AppendOnlyChain WITH chain <- [i \in DOMAIN Rows |-> Rows[i].fact]

ImplementsAppendOnlyChain == Chain!Spec

=============================================================================
