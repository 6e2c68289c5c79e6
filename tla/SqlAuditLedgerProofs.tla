------------------------ MODULE SqlAuditLedgerProofs ------------------------
(***************************************************************************)
(* What is proved about SqlAuditLedger, for every set of replicas' threads *)
(* and facts, on dialects with a lock and without.                         *)
(***************************************************************************)
EXTENDS SqlAuditLedger, FiniteSetTheorems, FunctionTheorems, SequenceTheorems, TLAPS

(***************************************************************************)
(* The table.  Its n rows have the numbers 0 .. n - 1, and each row links  *)
(* to the one before it.                                                   *)
(***************************************************************************)
Numbered(rows) ==
    /\ IsFiniteSet(rows)
    /\ \A r, s \in rows : r.sequence = s.sequence => r = s
    /\ \A r \in rows : r.sequence \in 0..(Cardinality(rows) - 1)
    /\ \A k \in 0..(Cardinality(rows) - 1) : \E r \in rows : r.sequence = k

\* The row a record names as the one before it is in the table.
Linked(r, rows) ==
    \/ r.sequence = 0 /\ r.previous = None
    \/ \E s \in rows : s.sequence = r.sequence - 1 /\ s.fact = r.previous

TableOK == Numbered(ledger) /\ \A r \in ledger : Linked(r, ledger)

(***************************************************************************)
(* The threads.  A draft continues the table it was read from; the table   *)
(* may have grown since, but its rows stay.                                *)
(***************************************************************************)
RecordedFacts == {r.fact : r \in ledger}

\* The steps before the commit.
Drafting == {"lock", "read", "insert", "commit"}

DraftsOK ==
    /\ draft \in [Thread -> Record \cup {None}]
    /\ \A th \in Thread : pc[th] # "idle" =>
          draft[th] \in Record /\ draft[th].fact \in begun
    /\ \A th, other \in Thread :
          pc[th] # "idle" /\ pc[other] # "idle" /\ th # other
             => draft[th].fact # draft[other].fact
    /\ \A th \in Thread : pc[th] \in Drafting => draft[th].fact \notin RecordedFacts
    /\ \A th \in Thread : pc[th] = "insert" =>
          Linked(draft[th], ledger) /\ draft[th].sequence <= Cardinality(ledger)
    /\ \A th \in Thread : pc[th] = "return" => draft[th] \in ledger
    /\ returned \subseteq RecordedFacts
    /\ RecordedFacts \subseteq begun

\* The primary key admits one inserted row at a time, and it is the next one.
PendingOK ==
    /\ \A th, other \in Thread :
          pc[th] = "commit" /\ pc[other] = "commit" => th = other
    /\ \A th \in Thread : pc[th] = "commit" =>
          Linked(draft[th], ledger) /\ draft[th].sequence = Cardinality(ledger)

\* The thread that holds the lock is alone between its reads and its commit.
LockOK ==
    Locking =>
       \A th \in Thread :
          /\ pc[th] \in {"read", "insert", "commit"} => lock = th
          /\ pc[th] = "insert" => draft[th].sequence = Cardinality(ledger)

AppendInv == TypeOK /\ TableOK /\ DraftsOK /\ PendingOK /\ LockOK

(***************************************************************************)
(* The rows in order.                                                      *)
(***************************************************************************)

\* The numbers from a to b are b - a + 1.
LEMMA IntervalSize ==
    ASSUME NEW a \in Int, NEW b \in Int, a <= b + 1
    PROVE  IsFiniteSet(a..b) /\ Cardinality(a..b) = b - a + 1
  BY FS_Interval

\* ORDER BY sequence puts the row numbered i - 1 at place i: the i rows up to
\* it have i different numbers up to its own, and the n - i + 1 rows from it on
\* as many from its own on.
LEMMA PlaceInOrder ==
    ASSUME NEW rows, Numbered(rows)
    PROVE  /\ Cardinality(rows) \in Nat
           /\ InOrder(rows) \in [1..Cardinality(rows) -> rows]
           /\ {InOrder(rows)[i] : i \in 1..Cardinality(rows)} = rows
           /\ \A i \in 1..Cardinality(rows) : InOrder(rows)[i].sequence = i - 1
<1> DEFINE n == Cardinality(rows)
           Sorted(list) ==
              /\ {list[i] : i \in DOMAIN list} = rows
              /\ \A i, j \in DOMAIN list :
                    i < j => list[i].sequence <= list[j].sequence
           byNumber == [i \in 1..n |-> CHOOSE r \in rows : r.sequence = i - 1]
           list == InOrder(rows)
<1>1. n \in Nat
  BY FS_CardinalityType DEF Numbered
<1>2. \A i \in 1..n : i - 1 \in 0..(n - 1)
  BY <1>1
<1>3. /\ byNumber \in [1..n -> rows]
      /\ \A i \in 1..n : byNumber[i].sequence = i - 1
  BY <1>2 DEF Numbered
<1>4. Sorted(byNumber)
  <2>1. \A r \in rows : r.sequence + 1 \in 1..n
    BY <1>1 DEF Numbered
  <2>2. \A r \in rows : byNumber[r.sequence + 1] = r
    <3> SUFFICES ASSUME NEW r \in rows
                 PROVE  byNumber[r.sequence + 1] = r
      OBVIOUS
    <3>1. /\ byNumber[r.sequence + 1] \in rows
          /\ byNumber[r.sequence + 1].sequence = (r.sequence + 1) - 1
      BY <1>3, <2>1
    <3>2. (r.sequence + 1) - 1 = r.sequence
      BY <1>1 DEF Numbered
    <3> QED
      BY <3>1, <3>2 DEF Numbered
  <2> HIDE DEF byNumber
  <2>3. {byNumber[i] : i \in 1..n} = rows
    <3>1. \A i \in 1..n : byNumber[i] \in rows
      BY <1>3
    <3>2. \A r \in rows : \E i \in 1..n : byNumber[i] = r
      BY <2>1, <2>2
    <3> QED
      BY <3>1, <3>2
  <2>4. \A i, j \in 1..n :
           i < j => byNumber[i].sequence <= byNumber[j].sequence
    BY <1>1, <1>3
  <2>5. DOMAIN byNumber = 1..n
    BY <1>3
  <2> QED
    BY <2>3, <2>4, <2>5
<1> HIDE DEF byNumber
<1>5. list \in [1..n -> rows] /\ Sorted(list)
  <2>1. \E any \in [1..n -> rows] : Sorted(any)
    BY <1>3, <1>4
  <2> QED
    BY <2>1 DEF InOrder
<1> HIDE DEF list
<1>6. list \in Surjection(1..n, rows)
  BY <1>5, Fun_IsSurj
<1>7. \A i, j \in 1..n : list[i] = list[j] => i = j
  <2>1. IsFiniteSet(1..n) /\ Cardinality(1..n) = n
    BY <1>1, FS_Interval
  <2>2. list \in Injection(1..n, rows)
    BY <1>6, <2>1, FS_SurjSameCardinalityImpliesInj
  <2> QED
    BY <2>2, Fun_InjectionProperties
<1>8. \A i, j \in 1..n : list[i].sequence = list[j].sequence => i = j
  BY <1>5, <1>7 DEF Numbered
<1>9. \A i, j \in 1..n : i <= j => list[i].sequence <= list[j].sequence
  <2>1. \A i \in 1..n : list[i].sequence \in 0..(n - 1)
    BY <1>5 DEF Numbered
  <2> QED
    BY <1>1, <1>5, <2>1
<1>10. ASSUME NEW i \in 1..n
       PROVE  list[i].sequence = i - 1
  <2> DEFINE k == list[i].sequence
             below == [j \in 1..i |-> list[j].sequence]
             above == [j \in i..n |-> list[j].sequence]
  <2>1. /\ k \in 0..(n - 1)
        /\ \A j \in 1..n : list[j].sequence \in 0..(n - 1)
    BY <1>5 DEF Numbered
  <2>2. i <= k + 1
    <3>1. below \in [1..i -> 0..k]
      BY <1>1, <1>9, <2>1
    <3>2. below \in Injection(1..i, 0..k)
      BY <1>1, <1>8, <3>1, Fun_IsInj
    <3>3. IsFiniteSet(0..k) /\ Cardinality(0..k) = k + 1
      <4> HIDE DEF k
      <4>1. 0 \in Int /\ k \in Int /\ 0 <= k + 1
        BY <1>1, <2>1
      <4>2. IsFiniteSet(0..k) /\ Cardinality(0..k) = k - 0 + 1
        BY <4>1, IntervalSize
      <4> QED
        BY <4>1, <4>2
    <3>4. Cardinality(1..i) = i
      BY <1>1, IntervalSize
    <3> HIDE DEF below, k
    <3> QED
      BY <3>2, <3>3, <3>4, FS_Injection
  <2>3. n - i + 1 <= n - k
    <3>1. above \in [i..n -> k..(n - 1)]
      BY <1>1, <1>9, <2>1
    <3>2. above \in Injection(i..n, k..(n - 1))
      BY <1>1, <1>8, <3>1, Fun_IsInj
    <3>3. /\ IsFiniteSet(k..(n - 1))
          /\ Cardinality(k..(n - 1)) = (n - 1) - k + 1
      <4> HIDE DEF k
      <4>1. n - 1 \in Int /\ k \in Int /\ k <= (n - 1) + 1
        BY <1>1, <2>1
      <4> QED
        BY <4>1, IntervalSize
    <3>4. Cardinality(i..n) = n - i + 1
      BY <1>1, IntervalSize
    <3>5. (n - 1) - k + 1 = n - k
      BY <1>1, <2>1
    <3> HIDE DEF above, k
    <3> QED
      BY <3>2, <3>3, <3>4, <3>5, FS_Injection
  <2> QED
    BY <1>1, <2>1, <2>2, <2>3
<1> QED
  BY <1>1, <1>5, <1>10 DEF list

\* A row with the next number extends the numbering.
LEMMA OneMoreRow ==
    ASSUME NEW rows, Numbered(rows), NEW row, row.sequence = Cardinality(rows)
    PROVE  /\ Numbered(rows \cup {row})
           /\ Cardinality(rows \cup {row}) = Cardinality(rows) + 1
<1> DEFINE n == Cardinality(rows)
<1>1. n \in Nat /\ row \notin rows
  BY FS_CardinalityType DEF Numbered
<1>2. IsFiniteSet(rows \cup {row}) /\ Cardinality(rows \cup {row}) = n + 1
  BY <1>1, FS_AddElement DEF Numbered
<1>3. \A k \in 0..n : k \in 0..(n - 1) \/ k = n
  BY <1>1
<1>4. (n + 1) - 1 = n /\ \A k \in 0..(n - 1) : k \in 0..n /\ k # n
  BY <1>1
<1>5. \A r, s \in rows \cup {row} : r.sequence = s.sequence => r = s
  BY <1>4 DEF Numbered
<1>6. \A r \in rows \cup {row} : r.sequence \in 0..n
  BY <1>1, <1>4 DEF Numbered
<1>7. \A k \in 0..n : \E r \in rows \cup {row} : r.sequence = k
  BY <1>3 DEF Numbered
<1> QED
  BY <1>2, <1>4, <1>5, <1>6, <1>7 DEF Numbered

\* It becomes the last of the rows, and the others keep their places.
LEMMA InOrderOneMore ==
    ASSUME NEW rows, Numbered(rows), NEW row, row.sequence = Cardinality(rows)
    PROVE  /\ InOrder(rows \cup {row}) \in [1..(Cardinality(rows) + 1) -> rows \cup {row}]
           /\ \A i \in 1..Cardinality(rows) :
                 InOrder(rows \cup {row})[i] = InOrder(rows)[i]
           /\ InOrder(rows \cup {row})[Cardinality(rows) + 1] = row
<1> DEFINE n == Cardinality(rows)
           old == InOrder(rows)
           new == InOrder(rows \cup {row})
<1>1. /\ n \in Nat /\ old \in [1..n -> rows]
      /\ \A i \in 1..n : old[i].sequence = i - 1
  BY PlaceInOrder
<1>2. Numbered(rows \cup {row}) /\ Cardinality(rows \cup {row}) = n + 1
  BY OneMoreRow
<1>3. /\ new \in [1..(n + 1) -> rows \cup {row}]
      /\ \A i \in 1..(n + 1) : new[i].sequence = i - 1
  BY <1>2, PlaceInOrder
<1>4. \A r, s \in rows \cup {row} : r.sequence = s.sequence => r = s
  BY <1>2 DEF Numbered
<1> HIDE DEF n, old, new
<1>5. \A i \in 1..n : i \in 1..(n + 1) /\ new[i] = old[i]
  BY <1>1, <1>3, <1>4
<1>6. new[n + 1] = row
  <2>1. n + 1 \in 1..(n + 1) /\ (n + 1) - 1 = n
    BY <1>1
  <2> QED
    BY <1>3, <1>4, <2>1 DEF n
<1> QED
  BY <1>3, <1>5, <1>6 DEF n, old, new

\* The head append reads is the row with the highest number.
LEMMA HeadRow ==
    ASSUME Numbered(ledger), ledger # {}
    PROVE  LastRow \in ledger /\ LastRow.sequence = Cardinality(ledger) - 1
<1> DEFINE n == Cardinality(ledger)
<1>1. n \in Nat /\ n # 0
  BY FS_CardinalityType, FS_EmptySet DEF Numbered
<1>2. PICK r \in ledger : r.sequence = n - 1
  <2>1. n - 1 \in 0..(n - 1)
    BY <1>1
  <2> QED
    BY <2>1 DEF Numbered
<1>3. \A s \in ledger : s.sequence \in 0..(n - 1)
  BY DEF Numbered
<1>4. \A s \in ledger : s.sequence <= r.sequence
  BY <1>1, <1>2, <1>3
<1>5. LastRow \in ledger /\ \A s \in ledger : s.sequence <= LastRow.sequence
  BY <1>4 DEF LastRow
<1>6. LastRow.sequence \in 0..(n - 1) /\ n - 1 <= LastRow.sequence
  BY <1>2, <1>3, <1>5
<1> QED
  BY <1>1, <1>5, <1>6

\* What append builds on the head it reads is the next record of the table.
LEMMA NextRecord ==
    ASSUME Numbered(ledger), ledger \subseteq Record, NEW fact \in Fact
    PROVE  /\ RecordAfter(LastRow, fact) \in Record
           /\ RecordAfter(LastRow, fact).fact = fact
           /\ RecordAfter(LastRow, fact).sequence = Cardinality(ledger)
           /\ Linked(RecordAfter(LastRow, fact), ledger)
<1>1. CASE ledger = {}
  <2>1. RecordAfter(LastRow, fact) = [fact |-> fact, sequence |-> 0, previous |-> None]
    BY <1>1 DEF RecordAfter, LastRow
  <2>2. Cardinality(ledger) = 0
    BY <1>1, FS_EmptySet
  <2> QED
    BY <2>1, <2>2 DEF Record, Linked
<1>2. CASE ledger # {}
  <2>1. LastRow \in ledger /\ LastRow.sequence = Cardinality(ledger) - 1
    BY <1>2, HeadRow
  <2>2. LastRow \in Record /\ LastRow # None
    BY <2>1, NoneAssumption
  <2>3. RecordAfter(LastRow, fact) =
           [fact |-> fact, sequence |-> LastRow.sequence + 1, previous |-> LastRow.fact]
    BY <2>2 DEF RecordAfter
  <2>4. /\ LastRow.sequence \in Nat /\ LastRow.fact \in Fact
        /\ LastRow.sequence + 1 = Cardinality(ledger)
        /\ (LastRow.sequence + 1) - 1 = LastRow.sequence
        /\ LastRow.sequence + 1 \in Nat
    <3>1. LastRow.sequence \in Nat /\ LastRow.fact \in Fact
      BY <2>2 DEF Record
    <3>2. Cardinality(ledger) \in Nat
      BY FS_CardinalityType DEF Numbered
    <3> QED
      BY <2>1, <3>1, <3>2
  <2> HIDE DEF LastRow
  <2> DEFINE r == [fact |-> fact, sequence |-> LastRow.sequence + 1,
                   previous |-> LastRow.fact]
  <2>5. r \in Record /\ r.fact = fact /\ r.sequence = Cardinality(ledger)
    BY <2>4 DEF Record
  <2>6. Linked(r, ledger)
    BY <2>1, <2>4 DEF Linked
  <2> QED
    BY <2>3, <2>5, <2>6
<1> QED
  BY <1>1, <1>2

\* A number the table does not have is the next one.
LEMMA NotTaken ==
    ASSUME Numbered(ledger), NEW r \in Record,
           r.sequence <= Cardinality(ledger), ~Taken(r.sequence)
    PROVE  r.sequence = Cardinality(ledger)
<1>1. Cardinality(ledger) \in Nat /\ r.sequence \in Nat
  BY FS_CardinalityType DEF Numbered, Record
<1>2. r.sequence \notin 0..(Cardinality(ledger) - 1)
  BY DEF Numbered, Taken
<1> QED
  BY <1>1, <1>2

(***************************************************************************)
(* The invariant.                                                          *)
(***************************************************************************)

\* The steps the actions name are steps.
LEMMA Names == {"idle", "lock", "read", "insert", "commit", "return"} = Step
  BY DEF Step

LEMMA AppendInvInductive ==
    ASSUME AppendInv, [Next]_vars
    PROVE  AppendInv'
<1> USE DEF AppendInv
<1>1. ASSUME NEW th \in Thread, NEW fact \in Fact, BeginAppend(th, fact)
      PROVE  AppendInv'
  <2> DEFINE r == [fact |-> fact, sequence |-> 0, previous |-> None]
  <2>1. /\ pc[th] = "idle" /\ fact \notin begun
        /\ draft' = [draft EXCEPT ![th] = r]
        /\ pc' = [pc EXCEPT ![th] = "lock"]
        /\ begun' = begun \cup {fact}
        /\ UNCHANGED <<dialect, ledger, lock, returned>>
    BY <1>1 DEF BeginAppend, Goto
  <2>2. r \in Record /\ r.fact = fact
    BY DEF Record
  <2> HIDE DEF r
  <2>3. /\ draft' \in [Thread -> Record \cup {None}] /\ pc' \in [Thread -> Step]
        /\ draft'[th] = r /\ pc'[th] = "lock"
        /\ \A u \in Thread : u # th => draft'[u] = draft[u] /\ pc'[u] = pc[u]
    BY <2>1, <2>2, Names DEF TypeOK, DraftsOK
  <2>4. TypeOK'
    BY <2>1, <2>2, <2>3 DEF TypeOK
  <2>5. TableOK'
    BY <2>1 DEF TableOK, Numbered
  <2>6. RecordedFacts' = RecordedFacts
    BY <2>1 DEF RecordedFacts
  <2>7. DraftsOK'
    BY <2>1, <2>2, <2>3, <2>6 DEF DraftsOK, Linked, Drafting
  <2>8. PendingOK'
    BY <2>1, <2>3 DEF PendingOK, Linked
  <2>9. LockOK'
    BY <2>1, <2>3 DEF LockOK, Locking
  <2> QED
    BY <2>4, <2>5, <2>7, <2>8, <2>9
<1>2. ASSUME NEW th \in Thread, Lock(th)
      PROVE  AppendInv'
  <2>1. /\ pc[th] = "lock"
        /\ Locking => lock = None
        /\ lock' = IF Locking THEN th ELSE lock
        /\ pc' = [pc EXCEPT ![th] = "read"]
        /\ UNCHANGED <<dialect, ledger, draft, begun, returned>>
    BY <1>2 DEF Lock, Goto
  <2>2. /\ pc' \in [Thread -> Step] /\ pc'[th] = "read"
        /\ \A u \in Thread : u # th => pc'[u] = pc[u]
    BY <2>1, Names DEF TypeOK
  <2>3. TypeOK'
    BY <2>1, <2>2 DEF TypeOK
  <2>4. TableOK' /\ RecordedFacts' = RecordedFacts
    BY <2>1 DEF TableOK, Numbered, RecordedFacts
  <2>5. DraftsOK'
    BY <2>1, <2>2, <2>4 DEF DraftsOK, Linked, Drafting
  <2>6. PendingOK'
    BY <2>1, <2>2 DEF PendingOK, Linked
  <2>7. LockOK'
    BY <2>1, <2>2, NoneAssumption DEF LockOK, Locking
  <2> QED
    BY <2>3, <2>4, <2>5, <2>6, <2>7
<1>3. ASSUME NEW th \in Thread, ReadHead(th)
      PROVE  AppendInv'
  <2> DEFINE r == RecordAfter(LastRow, draft[th].fact)
  <2>1. /\ pc[th] = "read" /\ draft[th].fact \in Fact
        /\ pc' = [pc EXCEPT ![th] = "insert"]
        /\ UNCHANGED <<dialect, ledger, lock, begun, returned>>
    BY <1>3 DEF ReadHead, Goto, DraftsOK, Record
  <2>2. draft' = [draft EXCEPT ![th] = r]
    BY <1>3 DEF ReadHead
  <2>3. /\ r \in Record /\ r.fact = draft[th].fact
        /\ r.sequence = Cardinality(ledger) /\ Linked(r, ledger)
    BY <2>1, NextRecord DEF TypeOK, TableOK
  <2> HIDE DEF r
  <2>4. /\ draft' \in [Thread -> Record \cup {None}] /\ pc' \in [Thread -> Step]
        /\ draft'[th] = r /\ pc'[th] = "insert"
        /\ \A u \in Thread : u # th => draft'[u] = draft[u] /\ pc'[u] = pc[u]
    BY <2>1, <2>2, <2>3, Names DEF TypeOK, DraftsOK
  <2>5. TypeOK'
    BY <2>1, <2>3, <2>4 DEF TypeOK
  <2>6. TableOK' /\ RecordedFacts' = RecordedFacts
    BY <2>1 DEF TableOK, Numbered, RecordedFacts
  <2>7. \A u \in Thread : draft'[u].fact = draft[u].fact
    BY <2>3, <2>4
  <2>8. \A u \in Thread : pc'[u] = "insert" =>
           Linked(draft'[u], ledger) /\ draft'[u].sequence <= Cardinality(ledger)
    <3>1. Cardinality(ledger) \in Nat
      BY FS_CardinalityType DEF TableOK, Numbered
    <3> QED
      BY <2>3, <2>4, <3>1 DEF DraftsOK
  <2>9. DraftsOK'
    BY <2>1, <2>3, <2>4, <2>6, <2>7, <2>8 DEF DraftsOK, Drafting
  <2>10. PendingOK'
    BY <2>1, <2>4 DEF PendingOK, Linked
  <2>11. LockOK'
    BY <2>1, <2>3, <2>4 DEF LockOK, Locking
  <2> QED
    BY <2>5, <2>6, <2>9, <2>10, <2>11
<1>4. ASSUME NEW th \in Thread, Insert(th)
      PROVE  AppendInv'
  <2>1. /\ pc[th] = "insert"
        /\ ~Taken(draft[th].sequence) /\ ~Pending(draft[th].sequence)
        /\ pc' = [pc EXCEPT ![th] = "commit"]
        /\ UNCHANGED <<dialect, ledger, lock, draft, begun, returned>>
    BY <1>4 DEF Insert, Goto
  <2>2. /\ pc' \in [Thread -> Step] /\ pc'[th] = "commit"
        /\ \A u \in Thread : u # th => pc'[u] = pc[u]
    BY <2>1, Names DEF TypeOK
  <2>3. TypeOK'
    BY <2>1, <2>2 DEF TypeOK
  <2>4. TableOK' /\ RecordedFacts' = RecordedFacts
    BY <2>1 DEF TableOK, Numbered, RecordedFacts
  <2>5. DraftsOK'
    BY <2>1, <2>2, <2>4 DEF DraftsOK, Linked, Drafting
  <2>6. PendingOK'
    <3>1. /\ draft[th] \in Record /\ Linked(draft[th], ledger)
          /\ draft[th].sequence <= Cardinality(ledger)
      BY <2>1 DEF DraftsOK
    <3>2. draft[th].sequence = Cardinality(ledger)
      BY <2>1, <3>1, NotTaken DEF TableOK
    <3>3. \A u \in Thread : pc[u] # "commit"
      BY <2>1, <3>2 DEF PendingOK, Pending
    <3> QED
      BY <2>1, <2>2, <3>1, <3>2, <3>3 DEF PendingOK, Linked
  <2>7. LockOK'
    BY <2>1, <2>2 DEF LockOK, Locking
  <2> QED
    BY <2>3, <2>4, <2>5, <2>6, <2>7
<1>5. ASSUME NEW th \in Thread, Commit(th)
      PROVE  AppendInv'
  <2> DEFINE r == draft[th]
             n == Cardinality(ledger)
  <2>1. /\ pc[th] = "commit"
        /\ ledger' = ledger \cup {r}
        /\ pc' = [pc EXCEPT ![th] = "return"]
        /\ lock' = IF lock = th THEN None ELSE lock
        /\ UNCHANGED <<dialect, draft, begun, returned>>
    BY <1>5 DEF Commit, Goto, Release
  <2>2. /\ r \in Record /\ r.fact \in begun
        /\ r.sequence = n /\ Linked(r, ledger)
    BY <2>1 DEF DraftsOK, PendingOK
  <2>3. Numbered(ledger') /\ Cardinality(ledger') = n + 1
    BY <2>1, <2>2, OneMoreRow DEF TableOK
  <2>4. \A s : Linked(s, ledger) => Linked(s, ledger')
    BY <2>1 DEF Linked
  <2>5. /\ pc' \in [Thread -> Step] /\ pc'[th] = "return"
        /\ \A u \in Thread : u # th => pc'[u] = pc[u] /\ pc[u] # "commit"
    BY <2>1, Names DEF TypeOK, PendingOK
  <2>6. TypeOK'
    BY <2>1, <2>2, <2>5 DEF TypeOK
  <2>7. TableOK'
    BY <2>1, <2>2, <2>3, <2>4 DEF TableOK
  <2>8. RecordedFacts' = RecordedFacts \cup {r.fact}
    BY <2>1 DEF RecordedFacts
  <2>9. \A u \in Thread : pc'[u] = "insert" =>
           Linked(draft'[u], ledger') /\ draft'[u].sequence <= Cardinality(ledger')
    <3>1. SUFFICES ASSUME NEW u \in Thread, pc'[u] = "insert"
                   PROVE  /\ Linked(draft[u], ledger')
                          /\ draft[u].sequence <= n + 1
      BY <2>1, <2>3
    <3>2. /\ Linked(draft[u], ledger) /\ draft[u].sequence <= n
          /\ draft[u] \in Record
      BY <2>5, <3>1 DEF DraftsOK
    <3>3. n \in Nat /\ draft[u].sequence \in Nat
      BY <3>2, FS_CardinalityType DEF TableOK, Numbered, Record
    <3> QED
      BY <2>4, <3>2, <3>3
  <2>10. DraftsOK'
    BY <2>1, <2>2, <2>5, <2>8, <2>9 DEF DraftsOK, Drafting
  <2>11. PendingOK'
    BY <2>5 DEF PendingOK
  <2>12. LockOK'
    BY <2>1, <2>5 DEF LockOK, Locking
  <2> QED
    BY <2>6, <2>7, <2>10, <2>11, <2>12
<1>6. ASSUME NEW th \in Thread, Return(th) \/ AnswerLost(th)
      PROVE  AppendInv'
  <2>1. /\ pc[th] = "return"
        /\ returned' \subseteq returned \cup {draft[th].fact}
        /\ pc' = [pc EXCEPT ![th] = "idle"]
        /\ UNCHANGED <<dialect, ledger, lock, draft, begun>>
    BY <1>6 DEF Return, AnswerLost, Goto
  <2>2. /\ pc' \in [Thread -> Step] /\ pc'[th] = "idle"
        /\ \A u \in Thread : u # th => pc'[u] = pc[u]
    BY <2>1, Names DEF TypeOK
  <2>3. TypeOK'
    BY <2>1, <2>2 DEF TypeOK
  <2>4. TableOK' /\ RecordedFacts' = RecordedFacts
    BY <2>1 DEF TableOK, Numbered, RecordedFacts
  <2>5. draft[th].fact \in RecordedFacts
    BY <2>1 DEF DraftsOK, RecordedFacts
  <2>6. DraftsOK'
    BY <2>1, <2>2, <2>4, <2>5 DEF DraftsOK, Linked, Drafting
  <2>7. PendingOK'
    BY <2>1, <2>2 DEF PendingOK, Linked
  <2>8. LockOK'
    BY <2>1, <2>2 DEF LockOK, Locking
  <2> QED
    BY <2>3, <2>4, <2>6, <2>7, <2>8
<1>7. ASSUME NEW th \in Thread, Rollback(th)
      PROVE  AppendInv'
  <2>1. /\ pc' = [pc EXCEPT ![th] = "idle"]
        /\ lock' = IF lock = th THEN None ELSE lock
        /\ UNCHANGED <<dialect, ledger, draft, begun, returned>>
    BY <1>7 DEF Rollback, Goto, Release
  <2>2. /\ pc' \in [Thread -> Step] /\ pc'[th] = "idle"
        /\ \A u \in Thread : u # th => pc'[u] = pc[u]
    BY <2>1, Names DEF TypeOK
  <2>3. TypeOK'
    BY <2>1, <2>2 DEF TypeOK
  <2>4. TableOK' /\ RecordedFacts' = RecordedFacts
    BY <2>1 DEF TableOK, Numbered, RecordedFacts
  <2>5. DraftsOK'
    BY <2>1, <2>2, <2>4 DEF DraftsOK, Linked, Drafting
  <2>6. PendingOK'
    BY <2>1, <2>2 DEF PendingOK, Linked
  <2>7. LockOK'
    BY <2>1, <2>2 DEF LockOK, Locking
  <2> QED
    BY <2>3, <2>4, <2>5, <2>6, <2>7
<1>8. CASE UNCHANGED vars
  BY <1>8 DEF vars, TypeOK, TableOK, Numbered, Linked, DraftsOK, PendingOK, LockOK,
              Locking, RecordedFacts, Drafting
<1> QED
  BY <1>1, <1>2, <1>3, <1>4, <1>5, <1>6, <1>7, <1>8 DEF Next, Advance, Collide

LEMMA AppendInvInvariant == Spec => []AppendInv
<1>1. Init => AppendInv
  <2>1. Numbered({})
    <3>1. 0..(0 - 1) = {}
      OBVIOUS
    <3> QED
      BY <3>1, FS_EmptySet DEF Numbered
  <2> QED
    BY <2>1, Names
    DEF Init, AppendInv, TypeOK, TableOK, DraftsOK, PendingOK, LockOK,
        RecordedFacts, Drafting
<1> QED
  BY <1>1, AppendInvInductive, PTL DEF Spec

\* The table, the lock and the threads always have their types.
THEOREM TypeCorrect == Spec => []TypeOK
  BY AppendInvInvariant, PTL DEF AppendInv

\* Under the lock no append of any replica is refused for a number already taken.
THEOREM LockPreventsCollisions == Spec => []NeverCollides
<1>1. AppendInv => NeverCollides
  <2> SUFFICES ASSUME AppendInv, Locking, NEW th \in Thread, pc[th] = "insert"
               PROVE  ~Taken(draft[th].sequence)
    BY DEF NeverCollides
  <2>1. draft[th].sequence = Cardinality(ledger) /\ Cardinality(ledger) \in Nat
    BY FS_CardinalityType DEF AppendInv, LockOK, TableOK, Numbered
  <2>2. \A r \in ledger : r.sequence \in 0..(Cardinality(ledger) - 1)
    BY DEF AppendInv, TableOK, Numbered
  <2> QED
    BY <2>1, <2>2 DEF Taken
<1> QED
  BY <1>1, AppendInvInvariant, PTL

(***************************************************************************)
(* What the ledger returns verifies and is the append-only chain.          *)
(***************************************************************************)

\* With the lock or without, whichever transactions fail, what is committed
\* verifies and holds every fact append returned for, though a connection may break
\* or a process die between COMMIT and the return.
THEOREM CommittedLedgerVerifies == Spec => []LedgerVerifies
<1>1. AppendInv => LedgerVerifies
  <2> SUFFICES ASSUME AppendInv
               PROVE  LedgerVerifies
    OBVIOUS
  <2> DEFINE n == Cardinality(ledger)
  <2>1. /\ Rows \in [1..n -> ledger] /\ n \in Nat
        /\ {Rows[i] : i \in 1..n} = ledger
        /\ \A i \in 1..n : Rows[i].sequence = i - 1
    BY PlaceInOrder DEF AppendInv, TableOK, Rows
  <2> HIDE DEF n
  <2>2. DOMAIN Rows = 1..n
    BY <2>1
  <2>3. returned \subseteq FactsIn(Rows)
    <3>1. FactsIn(Rows) = RecordedFacts
      BY <2>1, <2>2 DEF FactsIn, RecordedFacts
    <3> QED
      BY <3>1 DEF AppendInv, DraftsOK
  <2>4. ASSUME NEW i \in 1..n
        PROVE  Rows[i].previous = IF i = 1 THEN None ELSE Rows[i - 1].fact
    <3>1. Rows[i] \in ledger /\ Rows[i].sequence = i - 1 /\ Linked(Rows[i], ledger)
      BY <2>1 DEF AppendInv, TableOK
    <3>2. CASE i = 1
      <4>1. \A s \in ledger : s.sequence # (1 - 1) - 1
        BY DEF AppendInv, TypeOK, Record
      <4> QED
        BY <3>1, <3>2, <4>1 DEF Linked
    <3>3. CASE i # 1
      <4>1. i - 1 \in 1..n /\ i - 1 # 0
        BY <2>1, <3>3
      <4>2. PICK s \in ledger : s.sequence = (i - 1) - 1 /\ s.fact = Rows[i].previous
        BY <3>1, <4>1 DEF Linked
      <4>3. Rows[i - 1] \in ledger /\ Rows[i - 1].sequence = (i - 1) - 1
        BY <2>1, <4>1
      <4>4. s = Rows[i - 1]
        BY <4>2, <4>3 DEF AppendInv, TableOK, Numbered
      <4> QED
        BY <3>3, <4>2, <4>4
    <3> QED
      BY <3>2, <3>3
  <2>5. Verifies(Rows)
    BY <2>1, <2>2, <2>4 DEF Verifies
  <2> QED
    BY <2>3, <2>5 DEF LedgerVerifies
<1> QED
  BY <1>1, AppendInvInvariant, PTL

RowFacts(rows) == [i \in DOMAIN InOrder(rows) |-> InOrder(rows)[i].fact]

\* A row with the next number appends its fact to the chain.
LEMMA ChainOfOneMore ==
    ASSUME NEW rows \in SUBSET Record, Numbered(rows),
           NEW row \in Record, row.sequence = Cardinality(rows)
    PROVE  RowFacts(rows \cup {row}) = Append(RowFacts(rows), row.fact)
<1> DEFINE n == Cardinality(rows)
           s == RowFacts(rows)
           t == RowFacts(rows \cup {row})
<1>1. n \in Nat /\ InOrder(rows) \in [1..n -> rows]
  BY PlaceInOrder
<1>2. /\ InOrder(rows \cup {row}) \in [1..(n + 1) -> rows \cup {row}]
      /\ \A i \in 1..n : InOrder(rows \cup {row})[i] = InOrder(rows)[i]
      /\ InOrder(rows \cup {row})[n + 1] = row
  BY InOrderOneMore
<1> HIDE DEF n
<1>3. s \in [1..n -> Fact]
  BY <1>1 DEF RowFacts, Record
<1>4. t \in [1..(n + 1) -> Fact]
  BY <1>2 DEF RowFacts, Record
<1>5. \A i \in 1..n : t[i] = s[i]
  <2>1. \A i \in 1..n : i \in DOMAIN InOrder(rows \cup {row}) /\ i \in DOMAIN InOrder(rows)
    BY <1>1, <1>2
  <2>2. \A i \in 1..n : /\ s[i] = InOrder(rows)[i].fact
                        /\ t[i] = InOrder(rows \cup {row})[i].fact
    BY <2>1 DEF RowFacts
  <2> QED
    BY <1>2, <2>2
<1>6. t[n + 1] = row.fact /\ row.fact \in Fact
  BY <1>1, <1>2 DEF RowFacts, Record
<1> HIDE DEF s, t
<1>7. s \in Seq(Fact) /\ Len(s) = n
  BY <1>1, <1>3
<1>8. t \in Seq(Fact) /\ Len(t) = n + 1
  BY <1>1, <1>4
<1>9. /\ Append(s, row.fact) \in Seq(Fact)
      /\ Len(Append(s, row.fact)) = n + 1
      /\ \A i \in 1..n : Append(s, row.fact)[i] = s[i]
      /\ Append(s, row.fact)[n + 1] = row.fact
  BY <1>6, <1>7
<1>10. \A i \in 1..(n + 1) : i \in 1..n \/ i = n + 1
  BY <1>1
<1>11. \A i \in 1..Len(t) : t[i] = Append(s, row.fact)[i]
  BY <1>5, <1>6, <1>8, <1>9, <1>10
<1>12. t = Append(s, row.fact)
  BY <1>8, <1>9, <1>11, SeqEqual
<1> QED
  BY <1>12 DEF s, t

\* What is committed implements the append-only chain: a commit records its
\* fact, every other step leaves the chain as it is.
THEOREM TableImplementsAppendOnlyChain == Spec => ImplementsAppendOnlyChain
<1> DEFINE chain == [i \in DOMAIN Rows |-> Rows[i].fact]
<1>0. chain = RowFacts(ledger) /\ chain' = RowFacts(ledger')
  BY DEF Rows, RowFacts
<1>1. Init => Chain!Init
  <2> SUFFICES ASSUME Init
               PROVE  chain = << >>
    BY DEF Chain!Init
  <2>1. ledger = {} /\ Numbered({}) /\ Cardinality({}) = 0
    <3>1. 0..(0 - 1) = {}
      OBVIOUS
    <3> QED
      BY <3>1, FS_EmptySet DEF Init, Numbered
  <2>2. Rows \in [1..0 -> ledger]
    BY <2>1, PlaceInOrder DEF Rows
  <2>3. chain \in [1..0 -> {}]
    BY <2>2
  <2> QED
    BY <2>3
<1>2. AppendInv /\ [Next]_vars => [Chain!Next]_chain
  <2> SUFFICES ASSUME AppendInv, [Next]_vars
               PROVE  Chain!Next \/ chain' = chain
    OBVIOUS
  <2>1. ASSUME NEW th \in Thread, Commit(th)
        PROVE  Chain!Next
    <3> DEFINE r == draft[th]
    <3>1. /\ r \in Record /\ r.fact \notin RecordedFacts
          /\ ledger' = ledger \cup {r}
      BY <2>1 DEF Commit, AppendInv, DraftsOK, Drafting
    <3>2. r.sequence = Cardinality(ledger)
      BY <2>1 DEF Commit, AppendInv, PendingOK
    <3>3. RowFacts(ledger') = Append(RowFacts(ledger), r.fact)
      BY <3>1, <3>2, ChainOfOneMore DEF AppendInv, TypeOK, TableOK
    <3>4. chain' = Append(chain, r.fact)
      BY <1>0, <3>3
    <3>5. r.fact \notin Chain!Recorded
      <4>1. InOrder(ledger) \in [1..Cardinality(ledger) -> ledger]
        BY PlaceInOrder DEF AppendInv, TableOK
      <4>2. \A i \in DOMAIN Rows : Rows[i].fact \in RecordedFacts
        BY <4>1 DEF Rows, RecordedFacts
      <4> QED
        BY <3>1, <4>2 DEF Chain!Recorded
    <3>6. Chain!Record(r.fact) /\ r.fact \in Fact
      BY <3>1, <3>4, <3>5 DEF Chain!Record, Record
    <3> QED
      BY <3>6 DEF Chain!Next, Chain!Record
  <2>2. CASE UNCHANGED ledger
    BY <1>0, <2>2
  <2> QED
    BY <2>1, <2>2
    DEF Next, Advance, BeginAppend, Lock, ReadHead, Insert, Return, AnswerLost,
        Collide, Rollback, vars
<1> QED
  BY <1>1, <1>2, AppendInvInvariant, PTL DEF Spec, ImplementsAppendOnlyChain, Chain!Spec

=============================================================================
