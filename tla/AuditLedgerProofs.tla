------------------------- MODULE AuditLedgerProofs -------------------------
(***************************************************************************)
(* What is proved about AuditLedger, for every set of threads and facts    *)
(* and every checkpoint interval.                                          *)
(***************************************************************************)
EXTENDS AuditLedger, SequenceTheorems, TLAPS

(***************************************************************************)
(* Sequences of records.                                                   *)
(***************************************************************************)

\* A list with one record more.
LEMMA OneMore ==
    ASSUME NEW S, NEW s \in Seq(S), NEW r \in S
    PROVE  /\ Append(s, r) \in Seq(S)
           /\ Append(s, r) # << >>
           /\ Len(Append(s, r)) = Len(s) + 1
           /\ DOMAIN Append(s, r) = 1..(Len(s) + 1)
           /\ \A i \in 1..Len(s) : Append(s, r)[i] = s[i]
           /\ Append(s, r)[Len(s) + 1] = r
  OBVIOUS

\* What append adds to the facts of a list is the fact of its record.
LEMMA FactsOfOneMore ==
    ASSUME NEW s \in Seq(Record), NEW r \in Record
    PROVE  FactsIn(Append(s, r)) = FactsIn(s) \cup {r.fact}
<1>1. /\ DOMAIN Append(s, r) = 1..(Len(s) + 1)
      /\ \A i \in 1..Len(s) : Append(s, r)[i] = s[i]
      /\ Append(s, r)[Len(s) + 1] = r
  BY OneMore
<1>2. DOMAIN s = 1..Len(s) /\ Len(s) \in Nat
  OBVIOUS
<1>3. 1..(Len(s) + 1) = 1..Len(s) \cup {Len(s) + 1}
  BY <1>2
<1> QED
  BY <1>1, <1>2, <1>3 DEF FactsIn

\* A list that verifies still does when the record appended continues it.
LEMMA OneMoreVerifies ==
    ASSUME NEW s \in Seq(Record), NEW r \in Record, Verifies(s),
           r.sequence = Len(s),
           r.previous = IF s = << >> THEN None ELSE s[Len(s)].fact
    PROVE  Verifies(Append(s, r))
<1>1. /\ DOMAIN Append(s, r) = 1..(Len(s) + 1)
      /\ \A i \in 1..Len(s) : Append(s, r)[i] = s[i]
      /\ Append(s, r)[Len(s) + 1] = r
  BY OneMore
<1>2. DOMAIN s = 1..Len(s) /\ Len(s) \in Nat /\ (s = << >> <=> Len(s) = 0)
  OBVIOUS
<1>3. ASSUME NEW i \in 1..Len(s)
      PROVE  /\ Append(s, r)[i].sequence = i - 1
             /\ Append(s, r)[i].previous =
                   IF i = 1 THEN None ELSE Append(s, r)[i - 1].fact
  BY <1>1, <1>2 DEF Verifies
<1>4. /\ Append(s, r)[Len(s) + 1].sequence = Len(s)
      /\ Append(s, r)[Len(s) + 1].previous =
            IF Len(s) = 0 THEN None ELSE Append(s, r)[Len(s)].fact
  <2>1. Len(s) # 0 => Len(s) \in 1..Len(s)
    BY <1>2
  <2>2. Len(s) # 0 => Append(s, r)[Len(s)] = s[Len(s)]
    BY <1>1, <2>1
  <2> QED
    BY <1>1, <1>2, <2>2
<1>5. SUFFICES ASSUME NEW i \in 1..(Len(s) + 1)
               PROVE  /\ Append(s, r)[i].sequence = i - 1
                      /\ Append(s, r)[i].previous =
                            IF i = 1 THEN None ELSE Append(s, r)[i - 1].fact
  BY <1>1 DEF Verifies
<1>6. CASE i \in 1..Len(s)
  BY <1>3, <1>6
<1>7. CASE i = Len(s) + 1
  <2>1. i - 1 = Len(s) /\ (i = 1 <=> Len(s) = 0)
    BY <1>2, <1>7
  <2> QED
    BY <1>4, <1>7, <2>1
<1> QED
  BY <1>2, <1>6, <1>7

(***************************************************************************)
(* Whatever the interleaving and the failed writes.  That what append      *)
(* returned for is in the file, and that a line only ever brings a fact    *)
(* the file does not have, needs that the threads inside append hold       *)
(* drafts of different facts, in the file exactly once they are written.   *)
(***************************************************************************)
DraftsOK ==
    /\ draft \in [Thread -> Record \cup {None}]
    /\ \A th \in Thread : pc[th] # "idle" => draft[th].fact \in begun
    /\ \A th, other \in Thread :
          pc[th] # "idle" /\ pc[other] # "idle" /\ th # other
             => draft[th].fact # draft[other].fact

FileOK ==
    /\ FactsIn(file) \subseteq begun
    /\ \A th \in Thread :
          /\ pc[th] \in {"append", "write"} => draft[th].fact \notin FactsIn(file)
          /\ pc[th] = "checkpoint" => draft[th].fact \in FactsIn(file)

AppendInv == TypeOK /\ DraftsOK /\ FileOK /\ ReturnedSurvives

(***************************************************************************)
(* As long as appends do not overlap and no line fails.  That list and     *)
(* file verify needs how far the one thread inside append got: the list is *)
(* ahead of the file by its record between the append and the line.        *)
(***************************************************************************)
Alone ==
    \A th, other \in Thread : pc[th] # "idle" /\ pc[other] # "idle" => th = other

ListAndFile ==
    /\ (\A th \in Thread : pc[th] = "idle") => records = file
    /\ \A th \in Thread :
          /\ pc[th] = "append" =>
                /\ records = file
                /\ draft[th].sequence = Len(records)
                /\ draft[th].previous = IF records = << >> THEN None
                                        ELSE records[Len(records)].fact
          /\ pc[th] = "write" => records = Append(file, draft[th])
          /\ pc[th] = "checkpoint" => records = file /\ records # << >>

OrderlyInv == orderly => Alone /\ ListAndFile /\ Verifies(records) /\ Verifies(file)

\* The steps the actions name are steps.
LEMMA Names == {"idle", "append", "write", "checkpoint"} = Step
  BY DEF Step

LEMMA AppendInvInductive ==
    ASSUME AppendInv, [Next]_vars
    PROVE  AppendInv'
<1> USE DEF AppendInv
<1>1. ASSUME NEW th \in Thread, NEW fact \in Fact, ReadHead(th, fact)
      PROVE  AppendInv'
  <2> DEFINE head == IF records = << >> THEN None ELSE records[Len(records)].fact
             r == [fact |-> fact, sequence |-> Len(records), previous |-> head]
  <2>1. /\ pc[th] = "idle" /\ fact \notin begun
        /\ draft' = [draft EXCEPT ![th] = r]
        /\ pc' = [pc EXCEPT ![th] = "append"]
        /\ begun' = begun \cup {fact}
        /\ UNCHANGED <<records, file, returned>>
    BY <1>1 DEF ReadHead, Goto
  <2>2. r \in Record
    <3>1. Len(records) \in Nat /\ (records # << >> => Len(records) \in 1..Len(records))
      BY DEF TypeOK
    <3>2. records # << >> => records[Len(records)] \in Record
      BY <3>1, ElementOfSeq DEF TypeOK
    <3>3. head \in Fact \cup {None}
      BY <3>2 DEF Record
    <3> HIDE DEF head
    <3> QED
      BY <3>1, <3>3 DEF Record
  <2> HIDE DEF r
  <2>3. r.fact = fact
    BY DEF r
  <2>4. /\ pc' \in [Thread -> Step] /\ draft' \in [Thread -> Record \cup {None}]
        /\ draft'[th] = r
        /\ \A u \in Thread : u # th => draft'[u] = draft[u] /\ pc'[u] = pc[u]
    BY <2>1, <2>2, Names DEF TypeOK, DraftsOK
  <2>5. TypeOK'
    BY <1>1, <2>1, <2>2, <2>4 DEF TypeOK, ReadHead
  <2>6. DraftsOK'
    BY <2>1, <2>3, <2>4 DEF DraftsOK
  <2>7. FileOK'
    BY <2>1, <2>3, <2>4 DEF FileOK
  <2> QED
    BY <2>1, <2>5, <2>6, <2>7 DEF ReturnedSurvives
<1>2. ASSUME NEW th \in Thread, AppendRecord(th)
      PROVE  AppendInv'
  <2>1. /\ pc[th] = "append" /\ draft[th] \in Record
        /\ records' = Append(records, draft[th])
        /\ pc' = [pc EXCEPT ![th] = "write"]
        /\ UNCHANGED <<file, draft, begun, returned, orderly>>
    BY <1>2 DEF AppendRecord, Goto, TypeOK
  <2>2. records' \in Seq(Record)
    BY <2>1, OneMore DEF TypeOK
  <2>3. TypeOK'
    BY <2>1, <2>2, Names DEF TypeOK
  <2>4. DraftsOK' /\ FileOK' /\ ReturnedSurvives'
    BY <2>1 DEF TypeOK, DraftsOK, FileOK, ReturnedSurvives
  <2> QED
    BY <2>3, <2>4
<1>3. ASSUME NEW th \in Thread, WriteLine(th)
      PROVE  AppendInv'
  <2>1. /\ pc[th] = "write" /\ draft[th] \in Record
        /\ file' = Append(file, draft[th])
        /\ pc' = [pc EXCEPT ![th] = "checkpoint"]
        /\ UNCHANGED <<records, draft, begun, returned, orderly>>
    BY <1>3 DEF WriteLine, Goto, TypeOK
  <2>2. file' \in Seq(Record) /\ FactsIn(file)' = FactsIn(file) \cup {draft[th].fact}
    BY <2>1, OneMore, FactsOfOneMore DEF TypeOK
  <2>3. TypeOK'
    BY <2>1, <2>2, Names DEF TypeOK
  <2>4. DraftsOK'
    BY <2>1 DEF TypeOK, DraftsOK
  <2>5. FileOK'
    BY <2>1, <2>2 DEF TypeOK, DraftsOK, FileOK
  <2> QED
    BY <2>1, <2>2, <2>3, <2>4, <2>5 DEF ReturnedSurvives
<1>4. ASSUME NEW th \in Thread, FailWrite(th) \/ FailAnchor(th)
      PROVE  AppendInv'
  <2>1. /\ pc' = [pc EXCEPT ![th] = "idle"]
        /\ orderly' \in BOOLEAN
        /\ UNCHANGED <<records, file, draft, begun, returned>>
    BY <1>4 DEF FailWrite, FailAnchor, Goto, TypeOK
  <2> QED
    BY <2>1, Names DEF TypeOK, DraftsOK, FileOK, ReturnedSurvives
<1>5. ASSUME NEW th \in Thread, EmitCheckpoint(th)
      PROVE  AppendInv'
  <2>1. /\ pc[th] = "checkpoint"
        /\ returned' = returned \cup {draft[th].fact}
        /\ pc' = [pc EXCEPT ![th] = "idle"]
        /\ UNCHANGED <<records, file, draft, begun, orderly>>
    BY <1>5 DEF EmitCheckpoint, Goto
  <2>2. draft[th].fact \in begun /\ draft[th].fact \in FactsIn(file)
    BY <2>1 DEF DraftsOK, FileOK
  <2>3. TypeOK'
    BY <2>1, <2>2, Names DEF TypeOK
  <2> QED
    BY <2>1, <2>2, <2>3 DEF TypeOK, DraftsOK, FileOK, ReturnedSurvives
<1>6. CASE Restart
  <2>1. /\ records' = file
        /\ pc' = [th \in Thread |-> "idle"]
        /\ UNCHANGED <<file, draft, begun, returned, orderly>>
    BY <1>6 DEF Restart
  <2> QED
    BY <2>1, Names DEF TypeOK, DraftsOK, FileOK, ReturnedSurvives
<1>7. CASE UNCHANGED vars
  BY <1>7 DEF vars, TypeOK, DraftsOK, FileOK, ReturnedSurvives
<1> QED
  BY <1>1, <1>2, <1>3, <1>4, <1>5, <1>6, <1>7 DEF Next

LEMMA AppendInvInvariant == Spec => []AppendInv
<1>1. Init => AppendInv
  BY Names DEF Init, AppendInv, TypeOK, DraftsOK, FileOK, FactsIn, ReturnedSurvives
<1> QED
  BY <1>1, AppendInvInductive, PTL DEF Spec

\* The list, the file, the steps of the threads and the records they are about
\* to append always have their types, and append only returns for facts it was
\* called with.
THEOREM TypeCorrect == Spec => []TypeOK
  BY AppendInvInvariant, PTL DEF AppendInv

\* Whatever the threads, the failed writes and the restarts, every fact append
\* returned for is in the file.
THEOREM NothingReturnedIsLost == Spec => []ReturnedSurvives
  BY AppendInvInvariant, PTL DEF AppendInv

LEMMA OrderlyInvInductive ==
    ASSUME TypeOK, DraftsOK, OrderlyInv, [Next]_vars
    PROVE  OrderlyInv'
<1> SUFFICES ASSUME orderly'
             PROVE  (Alone /\ ListAndFile /\ Verifies(records) /\ Verifies(file))'
  BY DEF OrderlyInv
<1>0. orderly
  BY DEF Next, ReadHead, AppendRecord, WriteLine, FailWrite, EmitCheckpoint,
         FailAnchor, Restart, vars
<1> USE <1>0 DEF OrderlyInv
<1>1. ASSUME NEW th \in Thread, NEW fact \in Fact, ReadHead(th, fact)
      PROVE  (Alone /\ ListAndFile /\ Verifies(records) /\ Verifies(file))'
  <2> DEFINE head == IF records = << >> THEN None ELSE records[Len(records)].fact
             r == [fact |-> fact, sequence |-> Len(records), previous |-> head]
  <2>1. /\ \A u \in Thread : pc[u] = "idle"
        /\ draft'[th] = r
        /\ pc' = [pc EXCEPT ![th] = "append"]
        /\ UNCHANGED <<records, file>>
    BY <1>1 DEF ReadHead, Goto, DraftsOK
  <2>2. \A u \in Thread : pc'[u] # "idle" => u = th /\ pc'[u] = "append"
    BY <2>1 DEF TypeOK
  <2>3. records = file
    BY <2>1 DEF ListAndFile
  <2>4. Alone'
    BY <2>2 DEF Alone
  <2>5. ListAndFile'
    BY <2>1, <2>2, <2>3 DEF ListAndFile, TypeOK
  <2> QED
    BY <2>1, <2>4, <2>5 DEF Verifies
<1>2. ASSUME NEW th \in Thread, AppendRecord(th)
      PROVE  (Alone /\ ListAndFile /\ Verifies(records) /\ Verifies(file))'
  <2>1. /\ pc[th] = "append" /\ draft[th] \in Record
        /\ records' = Append(records, draft[th])
        /\ pc' = [pc EXCEPT ![th] = "write"]
        /\ UNCHANGED <<file, draft>>
    BY <1>2 DEF AppendRecord, Goto, TypeOK
  <2>2. /\ pc'[th] = "write"
        /\ \A u \in Thread : u # th => pc[u] = "idle" /\ pc'[u] = "idle"
    BY <2>1 DEF Alone, TypeOK
  <2>3. /\ records = file /\ records' = Append(file, draft[th])
        /\ Verifies(Append(records, draft[th]))
    BY <2>1, OneMoreVerifies DEF ListAndFile, TypeOK
  <2>4. Alone'
    BY <2>2 DEF Alone
  <2>5. ListAndFile'
    BY <2>1, <2>2, <2>3 DEF ListAndFile
  <2> QED
    BY <2>1, <2>3, <2>4, <2>5 DEF Verifies
<1>3. ASSUME NEW th \in Thread, WriteLine(th)
      PROVE  (Alone /\ ListAndFile /\ Verifies(records) /\ Verifies(file))'
  <2>1. /\ pc[th] = "write" /\ draft[th] \in Record
        /\ file' = Append(file, draft[th])
        /\ pc' = [pc EXCEPT ![th] = "checkpoint"]
        /\ UNCHANGED <<records, draft>>
    BY <1>3 DEF WriteLine, Goto, TypeOK
  <2>2. /\ pc'[th] = "checkpoint"
        /\ \A u \in Thread : u # th => pc[u] = "idle" /\ pc'[u] = "idle"
    BY <2>1 DEF Alone, TypeOK
  <2>3. records = Append(file, draft[th])
    BY <2>1 DEF ListAndFile
  <2>4. records' = file' /\ records' # << >>
    BY <2>1, <2>3, OneMore DEF TypeOK
  <2>5. Alone'
    BY <2>2 DEF Alone
  <2>6. ListAndFile'
    BY <2>2, <2>4 DEF ListAndFile
  <2>7. Verifies(records) /\ records' = records /\ file' = records
    BY <2>1, <2>4
  <2>8. Verifies(records)' /\ Verifies(file)'
    BY <2>7 DEF Verifies
  <2> QED
    BY <2>5, <2>6, <2>8
<1>4. ASSUME NEW th \in Thread, EmitCheckpoint(th) \/ FailAnchor(th)
      PROVE  (Alone /\ ListAndFile /\ Verifies(records) /\ Verifies(file))'
  <2>1. /\ pc[th] = "checkpoint"
        /\ pc' = [pc EXCEPT ![th] = "idle"]
        /\ UNCHANGED <<records, file, draft>>
    BY <1>4 DEF EmitCheckpoint, FailAnchor, Goto
  <2>2. \A u \in Thread : pc'[u] = "idle"
    BY <2>1 DEF Alone, TypeOK
  <2>3. records = file
    BY <2>1 DEF ListAndFile
  <2> QED
    BY <2>1, <2>2, <2>3 DEF Alone, ListAndFile, Verifies
<1>5. ASSUME NEW th \in Thread, FailWrite(th)
      PROVE  FALSE
  BY <1>5 DEF FailWrite
<1>6. CASE Restart
  BY <1>6 DEF Restart, Alone, ListAndFile, Verifies
<1>7. CASE UNCHANGED vars
  BY <1>7 DEF vars, Alone, ListAndFile, Verifies
<1> QED
  BY <1>1, <1>2, <1>3, <1>4, <1>5, <1>6, <1>7 DEF Next

LEMMA OrderlyInvInvariant == Spec => []OrderlyInv
<1>1. Init => OrderlyInv
  BY DEF Init, OrderlyInv, Alone, ListAndFile, Verifies
<1>2. AppendInv /\ OrderlyInv /\ [Next]_vars => OrderlyInv'
  BY OrderlyInvInductive DEF AppendInv
<1> QED
  BY <1>1, <1>2, AppendInvInvariant, PTL DEF Spec

\* As long as appends do not overlap and no line fails, the list verifies, and
\* so does the file a restart loads, at every step of append.
THEOREM OrderlyLedgerVerifies == Spec => []LedgerVerifies
<1>1. OrderlyInv => LedgerVerifies
  BY DEF OrderlyInv, LedgerVerifies
<1> QED
  BY <1>1, OrderlyInvInvariant, PTL

\* Then a checkpoint given to the anchor sink describes the file for good.
THEOREM CheckpointsDescribeTheFile == Spec => []CheckpointsHold
<1>1. Init => CheckpointsHold
  BY DEF Init, CheckpointsHold
<1>2. AppendInv /\ OrderlyInv /\ CheckpointsHold /\ [Next]_vars => CheckpointsHold'
  <2> SUFFICES ASSUME AppendInv, OrderlyInv, CheckpointsHold, [Next]_vars, orderly'
               PROVE  \A c \in anchored' :
                         /\ c.count = c.sequence + 1
                         /\ c.count \in DOMAIN file'
                         /\ file'[c.count].fact = c.head_hash
    BY DEF CheckpointsHold
  <2>0. orderly
    BY DEF Next, ReadHead, AppendRecord, WriteLine, FailWrite, EmitCheckpoint,
           FailAnchor, Restart, vars
  <2> USE DEF AppendInv, CheckpointsHold
  <2>1. ASSUME NEW th \in Thread, WriteLine(th)
        PROVE  \A c \in anchored' :
                  /\ c.count = c.sequence + 1
                  /\ c.count \in DOMAIN file'
                  /\ file'[c.count].fact = c.head_hash
    <3>1. /\ draft[th] \in Record
          /\ file' = Append(file, draft[th]) /\ anchored' = anchored
      BY <2>1 DEF WriteLine, TypeOK
    <3>2. /\ \A i \in 1..Len(file) : file'[i] = file[i]
          /\ DOMAIN file' = 1..(Len(file) + 1)
          /\ DOMAIN file = 1..Len(file) /\ Len(file) \in Nat
      BY <3>1, OneMore DEF TypeOK
    <3>3. \A i \in DOMAIN file : i \in DOMAIN file' /\ file'[i] = file[i]
      BY <3>2
    <3> QED
      BY <2>0, <3>1, <3>3
  <2>2. ASSUME NEW th \in Thread, EmitCheckpoint(th)
        PROVE  \A c \in anchored' :
                  /\ c.count = c.sequence + 1
                  /\ c.count \in DOMAIN file'
                  /\ file'[c.count].fact = c.head_hash
    <3> DEFINE head == records[Len(records)]
               checkpoint == [sequence |-> head.sequence, head_hash |-> head.fact,
                              count |-> Len(records)]
    <3>1. /\ pc[th] = "checkpoint" /\ file' = file
          /\ anchored' \subseteq anchored \cup {checkpoint}
      BY <2>2 DEF EmitCheckpoint
    <3>2. records = file /\ records # << >> /\ Verifies(file)
      BY <2>0, <3>1 DEF OrderlyInv, ListAndFile
    <3>3. /\ Len(file) \in DOMAIN file /\ Len(file) \in Nat
      BY <3>2 DEF TypeOK
    <3>4. head.sequence = Len(file) - 1
      BY <3>2, <3>3 DEF Verifies
    <3>5. checkpoint.count = checkpoint.sequence + 1
      BY <3>2, <3>3, <3>4
    <3> QED
      BY <2>0, <3>1, <3>2, <3>3, <3>5
  <2>3. ASSUME UNCHANGED <<anchored, file>>
        PROVE  \A c \in anchored' :
                  /\ c.count = c.sequence + 1
                  /\ c.count \in DOMAIN file'
                  /\ file'[c.count].fact = c.head_hash
    BY <2>0, <2>3
  <2> QED
    BY <2>1, <2>2, <2>3
    DEF Next, ReadHead, AppendRecord, FailWrite, FailAnchor, Restart, vars
<1> QED
  BY <1>1, <1>2, AppendInvInvariant, OrderlyInvInvariant, PTL DEF Spec

(***************************************************************************)
(* The file implements the append-only chain: writing a line records its   *)
(* fact, and every other step, a restart among them, leaves the chain as   *)
(* it is.                                                                  *)
(***************************************************************************)
LineFacts(lines) == [i \in DOMAIN lines |-> lines[i].fact]

\* The chain of a file with one line more.
LEMMA ChainOfOneMore ==
    ASSUME NEW s \in Seq(Record), NEW r \in Record
    PROVE  LineFacts(Append(s, r)) = Append(LineFacts(s), r.fact)
<1> DEFINE t == LineFacts(s)
           u == LineFacts(Append(s, r))
<1>1. /\ Append(s, r) \in Seq(Record)
      /\ DOMAIN Append(s, r) = 1..(Len(s) + 1)
      /\ \A i \in 1..Len(s) : Append(s, r)[i] = s[i]
      /\ Append(s, r)[Len(s) + 1] = r
  BY OneMore
<1>2. DOMAIN s = 1..Len(s) /\ Len(s) \in Nat /\ \A i \in 1..Len(s) : s[i] \in Record
  OBVIOUS
<1>3. t \in [1..Len(s) -> Fact]
  BY <1>2 DEF LineFacts, Record
<1>4. t \in Seq(Fact) /\ Len(t) = Len(s)
  BY <1>2, <1>3
<1>5. u \in [1..(Len(s) + 1) -> Fact]
  BY <1>1, <1>2 DEF LineFacts, Record
<1>6. u \in Seq(Fact) /\ Len(u) = Len(s) + 1
  BY <1>2, <1>5
<1>7. r.fact \in Fact
  BY DEF Record
<1>8. /\ Append(t, r.fact) \in Seq(Fact)
      /\ Len(Append(t, r.fact)) = Len(s) + 1
      /\ \A i \in 1..Len(s) : Append(t, r.fact)[i] = t[i]
      /\ Append(t, r.fact)[Len(s) + 1] = r.fact
  BY <1>4, <1>7, OneMore
<1>9. \A i \in 1..Len(s) : u[i] = t[i]
  BY <1>1, <1>2 DEF LineFacts
<1>10. u[Len(s) + 1] = r.fact
  BY <1>1, <1>2 DEF LineFacts
<1>11. \A i \in 1..(Len(s) + 1) : i \in 1..Len(s) \/ i = Len(s) + 1
  BY <1>2
<1> HIDE DEF t, u
<1>12. \A i \in 1..Len(u) : u[i] = Append(t, r.fact)[i]
  BY <1>6, <1>8, <1>9, <1>10, <1>11
<1>13. u = Append(t, r.fact)
  BY <1>6, <1>8, <1>12, SeqEqual
<1> QED
  BY <1>13 DEF t, u

\* With AppendOnlyChain's definitions spelled out for the chain of the file.
THEOREM FileImplementsAppendOnlyChain == Spec => ImplementsAppendOnlyChain
<1> DEFINE chain == [i \in DOMAIN file |-> file[i].fact]
<1>1. Init => Chain!Init
  BY DEF Init, Chain!Init
<1>2. AppendInv /\ [Next]_vars => [Chain!Next]_chain
  <2> SUFFICES ASSUME AppendInv, [Next]_vars
               PROVE  Chain!Next \/ chain' = chain
    OBVIOUS
  <2>1. ASSUME NEW th \in Thread, WriteLine(th)
        PROVE  Chain!Next
    <3>1. /\ pc[th] = "write" /\ draft[th] \in Record
          /\ file' = Append(file, draft[th])
      BY <2>1 DEF WriteLine, AppendInv, TypeOK
    <3>2. draft[th].fact \in Fact
      BY <3>1 DEF Record
    <3>3. chain' = Append(chain, draft[th].fact)
      BY <3>1, ChainOfOneMore DEF AppendInv, TypeOK, LineFacts
    <3>4. draft[th].fact \notin Chain!Recorded
      BY <3>1 DEF AppendInv, FileOK, FactsIn, Chain!Recorded
    <3>5. Chain!Record(draft[th].fact)
      BY <3>3, <3>4 DEF Chain!Record
    <3> QED
      BY <3>2, <3>5 DEF Chain!Next, Chain!Record
  <2>2. CASE UNCHANGED file
    BY <2>2
  <2> QED
    BY <2>1, <2>2
    DEF Next, ReadHead, AppendRecord, FailWrite, EmitCheckpoint, FailAnchor,
        Restart, vars
<1> QED
  BY <1>1, <1>2, AppendInvInvariant, PTL DEF Spec, ImplementsAppendOnlyChain, Chain!Spec

=============================================================================
