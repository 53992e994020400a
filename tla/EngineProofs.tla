---------------------------- MODULE EngineProofs ----------------------------
(***************************************************************************)
(* Theorems about Engine: its type invariant, that no checkpoint, no       *)
(* commit's snapshot and no truncation passes a mutation that has not      *)
(* finished, and that the log is the end of the history of what was        *)
(* logged, so that a record whose caller was told Ok survives every crash, *)
(* for any number of clients, ladders, ids, failures and crashes.          *)
(***************************************************************************)
EXTENDS Engine, TLAPS

-----------------------------------------------------------------------------
(* The stores' operators.                                                  *)

\* Removing a document, adding documents and replaying records leave a store
\* a set of entries (engine.rs, Engine::recover's replay).
LEMMA StoresHoldEntries ==
    ASSUME NEW store \in SUBSET Entries, NEW new \in SUBSET Entries,
           NEW records \in SUBSET Records, NEW doc
    PROVE  /\ Without(store, doc) \subseteq Entries
           /\ With(store, new) \subseteq Entries
           /\ ReplayInto(store, records) \subseteq Entries
<1>1. Without(store, doc) \subseteq Entries
    BY DEF Without
<1>2. With(store, new) \subseteq Entries
    BY DEF With
<1>3. \A r \in records : r.adds \subseteq Entries
    BY DEF Records
<1>4. ReplayInto(store, records) \subseteq Entries
    BY <1>3 DEF ReplayInto
<1> QED
    BY <1>1, <1>2, <1>4

\* The internal numbers of entries, and those records add, are naturals.
LEMMA DocsAreNumbers ==
    ASSUME NEW entries \in SUBSET Entries, NEW records \in SUBSET Records
    PROVE  /\ DocsOf(entries) \subseteq Nat
           /\ AddsOf(records) \subseteq Entries
           /\ DocsOf(AddsOf(records)) \subseteq Nat
<1>1. \A S \in SUBSET Entries : DocsOf(S) \subseteq Nat
    BY DEF DocsOf, Entries
<1>2. AddsOf(records) \subseteq Entries
    BY DEF AddsOf, Records
<1> QED
    BY <1>1, <1>2

\* The record an append writes, under the numbers the log assigns next
\* (store/log.rs, append_put and append_delete).
LEMMA NewRecordType ==
    ASSUME TypeOK, NEW c \in Clients, op[c] \in Ops
    PROVE  /\ NewRecord(c) \in Records
           /\ NewRecord(c) \in Ops
           /\ NewRecord(c).seq = nextSeq
           /\ NewRecord(c).id = op[c].id
           /\ NewRecord(c).kind = op[c].kind
<1>1. [doc |-> nextDoc, id |-> op[c].id] \in Entries
    BY DEF TypeOK, LogTypeOK, Entries, Ops
<1> DEFINE added == IF op[c].kind = "delete" THEN {}
                    ELSE {[doc |-> nextDoc, id |-> op[c].id]}
<1>2. added \in SUBSET Entries
    BY <1>1
<1>3. NewRecord(c) = [op[c] EXCEPT !.seq = nextSeq, !.adds = added]
    BY DEF NewRecord
<1>4. nextSeq \in Nat
    BY DEF TypeOK, LogTypeOK
<1> HIDE DEF added
<1> QED
    BY <1>2, <1>3, <1>4 DEF Ops, Records

-----------------------------------------------------------------------------
(* The watermark (engine/applied_seqs.rs).                                 *)

\* Finishing a number above the watermark moves the watermark up, over
\* finished numbers only and as far as they go.
LEMMA FinishAdvances ==
    ASSUME watermark \in Nat, finishedAbove \in SUBSET Nat,
           NEW seq \in Nat, seq > watermark, Finish(seq)
    PROVE  /\ watermark' \in {watermark, seq} \cup finishedAbove
           /\ watermark' >= watermark
           /\ finishedAbove' \subseteq finishedAbove \cup {seq}
           /\ \A n \in Nat : n > watermark /\ n <= watermark' =>
                  n \in finishedAbove \cup {seq}
           /\ \A n \in finishedAbove \cup {seq} : n > watermark' =>
                  n \in finishedAbove'
           /\ watermark + 1 \notin finishedAbove =>
                  watermark' + 1 \notin finishedAbove'
<1>1. CASE seq = watermark + 1 /\ AbsorbContiguous(seq)
    BY <1>1 DEF AbsorbContiguous
<1>2. CASE /\ seq > watermark + 1
           /\ finishedAbove' = finishedAbove \cup {seq}
           /\ UNCHANGED watermark
    BY <1>2
<1> QED
    BY <1>1, <1>2 DEF Finish

\* Whatever is finished, the variables keep their types.
LEMMA FinishType ==
    ASSUME watermark \in Nat, finishedAbove \in SUBSET Nat,
           NEW seq \in Nat, Finish(seq)
    PROVE  watermark' \in Nat /\ finishedAbove' \in SUBSET Nat
BY DEF Finish, AbsorbContiguous, appliedVars

\* Recovery raises a fresh watermark exactly to the number given.
LEMMA RaiseFromZero ==
    ASSUME watermark = 0, finishedAbove = {}, NEW seq \in Nat, RaiseTo(seq)
    PROVE  watermark' = seq /\ finishedAbove' = {}
BY DEF RaiseTo, AbsorbContiguous, appliedVars

\* Raising keeps the types.
LEMMA RaiseType ==
    ASSUME watermark \in Nat, finishedAbove \in SUBSET Nat,
           NEW seq \in Nat, RaiseTo(seq)
    PROVE  watermark' \in Nat /\ finishedAbove' \in SUBSET Nat
BY DEF RaiseTo, AbsorbContiguous, appliedVars

-----------------------------------------------------------------------------
(* The type invariant.                                                     *)

\* The initial state has the types.
LEMMA InitType == Init => TypeOK
<1> SUFFICES ASSUME Init PROVE TypeOK
    OBVIOUS
<1>1. LogTypeOK
    <2>1. walOpen \in BOOLEAN /\ torn \in BOOLEAN
        BY DEF Init
    <2>2. watermark = 0 /\ finishedAbove = {}
        BY DEF Init, AppliedInit
    <2> QED
        BY <2>1, <2>2 DEF Init, LogTypeOK
<1>2. StoreTypeOK
    BY DEF Init, StoreTypeOK
<1>3. TaskTypeOK
    BY DEF Init, TaskTypeOK, Steps, LadderSteps
<1>4. EngineTypeOK
    BY DEF Init, EngineTypeOK
<1> QED
    BY <1>1, <1>2, <1>3, <1>4 DEF TypeOK

\* A step of a client's mutation keeps the types.
LEMMA MutateType ==
    ASSUME TypeOK, NEW c \in Clients, Mutate(c)
    PROVE  TypeOK'
<1> USE DEF TypeOK, LogTypeOK, StoreTypeOK, TaskTypeOK, EngineTypeOK,
            Steps, LadderSteps, Applying,
            appliedVars, walVars, lexVars, vecVars, docVars, storeVars,
            clientVars, ladderVars, engineVars, ghostVars
<1>1. ASSUME NEW kind \in Kinds, NEW id \in Ids, Begin(c, kind, id)
      PROVE  TypeOK'
    <2>1. Lookup(id) \subseteq Nat
        BY DocsAreNumbers DEF Lookup
    <2>2. op' \in [Clients -> Ops \cup {NoOp}] /\ op'[c] \in Ops
        BY <1>1, <2>1 DEF Begin, Ops
    <2>3. TaskTypeOK'
        BY <1>1, <2>2 DEF Begin
    <2> QED
        BY <1>1, <2>3 DEF Begin
<1>2. CASE Lock(c)
    BY <1>2 DEF Lock, Leave
<1>3. CASE Append(c)
    <2>1. /\ op[c] \in Ops /\ op[c].kills \subseteq Nat
          /\ NewRecord(c) \in Records /\ NewRecord(c) \in Ops
        BY <1>3, NewRecordType DEF Append, Ops
    <2> QED
        BY <1>3, <2>1 DEF Append, AssignNumbers
<1>4. CASE AppendRefused(c)
    <2>1. op[c].id \in Ids
        BY <1>4 DEF AppendRefused, Ops
    <2> QED
        BY <1>4, <2>1 DEF AppendRefused, StopWrites, Leave
<1>5. CASE AppendFails(c)
    <2>1. op[c].id \in Ids
        BY <1>5 DEF AppendFails, Ops
    <2> QED
        BY <1>5, <2>1 DEF AppendFails, AssignNumbers, StopWrites, Leave
<1>6. CASE AppendUnsynced(c)
    <2>1. op[c].id \in Ids /\ NewRecord(c) \in Records
        BY <1>6, NewRecordType DEF AppendUnsynced, Ops
    <2> QED
        BY <1>6, <2>1 DEF AppendUnsynced, AssignNumbers, StopWrites, Leave
<1>7. CASE DeleteLexical(c)
    BY <1>7 DEF DeleteLexical, Without
<1>8. CASE DeleteVector(c)
    BY <1>8 DEF DeleteVector, Without
<1>9. CASE StoreDocument(c)
    <2>1. op[c].adds \in SUBSET Entries
        BY <1>9 DEF StoreDocument, Ops
    <2>2. DocsOf(op[c].adds) \subseteq Nat
        BY <2>1, DocsAreNumbers
    <2> QED
        BY <1>9, <2>2 DEF StoreDocument
<1>10. CASE InsertLexical(c)
    <2>1. op[c].adds \in SUBSET Entries
        BY <1>10 DEF InsertLexical, Ops
    <2> QED
        BY <1>10, <2>1 DEF InsertLexical, With
<1>11. CASE InsertVector(c)
    <2>1. op[c].adds \in SUBSET Entries
        BY <1>11 DEF InsertVector, Ops
    <2> QED
        BY <1>11, <2>1 DEF InsertVector, With
<1>12. CASE ApplyFails(c)
    <2>1. op[c].id \in Ids
        BY <1>12 DEF ApplyFails, Ops
    <2> QED
        BY <1>12, <2>1 DEF ApplyFails, StopWrites, Leave
<1>13. CASE FinishMutation(c)
    <2>1. op[c].seq \in Nat
        BY <1>13 DEF FinishMutation, Ops
    <2>2. watermark' \in Nat /\ finishedAbove' \in SUBSET Nat
        BY <1>13, <2>1, FinishType DEF FinishMutation
    <2> QED
        BY <1>13, <2>2 DEF FinishMutation
<1>14. CASE Acknowledge(c)
    BY <1>14 DEF Acknowledge, EnsurePerRecordDurability, FlushWal, Leave,
                 LastSeq
<1>15. CASE AcknowledgeFails(c)
    BY <1>15 DEF AcknowledgeFails, Leave
<1> QED
    BY <1>1, <1>2, <1>3, <1>4, <1>5, <1>6, <1>7, <1>8, <1>9, <1>10, <1>11,
       <1>12, <1>13, <1>14, <1>15 DEF Mutate

\* A step of the commit ladder keeps the types.
LEMMA CommitType ==
    ASSUME TypeOK, NEW l \in Ladders, Commit(l)
    PROVE  TypeOK'
<1> USE DEF TypeOK, LogTypeOK, StoreTypeOK, TaskTypeOK, EngineTypeOK,
            LadderSteps, LadderGoesOn, LadderReturns, LadderGivesUp,
            LastSeq,
            appliedVars, walVars, lexVars, vecVars, docVars, storeVars,
            clientVars, ladderVars, engineVars, ghostVars
<1>1. CASE LadderCheck(l)
    BY <1>1 DEF LadderCheck
<1>2. CASE LadderSnapshot(l)
    BY <1>2 DEF LadderSnapshot, SnapshotOf
<1>3. CASE LadderFlush(l)
    BY <1>3 DEF LadderFlush, FlushWal
<1>4. CASE LadderLexical(l)
    <2>1. lexDisk' \subseteq Entries /\ lexCkpt' \in Nat
        BY <1>4 DEF LadderLexical, LexicalCommits, LexicalCommitFails, Larger
    <2>2. lexWriter' \in BOOLEAN
        BY <1>4 DEF LadderLexical, LexicalCommits, LexicalCommitFails
    <2>3. TaskTypeOK' /\ EngineTypeOK'
        BY <1>4 DEF LadderLexical
    <2> QED
        BY <1>4, <2>1, <2>2, <2>3 DEF LadderLexical
<1>5. CASE LadderVector(l)
    BY <1>5 DEF LadderVector, VectorCommits, VectorCommitFails, Larger
<1>6. CASE LadderDocs(l)
    <2>1. StoreTypeOK'
        BY <1>6 DEF LadderDocs
    <2>2. TaskTypeOK' /\ EngineTypeOK'
        BY <1>6 DEF LadderDocs
    <2> QED
        BY <1>6, <2>1, <2>2 DEF LadderDocs
<1>7. CASE LadderTruncate(l)
    <2>1. wal' \subseteq Records
        BY <1>7 DEF LadderTruncate, Retained, Above
    <2>2. LogTypeOK'
        <3>1. walOpen' \in BOOLEAN
            BY <1>7 DEF LadderTruncate
        <3> QED
            BY <1>7, <2>1, <3>1 DEF LadderTruncate
    <2>3. TaskTypeOK'
        BY <1>7 DEF LadderTruncate, LadderSucceeds
    <2>4. mode' \in {"closed", "recovering", "failed", "open"}
        BY <1>7 DEF LadderTruncate, LadderSucceeds
    <2>5. EngineTypeOK'
        BY <1>7, <2>4 DEF LadderTruncate, LadderSucceeds
    <2> QED
        BY <1>7, <2>2, <2>3, <2>5 DEF LadderTruncate
<1> QED
    BY <1>1, <1>2, <1>3, <1>4, <1>5, <1>6, <1>7 DEF Commit

\* What a new process starts with has the types, if what it finds in the
\* files has (the volatile part of a crash and a close).
LEMMA VolatileType ==
    ASSUME TypeOK, Volatile
    PROVE  /\ TaskTypeOK'
           /\ history' \subseteq Records => EngineTypeOK'
           /\ lexDisk' \subseteq Entries /\ lexCkpt' \in Nat => StoreTypeOK'
           /\ watermark' \in Nat /\ finishedAbove' \subseteq Nat
           /\ nextDoc' \in Nat \ {0} /\ walOpen' \in BOOLEAN
<1>1. TaskTypeOK'
    BY DEF Volatile, TypeOK, TaskTypeOK, Steps, LadderSteps
<1>2. stop' \in BOOLEAN /\ walOpen' \in BOOLEAN /\ lexWriter' \in BOOLEAN
    BY DEF Volatile
<1>3. history' \subseteq Records => EngineTypeOK'
    BY <1>2 DEF Volatile, TypeOK, EngineTypeOK
<1>4. lexDisk' \subseteq Entries /\ lexCkpt' \in Nat => StoreTypeOK'
    BY <1>2 DEF Volatile, TypeOK, StoreTypeOK
<1> QED
    BY <1>1, <1>2, <1>3, <1>4 DEF Volatile

\* A crash or a close keeps the types.
LEMMA EndType ==
    ASSUME TypeOK, CloseEngine \/ \E kind \in CrashKinds : Crash(kind)
    PROVE  TypeOK'
<1>1. CASE CloseEngine
    <2>1. /\ Volatile
          /\ UNCHANGED <<wal, nextSeq, torn, history>>
          /\ FlushWal
        BY <1>1 DEF CloseEngine
    <2>2. lexDisk' \subseteq Entries /\ lexCkpt' \in Nat
        BY <1>1 DEF CloseEngine, TypeOK, LogTypeOK, StoreTypeOK, Larger
    <2>3. flushed' \in Nat /\ synced' \in Nat
        BY <2>1 DEF FlushWal, LastSeq, TypeOK, LogTypeOK
    <2>4. TaskTypeOK' /\ EngineTypeOK'
        BY <2>1, VolatileType DEF TypeOK, EngineTypeOK
    <2>5. LogTypeOK'
        BY <2>1, <2>3, VolatileType DEF TypeOK, LogTypeOK
    <2>6. StoreTypeOK'
        BY <2>1, <2>2, VolatileType DEF TypeOK, StoreTypeOK
    <2> QED
        BY <2>4, <2>5, <2>6 DEF TypeOK
<1>2. ASSUME NEW kind \in CrashKinds, Crash(kind)
      PROVE  TypeOK'
    <2>1. PICK last \in Survivors(kind) :
              /\ wal' = wal \ Above(wal, last)
              /\ history' = history \ Above(wal, last)
              /\ nextSeq' = last + 1
              /\ flushed' = last
              /\ synced' = IF kind = "process" THEN synced ELSE last
              /\ torn' \in IF torn \/ Above(wal, last) # {} THEN BOOLEAN
                           ELSE {FALSE}
        BY <1>2 DEF Crash
    <2>2. last \in Nat
        BY DEF Survivors, LastSeq, TypeOK, LogTypeOK
    <2>3. Volatile /\ UNCHANGED <<lexDisk, lexCkpt>>
        BY <1>2 DEF Crash
    <2>4. torn' \in BOOLEAN
        BY <2>1
    <2>5. TaskTypeOK' /\ EngineTypeOK'
        BY <2>1, <2>3, VolatileType DEF TypeOK, EngineTypeOK
    <2>6. LogTypeOK'
        BY <2>1, <2>2, <2>3, <2>4, VolatileType DEF TypeOK, LogTypeOK
    <2>7. StoreTypeOK'
        BY <2>3, VolatileType DEF TypeOK, StoreTypeOK
    <2> QED
        BY <2>5, <2>6, <2>7 DEF TypeOK
<1> QED
    BY <1>1, <1>2

\* An open that succeeds, or fails at a record, keeps the types.
LEMMA OpenType ==
    ASSUME TypeOK, Open \/ OpenFails
    PROVE  TypeOK'
<1>1. \A records \in SUBSET Records : \A seq :
          Above(records, seq) \subseteq Records
    BY DEF Above
<1>2. wal \in SUBSET Records
    BY DEF TypeOK, LogTypeOK
<1>3. CASE Open
    <2>1. SeqsOf(wal) \subseteq Nat /\ DocsOf(AddsOf(wal)) \subseteq Nat
        BY <1>2, DocsAreNumbers DEF SeqsOf, Records
    <2>2. PICK top \in {lexCkpt, vecCkpt} \cup SeqsOf(wal) :
              /\ nextSeq' = top + 1
              /\ flushed' = top
              /\ synced' = IF torn \/ \A r \in wal : r.seq <= synced
                           THEN top ELSE synced
              /\ RaiseTo(top)
        BY <1>3 DEF Open
    <2>3. top \in Nat
        BY <2>1 DEF TypeOK, StoreTypeOK
    <2>4. nextDoc' \in Nat \ {0}
        BY <1>3, <2>1 DEF Open, TypeOK, StoreTypeOK
    <2>5. watermark' \in Nat /\ finishedAbove' \in SUBSET Nat
        BY <2>2, <2>3, RaiseType DEF TypeOK, LogTypeOK
    <2>6. LogTypeOK'
        <3>1. torn' \in BOOLEAN
            BY <1>3 DEF Open
        <3> QED
            BY <1>3, <2>2, <2>3, <2>4, <2>5, <3>1 DEF Open, TypeOK, LogTypeOK
    <2>7. lexMem' \subseteq Entries /\ vecMem' \subseteq Entries
        BY <1>1, <1>2, <1>3, StoresHoldEntries
           DEF Open, TypeOK, StoreTypeOK
    <2>8. lexWriter' \in BOOLEAN
        BY <1>3 DEF Open
    <2>9. StoreTypeOK'
        BY <1>3, <2>1, <2>7, <2>8 DEF Open, TypeOK, StoreTypeOK, Restored
    <2>10. TaskTypeOK'
        BY <1>3 DEF Open, TypeOK, TaskTypeOK, LadderSteps, clientVars
    <2>11. EngineTypeOK'
        BY <1>3 DEF Open, TypeOK, EngineTypeOK, ghostVars
    <2> QED
        BY <2>6, <2>9, <2>10, <2>11 DEF TypeOK
<1>4. CASE OpenFails
    <2>1. lexDisk' \subseteq Entries
        <3>1. PICK r \in wal :
                  LET before == ReplayInto(lexDisk,
                          {s \in Above(wal, lexCkpt) : s.seq < r.seq})
                  IN  lexDisk' \in {before,
                          {e \in before : e.doc \notin r.kills},
                          ReplayInto(lexDisk,
                              {s \in Above(wal, lexCkpt) : s.seq <= r.seq})}
            BY <1>4 DEF OpenFails
        <3>2. \A records \in SUBSET Records :
                  ReplayInto(lexDisk, records) \subseteq Entries
            BY StoresHoldEntries DEF TypeOK, StoreTypeOK
        <3>3. /\ {s \in Above(wal, lexCkpt) : s.seq < r.seq} \subseteq Records
              /\ {s \in Above(wal, lexCkpt) : s.seq <= r.seq}
                     \subseteq Records
            BY <1>1, <1>2
        <3> QED
            BY <3>1, <3>2, <3>3
    <2>2. LogTypeOK'
        <3>1. torn' \in BOOLEAN
            BY <1>4 DEF OpenFails
        <3> QED
            BY <1>4, <3>1
               DEF OpenFails, TypeOK, LogTypeOK, appliedVars, LastSeq
    <2>3. StoreTypeOK'
        BY <1>4, <2>1 DEF OpenFails, TypeOK, StoreTypeOK, vecVars, docVars
    <2>4. TaskTypeOK' /\ EngineTypeOK'
        BY <1>4 DEF OpenFails, TypeOK, TaskTypeOK, EngineTypeOK, clientVars,
                    ladderVars, engineVars, ghostVars
    <2> QED
        BY <2>2, <2>3, <2>4 DEF TypeOK
<1> QED
    BY <1>3, <1>4

\* Every step keeps the types.
LEMMA NextType == TypeOK /\ [Next]_vars => TypeOK'
<1> SUFFICES ASSUME TypeOK, [Next]_vars PROVE TypeOK'
    OBVIOUS
<1>1. ASSUME NEW c \in Clients, Mutate(c) PROVE TypeOK'
    BY <1>1, MutateType
<1>2. ASSUME NEW l \in Ladders, Commit(l) PROVE TypeOK'
    BY <1>2, CommitType
<1>3. CASE CloseEngine \/ \E kind \in CrashKinds : Crash(kind)
    BY <1>3, EndType
<1>4. CASE FlushCall
    BY <1>4 DEF FlushCall, FlushWal, LastSeq, TypeOK, LogTypeOK, StoreTypeOK,
                TaskTypeOK, EngineTypeOK, appliedVars, lexVars, vecVars,
                docVars, storeVars, clientVars, ladderVars, engineVars,
                ghostVars
<1>5. CASE Open \/ OpenFails
    BY <1>5, OpenType
<1>6. CASE UNCHANGED vars
    BY <1>6 DEF vars, TypeOK, LogTypeOK, StoreTypeOK, TaskTypeOK,
                EngineTypeOK, appliedVars, walVars, lexVars, vecVars, docVars,
                storeVars, clientVars, ladderVars, engineVars, ghostVars
<1> QED
    BY <1>1, <1>2, <1>3, <1>4, <1>5, <1>6 DEF Next

\* The variables keep their types in every reachable state.
THEOREM TypeCorrect == Spec => []TypeOK
BY InitType, NextType, PTL DEF Spec

-----------------------------------------------------------------------------
(* No checkpoint, snapshot or truncation passes an unfinished mutation.    *)

\* A closed index has no process: nothing is under way or remembered.
ClosedIsFresh ==
    mode = "closed" =>
        /\ watermark = 0 /\ finishedAbove = {} /\ unfinished = {}
        /\ \A c \in Clients : pc[c] = "idle"
        /\ \A l \in Ladders : lpc[l] = "idle" /\ snap[l] = 0

\* The watermark and the finished numbers were assigned by the log, and an
\* unfinished number is neither finished nor at or below the watermark.
NumbersAssigned ==
    /\ watermark < nextSeq
    /\ \A seq \in finishedAbove : seq < nextSeq
    /\ \A seq \in unfinished :
           watermark < seq /\ seq < nextSeq /\ seq \notin finishedAbove

\* What commits have recorded is at or below the watermark.
RecordedCovered ==
    /\ \A l \in Ladders : snap[l] <= watermark
    /\ Running => /\ lexCkpt <= watermark
                  /\ vecCkpt <= watermark
                  /\ vecPend <= watermark

\* A mutation that is being applied is unfinished, in the log, and alone to
\* have its number.
ApplyingLogged ==
    \A c \in Clients : pc[c] \in Applying =>
        /\ op[c].seq \in unfinished
        /\ \E r \in wal : r.seq = op[c].seq
        /\ \A d \in Clients : d # c /\ pc[d] \in Applying =>
               op[d].seq # op[c].seq

\* Every number above the watermark is unfinished or waits for one that is.
NoGap ==
    Running =>
        /\ watermark + 1 \notin finishedAbove
        /\ \A n \in (watermark + 1)..LastSeq :
               n \in unfinished \cup finishedAbove

CoverInv ==
    /\ TypeOK
    /\ ClosedIsFresh
    /\ NumbersAssigned
    /\ RecordedCovered
    /\ ApplyingLogged
    /\ NoGap

\* What the invariant depends on besides the clients.
coverVars == <<watermark, finishedAbove, nextSeq, unfinished, wal, mode,
               lexCkpt, vecCkpt, vecPend, lpc, snap>>

\* The invariant is kept by a client's step that begins no application and
\* assigns and finishes nothing.
LEMMA QuietStep ==
    ASSUME CoverInv, TypeOK', mode # "closed", UNCHANGED coverVars,
           \A c \in Clients : pc'[c] \in Applying =>
               pc[c] \in Applying /\ op'[c].seq = op[c].seq
    PROVE  CoverInv'
<1> USE DEF CoverInv, coverVars
<1>1. ClosedIsFresh'
    BY DEF ClosedIsFresh
<1>2. NumbersAssigned'
    BY DEF NumbersAssigned
<1>3. RecordedCovered'
    BY DEF RecordedCovered, Running
<1>4. ApplyingLogged'
    BY DEF ApplyingLogged
<1>5. NoGap'
    BY DEF NoGap, Running, LastSeq
<1> QED
    BY <1>1, <1>2, <1>3, <1>4, <1>5

\* Assigning the next number to c's mutation keeps the invariant, whether
\* the mutation goes on to be applied, its record in the log, or ends.
LEMMA AssignStep ==
    ASSUME CoverInv, TypeOK', NEW c \in Clients, pc[c] = "locked",
           AssignNumbers(c), wal \subseteq wal',
           UNCHANGED <<watermark, finishedAbove, mode, lexCkpt, vecCkpt,
                       vecPend, lpc, snap>>,
           \A d \in Clients \ {c} : pc'[d] = pc[d] /\ op'[d] = op[d],
           \/ pc'[c] = "idle"
           \/ op'[c].seq = nextSeq /\ \E r \in wal' : r.seq = nextSeq
    PROVE  CoverInv'
<1> USE DEF CoverInv
<1>1. /\ mode # "closed"
      /\ nextSeq \in Nat /\ nextSeq' = nextSeq + 1
      /\ watermark \in Nat /\ finishedAbove \subseteq Nat
      /\ unfinished \subseteq Nat /\ unfinished' = unfinished \cup {nextSeq}
    BY DEF ClosedIsFresh, AssignNumbers, TypeOK, LogTypeOK, EngineTypeOK
<1>2. ClosedIsFresh'
    BY <1>1 DEF ClosedIsFresh
<1>3. NumbersAssigned'
    BY <1>1 DEF NumbersAssigned
<1>4. RecordedCovered'
    BY DEF RecordedCovered, Running
<1>5. ApplyingLogged'
    <2> SUFFICES ASSUME NEW b \in Clients, pc'[b] \in Applying
                 PROVE  /\ op'[b].seq \in unfinished'
                        /\ \E r \in wal' : r.seq = op'[b].seq
                        /\ \A d \in Clients : d # b /\ pc'[d] \in Applying =>
                               op'[d].seq # op'[b].seq
        BY DEF ApplyingLogged
    <2>1. \A d \in Clients \ {c} : pc'[d] \in Applying =>
              op'[d].seq \in unfinished /\ op'[d].seq # nextSeq
        BY <1>1 DEF ApplyingLogged, NumbersAssigned
    <2>2. CASE b = c
        BY <1>1, <2>1, <2>2 DEF Applying
    <2>3. CASE b # c
        BY <1>1, <2>1, <2>3 DEF ApplyingLogged, Applying
    <2> QED
        BY <2>2, <2>3
<1>6. NoGap'
    BY <1>1 DEF NoGap, NumbersAssigned, Running, LastSeq
<1> QED
    BY <1>2, <1>3, <1>4, <1>5, <1>6

\* Finishing c's mutation keeps the invariant.
LEMMA FinishStep ==
    ASSUME CoverInv, TypeOK', NEW c \in Clients, FinishMutation(c)
    PROVE  CoverInv'
<1> USE DEF CoverInv
<1> DEFINE seq == op[c].seq
<1>1. /\ seq \in unfinished /\ seq \in Nat /\ watermark < seq
      /\ seq < nextSeq /\ mode # "closed"
    BY DEF FinishMutation, Applying, ApplyingLogged, NumbersAssigned,
           ClosedIsFresh, TypeOK, EngineTypeOK
<1>2. /\ nextSeq \in Nat /\ watermark \in Nat /\ watermark' \in Nat
      /\ finishedAbove \subseteq Nat /\ unfinished \subseteq Nat
    BY DEF TypeOK, LogTypeOK, EngineTypeOK
<1>3. /\ watermark' \in {watermark, seq} \cup finishedAbove
      /\ watermark' >= watermark
      /\ finishedAbove' \subseteq finishedAbove \cup {seq}
      /\ \A n \in Nat : n > watermark /\ n <= watermark' =>
             n \in finishedAbove \cup {seq}
      /\ \A n \in finishedAbove \cup {seq} : n > watermark' =>
             n \in finishedAbove'
      /\ watermark + 1 \notin finishedAbove =>
             watermark' + 1 \notin finishedAbove'
    BY <1>1, <1>2, FinishAdvances DEF FinishMutation
<1>4. /\ unfinished' = unfinished \ {seq}
      /\ UNCHANGED <<wal, nextSeq, lexCkpt, vecCkpt, vecPend, op, lpc, snap,
                     mode>>
      /\ \A d \in Clients : pc'[d] \in Applying => pc[d] \in Applying /\ d # c
    BY DEF FinishMutation, walVars, storeVars, lexVars, vecVars, ladderVars,
           engineVars, Applying, TypeOK, TaskTypeOK
<1> HIDE DEF seq
<1>5. ClosedIsFresh'
    BY <1>1, <1>4 DEF ClosedIsFresh
<1>6. NumbersAssigned'
    BY <1>1, <1>2, <1>3, <1>4 DEF NumbersAssigned
<1>7. RecordedCovered'
    BY <1>2, <1>3, <1>4 DEF RecordedCovered, Running, TypeOK, TaskTypeOK,
                            StoreTypeOK
<1>8. ApplyingLogged'
    BY <1>4 DEF ApplyingLogged, FinishMutation, Applying, seq
<1>9. NoGap'
    BY <1>1, <1>2, <1>3, <1>4 DEF NoGap, Running, LastSeq
<1> QED
    BY <1>5, <1>6, <1>7, <1>8, <1>9

\* A step of a client's mutation keeps the invariant.
LEMMA MutateCover ==
    ASSUME CoverInv, NEW c \in Clients, Mutate(c)
    PROVE  CoverInv'
<1> USE DEF appliedVars, walVars, lexVars, vecVars, docVars, storeVars,
            clientVars, ladderVars, engineVars, ghostVars
<1>1. TypeOK /\ TypeOK'
    BY MutateType DEF CoverInv
<1>2. pc \in [Clients -> Steps] /\ op \in [Clients -> Ops \cup {NoOp}]
    BY <1>1 DEF TypeOK, TaskTypeOK
<1>3. pc[c] # "idle" => mode # "closed"
    BY DEF CoverInv, ClosedIsFresh
<1>4. ASSUME NEW kind \in Kinds, NEW id \in Ids, Begin(c, kind, id)
      PROVE  CoverInv'
    BY <1>1, <1>2, <1>4, QuietStep DEF Begin, coverVars, Applying
<1>5. CASE Lock(c)
    BY <1>1, <1>2, <1>3, <1>5, QuietStep DEF Lock, Leave, coverVars, Applying
<1>6. CASE Append(c)
    <2>1. NewRecord(c).seq = nextSeq
        BY <1>1, <1>6, NewRecordType DEF Append, TypeOK, TaskTypeOK
    <2>2. op'[c].seq = nextSeq /\ \E r \in wal' : r.seq = nextSeq
        BY <1>2, <1>6, <2>1 DEF Append
    <2> QED
        BY <1>1, <1>2, <1>6, <2>2, AssignStep DEF Append
<1>7. CASE AppendRefused(c)
    BY <1>1, <1>2, <1>3, <1>7, QuietStep
       DEF AppendRefused, StopWrites, Leave, coverVars, Applying
<1>8. CASE AppendFails(c)
    BY <1>1, <1>2, <1>8, AssignStep DEF AppendFails, StopWrites, Leave
<1>9. CASE AppendUnsynced(c)
    BY <1>1, <1>2, <1>9, AssignStep DEF AppendUnsynced, StopWrites, Leave
<1>10. CASE DeleteLexical(c)
    BY <1>1, <1>2, <1>3, <1>10, QuietStep DEF DeleteLexical, coverVars, Applying
<1>11. CASE DeleteVector(c)
    BY <1>1, <1>2, <1>3, <1>11, QuietStep DEF DeleteVector, coverVars, Applying
<1>12. CASE StoreDocument(c)
    BY <1>1, <1>2, <1>3, <1>12, QuietStep DEF StoreDocument, coverVars, Applying
<1>13. CASE InsertLexical(c)
    BY <1>1, <1>2, <1>3, <1>13, QuietStep DEF InsertLexical, coverVars, Applying
<1>14. CASE InsertVector(c)
    BY <1>1, <1>2, <1>3, <1>14, QuietStep DEF InsertVector, coverVars, Applying
<1>15. CASE ApplyFails(c)
    BY <1>1, <1>2, <1>3, <1>15, QuietStep
       DEF ApplyFails, StopWrites, Leave, coverVars, Applying
<1>16. CASE FinishMutation(c)
    BY <1>1, <1>16, FinishStep
<1>17. CASE Acknowledge(c)
    BY <1>1, <1>2, <1>3, <1>17, QuietStep
       DEF Acknowledge, Leave, coverVars, Applying
<1>18. CASE AcknowledgeFails(c)
    BY <1>1, <1>2, <1>3, <1>18, QuietStep
       DEF AcknowledgeFails, Leave, coverVars, Applying
<1> QED
    BY <1>4, <1>5, <1>6, <1>7, <1>8, <1>9, <1>10, <1>11, <1>12, <1>13, <1>14,
       <1>15, <1>16, <1>17, <1>18 DEF Mutate

\* A step of ladder l, which began before the process closed, keeps the
\* invariant: what it records is at or below the watermark, and what it
\* drops from the log is at or below its snapshot.
LEMMA LadderStep ==
    ASSUME CoverInv, TypeOK', mode # "closed", NEW l \in Ladders,
           UNCHANGED <<watermark, finishedAbove, nextSeq, unfinished,
                       clientVars>>,
           snap' = [snap EXCEPT ![l] = snap'[l]],
           snap'[l] \in {0, snap[l], watermark},
           lexCkpt' \in {lexCkpt, snap[l]},
           vecPend' \in {vecPend, snap[l]},
           vecCkpt' \in {vecCkpt, vecPend'},
           Above(wal, snap[l]) \subseteq wal',
           mode' \in {mode, "failed", "open"}
    PROVE  CoverInv'
<1> USE DEF CoverInv
<1>1. /\ watermark \in Nat /\ finishedAbove \subseteq Nat
      /\ unfinished \subseteq Nat /\ lexCkpt \in Nat /\ vecCkpt \in Nat
      /\ vecPend \in Nat /\ snap \in [Ladders -> Nat]
    BY DEF TypeOK, LogTypeOK, StoreTypeOK, TaskTypeOK, EngineTypeOK
<1>2. Running /\ Running' /\ mode' # "closed"
    BY DEF Running, TypeOK, EngineTypeOK
<1>3. ClosedIsFresh' /\ NumbersAssigned' /\ NoGap'
    BY <1>2 DEF ClosedIsFresh, NumbersAssigned, NoGap, LastSeq
<1>4. RecordedCovered'
    BY <1>1, <1>2 DEF RecordedCovered
<1>5. ApplyingLogged'
    <2>1. \A r \in wal : r.seq > snap[l] => r \in wal'
        BY DEF Above
    <2>2. \A seq \in unfinished : seq > snap[l]
        BY <1>1 DEF NumbersAssigned, RecordedCovered
    <2> QED
        BY <2>1, <2>2 DEF ApplyingLogged, clientVars
<1> QED
    BY <1>3, <1>4, <1>5

\* A step of the commit ladder keeps the invariant.
LEMMA CommitCover ==
    ASSUME CoverInv, NEW l \in Ladders, Commit(l)
    PROVE  CoverInv'
<1> USE DEF appliedVars, walVars, lexVars, vecVars, docVars, storeVars,
            ladderVars, engineVars, ghostVars
<1>1. TypeOK /\ TypeOK'
    BY CommitType DEF CoverInv
<1>2. snap \in [Ladders -> Nat] /\ snap = [snap EXCEPT ![l] = snap[l]]
    BY <1>1 DEF TypeOK, TaskTypeOK
<1>3. lpc[l] # "idle" => mode # "closed"
    BY DEF CoverInv, ClosedIsFresh
<1>4. Above(wal, snap[l]) \subseteq wal
    BY DEF Above
<1>5. CASE LadderCheck(l)
    BY <1>1, <1>2, <1>4, <1>5, LadderStep DEF LadderCheck
<1>6. CASE LadderSnapshot(l)
    BY <1>1, <1>2, <1>3, <1>4, <1>6, LadderStep DEF LadderSnapshot, SnapshotOf
<1> USE DEF LadderGoesOn, LadderReturns, LadderSucceeds, LadderGivesUp
<1>7. CASE LadderFlush(l)
    BY <1>1, <1>2, <1>3, <1>4, <1>7, LadderStep DEF LadderFlush
<1>8. CASE LadderLexical(l)
    <2>1. lexCkpt' \in {lexCkpt, snap[l]}
        BY <1>8 DEF LadderLexical, LexicalCommits, LexicalCommitFails, Larger
    <2> QED
        BY <1>1, <1>2, <1>3, <1>4, <1>8, <2>1, LadderStep DEF LadderLexical
<1>9. CASE LadderVector(l)
    <2>1. /\ vecPend' \in {vecPend, snap[l]}
          /\ vecCkpt' \in {vecCkpt, vecPend'}
        BY <1>9 DEF LadderVector, VectorCommits, VectorCommitFails, Larger
    <2> QED
        BY <1>1, <1>2, <1>3, <1>4, <1>9, <2>1, LadderStep DEF LadderVector
<1>10. CASE LadderDocs(l)
    BY <1>1, <1>2, <1>3, <1>4, <1>10, LadderStep DEF LadderDocs
<1>11. CASE LadderTruncate(l)
    <2>1. Above(wal, snap[l]) \subseteq wal'
        BY <1>4, <1>11 DEF LadderTruncate, Retained
    <2> QED
        BY <1>1, <1>2, <1>3, <1>11, <2>1, LadderStep DEF LadderTruncate
<1> QED
    BY <1>5, <1>6, <1>7, <1>8, <1>9, <1>10, <1>11 DEF Commit

\* The end of a process leaves a fresh, closed index.
LEMMA EndCover ==
    ASSUME CoverInv, CloseEngine \/ \E kind \in CrashKinds : Crash(kind)
    PROVE  CoverInv'
<1>1. TypeOK'
    BY EndType DEF CoverInv
<1>2. Volatile
    BY DEF CloseEngine, Crash
<1>3. ClosedIsFresh'
    BY <1>2 DEF Volatile, ClosedIsFresh
<1>4. NumbersAssigned' /\ RecordedCovered'
    BY <1>1, <1>2 DEF Volatile, NumbersAssigned, RecordedCovered, Running,
                      TypeOK, LogTypeOK
<1>5. ApplyingLogged' /\ NoGap'
    BY <1>2 DEF Volatile, ApplyingLogged, NoGap, Running, Applying
<1> QED
    BY <1>1, <1>3, <1>4, <1>5 DEF CoverInv

\* Recovery starts the watermark at the log's last number, at or above both
\* checkpoints.
LEMMA OpenCover ==
    ASSUME CoverInv, Open
    PROVE  CoverInv'
<1> USE DEF CoverInv
<1>1. TypeOK'
    BY OpenType
<1>2. PICK top \in {lexCkpt, vecCkpt} \cup SeqsOf(wal) :
          /\ IsTop(top, {lexCkpt, vecCkpt} \cup SeqsOf(wal))
          /\ nextSeq' = top + 1
          /\ RaiseTo(top)
    BY DEF Open
<1>3. top \in Nat /\ lexCkpt <= top /\ vecCkpt <= top
    BY <1>2 DEF IsTop, SeqsOf, Records, TypeOK, LogTypeOK, StoreTypeOK
<1>4. /\ watermark = 0 /\ finishedAbove = {} /\ unfinished = {}
      /\ \A c \in Clients : pc[c] = "idle"
      /\ \A l \in Ladders : snap[l] = 0
    BY DEF Open, ClosedIsFresh
<1>5. watermark' = top /\ finishedAbove' = {}
    BY <1>2, <1>3, <1>4, RaiseFromZero
<1>6. /\ UNCHANGED <<lexCkpt, vecCkpt, pc, snap, unfinished>>
      /\ vecPend' = vecCkpt /\ mode' # "closed"
    BY DEF Open, clientVars, ghostVars
<1>7. ClosedIsFresh'
    BY <1>6 DEF ClosedIsFresh
<1>8. NumbersAssigned' /\ RecordedCovered'
    BY <1>2, <1>3, <1>4, <1>5, <1>6 DEF NumbersAssigned, RecordedCovered
<1>9. ApplyingLogged'
    BY <1>4, <1>6 DEF ApplyingLogged, Applying
<1>10. NoGap'
    BY <1>2, <1>3, <1>5 DEF NoGap, LastSeq
<1> QED
    BY <1>1, <1>7, <1>8, <1>9, <1>10

\* Every step keeps the invariant.
LEMMA NextCover == CoverInv /\ [Next]_vars => CoverInv'
<1> SUFFICES ASSUME CoverInv, [Next]_vars PROVE CoverInv'
    OBVIOUS
<1>1. TypeOK'
    BY NextType DEF CoverInv
<1>2. ASSUME NEW c \in Clients, Mutate(c) PROVE CoverInv'
    BY <1>2, MutateCover
<1>3. ASSUME NEW l \in Ladders, Commit(l) PROVE CoverInv'
    BY <1>3, CommitCover
<1>4. CASE CloseEngine \/ \E kind \in CrashKinds : Crash(kind)
    BY <1>4, EndCover
<1>5. CASE Open
    BY <1>5, OpenCover
<1>6. CASE OpenFails
    <2>1. UNCHANGED coverVars /\ UNCHANGED clientVars
        BY <1>6 DEF OpenFails, coverVars, appliedVars, vecVars, ladderVars,
                    engineVars, ghostVars
    <2> QED
        BY <1>1, <2>1
           DEF CoverInv, coverVars, clientVars, ClosedIsFresh, Running,
               NumbersAssigned, RecordedCovered, ApplyingLogged, NoGap, LastSeq
<1>7. CASE FlushCall \/ UNCHANGED vars
    <2>1. UNCHANGED coverVars /\ UNCHANGED clientVars
        BY <1>7 DEF FlushCall, coverVars, vars, appliedVars, walVars, lexVars,
                    vecVars, storeVars, clientVars, ladderVars, engineVars,
                    ghostVars
    <2> QED
        BY <1>1, <2>1
           DEF CoverInv, coverVars, clientVars, ClosedIsFresh, Running,
               NumbersAssigned, RecordedCovered, ApplyingLogged, NoGap, LastSeq
<1> QED
    BY <1>2, <1>3, <1>4, <1>5, <1>6, <1>7 DEF Next

\* The initial state has the invariant.
LEMMA InitCover == Init => CoverInv
<1> SUFFICES ASSUME Init PROVE CoverInv
    OBVIOUS
<1>1. TypeOK
    BY InitType
<1>2. ClosedIsFresh /\ NumbersAssigned
    BY DEF Init, AppliedInit, ClosedIsFresh, NumbersAssigned
<1>3. RecordedCovered /\ ApplyingLogged /\ NoGap
    BY DEF Init, AppliedInit, RecordedCovered, ApplyingLogged, NoGap, Running,
           Applying
<1> QED
    BY <1>1, <1>2, <1>3 DEF CoverInv

\* The invariant holds in every reachable state.
THEOREM CoverInvariant == Spec => []CoverInv
BY InitCover, NextCover, PTL DEF Spec

\* No checkpoint on disk or about to be, and no running commit's snapshot,
\* reaches the number of a mutation that has not finished or that the log
\* will assign; and the record of a mutation being applied is in the log
\* (engine.rs, run_commit_ladder and Applying; Issues #1499, #1502).
THEOREM NoCheckpointPassesUnfinished == Spec => []CheckpointSound
<1>1. CoverInv => CheckpointSound
    <2> SUFFICES ASSUME CoverInv, Running PROVE CheckpointSound
        BY DEF CheckpointSound
    <2>1. /\ watermark \in Nat /\ nextSeq \in Nat /\ finishedAbove \subseteq Nat
          /\ unfinished \subseteq Nat /\ lexCkpt \in Nat /\ vecCkpt \in Nat
          /\ vecPend \in Nat /\ snap \in [Ladders -> Nat]
        BY DEF CoverInv, TypeOK, LogTypeOK, StoreTypeOK, TaskTypeOK,
               EngineTypeOK
    <2>2. \A seq \in unfinished \cup {nextSeq} :
              seq \in Nat /\ seq > watermark /\ seq \notin finishedAbove
        BY <2>1 DEF CoverInv, NumbersAssigned
    <2> QED
        BY <2>1, <2>2 DEF CoverInv, CheckpointSound, RecordedCovered,
                          ApplyingLogged
<1> QED
    BY <1>1, CoverInvariant, PTL

\* The watermark is held back only by a mutation that has not finished: with
\* none, a commit's snapshot covers the whole log (engine/applied_seqs.rs).
THEOREM WatermarkExact == Spec => []WatermarkTight
<1>1. CoverInv => WatermarkTight
    BY DEF CoverInv, TypeOK, LogTypeOK, NumbersAssigned, NoGap, LastSeq,
           WatermarkTight
<1> QED
    BY <1>1, CoverInvariant, PTL

-----------------------------------------------------------------------------
(* Nothing is logged for an id one of whose mutations failed.              *)

\* At most one client holds an id's lock.
IdLocked ==
    \A c, d \in Clients, id \in Ids :
        HoldsId(c, id) /\ HoldsId(d, id) => c = d

\* A failure stopped writes, and a client that passed the last check of the
\* stop before it is not about to write the id that failed.
FailureStops ==
    /\ failed # {} => stop
    /\ \A c \in Clients : pc[c] = "locked" => op[c].id \notin failed

StopInv == TypeOK /\ IdLocked /\ FailureStops

\* A client's step that leaves it with the id it had, or none, and no closer
\* to its append, keeps the invariant, also when it fails.
LEMMA SameIdStep ==
    ASSUME StopInv, TypeOK', NEW c \in Clients,
           \A d \in Clients \ {c} : pc'[d] = pc[d] /\ op'[d] = op[d],
           \/ pc'[c] = "idle"
           \/ /\ pc[c] # "idle" /\ pc'[c] # "locked"
              /\ op'[c].id = op[c].id
              /\ pc[c] = "acknowledge" => pc'[c] = "acknowledge"
              /\ op'[c].kind = op[c].kind,
           \/ UNCHANGED <<stop, failed>>
           \/ /\ stop' /\ failed' = failed \cup {op[c].id}
              /\ pc[c] \notin {"idle", "acknowledge"}
    PROVE  StopInv'
<1>1. \A d \in Clients, id \in Ids : HoldsId(d, id)' => HoldsId(d, id)
    BY DEF HoldsId
<1>2. IdLocked'
    BY <1>1 DEF StopInv, IdLocked
<1>3. FailureStops'
    <2>1. failed' # {} => stop'
        BY DEF StopInv, FailureStops
    <2>2. ASSUME NEW d \in Clients, pc'[d] = "locked"
          PROVE  op'[d].id \notin failed'
        <3>1. d # c /\ pc[d] = "locked" /\ op'[d] = op[d]
            BY <2>2
        <3>2. op[d].id \notin failed
            BY <3>1 DEF StopInv, FailureStops
        <3>3. CASE pc[c] \notin {"idle", "acknowledge"}
            <4>1. op[d] \in Ops /\ op[d].id \in Ids
                BY <3>1 DEF StopInv, TypeOK, TaskTypeOK, Ops
            <4>2. HoldsId(d, op[d].id)
                BY <3>1 DEF HoldsId
            <4>3. op[c].id = op[d].id => HoldsId(c, op[d].id)
                BY <3>3 DEF HoldsId
            <4>4. op[c].id # op[d].id
                BY <3>1, <4>1, <4>2, <4>3 DEF StopInv, IdLocked
            <4> QED
                BY <3>1, <3>2, <4>4
        <3> QED
            BY <3>1, <3>2, <3>3
    <2> QED
        BY <2>1, <2>2 DEF FailureStops
<1> QED
    BY <1>2, <1>3 DEF StopInv

\* A step of a client's mutation keeps the invariant.
LEMMA MutateStop ==
    ASSUME StopInv, NEW c \in Clients, Mutate(c)
    PROVE  StopInv'
<1> USE DEF storeVars, clientVars, engineVars, ghostVars
<1>1. TypeOK /\ TypeOK'
    BY MutateType DEF StopInv
<1>2. /\ pc \in [Clients -> Steps] /\ op \in [Clients -> Ops \cup {NoOp}]
      /\ pc[c] # "idle" => op[c] \in Ops
    BY <1>1 DEF TypeOK, TaskTypeOK
<1>3. ASSUME NEW kind \in Kinds, NEW id \in Ids, Begin(c, kind, id)
      PROVE  StopInv'
    <2>1. /\ op'[c].id = id /\ pc'[c] # "locked"
          /\ \A d \in Clients \ {c} : pc'[d] = pc[d] /\ op'[d] = op[d]
          /\ \A d \in Clients : ~HoldsId(d, id)
          /\ UNCHANGED <<stop, failed>>
        BY <1>2, <1>3 DEF Begin, IdFree
    <2>2. \A d \in Clients \ {c}, other \in Ids :
              HoldsId(d, other)' => HoldsId(d, other)
        BY <2>1 DEF HoldsId
    <2>3. \A other \in Ids : HoldsId(c, other)' => other = id
        BY <2>1 DEF HoldsId
    <2>4. IdLocked'
        BY <2>1, <2>2, <2>3 DEF StopInv, IdLocked
    <2>5. FailureStops'
        BY <2>1 DEF StopInv, FailureStops
    <2> QED
        BY <1>1, <2>4, <2>5 DEF StopInv
<1>4. CASE Lock(c)
    <2>1. CASE stop
        BY <1>1, <1>2, <1>4, <2>1, SameIdStep DEF Lock, Leave, Stopped
    <2>2. CASE ~stop
        <3>1. /\ pc[c] = "prepared" /\ pc' = [pc EXCEPT ![c] = "locked"]
              /\ UNCHANGED <<op, stop, failed>>
            BY <1>4, <2>2 DEF Lock, Stopped
        <3>2. \A d \in Clients, id \in Ids : HoldsId(d, id)' => HoldsId(d, id)
            BY <1>2, <3>1 DEF HoldsId
        <3>3. IdLocked'
            BY <3>2 DEF StopInv, IdLocked
        <3>4. FailureStops'
            BY <2>2, <3>1 DEF StopInv, FailureStops
        <3> QED
            BY <1>1, <3>3, <3>4 DEF StopInv
    <2> QED
        BY <2>1, <2>2
<1>5. CASE Append(c)
    <2>1. NewRecord(c).id = op[c].id /\ NewRecord(c).kind = op[c].kind
        BY <1>1, <1>2, <1>5, NewRecordType DEF Append
    <2> QED
        BY <1>1, <1>2, <1>5, <2>1, SameIdStep DEF Append
<1>6. CASE AppendRefused(c)
    BY <1>1, <1>2, <1>6, SameIdStep DEF AppendRefused, StopWrites, Leave
<1>7. CASE AppendFails(c)
    BY <1>1, <1>2, <1>7, SameIdStep DEF AppendFails, StopWrites, Leave
<1>8. CASE AppendUnsynced(c)
    BY <1>1, <1>2, <1>8, SameIdStep DEF AppendUnsynced, StopWrites, Leave
<1>9. CASE DeleteLexical(c)
    BY <1>1, <1>2, <1>9, SameIdStep DEF DeleteLexical
<1>10. CASE DeleteVector(c)
    BY <1>1, <1>2, <1>10, SameIdStep DEF DeleteVector
<1>11. CASE StoreDocument(c)
    BY <1>1, <1>2, <1>11, SameIdStep DEF StoreDocument
<1>12. CASE InsertLexical(c)
    BY <1>1, <1>2, <1>12, SameIdStep DEF InsertLexical
<1>13. CASE InsertVector(c)
    BY <1>1, <1>2, <1>13, SameIdStep DEF InsertVector
<1>14. CASE ApplyFails(c)
    BY <1>1, <1>2, <1>14, SameIdStep
       DEF ApplyFails, StopWrites, Leave, Applying
<1>15. CASE FinishMutation(c)
    BY <1>1, <1>2, <1>15, SameIdStep DEF FinishMutation
<1>16. CASE Acknowledge(c)
    BY <1>1, <1>2, <1>16, SameIdStep DEF Acknowledge, Leave
<1>17. CASE AcknowledgeFails(c)
    BY <1>1, <1>2, <1>17, SameIdStep DEF AcknowledgeFails, Leave
<1> QED
    BY <1>3, <1>4, <1>5, <1>6, <1>7, <1>8, <1>9, <1>10, <1>11, <1>12, <1>13,
       <1>14, <1>15, <1>16, <1>17 DEF Mutate

\* Every step keeps the invariant.
LEMMA NextStop == StopInv /\ [Next]_vars => StopInv'
<1> SUFFICES ASSUME StopInv, [Next]_vars PROVE StopInv'
    OBVIOUS
<1>1. TypeOK'
    BY NextType DEF StopInv
<1>2. ASSUME NEW c \in Clients, Mutate(c) PROVE StopInv'
    BY <1>2, MutateStop
<1>3. CASE Volatile
    BY <1>1, <1>3 DEF Volatile, StopInv, IdLocked, FailureStops, HoldsId
<1>4. CASE UNCHANGED <<pc, op, stop, failed>>
    BY <1>1, <1>4 DEF StopInv, IdLocked, FailureStops, HoldsId
<1>5. ASSUME NEW l \in Ladders, Commit(l)
      PROVE  UNCHANGED <<pc, op, stop, failed>>
    BY <1>5 DEF Commit, LadderCheck, LadderSnapshot, LadderFlush,
                LadderLexical, LadderVector, LadderDocs, LadderTruncate,
                LadderGoesOn, LadderReturns, LadderSucceeds, LadderGivesUp,
                clientVars, engineVars, ghostVars
<1>6. ASSUME Open \/ OpenFails \/ FlushCall \/ UNCHANGED vars
      PROVE  UNCHANGED <<pc, op, stop, failed>>
    BY <1>6 DEF Open, OpenFails, FlushCall, vars, clientVars, engineVars,
                ghostVars
<1>7. CloseEngine \/ (\E kind \in CrashKinds : Crash(kind)) => Volatile
    BY DEF CloseEngine, Crash
<1> QED
    BY <1>2, <1>3, <1>4, <1>5, <1>6, <1>7 DEF Next

\* The invariant holds in every reachable state.
THEOREM StopInvariant == Spec => []StopInv
<1>1. Init => StopInv
    BY InitType DEF Init, StopInv, IdLocked, FailureStops, HoldsId
<1> QED
    BY <1>1, NextStop, PTL DEF Spec

\* What a step adds to the log is the record of a client that holds its id
\* and passed the last check of the stop.
LEMMA AppendsOwnRecord ==
    ASSUME TypeOK, [Next]_vars, NEW r \in wal' \ wal
    PROVE  \E c \in Clients : pc[c] = "locked" /\ r.id = op[c].id
<1>1. ASSUME NEW c \in Clients, Append(c) \/ AppendUnsynced(c)
      PROVE  pc[c] = "locked" /\ r.id = op[c].id
    <2>1. pc[c] = "locked" /\ wal' = wal \cup {NewRecord(c)}
        BY <1>1 DEF Append, AppendUnsynced
    <2>2. op[c] \in Ops
        BY <2>1 DEF TypeOK, TaskTypeOK
    <2>3. NewRecord(c).id = op[c].id
        BY <2>2, NewRecordType
    <2> QED
        BY <2>1, <2>3
<1>2. ASSUME NEW c \in Clients, Mutate(c), ~Append(c), ~AppendUnsynced(c)
      PROVE  FALSE
    BY <1>2 DEF Mutate, Begin, Lock, AppendRefused, AppendFails,
                DeleteLexical, DeleteVector, StoreDocument, InsertLexical,
                InsertVector, ApplyFails, FinishMutation, Acknowledge,
                AcknowledgeFails, walVars
<1>3. ASSUME NEW l \in Ladders, Commit(l) PROVE FALSE
    BY <1>3 DEF Commit, LadderCheck, LadderSnapshot, LadderFlush,
                LadderLexical, LadderVector, LadderDocs, LadderTruncate,
                Retained, Above, walVars
<1>4. ASSUME \/ CloseEngine \/ \E kind \in CrashKinds : Crash(kind)
             \/ Open \/ OpenFails \/ FlushCall \/ UNCHANGED vars
      PROVE  FALSE
    BY <1>4 DEF CloseEngine, Crash, Open, OpenFails, FlushCall, vars, walVars
<1> QED
    BY <1>1, <1>2, <1>3, <1>4 DEF Next

\* Once a mutation of an id failed at or after its append, no record is
\* logged for that id until the index is reopened, although other clients
\* may append once more (engine.rs, WriteStop; Issue #1492).
THEOREM FailedIdIsNotWritten == Spec => NoWriteOverFailed
<1>1. StopInv /\ [Next]_vars => [\A r \in wal' \ wal : r.id \notin failed]_vars
    BY AppendsOwnRecord DEF StopInv, FailureStops
<1> QED
    BY <1>1, StopInvariant, PTL DEF Spec, NoWriteOverFailed

-----------------------------------------------------------------------------
(* The log is the end of the history.                                      *)

\* What the log lacks, the vector store's checkpoint covers, and it comes
\* before what the log has.
LogIsSuffix ==
    /\ wal \subseteq history
    /\ \A r \in history \ wal :
           r.seq <= vecCkpt /\ \A s \in wal : r.seq < s.seq

\* Numbers are not reused.
SeqsDistinct ==
    /\ \A r \in wal : r.seq < nextSeq
    /\ Running => \A r \in history : r.seq < nextSeq
    /\ \A r, s \in history : r.seq = s.seq => r = s

\* What the vector store will publish is no less than what it has, and a
\* ladder that committed it has published its snapshot.
Published ==
    /\ Running => vecCkpt <= vecPend
    /\ \A l \in Ladders : lpc[l] \in {"docs", "truncate"} => snap[l] <= vecCkpt

LogInv == CoverInv /\ LogIsSuffix /\ SeqsDistinct /\ Published

\* A client's step keeps the invariant.
LEMMA MutateLog ==
    ASSUME LogInv, NEW c \in Clients, Mutate(c)
    PROVE  LogInv'
<1> USE DEF appliedVars, walVars, lexVars, vecVars, storeVars, ladderVars,
            engineVars, ghostVars
<1>1. CoverInv'
    BY MutateCover DEF LogInv
<1>2. /\ nextSeq \in Nat /\ vecCkpt \in Nat /\ vecPend \in Nat
      /\ history \subseteq Records /\ wal \subseteq history
      /\ \A r \in history : r.seq \in Nat
    BY DEF LogInv, LogIsSuffix, CoverInv, TypeOK, LogTypeOK, StoreTypeOK,
           EngineTypeOK, Records
<1>3. UNCHANGED <<vecCkpt, vecPend, lpc, snap, mode>>
    BY DEF Mutate, Begin, Lock, Append, AppendRefused, AppendFails,
           AppendUnsynced, DeleteLexical, DeleteVector, StoreDocument,
           InsertLexical, InsertVector, ApplyFails, FinishMutation,
           Acknowledge, AcknowledgeFails, StopWrites
<1>4. Published'
    BY <1>3 DEF LogInv, Published, Running
<1>5. CASE Append(c) \/ AppendUnsynced(c)
    <2>1. pc[c] = "locked" /\ nextSeq' = nextSeq + 1
        BY <1>5 DEF Append, AppendUnsynced, AssignNumbers
    <2>2. Running
        BY <2>1 DEF LogInv, CoverInv, ClosedIsFresh, Running, TypeOK,
                    EngineTypeOK
    <2>3. NewRecord(c).seq = nextSeq
        BY <2>1, NewRecordType DEF LogInv, CoverInv, TypeOK, TaskTypeOK
    <2> DEFINE new == NewRecord(c)
    <2>4. wal' = wal \cup {new} /\ history' = history \cup {new}
        BY <1>5 DEF Append, AppendUnsynced
    <2> HIDE DEF new
    <2>5. \A r \in history : r.seq < nextSeq
        BY <2>2 DEF LogInv, SeqsDistinct
    <2>6. LogIsSuffix'
        BY <1>2, <1>3, <2>3, <2>4, <2>5 DEF LogInv, LogIsSuffix, new
    <2>7. SeqsDistinct'
        BY <1>2, <1>3, <2>1, <2>2, <2>3, <2>4, <2>5
           DEF LogInv, SeqsDistinct, new
    <2> QED
        BY <1>1, <1>4, <2>6, <2>7 DEF LogInv
<1>6. CASE AppendFails(c)
    <2>1. UNCHANGED <<wal, history>> /\ nextSeq' = nextSeq + 1
        BY <1>6 DEF AppendFails, AssignNumbers
    <2>2. LogIsSuffix' /\ SeqsDistinct'
        BY <1>2, <1>3, <2>1 DEF LogInv, LogIsSuffix, SeqsDistinct, Running
    <2> QED
        BY <1>1, <1>4, <2>2 DEF LogInv
<1>7. CASE ~Append(c) /\ ~AppendUnsynced(c) /\ ~AppendFails(c)
    <2>1. UNCHANGED <<wal, history, nextSeq>>
        BY <1>7 DEF Mutate, Begin, Lock, AppendRefused,
               DeleteLexical, DeleteVector, StoreDocument,
               InsertLexical, InsertVector, ApplyFails, FinishMutation,
               Acknowledge, AcknowledgeFails
    <2>2. LogIsSuffix' /\ SeqsDistinct'
        BY <1>3, <2>1 DEF LogInv, LogIsSuffix, SeqsDistinct, Running
    <2> QED
        BY <1>1, <1>4, <2>2 DEF LogInv
<1> QED
    BY <1>5, <1>6, <1>7

\* A step of the commit ladder keeps the invariant: what it drops from the
\* log the vector store has published.
LEMMA CommitLog ==
    ASSUME LogInv, NEW l \in Ladders, Commit(l)
    PROVE  LogInv'
<1> USE DEF appliedVars, walVars, lexVars, vecVars, storeVars, ladderVars,
            engineVars, ghostVars, LadderGoesOn, LadderReturns,
            LadderSucceeds, LadderGivesUp
<1>1. CoverInv'
    BY CommitCover DEF LogInv
<1>2. /\ nextSeq \in Nat /\ vecCkpt \in Nat /\ vecPend \in Nat
      /\ lpc \in [Ladders -> LadderSteps] /\ snap \in [Ladders -> Nat]
      /\ wal \subseteq history /\ \A r \in history : r.seq \in Nat
    BY DEF LogInv, LogIsSuffix, CoverInv, TypeOK, LogTypeOK, StoreTypeOK,
           TaskTypeOK, EngineTypeOK, Records
<1>3. Running
    BY DEF LogInv, CoverInv, ClosedIsFresh, Running, TypeOK, EngineTypeOK,
           Commit, LadderCheck, LadderSnapshot, LadderFlush, LadderLexical,
           LadderVector, LadderDocs, LadderTruncate
<1>4. UNCHANGED <<nextSeq, history>>
    BY DEF Commit, LadderCheck, LadderSnapshot, LadderFlush, LadderLexical,
           LadderVector, LadderDocs, LadderTruncate
<1>5. vecCkpt' >= vecCkpt /\ vecCkpt' <= vecPend'
      /\ \A k \in Ladders \ {l} : lpc'[k] = lpc[k] /\ snap'[k] = snap[k]
    BY <1>2, <1>3
       DEF LogInv, Published, Commit, LadderCheck, LadderSnapshot,
           LadderFlush, LadderLexical, LadderVector, LadderDocs,
           LadderTruncate, VectorCommits, VectorCommitFails, Larger
<1>6. lpc'[l] \in {"docs", "truncate"} => snap'[l] <= vecCkpt'
    BY <1>2, <1>3
       DEF LogInv, Published, Commit, LadderCheck, LadderSnapshot,
           LadderFlush, LadderLexical, LadderVector, LadderDocs,
           LadderTruncate, VectorCommits, VectorCommitFails, Larger
<1>7. Published'
    <2>1. vecCkpt' \in Nat /\ snap' \in [Ladders -> Nat]
        BY <1>1 DEF CoverInv, TypeOK, StoreTypeOK, TaskTypeOK
    <2>2. ASSUME NEW k \in Ladders, lpc'[k] \in {"docs", "truncate"}
          PROVE  snap'[k] <= vecCkpt'
        BY <1>2, <1>5, <1>6, <2>1, <2>2 DEF LogInv, Published
    <2> QED
        BY <1>5, <2>2 DEF Published
<1>8. wal' \in {wal, Above(wal, snap[l])}
      /\ (wal' # wal => snap[l] <= vecCkpt /\ vecCkpt' = vecCkpt)
    BY DEF LogInv, Published, Commit, LadderCheck, LadderSnapshot,
           LadderFlush, LadderLexical, LadderVector, LadderDocs,
           LadderTruncate, Retained
<1>9. vecCkpt' \in Nat
    BY <1>1 DEF CoverInv, TypeOK, StoreTypeOK
<1>10. LogIsSuffix'
    <2>1. CASE wal' = wal
        BY <1>2, <1>4, <1>5, <1>9, <2>1 DEF LogInv, LogIsSuffix
    <2>2. CASE wal' # wal
        <3>1. wal' = Above(wal, snap[l]) /\ snap[l] <= vecCkpt
              /\ vecCkpt' = vecCkpt /\ snap[l] \in Nat
            BY <1>2, <1>8, <2>2
        <3> QED
            BY <1>2, <1>4, <3>1 DEF LogInv, LogIsSuffix, Above
    <2> QED
        BY <2>1, <2>2
<1>11. SeqsDistinct'
    BY <1>3, <1>4, <1>8 DEF LogInv, SeqsDistinct, Above
<1> QED
    BY <1>1, <1>7, <1>10, <1>11 DEF LogInv

\* The end of a process takes from the log and the history alike, and a
\* reopened log goes on above both.
LEMMA EndLog ==
    ASSUME LogInv, CloseEngine \/ (\E kind \in CrashKinds : Crash(kind))
                   \/ Open \/ OpenFails
    PROVE  LogInv'
<1>1. /\ nextSeq \in Nat /\ vecCkpt \in Nat
      /\ wal \subseteq history /\ \A r \in history : r.seq \in Nat
      /\ history \subseteq Records
    BY DEF LogInv, LogIsSuffix, CoverInv, TypeOK, LogTypeOK, StoreTypeOK,
           EngineTypeOK, Records
<1>2. CASE CloseEngine
    <2>1. CoverInv'
        BY <1>2, EndCover DEF LogInv
    <2>2. Volatile /\ UNCHANGED <<wal, nextSeq, history>>
        BY <1>2 DEF CloseEngine
    <2>3. Published'
        BY <1>1, <2>2 DEF Published, Volatile, Running
    <2>4. LogIsSuffix' /\ SeqsDistinct'
        BY <2>2 DEF LogInv, LogIsSuffix, SeqsDistinct, Volatile, Running
    <2> QED
        BY <2>1, <2>3, <2>4 DEF LogInv
<1>3. ASSUME NEW kind \in CrashKinds, Crash(kind)
      PROVE  LogInv'
    <2>1. CoverInv'
        BY <1>3, EndCover DEF LogInv
    <2>2. PICK last \in Survivors(kind) :
              /\ wal' = wal \ Above(wal, last)
              /\ history' = history \ Above(wal, last)
              /\ nextSeq' = last + 1
        BY <1>3 DEF Crash
    <2>3. last \in Int
        BY DEF Survivors, LastSeq, LogInv, CoverInv, TypeOK, LogTypeOK
    <2>4. Volatile
        BY <1>3 DEF Crash
    <2>5. Published'
        BY <1>1, <2>4 DEF Published, Volatile, Running
    <2>6. LogIsSuffix'
        BY <2>2, <2>4 DEF LogInv, LogIsSuffix, Volatile
    <2>7. SeqsDistinct'
        BY <1>1, <2>2, <2>3, <2>4
           DEF LogInv, SeqsDistinct, Volatile, Running, Above
    <2> QED
        BY <2>1, <2>5, <2>6, <2>7 DEF LogInv
<1>4. CASE Open
    <2>1. CoverInv'
        BY <1>4, OpenCover DEF LogInv
    <2>2. PICK top \in {lexCkpt, vecCkpt} \cup SeqsOf(wal) :
              /\ IsTop(top, {lexCkpt, vecCkpt} \cup SeqsOf(wal))
              /\ nextSeq' = top + 1
        BY <1>4 DEF Open
    <2>3. /\ UNCHANGED <<wal, history, vecCkpt, snap>> /\ vecPend' = vecCkpt
          /\ \A l \in Ladders : lpc'[l] \in {lpc[l], "snapshot"}
        BY <1>4 DEF Open, ghostVars, LogInv, CoverInv, TypeOK, TaskTypeOK
    <2>4. /\ top \in Nat /\ vecCkpt <= top
          /\ \A r \in wal : r.seq <= top
        BY <1>1, <2>2
           DEF IsTop, SeqsOf, LogInv, CoverInv, TypeOK, StoreTypeOK
    <2>5. Published'
        BY <1>1, <2>3 DEF LogInv, Published
    <2>6. LogIsSuffix'
        BY <2>3 DEF LogInv, LogIsSuffix
    <2>7. SeqsDistinct'
        BY <1>1, <2>2, <2>3, <2>4 DEF LogInv, SeqsDistinct, LogIsSuffix
    <2> QED
        BY <2>1, <2>5, <2>6, <2>7 DEF LogInv
<1>5. CASE OpenFails
    <2>1. CoverInv'
        BY <1>5, NextCover DEF LogInv, Next
    <2>2. UNCHANGED <<wal, history, nextSeq, vecCkpt, vecPend, lpc, snap, mode>>
        BY <1>5 DEF OpenFails, vecVars, ladderVars, engineVars, ghostVars
    <2>3. LogIsSuffix' /\ SeqsDistinct' /\ Published'
        BY <2>2 DEF LogInv, LogIsSuffix, SeqsDistinct, Published, Running
    <2> QED
        BY <2>1, <2>3 DEF LogInv
<1> QED
    BY <1>2, <1>3, <1>4, <1>5

\* Every step keeps the invariant.
LEMMA NextLog == LogInv /\ [Next]_vars => LogInv'
<1> SUFFICES ASSUME LogInv, [Next]_vars PROVE LogInv'
    OBVIOUS
<1>1. ASSUME FlushCall \/ UNCHANGED vars PROVE LogInv'
    <2>1. CoverInv'
        BY NextCover DEF LogInv
    <2>2. UNCHANGED <<wal, history, nextSeq, vecCkpt, vecPend, lpc, snap, mode>>
        BY <1>1 DEF FlushCall, vars, walVars, storeVars, vecVars, ladderVars,
                    engineVars, ghostVars
    <2>3. LogIsSuffix' /\ SeqsDistinct' /\ Published'
        BY <2>2 DEF LogInv, LogIsSuffix, SeqsDistinct, Published, Running
    <2> QED
        BY <2>1, <2>3 DEF LogInv
<1> QED
    BY <1>1, MutateLog, CommitLog, EndLog DEF Next

\* The invariant holds in every reachable state.
THEOREM LogInvariant == Spec => []LogInv
<1>1. Init => LogInv
    BY InitCover DEF Init, LogInv, LogIsSuffix, SeqsDistinct, Published,
                     Running
<1> QED
    BY <1>1, NextLog, PTL DEF Spec

-----------------------------------------------------------------------------
(* What was acknowledged survives.                                         *)

\* A mutation's number was assigned.
OpsBelow == \A c \in Clients : pc[c] # "idle" => op[c].seq < nextSeq

\* An acknowledged record that the log still holds was synced.
AckedSynced ==
    /\ acked \subseteq history
    /\ \A r \in acked \cap wal : r.seq <= flushed /\ r.seq <= synced

\* An acknowledgement goes without a sync only if the handle was closed,
\* which synced what had been appended.
ClosedSynced ==
    ~walOpen => \A c \in Clients : pc[c] # "idle" =>
                    op[c].seq <= flushed /\ op[c].seq <= synced

AckedInv == LogInv /\ OpsBelow /\ AckedSynced /\ ClosedSynced

\* A client's step keeps the invariant.
LEMMA MutateAcked ==
    ASSUME AckedInv, SyncPolicy = "PerRecord", NEW c \in Clients, Mutate(c)
    PROVE  AckedInv'
<1> USE DEF appliedVars, walVars, storeVars, ladderVars, engineVars, ghostVars
<1>1. LogInv /\ LogInv' /\ TypeOK
    BY MutateLog DEF AckedInv, LogInv, CoverInv
<1>2. /\ pc \in [Clients -> Steps] /\ op \in [Clients -> Ops \cup {NoOp}]
      /\ nextSeq \in Nat /\ 0 < nextSeq /\ flushed \in Nat /\ synced \in Nat
      /\ \A d \in Clients : op[d].seq \in Nat
      /\ \A r \in history : r.seq \in Nat
    BY <1>1 DEF TypeOK, TaskTypeOK, LogTypeOK, EngineTypeOK, Ops, NoOp, Records
<1>3. ASSUME UNCHANGED <<wal, nextSeq, flushed, synced, walOpen, history,
                         acked>>,
             \A d \in Clients : pc'[d] # "idle" =>
                 \/ pc[d] # "idle" /\ op'[d].seq = op[d].seq
                 \/ op'[d].seq = 0
      PROVE  AckedInv'
    BY <1>1, <1>2, <1>3 DEF AckedInv, OpsBelow, AckedSynced, ClosedSynced
<1>4. ASSUME pc[c] = "locked", nextSeq' = nextSeq + 1, walOpen', acked' = acked,
             \/ /\ wal' = wal \cup {NewRecord(c)}
                /\ history' = history \cup {NewRecord(c)}
             \/ UNCHANGED <<wal, history>>,
             \/ UNCHANGED <<flushed, synced>>
             \/ flushed' = nextSeq /\ synced' = nextSeq,
             \A d \in Clients \ {c} : pc'[d] = pc[d] /\ op'[d] = op[d],
             pc'[c] = "idle" \/ op'[c].seq = nextSeq
      PROVE  AckedInv'
    <2>1. NewRecord(c).seq = nextSeq
        BY <1>1, <1>4, NewRecordType DEF TypeOK, TaskTypeOK
    <2>2. Running
        BY <1>1, <1>4 DEF LogInv, CoverInv, ClosedIsFresh, Running, TypeOK,
                          EngineTypeOK
    <2>3. \A r \in history : r.seq < nextSeq
        BY <1>1, <2>2 DEF LogInv, SeqsDistinct
    <2>4. \A r \in acked : r \in history /\ r.seq # nextSeq /\ r.seq < nextSeq
        BY <1>2, <2>3 DEF AckedInv, AckedSynced
    <2>5. \A r \in acked : r \in wal' => r \in wal
        BY <1>4, <2>1, <2>4
    <2>6. AckedSynced'
        BY <1>2, <1>4, <2>4, <2>5 DEF AckedInv, AckedSynced
    <2>7. OpsBelow'
        BY <1>2, <1>4 DEF AckedInv, OpsBelow
    <2> QED
        BY <1>1, <1>4, <2>6, <2>7 DEF AckedInv, ClosedSynced
<1>5. ASSUME NEW kind \in Kinds, NEW id \in Ids, Begin(c, kind, id)
      PROVE  AckedInv'
    BY <1>2, <1>3, <1>5 DEF Begin
<1>6. CASE Lock(c)
    BY <1>2, <1>3, <1>6 DEF Lock, Leave
<1>7. CASE Append(c)
    <2>1. NewRecord(c).seq = nextSeq
        BY <1>1, <1>7, NewRecordType DEF Append, TypeOK, TaskTypeOK
    <2> QED
        BY <1>2, <1>4, <1>7, <2>1 DEF Append, AssignNumbers
<1>8. CASE AppendRefused(c)
    BY <1>2, <1>3, <1>8 DEF AppendRefused, StopWrites, Leave
<1>9. CASE AppendFails(c)
    BY <1>2, <1>4, <1>9 DEF AppendFails, AssignNumbers, StopWrites, Leave
<1>10. CASE AppendUnsynced(c)
    BY <1>2, <1>4, <1>10 DEF AppendUnsynced, AssignNumbers, StopWrites, Leave
<1>11. CASE DeleteLexical(c) \/ DeleteVector(c) \/ StoreDocument(c)
            \/ InsertLexical(c) \/ InsertVector(c) \/ FinishMutation(c)
    BY <1>2, <1>3, <1>11
       DEF DeleteLexical, DeleteVector, StoreDocument, InsertLexical,
           InsertVector, FinishMutation
<1>12. CASE ApplyFails(c)
    BY <1>2, <1>3, <1>12 DEF ApplyFails, StopWrites, Leave, Applying
<1>13. CASE Acknowledge(c)
    <2>1. FlushWal
        BY <1>13 DEF Acknowledge, EnsurePerRecordDurability
    <2>2. /\ UNCHANGED <<wal, nextSeq, walOpen, history>>
          /\ acked' = acked \cup {r \in history : r.seq = op[c].seq}
          /\ pc[c] # "idle"
          /\ \A d \in Clients : pc'[d] # "idle" =>
                 pc[d] # "idle" /\ op'[d] = op[d]
        BY <1>2, <1>13 DEF Acknowledge, Leave
    <2>3. wal \subseteq history /\ \A r \in wal : r.seq < nextSeq
        BY <1>1 DEF LogInv, LogIsSuffix, SeqsDistinct
    <2>4. ASSUME NEW r \in acked', r \in wal
          PROVE  r.seq <= flushed' /\ r.seq <= synced'
        <3>1. CASE walOpen
            BY <1>2, <2>1, <2>3, <2>4, <3>1 DEF FlushWal, LastSeq
        <3>2. CASE ~walOpen
            BY <2>1, <2>2, <2>4, <3>2
               DEF FlushWal, AckedInv, AckedSynced, ClosedSynced
        <3> QED
            BY <3>1, <3>2
    <2>5. OpsBelow' /\ AckedSynced'
        BY <2>2, <2>4 DEF AckedInv, OpsBelow, AckedSynced
    <2>6. ClosedSynced'
        BY <2>1, <2>2 DEF FlushWal, AckedInv, ClosedSynced
    <2> QED
        BY <1>1, <2>5, <2>6 DEF AckedInv
<1>14. CASE AcknowledgeFails(c)
    BY <1>2, <1>3, <1>14 DEF AcknowledgeFails, Leave
<1> QED
    BY <1>5, <1>6, <1>7, <1>8, <1>9, <1>10, <1>11, <1>12, <1>13, <1>14
       DEF Mutate

\* Every other step keeps it: a flush syncs all there is, and the end of a
\* process takes nothing that was synced.
LEMMA NextAcked ==
    AckedInv /\ SyncPolicy = "PerRecord" /\ [Next]_vars => AckedInv'
<1> USE DEF appliedVars, walVars, storeVars, ladderVars, engineVars, ghostVars,
            clientVars
<1> SUFFICES ASSUME AckedInv, SyncPolicy = "PerRecord", [Next]_vars
             PROVE  AckedInv'
    OBVIOUS
<1>1. LogInv /\ LogInv'
    BY NextLog DEF AckedInv
<1>2. /\ nextSeq \in Nat /\ flushed \in Nat /\ synced \in Nat
      /\ wal \subseteq history /\ \A r \in history : r.seq \in Nat
      /\ \A r \in wal : r.seq < nextSeq
      /\ \A c \in Clients : op[c].seq \in Nat
    BY <1>1 DEF LogInv, LogIsSuffix, SeqsDistinct, CoverInv, TypeOK,
                LogTypeOK, TaskTypeOK, EngineTypeOK, Records, Ops, NoOp
<1>3. \A r \in acked \cap wal :
          r \in history /\ r.seq <= flushed /\ r.seq <= synced
    BY DEF AckedInv, AckedSynced
<1>4. ASSUME UNCHANGED <<nextSeq, history, acked, pc, op>>, wal' \subseteq wal,
             \/ UNCHANGED <<flushed, synced, walOpen>>
             \/ flushed' = LastSeq /\ synced' = LastSeq
      PROVE  AckedInv'
    <2>1. OpsBelow'
        BY <1>4 DEF AckedInv, OpsBelow
    <2>2. AckedSynced'
        BY <1>2, <1>4 DEF AckedInv, AckedSynced, LastSeq
    <2>3. ClosedSynced'
        BY <1>2, <1>4 DEF AckedInv, ClosedSynced, OpsBelow, LastSeq
    <2> QED
        BY <1>1, <2>1, <2>2, <2>3 DEF AckedInv
<1>5. ASSUME NEW l \in Ladders, Commit(l) PROVE AckedInv'
    BY <1>4, <1>5
       DEF Commit, LadderCheck, LadderSnapshot, LadderFlush, LadderLexical,
           LadderVector, LadderDocs, LadderTruncate, FlushWal, Retained, Above
<1>6. CASE FlushCall \/ UNCHANGED vars
    BY <1>4, <1>6 DEF FlushCall, FlushWal, vars
<1>7. ASSUME \A c \in Clients : pc'[c] = "idle", AckedSynced'
      PROVE  AckedInv'
    BY <1>1, <1>7 DEF AckedInv, OpsBelow, ClosedSynced
<1>8. CASE CloseEngine
    <2>1. /\ Volatile /\ FlushWal /\ UNCHANGED <<wal, history>>
        BY <1>8 DEF CloseEngine
    <2>2. AckedSynced'
        BY <1>2, <1>3, <2>1 DEF AckedInv, AckedSynced, Volatile, FlushWal, LastSeq
    <2> QED
        BY <1>7, <2>1, <2>2 DEF Volatile
<1>9. ASSUME NEW kind \in CrashKinds, Crash(kind) PROVE AckedInv'
    <2>1. PICK last \in Survivors(kind) :
              /\ wal' = wal \ Above(wal, last)
              /\ history' = history \ Above(wal, last)
              /\ flushed' = last
              /\ synced' = IF kind = "process" THEN synced ELSE last
        BY <1>9 DEF Crash
    <2>2. \A r \in acked \cap wal : r.seq <= last
        BY <1>2, <1>3, <2>1 DEF Survivors, LastSeq
    <2>3. Volatile /\ last \in Int
        BY <1>2, <1>9 DEF Crash, Survivors, LastSeq
    <2>4. AckedSynced'
        BY <1>2, <1>3, <2>1, <2>2, <2>3
           DEF AckedInv, AckedSynced, Volatile, Above
    <2> QED
        BY <1>7, <2>3, <2>4 DEF Volatile
<1>10. CASE Open
    <2>1. PICK top \in {lexCkpt, vecCkpt} \cup SeqsOf(wal) :
              /\ IsTop(top, {lexCkpt, vecCkpt} \cup SeqsOf(wal))
              /\ flushed' = top
              /\ synced' = IF torn \/ \A r \in wal : r.seq <= synced
                           THEN top ELSE synced
        BY <1>10 DEF Open
    <2>2. \A r \in wal : r.seq <= top
        BY <2>1 DEF IsTop, SeqsOf
    <2>3. UNCHANGED <<wal, history, acked, pc>> /\ mode = "closed"
        BY <1>10 DEF Open
    <2>4. AckedSynced'
        BY <1>2, <1>3, <2>1, <2>2, <2>3 DEF AckedInv, AckedSynced
    <2> QED
        BY <1>1, <1>7, <2>3, <2>4 DEF LogInv, CoverInv, ClosedIsFresh
<1>11. CASE OpenFails
    <2>1. /\ UNCHANGED <<wal, history, acked, pc, flushed>> /\ mode = "closed"
          /\ synced' = IF torn THEN LastSeq ELSE synced
        BY <1>11 DEF OpenFails
    <2>2. AckedSynced'
        BY <1>2, <1>3, <2>1 DEF AckedInv, AckedSynced, LastSeq
    <2> QED
        BY <1>1, <1>7, <2>1, <2>2 DEF LogInv, CoverInv, ClosedIsFresh
<1> QED
    BY MutateAcked, <1>5, <1>6, <1>8, <1>9, <1>10, <1>11 DEF Next

\* With a sync per record, deferred by a batch or not, a mutation whose
\* caller was told Ok survives every crash of the process or the machine,
\* whatever failed before and after (engine.rs, ensure_per_record_durability;
\* WalSyncPolicy::PerRecord).
THEOREM AcknowledgedSurvives ==
    ASSUME SyncPolicy = "PerRecord"
    PROVE  Spec => []AckedDurable
<1>1. Init => AckedInv
    <2> SUFFICES ASSUME Init PROVE AckedInv
        OBVIOUS
    <2>1. LogInv
        BY InitCover DEF Init, LogInv, LogIsSuffix, SeqsDistinct, Published,
                         Running
    <2>2. OpsBelow /\ AckedSynced /\ ClosedSynced
        BY DEF Init, OpsBelow, AckedSynced, ClosedSynced
    <2> QED
        BY <2>1, <2>2 DEF AckedInv
<1>2. AckedInv => AckedDurable
    <2> SUFFICES ASSUME AckedInv, NEW kind \in CrashKinds,
                        NEW last \in Survivors(kind)
                 PROVE  acked \subseteq RecordsUpTo(last)
        BY DEF AckedDurable
    <2>1. /\ flushed \in Nat /\ synced \in Nat /\ nextSeq \in Nat
          /\ \A r \in history : r.seq \in Nat
        BY DEF AckedInv, LogInv, CoverInv, TypeOK, LogTypeOK, EngineTypeOK,
               Records
    <2>2. \A r \in acked \cap wal : r.seq <= last
        BY <2>1 DEF AckedInv, AckedSynced, Survivors, LastSeq
    <2>3. last \in Int
        BY <2>1 DEF Survivors, LastSeq
    <2> QED
        BY <2>1, <2>2, <2>3 DEF AckedInv, AckedSynced, RecordsUpTo, Above
<1>3. AckedInv /\ [Next]_vars => AckedInv'
    BY NextAcked
<1> QED
    BY <1>1, <1>2, <1>3, PTL DEF Spec

=============================================================================
