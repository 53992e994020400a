------------------------ MODULE EngineRecoveryProofs ------------------------
(***************************************************************************)
(* What Engine promises of its stores, for every number of clients,        *)
(* ladders, ids, records and crashes: consequences of ReplayInv.           *)
(***************************************************************************)
EXTENDS EngineReplayProofs

-----------------------------------------------------------------------------
(* What a crash leaves.                                                    *)

\* No crash takes a record that was flushed.
LEMMA DurableSurvive ==
    ASSUME ReplayInv, WritesThrough, NEW kind \in CrashKinds,
           NEW last \in Survivors(kind)
    PROVE  last \in Int /\ Durable \subseteq RecordsUpTo(last)
<1>1. /\ flushed \in Nat /\ synced \in Nat /\ nextSeq \in Nat
      /\ \A r \in history : r.seq \in Nat
    BY ReplayFacts
<1>2. kind = "process" \/ kind = "power"
    BY CrashKindsAssumption
<1>3. last \in Int /\ \A r \in Durable : r.seq <= last
    <2>1. CASE kind = "process"
        BY <1>1, <2>1 DEF Survivors, LastSeq, Durable
    <2>2. CASE kind = "power"
        <3>1. \A r \in history : r.seq <= synced
            BY <2>2 DEF WritesThrough, ReplayInv, RecordInv, LostHaveFailed
        <3> QED
            BY <1>1, <2>2, <3>1 DEF Survivors, LastSeq, Durable
    <2> QED
        BY <1>2, <2>1, <2>2
<1> QED
    BY <1>1, <1>3 DEF RecordsUpTo, Above, Durable

\* A store's files, with the surviving records above its checkpoint replayed
\* onto them, hold what the surviving records leave live.
LEMMA ReopenedIsLive ==
    ASSUME ReplayInv, WritesThrough, NEW kind \in CrashKinds,
           NEW last \in Survivors(kind), NEW store,
           NEW n \in LexCuts \cup VecCuts,
           Tracks(store, Durable, DurableAbove(n))
    PROVE  ReplayInto(store, Above(wal, n) \ Above(wal, last))
               = Live(RecordsUpTo(last))
<1> DEFINE kept == RecordsUpTo(last)
           pending == Above(wal, n) \ Above(wal, last)
<1>1. /\ history \in SUBSET Records /\ wal \subseteq history
      /\ \A r \in history : r.seq \in Nat
      /\ flushed \in Nat /\ watermark \in Nat
    BY ReplayFacts
<1>2. last \in Int /\ Durable \subseteq kept
    BY DurableSurvive
<1>3. n \in Nat /\ (Running => n <= watermark)
    BY PendingAbove
<1>4. kept \in SUBSET Records /\ pending \in SUBSET kept
    BY <1>1 DEF RecordsUpTo, Above
<1>5. ASSUME NEW r \in kept \ Durable
      PROVE  r \in pending /\ r.seq > flushed
    <2>1. r \in history \ Durable /\ ~(r \in wal /\ r.seq > last)
        BY DEF RecordsUpTo, Above
    <2>2. /\ r.seq > flushed /\ r \in wal /\ Running /\ r.seq \in unfinished
        BY <2>1, PendingAbove
    <2>3. r.seq > watermark
        BY <2>1, <2>2, PendingAbove
    <2> QED
        BY <1>1, <1>3, <2>1, <2>2, <2>3 DEF Above
<1>6. DurableAbove(n) \subseteq pending
    BY <1>2 DEF DurableAbove, RecordsUpTo, Above
<1>7. \A r \in Durable : r.seq <= flushed
    BY DEF Durable
<1>8. \A r \in Durable : \A s \in kept \ Durable : r.seq < s.seq
    BY <1>1, <1>4, <1>5, <1>7 DEF RecordsUpTo, Durable
<1>9. kept \ Durable \subseteq pending
    BY <1>5
<1>10. \A r, s \in kept : r.seq = s.seq => r = s
    BY DEF ReplayInv, LogInv, SeqsDistinct, RecordsUpTo
<1>11. \A p \in pending : \A r \in kept : r.seq > p.seq => r \in pending
    <2> SUFFICES ASSUME NEW p \in pending, NEW r \in kept, r.seq > p.seq
                 PROVE  r \in pending
        OBVIOUS
    <2>1. /\ p \in wal /\ p.seq > n
          /\ r \in history /\ ~(r \in wal /\ r.seq > last)
        BY DEF RecordsUpTo, Above
    <2>2. r \in wal
        BY <1>1, <2>1 DEF ReplayInv, LogInv, LogIsSuffix
    <2> QED
        BY <1>1, <1>3, <2>1, <2>2 DEF Above
<1> HIDE DEF kept, pending
<1>12. Tracks(store, kept, pending)
    BY <1>2, <1>4, <1>6, <1>8, <1>9, TracksMore
<1>13. ReplayInto(store, pending) = Live(kept)
    BY <1>4, <1>10, <1>11, <1>12, ReplayedIsLive
<1> QED
    BY <1>13 DEF kept, pending

\* All or nothing follows from the invariant.
LEMMA ReplayGivesAllOrNothing ==
    ASSUME ReplayInv, WritesThrough
    PROVE  AllOrNothing
<1> SUFFICES ASSUME NEW kind \in CrashKinds, NEW last \in Survivors(kind)
             PROVE  /\ ReopenedLexical(last) = Live(RecordsUpTo(last))
                    /\ ReopenedVector(last) = Live(RecordsUpTo(last))
    BY DEF AllOrNothing
<1>1. lexCkpt \in LexCuts /\ vecCkpt \in VecCuts
    BY DEF LexCuts, VecCuts
<1>2. /\ Tracks(lexDisk, Durable, DurableAbove(lexCkpt))
      /\ Tracks(vecDisk, Durable, DurableAbove(vecCkpt))
    BY <1>1 DEF ReplayInv, StoreInv, FilesTrack
<1> QED
    BY <1>1, <1>2, ReopenedIsLive DEF ReopenedLexical, ReopenedVector

\* Whatever fails and whenever the process or the machine dies, the next open
\* finds both indexes as the surviving records describe them (engine.rs,
\* write_put and write_delete: "all or nothing on the next open").
THEOREM CrashIsAllOrNothing ==
    ASSUME WritesThrough
    PROVE  Spec => []AllOrNothing
<1>1. ReplayInv => AllOrNothing
    BY ReplayGivesAllOrNothing
<1>2. Spec => []ReplayInv
    BY ReplayInvariant
<1> QED
    BY <1>1, <1>2, PTL

\* Every document that an open then finds can be read back: a listed segment
\* or a surviving record has it (Engine::commit: the log is discarded only
\* once what it described is durable).
THEOREM ReopenedIsRetrievable ==
    ASSUME WritesThrough
    PROVE  Spec => []Retrievable
<1>1. ReplayInv => Retrievable
    <2> SUFFICES ASSUME ReplayInv, NEW kind \in CrashKinds,
                        NEW last \in Survivors(kind),
                        NEW e \in ReopenedLexical(last)
                 PROVE  e.doc \in docDisk \cup
                            DocsOf(AddsOf(wal \ Above(wal, last)))
        BY DEF Retrievable, DocsOf
    <2>1. e \in Live(RecordsUpTo(last))
        BY ReplayGivesAllOrNothing DEF AllOrNothing
    <2>2. PICK r \in RecordsUpTo(last) : e \in r.adds
        BY <2>1, LiveEntry
    <2>3. CASE r \in wal
        <3>1. r \in wal \ Above(wal, last)
            BY <2>3 DEF RecordsUpTo
        <3>2. e \in AddsOf(wal \ Above(wal, last))
            BY <2>2, <3>1 DEF AddsOf
        <3> QED
            BY <3>2 DEF DocsOf
    <2>4. CASE r \notin wal
        <3>1. DocsOf(r.adds) \subseteq docDisk
            BY <2>4 DEF RecordsUpTo, ReplayInv, StoreInv, DocumentsKept
        <3> QED
            BY <2>2, <3>1 DEF DocsOf
    <2> QED
        BY <2>3, <2>4
<1>2. Spec => []ReplayInv
    BY ReplayInvariant
<1> QED
    BY <1>1, <1>2, PTL

-----------------------------------------------------------------------------
(* What the log drops.                                                     *)

\* What the files hold of a document that no record in the log touches is
\* what the durable records say of it.
LEMMA UntouchedIsStored ==
    ASSUME ReplayInv, NEW e \in AddsOf(Durable),
           \A p \in wal : ~Removes(p, e)
    PROVE  /\ e \in lexDisk <=> e \in Live(Durable)
           /\ e \in vecDisk <=> e \in Live(Durable)
<1>1. lexCkpt \in LexCuts /\ vecCkpt \in VecCuts
    BY DEF LexCuts, VecCuts
<1>2. /\ Tracks(lexDisk, Durable, DurableAbove(lexCkpt))
      /\ Tracks(vecDisk, Durable, DurableAbove(vecCkpt))
    BY <1>1 DEF ReplayInv, StoreInv, FilesTrack
<1>3. \A n : DurableAbove(n) \subseteq wal
    BY DEF DurableAbove
<1> QED
    BY <1>2, <1>3 DEF Tracks

\* A record leaves the log only once the files of all three stores have its
\* document and the two indexes no longer have what it deleted
\* (run_commit_ladder: "every store is fully fsync'd before the WAL is
\* truncated").
THEOREM DiscardedIsDurable ==
    ASSUME WritesThrough
    PROVE  Spec => []DiscardedIsStored
<1>1. ReplayInv => DiscardedIsStored
    <2> SUFFICES ASSUME ReplayInv, NEW r \in history \ wal
                 PROVE  /\ \A e \in r.adds :
                               \/ e \in lexDisk \cap vecDisk
                               \/ \E s \in history :
                                      s.seq > r.seq /\ Removes(s, e)
                        /\ r.kills \cap DocsOf(lexDisk \cup vecDisk) = {}
                        /\ DocsOf(r.adds) \subseteq docDisk
        BY DEF DiscardedIsStored
    <2>1. /\ Durable \in SUBSET Records
          /\ AddedOnce(history) /\ KilledOnce(history)
          /\ AddedOnce(Durable) /\ KilledOnce(Durable)
          /\ wal \subseteq history
          /\ \A s \in history : s.seq \in Nat
        BY ReplayFacts
    <2>2. r \in Durable /\ \A p \in wal : p.seq > r.seq
        BY <2>1 DEF ReplayInv, RecordInv, LostHaveFailed, Durable, LogInv,
                    LogIsSuffix
    <2>3. ASSUME NEW e \in r.adds,
                 \A s \in history : s.seq > r.seq => ~Removes(s, e)
          PROVE  e \in lexDisk \cap vecDisk
        <3>1. e \in AddsOf(Durable)
            BY <2>2 DEF AddsOf
        <3>2. e \in Live(Durable)
            BY <2>2, <2>3, LiveEntry DEF Durable
        <3>3. \A p \in wal : ~Removes(p, e)
            BY <2>1, <2>2, <2>3
        <3> QED
            BY <3>1, <3>2, <3>3, UntouchedIsStored
    <2>4. ASSUME NEW e \in lexDisk \cup vecDisk, e.doc \in r.kills
          PROVE  FALSE
        <3>1. e \in AddsOf(Durable)
            BY DEF ReplayInv, StoreInv, FilesTrack, Tracks, LexCuts, VecCuts
        <3>2. PICK s \in history : s.seq < r.seq /\ \E f \in s.adds : f.doc = e.doc
            BY <2>1, <2>4 DEF KilledOnce
        <3>3. ASSUME NEW p \in wal PROVE ~Removes(p, e)
            <4>1. e.doc \notin p.kills
                BY <2>1, <2>4 DEF KilledOnce
            <4>2. \A f \in p.adds : f.doc # e.doc
                BY <2>1, <2>2, <3>2 DEF AddedOnce
            <4> QED
                BY <4>1, <4>2 DEF Removes
        <3>4. e \notin Live(Durable)
            BY <2>1, <2>2, <2>4, LiveIsAlive
        <3> QED
            BY <3>1, <3>3, <3>4, UntouchedIsStored
    <2>5. DocsOf(r.adds) \subseteq docDisk
        BY DEF ReplayInv, StoreInv, DocumentsKept
    <2> QED
        BY <2>3, <2>4, <2>5 DEF DocsOf
<1>2. Spec => []ReplayInv
    BY ReplayInvariant
<1> QED
    BY <1>1, <1>2, PTL

-----------------------------------------------------------------------------
(* What a running engine's stores hold.                                    *)

\* Both stores agree with the log, and so with each other, on every id that
\* no mutation is changing and none has failed for (engine.rs: one record,
\* applied to both under the locks).
THEOREM StoresFollowLog ==
    ASSUME WritesThrough
    PROVE  Spec => []StoresMatchLog
<1>1. ReplayInv => StoresMatchLog
    <2> SUFFICES ASSUME ReplayInv, Running, NEW id \in Ids \ failed,
                        \A c \in Clients : op[c] = NoOp \/ op[c].id # id
                 PROVE  LET Of(store) == {e \in store : e.id = id}
                        IN  /\ Of(lexMem) = Of(Live(history))
                            /\ Of(vecMem) = Of(lexMem)
        BY DEF StoresMatchLog
    <2>1. ASSUME NEW c \in Clients, pc[c] \in Applying
          PROVE  op[c].id # id
        <3>1. op[c] \in Ops
            BY <2>1 DEF ReplayInv, StopInv, TypeOK, TaskTypeOK, Applying
        <3>2. DOMAIN op[c] = {"seq", "kind", "id", "adds", "kills"}
            BY <3>1 DEF Ops
        <3>3. DOMAIN NoOp = {"seq"}
            BY DEF NoOp
        <3>4. op[c] # NoOp
            BY <3>2, <3>3
        <3> QED
            BY <3>4
    <2>2. ASSUME NEW e, e.id = id
          PROVE  /\ e \in lexMem <=> e \in Live(history)
                 /\ e \in vecMem <=> e \in Live(history)
        BY <2>1, <2>2, StoresLive
    <2> QED
        BY <2>2
<1>2. Spec => []ReplayInv
    BY ReplayInvariant
<1> QED
    BY <1>1, <1>2, PTL

\* A put leaves its document as the only one of its id, and a delete leaves
\* none, whatever other mutations of that id ran beside them (write_put's
\* lock per id; Issue #1049).
THEOREM UpsertsAreSerial ==
    ASSUME WritesThrough
    PROVE  Spec => []LastWriterWins
<1>1. ReplayInv => LastWriterWins
    <2> SUFFICES ASSUME ReplayInv, NEW r \in history, r.kind # "add"
                 PROVE  {e \in Live({s \in history : s.seq <= r.seq}) :
                             e.id = r.id} = r.adds
        BY DEF LastWriterWins
    <2> DEFINE first == {s \in history : s.seq <= r.seq}
    <2>1. /\ history \in SUBSET Records /\ RecordsOrdered(history)
          /\ \A s \in history : s.seq \in Nat
        BY ReplayFacts
    <2>2. first \in SUBSET history /\ r \in first
        BY <2>1
    <2>3. \A s \in first : \A t \in history : t.seq <= s.seq => t \in first
        BY <2>1
    <2>4. \A s \in first : s.seq <= r.seq /\ (s.seq = r.seq => s = r)
        BY DEF ReplayInv, LogInv, SeqsDistinct
    <2> HIDE DEF first
    <2>5. AddedOnce(first) /\ KilledOnce(first) /\ Superseded(first)
        BY <2>1, <2>2, <2>3, PrefixOrdered DEF RecordsOrdered
    <2>6. \A e : e \in Live(first) <=>
              e \in AddsOf(first) /\ \A s \in first : e.doc \notin s.kills
        BY <2>1, <2>2, <2>5, LiveIsAlive
    <2>7. ASSUME NEW e \in Live(first), e.id = r.id PROVE e \in r.adds
        <3>1. PICK s \in first : e \in s.adds
            BY <2>6, <2>7 DEF AddsOf
        <3>2. s.id = r.id
            BY <2>5, <2>7, <3>1 DEF AddedOnce
        <3>3. ~(s.seq < r.seq)
            BY <2>2, <2>5, <2>6, <2>7, <3>1, <3>2 DEF Superseded
        <3>4. s = r
            BY <2>1, <2>2, <2>4, <3>3
        <3> QED
            BY <3>1, <3>4
    <2>8. ASSUME NEW e \in r.adds PROVE e \in Live(first) /\ e.id = r.id
        <3>1. e \in AddsOf(first) /\ e.id = r.id
            BY <2>2, <2>5 DEF AddsOf, AddedOnce
        <3>2. ASSUME NEW s \in first, e.doc \in s.kills PROVE FALSE
            <4>1. PICK t \in first :
                      t.seq < s.seq /\ \E f \in t.adds : f.doc = e.doc
                BY <2>5, <3>2 DEF KilledOnce
            <4>2. t = r
                BY <2>2, <2>5, <4>1 DEF AddedOnce
            <4> QED
                BY <2>1, <2>2, <2>4, <4>1, <4>2
        <3> QED
            BY <2>6, <3>1, <3>2
    <2> QED
        BY <2>7, <2>8 DEF first
<1>2. Spec => []ReplayInv
    BY ReplayInvariant
<1> QED
    BY <1>1, <1>2, PTL

=============================================================================
