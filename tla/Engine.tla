------------------------------- MODULE Engine -------------------------------
(***************************************************************************)
(* The write path of laurus' Engine (engine.rs): puts, adds and deletes    *)
(* that append one write-ahead-log record and apply it to the lexical, the *)
(* vector and the document store; the commit durability ladder that runs   *)
(* beside them; crashes; and the recovery that replays the log.            *)
(*                                                                         *)
(* The stores are sets of live documents.  Each has what the process holds *)
(* (Mem), what its files hold (Disk) and, for the two indexes, a           *)
(* checkpoint: the log sequence number at or below which recovery does not *)
(* replay.  A step is what the code does under one lock; a crash inside it *)
(* leaves what the step's failing variant leaves.                          *)
(***************************************************************************)
EXTENDS AppliedSeqs, FiniteSets

CONSTANTS
    Clients,      \* the tasks that put, add and delete
    Ladders,      \* the tasks that commit: callers and the commit timer
    Ids,          \* external document ids
    SyncPolicy,   \* the WalSyncPolicy, "PerRecord" or "Group"
    Batches,      \* whether a batch may hold a sync-deferral scope
    CrashKinds,   \* "process": the file system keeps what was written;
                  \* "power": it keeps only what was synced, at least
    Faults,       \* the steps that may fail
    MaxSeq,       \* bound on the sequence numbers assigned
    MaxCommits,   \* bound on the commits started
    MaxCrashes    \* bound on the crashes and closes, but for failed opens

ASSUME SyncPolicyAssumption == SyncPolicy \in {"PerRecord", "Group"}
ASSUME BatchesAssumption == Batches \in BOOLEAN
ASSUME CrashKindsAssumption == CrashKinds \subseteq {"process", "power"}
ASSUME FaultsAssumption ==
    Faults \subseteq {"append", "sync", "apply", "lexical", "vector",
                      "segment", "manifest", "truncate"}
ASSUME BoundsAssumption ==
    MaxSeq \in Nat /\ MaxCommits \in Nat /\ MaxCrashes \in Nat

VARIABLES
    mode,        \* "closed", "recovering", "failed" (to recover) or "open"
    stop,        \* WriteStop: a write failed at or after its append
    wal,         \* the records in the log file or its append buffer
    nextSeq,     \* DocumentLog::next_seq
    nextDoc,     \* DocumentLog::next_doc_id
    flushed,     \* records at or below it survive a process crash
    synced,      \* records at or below it survive a power failure
    walOpen,     \* DocumentLog::wal_writer is Some
    torn,        \* the log may end in a partial record; no more appends
    lexMem, lexDisk, lexCkpt,
    lexWriter,   \* LexicalStore::writer_cache is Some
    vecMem, vecDisk, vecCkpt,
    vecPend,     \* the checkpoint the next vector commit publishes
    docPending,  \* documents buffered in the document store
    docSegments, \* documents in the segments the process registered
    docDisk,     \* documents in the segments the manifest file lists
    pc, op, todo,      \* a client's step, mutation, versions left to delete
    lpc, snap,         \* a ladder's step and watermark snapshot
    commits, crashes,  \* what the bounds count
    history,     \* (ghost) every record that took effect on the log
    acked,       \* (ghost) the records whose caller was told Ok
    failed,      \* (ghost) ids with a failed mutation since the last open
    unfinished   \* (ghost) numbers assigned since the open, not finished

walVars == <<wal, nextSeq, nextDoc, flushed, synced, walOpen, torn>>
lexVars == <<lexMem, lexDisk, lexCkpt, lexWriter>>
vecVars == <<vecMem, vecDisk, vecCkpt, vecPend>>
docVars == <<docPending, docSegments, docDisk>>
storeVars == <<lexVars, vecVars, docVars>>
clientVars == <<pc, op, todo>>
ladderVars == <<lpc, snap, commits>>
engineVars == <<mode, stop, crashes>>
ghostVars == <<history, acked, failed, unfinished>>
vars == <<appliedVars, walVars, storeVars, clientVars, ladderVars,
          engineVars, ghostVars>>

-----------------------------------------------------------------------------
(* Records and their replay.                                               *)

Kinds == {"put", "add", "delete"}

\* A live document: its internal number and its external id.
Entries == [doc : Nat, id : Ids]

\* A log record: the document it adds and the documents it replaces or
\* deletes.  The file does not tell a put from an add; the properties do.
Records == [seq : Nat, kind : Kinds, id : Ids,
            adds : SUBSET Entries, kills : SUBSET Nat]

\* A client's mutation; seq is 0 until its record is appended.
Ops == [seq : Nat, kind : Kinds, id : Ids,
        adds : SUBSET Entries, kills : SUBSET Nat]

Larger(m, n) == IF m > n THEN m ELSE n

Without(store, doc) == {e \in store : e.doc # doc}

\* Adding a document replaces whatever the store has under its number.
With(store, new) ==
    {e \in store : \A f \in new : f.doc # e.doc} \cup new

\* Applying r after entry e was stored removes e.
Removes(r, e) == e.doc \in r.kills \/ \E f \in r.adds : f.doc = e.doc

\* What a store holds once the records are applied to it in log order.
ReplayInto(store, records) ==
    {e \in store : \A r \in records : ~Removes(r, e)} \cup
    UNION {{e \in r.adds :
                \A s \in records : s.seq > r.seq => ~Removes(s, e)} :
           r \in records}

Live(records) == ReplayInto({}, records)

Above(records, seq) == {r \in records : r.seq > seq}

DocsOf(entries) == {e.doc : e \in entries}
AddsOf(records) == UNION {r.adds : r \in records}

LastSeq == nextSeq - 1

\* The vector writer, from a put's lock to its finish; deletes take no lock.
Applying ==
    {"deleteLexical", "deleteVector", "store", "insertLexical",
     "insertVector", "finish"}
\* The writer is taken before the put waits for it.
HoldsVectorWriterEarly(c) ==
    pc[c] \in Applying \cup {"prepared", "locked"} /\ op[c].kind # "delete"
HoldsVectorWriter(c) ==
    pc[c] \in Applying \cup {"locked"} /\ op[c].kind # "delete"
VectorWriterFree == \A c \in Clients : ~HoldsVectorWriter(c)

\* The id lock: a put releases it before it re-asserts durability and
\* returns, a delete after.
HoldsId(c, id) ==
    /\ pc[c] # "idle"
    /\ op[c].id = id
    /\ pc[c] = "acknowledge" => op[c].kind = "delete"

\* No lock per id: two mutations of one id interleave.
IdFreeUnlocked(id) == TRUE
IdFree(id) == \A c \in Clients : ~HoldsId(c, id)

Quiet ==
    (\A c \in Clients : pc[c] = "idle") /\ (\A l \in Ladders : lpc[l] = "idle")

-----------------------------------------------------------------------------
(* A mutation: lookup, locks, append, apply, finish, acknowledge.          *)

NoOp == [seq |-> 0]

\* The mutation of c is over, for better or worse.
Leave(c) ==
    /\ pc' = [pc EXCEPT ![c] = "idle"]
    /\ op' = [op EXCEPT ![c] = NoOp]
    /\ todo' = [todo EXCEPT ![c] = {}]

\* Writes never stop.
StoppedNever == FALSE
\* WriteStop::check refuses.
Stopped == stop

\* Room for the records of the mutations that are still to append theirs.
BelowMaxSeq ==
    nextSeq + Cardinality({c \in Clients : pc[c] \in {"prepared", "locked"}})
        <= MaxSeq

\* The versions a put replaces and a delete deletes are looked up in the
\* lexical writer and the committed index together.
Lookup(id) == DocsOf({e \in lexMem : e.id = id})

Begin(c, kind, id) ==
    /\ mode = "open"
    /\ pc[c] = "idle"
    /\ BelowMaxSeq
    /\ IdFree(id)
    /\ ~Stopped
    /\ LET previous == IF kind = "add" THEN {} ELSE Lookup(id)
       IN  /\ op' = [op EXCEPT ![c] = [seq |-> 0, kind |-> kind, id |-> id,
                                       adds |-> {}, kills |-> previous]]
           /\ pc' = [pc EXCEPT ![c] = IF kind = "delete" /\ previous = {}
                                      THEN "acknowledge" ELSE "prepared"]
    \* A put's prepare creates the lexical writer.
    /\ lexWriter' = (lexWriter \/ kind # "delete")
    /\ UNCHANGED <<appliedVars, walVars, lexMem, lexDisk, lexCkpt, vecVars,
                   docVars, todo, ladderVars, engineVars, ghostVars>>

\* The last wait: a put locks the vector writer, then checks again.
Lock(c) ==
    /\ pc[c] = "prepared"
    /\ op[c].kind # "delete" => VectorWriterFree
    /\ IF Stopped THEN Leave(c)
       ELSE /\ pc' = [pc EXCEPT ![c] = "locked"]
            /\ UNCHANGED <<op, todo>>
    /\ UNCHANGED <<appliedVars, walVars, storeVars, ladderVars, engineVars,
                   ghostVars>>

\* The record of c's mutation under the numbers the log assigns next.
NewRecord(c) ==
    [op[c] EXCEPT !.seq = nextSeq,
                  !.adds = IF op[c].kind = "delete" THEN {}
                           ELSE {[doc |-> nextDoc, id |-> op[c].id]}]

AssignNumbers(c) ==
    /\ nextSeq' = nextSeq + 1
    /\ nextDoc' = IF op[c].kind = "delete" THEN nextDoc ELSE nextDoc + 1
    /\ unfinished' = unfinished \cup {nextSeq}

\* Whether the append fsyncs before it returns: under "Group" once the
\* batch threshold is reached, under "PerRecord" unless a batch defers it.
SyncsAppend ==
    IF SyncPolicy = "PerRecord" /\ ~Batches THEN {TRUE} ELSE BOOLEAN

Append(c) ==
    /\ pc[c] = "locked"
    /\ ~torn
    /\ AssignNumbers(c)
    /\ op' = [op EXCEPT ![c] = NewRecord(c)]
    /\ wal' = wal \cup {NewRecord(c)}
    /\ history' = history \cup {NewRecord(c)}
    /\ walOpen' = TRUE
    /\ \E sync \in SyncsAppend :
           IF sync THEN flushed' = nextSeq /\ synced' = nextSeq
           ELSE UNCHANGED <<flushed, synced>>
    /\ todo' = [todo EXCEPT ![c] = op[c].kills]
    /\ pc' = [pc EXCEPT ![c] = IF op[c].kills = {} THEN "store"
                               ELSE "deleteLexical"]
    /\ UNCHANGED <<appliedVars, torn, storeVars, ladderVars, engineVars,
                   acked, failed>>

\* A failure at or after the append stops writes.
StopWrites(c) ==
    /\ stop' = TRUE
    /\ failed' = failed \cup {op[c].id}
    /\ Leave(c)
    /\ UNCHANGED <<mode, crashes>>

\* ensure_writer fails, always so on a torn log: no number is assigned.
AppendRefused(c) ==
    /\ pc[c] = "locked"
    /\ torn \/ "append" \in Faults
    /\ StopWrites(c)
    /\ UNCHANGED <<appliedVars, walVars, storeVars, ladderVars, history,
                   acked, unfinished>>

\* Encoding fails, or writing the frame does, which may leave it partial.
AppendFails(c) ==
    /\ pc[c] = "locked"
    /\ ~torn
    /\ "append" \in Faults
    /\ AssignNumbers(c)
    /\ walOpen' = TRUE
    /\ torn' \in BOOLEAN
    /\ StopWrites(c)
    /\ UNCHANGED <<appliedVars, wal, flushed, synced, storeVars, ladderVars,
                   history, acked>>

\* The record is written and its fsync fails: the next open may apply it.
AppendUnsynced(c) ==
    /\ pc[c] = "locked"
    /\ ~torn
    /\ "sync" \in Faults
    /\ TRUE \in SyncsAppend
    /\ AssignNumbers(c)
    /\ wal' = wal \cup {NewRecord(c)}
    /\ history' = history \cup {NewRecord(c)}
    /\ walOpen' = TRUE
    /\ StopWrites(c)
    /\ UNCHANGED <<appliedVars, flushed, synced, torn, storeVars,
                   ladderVars, acked>>

\* The versions go one by one: each from the lexical, then the vector store.
IsNext(doc, docs) == doc \in docs /\ \A other \in docs : doc <= other

DeleteLexical(c) ==
    /\ pc[c] = "deleteLexical"
    /\ \E doc \in todo[c] :
           IsNext(doc, todo[c]) /\ lexMem' = Without(lexMem, doc)
    /\ lexWriter' = TRUE
    /\ pc' = [pc EXCEPT ![c] = "deleteVector"]
    /\ UNCHANGED <<appliedVars, walVars, lexDisk, lexCkpt, vecVars, docVars,
                   op, todo, ladderVars, engineVars, ghostVars>>

DeleteVector(c) ==
    /\ pc[c] = "deleteVector"
    /\ \E doc \in todo[c] :
           /\ IsNext(doc, todo[c])
           /\ vecMem' = Without(vecMem, doc)
           /\ todo' = [todo EXCEPT ![c] = @ \ {doc}]
    /\ pc' = [pc EXCEPT ![c] = IF todo'[c] # {} THEN "deleteLexical"
                               ELSE IF op[c].kind = "delete" THEN "finish"
                               ELSE "store"]
    /\ UNCHANGED <<appliedVars, walVars, lexVars, vecDisk, vecCkpt, vecPend,
                   docVars, op, ladderVars, engineVars, ghostVars>>

StoreDocument(c) ==
    /\ pc[c] = "store"
    /\ docPending' = docPending \cup DocsOf(op[c].adds)
    /\ pc' = [pc EXCEPT ![c] = "insertLexical"]
    /\ UNCHANGED <<appliedVars, walVars, lexVars, vecVars, docSegments,
                   docDisk, op, todo, ladderVars, engineVars, ghostVars>>

\* A commit may have dropped the writer prepared earlier; it is recreated.
InsertLexical(c) ==
    /\ pc[c] = "insertLexical"
    /\ lexMem' = With(lexMem, op[c].adds)
    /\ lexWriter' = TRUE
    /\ pc' = [pc EXCEPT ![c] = "insertVector"]
    /\ UNCHANGED <<appliedVars, walVars, lexDisk, lexCkpt, vecVars, docVars,
                   op, todo, ladderVars, engineVars, ghostVars>>

InsertVector(c) ==
    /\ pc[c] = "insertVector"
    /\ vecMem' = With(vecMem, op[c].adds)
    /\ pc' = [pc EXCEPT ![c] = "finish"]
    /\ UNCHANGED <<appliedVars, walVars, lexVars, vecDisk, vecCkpt, vecPend,
                   docVars, op, todo, ladderVars, engineVars, ghostVars>>

\* Any step of the application fails or panics.  A vector insert that
\* fails takes the lexical insert back; a panic does not.
ApplyFails(c) ==
    /\ pc[c] \in Applying \ {"finish"}
    /\ "apply" \in Faults
    /\ \/ UNCHANGED <<lexMem, lexWriter>>
       \/ /\ pc[c] = "insertVector"
          /\ lexMem' = {e \in lexMem : e.doc \notin DocsOf(op[c].adds)}
          /\ lexWriter' = TRUE
    /\ StopWrites(c)
    /\ UNCHANGED <<appliedVars, walVars, lexDisk, lexCkpt, vecVars, docVars,
                   ladderVars, history, acked, unfinished>>

FinishMutation(c) ==
    /\ pc[c] = "finish"
    /\ Finish(op[c].seq)
    /\ unfinished' = unfinished \ {op[c].seq}
    /\ pc' = [pc EXCEPT ![c] = "acknowledge"]
    /\ UNCHANGED <<walVars, storeVars, op, todo, ladderVars, engineVars,
                   history, acked, failed>>

\* flush_wal: fsync what the open writer appended; nothing without one.
FlushWal ==
    IF walOpen THEN flushed' = LastSeq /\ synced' = LastSeq
    ELSE UNCHANGED <<flushed, synced>>

\* Engine::flush_wal, and the tick of a Group policy's flush timer.
FlushCall ==
    /\ mode = "open"
    /\ walOpen /\ synced < LastSeq
    /\ FlushWal
    /\ UNCHANGED <<appliedVars, wal, nextSeq, nextDoc, walOpen, torn,
                   storeVars, clientVars, ladderVars, engineVars, ghostVars>>

\* Acknowledged without re-asserting durability.
EnsureNothing == UNCHANGED <<flushed, synced>>
\* A batch ends with a flush under either policy; a single call flushes only
\* under "PerRecord".
EnsurePerRecordDurability ==
    \/ (SyncPolicy = "PerRecord" \/ Batches) /\ FlushWal
    \/ SyncPolicy = "Group" /\ UNCHANGED <<flushed, synced>>

Acknowledge(c) ==
    /\ pc[c] = "acknowledge"
    /\ EnsurePerRecordDurability
    /\ acked' = acked \cup {r \in history : r.seq = op[c].seq}
    /\ Leave(c)
    /\ UNCHANGED <<appliedVars, wal, nextSeq, nextDoc, walOpen, torn,
                   storeVars, ladderVars, engineVars, history, failed,
                   unfinished>>

\* The caller gets the flush's error; writes go on.
AcknowledgeFails(c) ==
    /\ pc[c] = "acknowledge"
    /\ "sync" \in Faults
    /\ SyncPolicy = "PerRecord" /\ walOpen /\ synced < LastSeq
    /\ Leave(c)
    /\ UNCHANGED <<appliedVars, walVars, storeVars, ladderVars, engineVars,
                   ghostVars>>

Mutate(c) ==
    \/ \E kind \in Kinds, id \in Ids : Begin(c, kind, id)
    \/ Lock(c)
    \/ Append(c)
    \/ AppendRefused(c)
    \/ AppendFails(c)
    \/ AppendUnsynced(c)
    \/ DeleteLexical(c)
    \/ DeleteVector(c)
    \/ StoreDocument(c)
    \/ InsertLexical(c)
    \/ InsertVector(c)
    \/ ApplyFails(c)
    \/ FinishMutation(c)
    \/ Acknowledge(c)
    \/ AcknowledgeFails(c)

-----------------------------------------------------------------------------
(* The commit durability ladder (run_commit_ladder), one action per call.  *)

LadderGoesOn(l, step) ==
    /\ lpc' = [lpc EXCEPT ![l] = step]
    /\ UNCHANGED <<snap, commits, engineVars>>

LadderReturns(l) ==
    /\ lpc' = [lpc EXCEPT ![l] = "idle"]
    /\ snap' = [snap EXCEPT ![l] = 0]
    /\ UNCHANGED <<stop, crashes, commits>>

\* The ladder is done: recovery's commit opens the engine.
LadderSucceeds(l) == LadderReturns(l) /\ mode' = "open"

\* The ladder returns an error: recovery's makes the open fail.
LadderGivesUp(l) ==
    /\ LadderReturns(l)
    /\ mode' = IF mode = "recovering" THEN "failed" ELSE mode

LadderCheck(l) ==
    /\ mode = "open"
    /\ lpc[l] = "idle"
    /\ commits < MaxCommits
    /\ ~Stopped
    /\ lpc' = [lpc EXCEPT ![l] = "snapshot"]
    /\ commits' = commits + 1
    /\ UNCHANGED <<appliedVars, walVars, storeVars, clientVars, snap,
                   engineVars, ghostVars>>

\* The snapshot of the highest number assigned, finished or not.
SnapshotLastSeq(l) == LastSeq
\* A snapshot that stops short of the last finished number.
SnapshotBelow(l) == watermark - 1
\* Everything at or below the watermark is in both stores' buffers.
SnapshotOf(l) == watermark

LadderSnapshot(l) ==
    /\ lpc[l] = "snapshot"
    /\ snap' = [snap EXCEPT ![l] = SnapshotOf(l)]
    /\ lpc' = [lpc EXCEPT ![l] = "flush"]
    /\ UNCHANGED <<appliedVars, walVars, storeVars, clientVars, commits,
                   engineVars, ghostVars>>

LadderFlush(l) ==
    /\ lpc[l] = "flush"
    /\ \/ FlushWal /\ LadderGoesOn(l, "lexical")
       \/ /\ "sync" \in Faults
          /\ walOpen /\ synced < LastSeq
          /\ LadderGivesUp(l)
          /\ UNCHANGED <<flushed, synced>>
    /\ UNCHANGED <<appliedVars, wal, nextSeq, nextDoc, walOpen, torn,
                   storeVars, clientVars, ghostVars>>

\* The writer's commit, then its drop.  Without a writer nothing is
\* written, not even the checkpoint.
LexicalCommits(checkpoint) ==
    /\ lexDisk' = lexMem
    /\ lexCkpt' = IF lexWriter THEN Larger(lexCkpt, checkpoint) ELSE lexCkpt
    /\ lexWriter' = FALSE

\* It fails with the writer kept: some deletions are on disk, or all of
\* them and the new segments, but never the checkpoint.
LexicalCommitFails ==
    /\ lexWriter
    /\ lexDisk' \in {lexMem} \cup
           {disk \in SUBSET lexDisk : lexDisk \cap lexMem \subseteq disk}
    /\ UNCHANGED <<lexCkpt, lexWriter>>

LadderLexical(l) ==
    /\ lpc[l] = "lexical"
    /\ \/ LexicalCommits(snap[l]) /\ LadderGoesOn(l, "vector")
       \/ /\ "lexical" \in Faults
          \* A failed storage sync comes after the writer's commit.
          /\ LexicalCommitFails \/ LexicalCommits(snap[l])
          /\ LadderGivesUp(l)
    /\ UNCHANGED <<appliedVars, walVars, lexMem, vecVars, docVars, clientVars,
                   ghostVars>>

\* The writer seals what it buffers, then the deletions are persisted, then
\* the checkpoint is published, the highest one ever set.
VectorCommits == vecDisk' = vecMem /\ vecCkpt' = vecPend'

VectorCommitFails ==
    /\ vecDisk' \in {vecDisk} \cup
           {disk \in SUBSET (vecDisk \cup vecMem) : vecMem \subseteq disk}
    /\ UNCHANGED vecCkpt

LadderVector(l) ==
    /\ lpc[l] = "vector"
    /\ VectorWriterFree
    /\ vecPend' = Larger(vecPend, snap[l])
    /\ \/ VectorCommits /\ LadderGoesOn(l, "docs")
       \/ /\ "vector" \in Faults
          /\ VectorCommitFails \/ VectorCommits
          /\ LadderGivesUp(l)
    /\ UNCHANGED <<appliedVars, walVars, lexVars, vecMem, docVars, clientVars,
                   ghostVars>>

\* The buffer is emptied before its segment is written; the manifest lists
\* the registered segments.
LadderDocs(l) ==
    /\ lpc[l] = "docs"
    /\ docPending' = {}
    /\ \/ /\ docSegments' = docSegments \cup docPending
          /\ docDisk' = docSegments'
          /\ LadderGoesOn(l, "truncate")
       \/ /\ "segment" \in Faults /\ docPending # {}
          /\ LadderGivesUp(l)
          /\ UNCHANGED <<docSegments, docDisk>>
       \/ /\ "manifest" \in Faults
          /\ docSegments' = docSegments \cup docPending
          /\ LadderGivesUp(l)
          /\ UNCHANGED docDisk
    /\ UNCHANGED <<appliedVars, walVars, lexVars, vecVars, clientVars,
                   ghostVars>>

\* The log is wiped, whatever the snapshot.
RetainedNothing(l) == {}
\* The records above the snapshot stay.
Retained(l) == Above(wal, snap[l])

\* truncate_retaining_after flushes and closes the handle, then empties the
\* file, or replaces it when a record is above the snapshot.
LadderTruncate(l) ==
    /\ lpc[l] = "truncate"
    /\ flushed' = LastSeq /\ synced' = LastSeq
    /\ walOpen' = FALSE
    /\ \/ /\ wal' = Retained(l)
          /\ LadderSucceeds(l)
       \/ /\ "truncate" \in Faults
          /\ wal' \in {wal, Retained(l)}
          /\ LadderGivesUp(l)
    /\ UNCHANGED <<appliedVars, nextSeq, nextDoc, torn, storeVars, clientVars,
                   ghostVars>>

Commit(l) ==
    \/ LadderCheck(l)
    \/ LadderSnapshot(l)
    \/ LadderFlush(l)
    \/ LadderLexical(l)
    \/ LadderVector(l)
    \/ LadderDocs(l)
    \/ LadderTruncate(l)

-----------------------------------------------------------------------------
(* The end of a process, and the next open.                                *)

\* MaxCrashes bounds the ends of processes that accepted or recovered
\* writes; an engine that failed to recover may always end.
MayEnd == mode = "failed" \/ crashes < MaxCrashes

\* A process starts with nothing but what the files hold.
Volatile ==
    /\ mode' = "closed"
    /\ stop' = FALSE
    /\ crashes' = IF mode = "failed" THEN crashes ELSE crashes + 1
    /\ walOpen' = FALSE
    /\ lexMem' = {} /\ lexWriter' = FALSE
    /\ vecMem' = {} /\ vecPend' = 0
    /\ docPending' = {} /\ docSegments' = {}
    /\ nextDoc' = 1
    /\ watermark' = 0 /\ finishedAbove' = {}
    /\ pc' = [c \in Clients |-> "idle"]
    /\ op' = [c \in Clients |-> NoOp]
    /\ todo' = [c \in Clients |-> {}]
    /\ lpc' = [l \in Ladders |-> "idle"]
    /\ snap' = [l \in Ladders |-> 0]
    /\ failed' = {} /\ unfinished' = {}
    /\ UNCHANGED <<commits, vecDisk, vecCkpt, docDisk, acked>>

\* The last sequence numbers the log may end with after a crash: what the
\* append buffer and the file system's cache held may be lost from its end.
Survivors(kind) == (IF kind = "process" THEN flushed ELSE synced)..LastSeq

\* Also how a stopped engine is dropped: it abandons the lexical writer.
Crash(kind) ==
    /\ mode # "closed"
    /\ MayEnd
    /\ \E last \in Survivors(kind) :
           LET lost == Above(wal, last)
           IN  /\ wal' = wal \ lost
               /\ history' = history \ lost
               /\ nextSeq' = last + 1
               /\ flushed' = last
               /\ synced' = IF kind = "process" THEN synced ELSE last
               /\ torn' \in IF torn \/ lost # {} THEN BOOLEAN ELSE {FALSE}
    /\ Volatile
    /\ UNCHANGED <<lexDisk, lexCkpt>>

\* Dropping an engine that accepts writes, or one that failed to recover:
\* with the log synced, the lexical writer commits through the watermark.
CloseEngine ==
    /\ mode \in {"open", "failed"}
    /\ Quiet
    /\ ~Stopped
    /\ MayEnd
    /\ FlushWal
    /\ \/ /\ lexDisk' = lexMem
          /\ lexCkpt' = IF lexWriter THEN Larger(lexCkpt, watermark)
                        ELSE lexCkpt
       \/ /\ "lexical" \in Faults
          /\ lexWriter
          /\ lexDisk' \in {lexMem} \cup
                 {disk \in SUBSET lexDisk : lexDisk \cap lexMem \subseteq disk}
          /\ UNCHANGED lexCkpt
    /\ Volatile
    /\ UNCHANGED <<wal, nextSeq, torn, history>>

SeqsOf(records) == {r.seq : r \in records}

\* The least number at or above all of those in a finite set of naturals.
IsTop(n, S) == n \in S \cup {0} /\ \A m \in S : m <= n

\* A replay's checkpoint for both stores, the lagging store's lost.
ReplayFromHighest(ckpt) == Larger(lexCkpt, vecCkpt)
\* Each store replays from its own checkpoint.
ReplayFrom(ckpt) == ckpt

\* Records that both checkpoints cover are skipped altogether.
RestoredUncovered ==
    DocsOf(AddsOf({r \in wal : r.seq > lexCkpt \/ r.seq > vecCkpt}))
\* The document store has no checkpoint: every logged document is restored.
Restored == DocsOf(AddsOf(wal))

\* Whether recovery restored or applied anything, and so must commit.
ReplayApplies ==
    \E r \in wal : r.adds # {} \/ r.seq > lexCkpt \/ r.seq > vecCkpt

\* Engine::recover.  The partial record at the log's end is cut off, which
\* rewrites and syncs the file; the replay restores every document, and
\* applies to each index the records above its checkpoint.
Open ==
    /\ mode = "closed"
    /\ torn' = FALSE
    /\ \E top \in {lexCkpt, vecCkpt} \cup SeqsOf(wal) :
           /\ IsTop(top, {lexCkpt, vecCkpt} \cup SeqsOf(wal))
           /\ nextSeq' = top + 1
           /\ flushed' = top
           /\ synced' = IF torn \/ \A r \in wal : r.seq <= synced
                        THEN top ELSE synced
           /\ RaiseTo(top)
    /\ \E last \in {0} \cup DocsOf(AddsOf(wal)) \cup docDisk :
           /\ IsTop(last, DocsOf(AddsOf(wal)) \cup docDisk)
           /\ nextDoc' = last + 1
    /\ lexMem' = ReplayInto(lexDisk, Above(wal, ReplayFrom(lexCkpt)))
    /\ vecMem' = ReplayInto(vecDisk, Above(wal, ReplayFrom(vecCkpt)))
    /\ vecPend' = vecCkpt
    /\ lexWriter' = (Above(wal, lexCkpt) # {})
    /\ docPending' = Restored
    /\ docSegments' = docDisk
    /\ IF ReplayApplies
       THEN /\ mode' = "recovering"
            /\ \E l \in Ladders : lpc' = [lpc EXCEPT ![l] = "snapshot"]
       ELSE /\ mode' = "open"
            /\ UNCHANGED lpc
    /\ UNCHANGED <<wal, walOpen, lexDisk, lexCkpt, vecDisk, vecCkpt, docDisk,
                   clientVars, snap, commits, stop, crashes, ghostVars>>

\* A record fails to apply, for a reason that may pass: the open fails, and
\* dropping the engine commits what the lexical store replayed so far.
OpenFails ==
    /\ mode = "closed"
    /\ "apply" \in Faults
    /\ \E r \in wal :
           LET before == ReplayInto(lexDisk,
                             {s \in Above(wal, lexCkpt) : s.seq < r.seq})
           IN  /\ r.seq > lexCkpt \/ r.seq > vecCkpt
               /\ lexDisk' \in {before,
                                {e \in before : e.doc \notin r.kills},
                                ReplayInto(lexDisk,
                                    {s \in Above(wal, lexCkpt) :
                                        s.seq <= r.seq})}
    /\ synced' = IF torn THEN LastSeq ELSE synced
    /\ torn' = FALSE
    /\ UNCHANGED <<appliedVars, wal, nextSeq, nextDoc, flushed, walOpen,
                   lexMem, lexCkpt, lexWriter, vecVars, docVars, clientVars,
                   ladderVars, engineVars, ghostVars>>

-----------------------------------------------------------------------------
Init ==
    /\ AppliedInit
    /\ mode = "closed" /\ stop = FALSE
    /\ wal = {} /\ nextSeq = 1 /\ nextDoc = 1
    /\ flushed = 0 /\ synced = 0 /\ walOpen = FALSE /\ torn = FALSE
    /\ lexMem = {} /\ lexDisk = {} /\ lexCkpt = 0 /\ lexWriter = FALSE
    /\ vecMem = {} /\ vecDisk = {} /\ vecCkpt = 0 /\ vecPend = 0
    /\ docPending = {} /\ docSegments = {} /\ docDisk = {}
    /\ pc = [c \in Clients |-> "idle"]
    /\ op = [c \in Clients |-> NoOp]
    /\ todo = [c \in Clients |-> {}]
    /\ lpc = [l \in Ladders |-> "idle"]
    /\ snap = [l \in Ladders |-> 0]
    /\ commits = 0 /\ crashes = 0
    /\ history = {} /\ acked = {} /\ failed = {} /\ unfinished = {}

Next ==
    \/ \E c \in Clients : Mutate(c)
    \/ \E l \in Ladders : Commit(l)
    \/ \E kind \in CrashKinds : Crash(kind)
    \/ FlushCall
    \/ CloseEngine
    \/ Open
    \/ OpenFails

Spec == Init /\ [][Next]_vars

\* Every call that began goes on: tasks are scheduled, and what they wait
\* for is released by calls that go on.  Nobody has to call anything, and
\* nothing has to fail or crash; a closed index is opened again.
MutationGoesOn(c) ==
    pc[c] # "idle" /\ Mutate(c)
CommitGoesOn(l) == lpc[l] # "idle" /\ Commit(l)

FairSpec ==
    /\ Spec
    /\ \A c \in Clients : WF_vars(MutationGoesOn(c))
    /\ \A l \in Ladders : WF_vars(CommitGoesOn(l))
    /\ WF_vars(Open)

-----------------------------------------------------------------------------
(* Properties.                                                             *)

Steps == {"idle", "prepared", "locked", "acknowledge"} \cup Applying
LadderSteps ==
    {"idle", "snapshot", "flush", "lexical", "vector", "docs", "truncate"}

LogTypeOK ==
    /\ watermark \in Nat /\ finishedAbove \subseteq Nat
    /\ wal \subseteq Records
    /\ nextSeq \in Nat \ {0} /\ nextDoc \in Nat \ {0}
    /\ flushed \in Nat /\ synced \in Nat
    /\ walOpen \in BOOLEAN /\ torn \in BOOLEAN

StoreTypeOK ==
    /\ lexMem \subseteq Entries /\ lexDisk \subseteq Entries
    /\ lexCkpt \in Nat /\ lexWriter \in BOOLEAN
    /\ vecMem \subseteq Entries /\ vecDisk \subseteq Entries
    /\ vecCkpt \in Nat /\ vecPend \in Nat
    /\ docPending \subseteq Nat /\ docSegments \subseteq Nat
    /\ docDisk \subseteq Nat

TaskTypeOK ==
    /\ pc \in [Clients -> Steps]
    /\ op \in [Clients -> Ops \cup {NoOp}]
    /\ \A c \in Clients : pc[c] # "idle" => op[c] \in Ops
    /\ todo \in [Clients -> SUBSET Nat]
    /\ lpc \in [Ladders -> LadderSteps]
    /\ snap \in [Ladders -> Nat]

EngineTypeOK ==
    /\ mode \in {"closed", "recovering", "failed", "open"}
    /\ stop \in BOOLEAN
    /\ commits \in Nat /\ crashes \in Nat
    /\ history \subseteq Records /\ acked \subseteq Records
    /\ failed \subseteq Ids /\ unfinished \subseteq Nat

\* Every variable has its type; in particular a client inside a mutation has
\* one, and the log's counters stay positive through crashes and reopens
\* (engine.rs, store/log.rs).
TypeOK == LogTypeOK /\ StoreTypeOK /\ TaskTypeOK /\ EngineTypeOK

\* What a reopened index would hold if the log ended with number last.
RecordsUpTo(last) == history \ Above(wal, last)
ReopenedLexical(last) ==
    ReplayInto(lexDisk, Above(wal, lexCkpt) \ Above(wal, last))
ReopenedVector(last) ==
    ReplayInto(vecDisk, Above(wal, vecCkpt) \ Above(wal, last))

\* A crash at any moment leaves both indexes holding, once reopened, exactly
\* the documents that the surviving records leave live: a mutation is there
\* in both stores or in neither, and so are the deletes of what it replaced
\* (engine.rs, write_put and write_delete: "all or nothing on the next
\* open"; Engine::commit: a crash between any two steps "leaves enough in the
\* WAL ... to reconstruct a consistent state").
AllOrNothing ==
    \A kind \in CrashKinds : \A last \in Survivors(kind) :
        /\ ReopenedLexical(last) = Live(RecordsUpTo(last))
        /\ ReopenedVector(last) = Live(RecordsUpTo(last))

\* Every live document of the committed lexical index can be read back after
\* a crash: it is in a listed document segment, or the log restores it
\* (Engine::commit: "the WAL is discarded only once the data it described is
\* durable").
Retrievable ==
    \A kind \in CrashKinds : \A last \in Survivors(kind) :
        DocsOf(ReopenedLexical(last)) \subseteq
            docDisk \cup DocsOf(AddsOf(wal \ Above(wal, last)))

\* A record leaves the log only once every store's files hold it: its
\* document, unless a later record removed it, is in both indexes and in the
\* document store, and what it removed is in neither index (Engine::commit:
\* "every store is fully fsync'd before the WAL is truncated").
DiscardedIsStored ==
    \A r \in history \ wal :
        /\ \A e \in r.adds :
               \/ e \in lexDisk \cap vecDisk
               \/ \E s \in history : s.seq > r.seq /\ Removes(s, e)
        /\ r.kills \cap DocsOf(lexDisk \cup vecDisk) = {}
        /\ DocsOf(r.adds) \subseteq docDisk

\* A mutation whose caller was told Ok survives every crash
\* (WalSyncPolicy::PerRecord).
AckedDurable ==
    \A kind \in CrashKinds : \A last \in Survivors(kind) :
        acked \subseteq RecordsUpTo(last)

\* No committed index holds a document whose record a power failure may
\* still take from the log (run_commit_ladder: "the WAL is never less durable
\* than the committed lexical/vector indexes").
WalNoLessDurable ==
    AddsOf(Above(wal, synced)) \cap (lexDisk \cup vecDisk) = {}

Running == mode \in {"open", "recovering", "failed"}

\* A mutation that has not finished, or failed, is above the watermark,
\* every checkpoint on disk or about to be, and every running commit's
\* snapshot, so no commit drops its record or lets recovery skip it; and so
\* is every number the log will assign (Issues #1499, #1502).
CheckpointSound ==
    Running =>
        /\ \A seq \in unfinished \cup {nextSeq} :
               /\ seq > watermark
               /\ seq \notin finishedAbove
               /\ seq > lexCkpt /\ seq > vecCkpt /\ seq > vecPend
               /\ \A l \in Ladders : lpc[l] # "idle" => seq > snap[l]
        /\ \A c \in Clients : pc[c] \in Applying =>
               \E r \in wal : r.seq = op[c].seq

\* The watermark stops at an unfinished mutation or at the log's end, so a
\* commit with nothing in flight covers everything (AppliedSeqs::watermark).
WatermarkTight ==
    Running => watermark = LastSeq \/ watermark + 1 \in unfinished

\* While no mutation of an id is under way and none has failed, both stores
\* hold the id's documents as the log describes them, and so each other's.
StoresMatchLog ==
    Running =>
        \A id \in Ids \ failed :
            (\A c \in Clients : op[c] = NoOp \/ op[c].id # id) =>
                LET Of(store) == {e \in store : e.id = id}
                IN  Of(lexMem) = Of(Live(history)) /\ Of(vecMem) = Of(lexMem)

\* In log order, a put leaves its own document as the id's only one, and a
\* delete leaves none: concurrent upserts never leave two (Issue #1049).
LastWriterWins ==
    \A r \in history : r.kind # "add" =>
        {e \in Live({s \in history : s.seq <= r.seq}) : e.id = r.id} = r.adds

\* A call to put, add, delete or commit returns, whatever fails and in
\* whatever order the calls take the locks: none waits for ever for the
\* vector writer or for a record below its own.
CallsReturn ==
    /\ \A c \in Clients : pc[c] # "idle" ~> pc[c] = "idle"
    /\ \A l \in Ladders : lpc[l] # "idle" ~> lpc[l] = "idle"

\* Every number the log assigned is in time at or below the watermark, unless
\* writes stop or the process ends, so no gap holds commits back for ever
\* (AppliedSeqs: the numbers above the watermark are dense).
WatermarkCatchesUp ==
    \A seq \in 1..MaxSeq :
        seq \in unfinished ~> watermark >= seq \/ stop \/ mode = "closed"

\* Once a mutation of an id failed, nothing is logged for it until reopened.
NoWriteOverFailed ==
    [][\A r \in wal' \ wal : r.id \notin failed]_vars

=============================================================================
