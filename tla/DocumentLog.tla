---------------------------- MODULE DocumentLog ----------------------------
(***************************************************************************)
(* The write-ahead log of laurus at the grain of its file: DocumentLog of  *)
(* store/log.rs over the FileStorage of storage/file.rs.  It shows the     *)
(* append handle and its buffer, the partial frame a failed write leaves,  *)
(* the temporary file renamed over the log, the directory sync that makes  *)
(* the rename durable, and what a crash of the process or the machine can  *)
(* leave of all this.                                                      *)
(*                                                                         *)
(* Every operation is one step: it holds the writer lock throughout.  The  *)
(* callers are free to call in any order, but truncate only what the       *)
(* stores' checkpoint covers.                                              *)
(***************************************************************************)
EXTENDS Naturals

CONSTANTS
    Policies,      \* the WalSyncPolicy an open may choose
    CrashKinds,    \* "process": the operating system keeps what the handle
                   \* wrote; "power": it keeps what was synced, at least
    Faults,        \* the operations that may fail
    Inherited,     \* records in a log that an older build left
    MaxSeq,        \* bound on the sequence numbers
    MaxDeferrals,  \* bound on the deferral scopes open at a time
    MaxCrashes     \* bound on the crashes

ASSUME PoliciesAssumption == Policies \subseteq {"PerRecord", "Group"}
ASSUME CrashKindsAssumption == CrashKinds \subseteq {"process", "power"}
ASSUME FaultsAssumption == Faults \subseteq {"append", "sync", "rewrite", "wipe"}
ASSUME BoundsAssumption ==
    /\ Inherited \in Nat \ {0} /\ MaxSeq \in Nat
    /\ MaxDeferrals \in Nat /\ MaxCrashes \in Nat

VARIABLES
    mode,        \* "closed" or "open"
    policy,      \* DocumentLog::sync_policy
    file,        \* what the file will hold once the buffer is written
    buffered,    \* records that may still be in the handle's buffer
    unsynced,    \* records that no fsync of the file has covered
    stale,       \* what a power failure may bring back instead of the file
    handle,      \* DocumentLog::wal_writer is Some
    dirty,       \* WalWriterState::dirty
    torn,        \* DocumentLog::torn
    nameSynced,  \* DocumentLog::wal_name_synced
    deferrals,   \* DocumentLog::sync_deferral_depth
    next,        \* DocumentLog::next_seq
    ckpt,        \* the checkpoint that all the stores have on disk
    crashes,     \* what MaxCrashes bounds
    fresh,       \* (ghost) records whose append returned Ok since the open
    failed,      \* (ghost) numbers whose append failed since the open
    promised     \* (ghost) records reported durable

fileVars == <<file, buffered, unsynced, stale>>
handleVars == <<handle, dirty, torn, nameSynced>>
callVars == <<mode, policy, deferrals, ckpt, crashes>>
ghostVars == <<fresh, failed, promised>>
vars == <<fileVars, handleVars, callVars, next, ghostVars>>

-----------------------------------------------------------------------------
(* Files.  A file is the records that reading it returns: those before the *)
(* first partial frame, in the order of their numbers.                     *)

Files == [records : SUBSET Nat, partial : BOOLEAN, older : BOOLEAN]

Empty == [records |-> {}, partial |-> FALSE, older |-> FALSE]

\* Another file, or another content, under the log's name until a sync.
Stales == [by : {"rename", "truncate"}, file : Files, unsure : SUBSET Nat]

\* No file: its creation is not durable either.
Missing == [by |-> "rename", file |-> Empty, unsure |-> {}]

\* The file holding these records alone, in the current framing.
Rewritten(records) ==
    [records |-> records, partial |-> FALSE, older |-> FALSE]

\* What may be left of f when the records in unsure may be lost: the bytes
\* that survive end after a record or within the next.
Remains(f, unsure) ==
    {[records |-> {r \in f.records : r \notin unsure \/ r <= last},
      partial |-> cut, older |-> f.older] :
        last \in 0..MaxSeq,
        cut \in IF f.partial \/ unsure # {} THEN BOOLEAN ELSE {FALSE}}

Current == [by |-> "rename", file |-> file, unsure |-> unsynced]

\* An fsync of the file undoes no rename, a directory sync no truncation.
Renames == {s \in stale : s.by = "rename"}
Truncations == {s \in stale : s.by = "truncate"}

\* The same once an open handle was closed, which syncs the file.
Closed == [Current EXCEPT !.unsure = IF handle THEN {} ELSE @]
ClosedStale == IF handle THEN Renames ELSE stale

\* What a power failure can bring back once a new file is renamed over the
\* closed log.
Replaced ==
    {Closed} \cup
    {[by |-> "rename", file |-> s.file, unsure |-> s.unsure] :
        s \in ClosedStale}

\* The log is renamed over, and the directory sync succeeds or fails.
Rename(records, synced) ==
    /\ file' = Rewritten(records)
    /\ buffered' = {} /\ unsynced' = {}
    /\ stale' = IF synced THEN {} ELSE Replaced
    /\ nameSynced' = synced

-----------------------------------------------------------------------------
(* ensure_writer.  A log in an older framing is rewritten before the first *)
(* append, and the storage is synced before the handle opens unless it is  *)
(* known that the file's name is durable.                                  *)

Upgrades == ~handle /\ file.older

Ensured == IF Upgrades THEN Rewritten(file.records) ELSE file
EnsuredUnsynced == IF Upgrades THEN {} ELSE unsynced

\* No storage sync before the handle opens.
EnsuredStaleUnsynced == stale
EnsuredStale ==
    IF Upgrades THEN {}
    ELSE IF handle \/ nameSynced THEN stale ELSE Truncations

\* The rewrite's rename is done and its sync fails: no number is assigned.
UpgradeUnsynced ==
    /\ mode = "open" /\ ~torn /\ next <= MaxSeq
    /\ Upgrades
    /\ "rewrite" \in Faults
    /\ Rename(file.records, FALSE)
    /\ UNCHANGED <<handle, dirty, torn, callVars, next, ghostVars>>

-----------------------------------------------------------------------------
(* Appending and flushing.                                                 *)

\* A successful flush_and_sync of the open handle.
Synced ==
    /\ buffered' = {} /\ unsynced' = {}
    /\ stale' = Renames
    /\ dirty' = FALSE

\* Whether an append fsyncs before it returns: under "Group" once the batch
\* threshold is reached, under "PerRecord" unless a scope defers it.
SyncsAppend ==
    IF policy = "PerRecord" THEN {deferrals = 0} ELSE BOOLEAN

\* The next record is written.  Behind a partial frame no open reads it.
Written ==
    IF Ensured.partial THEN Ensured
    ELSE [Ensured EXCEPT !.records = @ \cup {next}]

\* ensure_writer opened the handle and the frame is in its buffer.
WriteRecord ==
    /\ mode = "open" /\ ~torn /\ next <= MaxSeq
    /\ handle' = TRUE /\ nameSynced' = TRUE
    /\ next' = next + 1
    /\ file' = Written
    /\ UNCHANGED <<torn, callVars>>

LeaveUnsynced ==
    /\ buffered' = buffered \cup {next}
    /\ unsynced' = EnsuredUnsynced \cup {next}
    /\ stale' = EnsuredStale
    /\ dirty' = TRUE

\* append_put and append_delete.
AppendSynced ==
    /\ TRUE \in SyncsAppend
    /\ WriteRecord
    /\ buffered' = {} /\ unsynced' = {}
    /\ stale' = EnsuredStale \ Truncations
    /\ dirty' = FALSE
    /\ fresh' = fresh \cup {next}
    /\ promised' = promised \cup fresh'
    /\ UNCHANGED failed

AppendDeferred ==
    /\ FALSE \in SyncsAppend
    /\ WriteRecord
    /\ LeaveUnsynced
    /\ fresh' = fresh \cup {next}
    /\ UNCHANGED <<failed, promised>>

\* The record is written and its fsync fails.
AppendUnsynced ==
    /\ "sync" \in Faults
    /\ TRUE \in SyncsAppend
    /\ WriteRecord
    /\ LeaveUnsynced
    /\ failed' = failed \cup {next}
    /\ UNCHANGED <<fresh, promised>>

\* A failed write is forgotten.
TornNever(cut) == {FALSE}
\* Writing the frame fails, having written part of it or nothing, or
\* encoding the record does.
TornAfter(cut) == IF cut THEN {TRUE} ELSE BOOLEAN

AppendFails ==
    /\ "append" \in Faults
    /\ mode = "open" /\ ~torn /\ next <= MaxSeq
    /\ \E cut \in BOOLEAN :
           /\ torn' \in TornAfter(cut)
           /\ file' = [Ensured EXCEPT !.partial = @ \/ cut]
    /\ unsynced' = EnsuredUnsynced
    /\ stale' = EnsuredStale
    /\ handle' = TRUE /\ nameSynced' = TRUE
    /\ next' = next + 1
    /\ failed' = failed \cup {next}
    /\ UNCHANGED <<buffered, dirty, callVars, fresh, promised>>

\* flush_wal: a no-op that returns Ok when no handle is open.
FlushWal ==
    /\ mode = "open"
    /\ IF dirty THEN Synced ELSE UNCHANGED <<buffered, unsynced, stale, dirty>>
    /\ promised' = promised \cup fresh
    /\ UNCHANGED <<file, handle, torn, nameSynced, callVars, next, fresh,
                   failed>>

DeferSync ==
    /\ mode = "open" /\ deferrals < MaxDeferrals
    /\ deferrals' = deferrals + 1
    /\ UNCHANGED <<fileVars, handleVars, mode, policy, ckpt, crashes, next,
                   ghostVars>>

\* A scope is dropped twice.
ResumeSyncTwice ==
    /\ mode = "open"
    /\ deferrals' = deferrals - 1
    /\ UNCHANGED <<fileVars, handleVars, mode, policy, ckpt, crashes, next,
                   ghostVars>>

\* Dropping the scope does not flush.
ResumeSync ==
    /\ mode = "open" /\ deferrals > 0
    /\ deferrals' = deferrals - 1
    /\ UNCHANGED <<fileVars, handleVars, mode, policy, ckpt, crashes, next,
                   ghostVars>>

-----------------------------------------------------------------------------
(* Truncation.  The stores' checkpoint covers only numbers whose append    *)
(* did not fail; a ladder truncates through it, or through an older one.   *)

Checkpoint ==
    /\ mode = "open"
    /\ \E n \in ckpt + 1 .. next - 1 :
           /\ \A m \in failed : n < m
           /\ ckpt' = n
    /\ UNCHANGED <<fileVars, handleVars, mode, policy, deferrals, crashes,
                   next, ghostVars>>

CloseHandle == handle' = FALSE /\ dirty' = FALSE

LastSeq == next - 1

\* The fast path wipes the file in place.
Wipe ==
    /\ file' = Empty
    /\ buffered' = {} /\ unsynced' = {}
    /\ UNCHANGED nameSynced

\* The slow path keeps what lies above n.
Retained(n) == {r \in file.records : r > n}

Truncate ==
    /\ mode = "open"
    /\ \E n \in 0..ckpt :
           IF LastSeq <= n THEN Wipe /\ stale' = {}
           ELSE Rename(Retained(n), TRUE)
    /\ CloseHandle
    /\ UNCHANGED <<torn, callVars, next, ghostVars>>

\* The file is wiped, and syncing it or the storage fails.
WipeUnsynced ==
    /\ mode = "open" /\ "wipe" \in Faults
    /\ LastSeq <= ckpt
    /\ Wipe
    /\ stale' \in {Renames, ClosedStale \cup {[Closed EXCEPT !.by = "truncate"]}}
    /\ CloseHandle
    /\ UNCHANGED <<torn, callVars, next, ghostVars>>

\* The rename is done and its sync fails.
TruncateUnsynced ==
    /\ mode = "open" /\ "rewrite" \in Faults
    /\ \E n \in 0..ckpt : LastSeq > n /\ Rename(Retained(n), FALSE)
    /\ CloseHandle
    /\ UNCHANGED <<torn, callVars, next, ghostVars>>

\* The handle is closed and creating the new file fails.
TruncateFails ==
    /\ mode = "open" /\ handle
    /\ {"wipe", "rewrite"} \cap Faults # {}
    /\ CloseHandle
    /\ buffered' = {} /\ unsynced' = {}
    /\ stale' = Renames
    /\ UNCHANGED <<file, torn, nameSynced, callVars, next, ghostVars>>

\* Flushing the handle that truncation took out fails.  Dropping it writes
\* as much of its buffer as it can; torn is not set.
TruncateFlushFails ==
    /\ mode = "open"
    /\ dirty
    /\ file' \in Remains(file, buffered)
    /\ buffered' = {}
    /\ unsynced' = unsynced \cap file'.records
    /\ CloseHandle
    /\ UNCHANGED <<stale, torn, nameSynced, callVars, next, ghostVars>>

-----------------------------------------------------------------------------
(* Crashes and opens.                                                      *)

\* Closing cleanly flushes the handle as far as it can: a process crash.
Crash ==
    /\ mode = "open"
    /\ crashes < MaxCrashes
    /\ mode' = "closed"
    /\ crashes' = crashes + 1
    /\ \/ /\ "process" \in CrashKinds
          /\ file' \in Remains(file, buffered)
          /\ unsynced' = unsynced \cap file'.records
          /\ UNCHANGED stale
       \/ /\ "power" \in CrashKinds
          /\ \E s \in {Current} \cup stale :
                 /\ file' \in Remains(s.file, s.unsure)
                 /\ stale' = IF s = Missing THEN {Missing} ELSE {}
          /\ unsynced' = {}
    /\ buffered' = {}
    /\ CloseHandle
    /\ torn' = FALSE /\ nameSynced' = FALSE
    /\ deferrals' = 0
    /\ fresh' = {} /\ failed' = {}
    /\ UNCHANGED <<policy, ckpt, next, promised>>

IsTop(n, S) == n \in S \cup {0} /\ \A m \in S : m <= n

Larger(m, n) == IF m > n THEN m ELSE n

\* read_wal alone: numbers go on from the records found.
NextAfterRecords(top) == top + 1
\* advance_seq_past alone: the records found do not raise the counter.
NextAfterCheckpoint(top) == ckpt + 1
\* Also advance_seq_past, with the highest checkpoint.
NextAfter(top) == Larger(ckpt, top) + 1

\* The engine's open: with_sync_policy, advance_seq_past and read_all.
Open ==
    /\ mode = "closed"
    /\ mode' = "open"
    /\ policy' \in Policies
    /\ \E top \in file.records \cup {0} :
           IsTop(top, file.records) /\ next' = NextAfter(top)
    /\ IF file.partial
       THEN /\ file' = [file EXCEPT !.partial = FALSE]
            /\ buffered' = {} /\ unsynced' = {}
            /\ stale' = {}
            /\ nameSynced' = TRUE
       ELSE UNCHANGED <<fileVars, nameSynced>>
    /\ UNCHANGED <<handle, dirty, torn, deferrals, ckpt, crashes, ghostVars>>

\* The cut file is renamed over the log, and the sync fails.
OpenFails ==
    /\ mode = "closed" /\ "rewrite" \in Faults
    /\ file.partial
    /\ file' = [file EXCEPT !.partial = FALSE]
    /\ buffered' = {} /\ unsynced' = {}
    /\ stale' = Replaced
    /\ UNCHANGED <<handleVars, callVars, next, ghostVars>>

Init ==
    /\ mode = "closed" /\ policy \in Policies
    /\ \/ file = Empty /\ stale = {Missing}
       \/ /\ file = [records |-> 1..Inherited, partial |-> FALSE,
                     older |-> TRUE]
          /\ stale = {}
    /\ buffered = {} /\ unsynced = {}
    /\ handle = FALSE /\ dirty = FALSE /\ torn = FALSE /\ nameSynced = FALSE
    /\ deferrals = 0 /\ next = 1 /\ ckpt = 0 /\ crashes = 0
    /\ fresh = {} /\ failed = {} /\ promised = {}

Next ==
    \/ UpgradeUnsynced
    \/ AppendSynced \/ AppendDeferred \/ AppendUnsynced \/ AppendFails
    \/ FlushWal \/ DeferSync \/ ResumeSync
    \/ Checkpoint
    \/ Truncate \/ WipeUnsynced \/ TruncateUnsynced \/ TruncateFails
    \/ Crash \/ Open \/ OpenFails

Spec == Init /\ [][Next]_vars

\* With the one failure that breaks the log's promise.
FlushFaultSpec == Init /\ [][Next \/ TruncateFlushFails]_vars

-----------------------------------------------------------------------------
(* Properties.                                                             *)

TypeOK ==
    /\ mode \in {"closed", "open"} /\ policy \in {"PerRecord", "Group"}
    /\ file \in Files
    /\ buffered \subseteq unsynced /\ unsynced \subseteq file.records
    /\ stale \subseteq Stales
    /\ {handle, dirty, torn, nameSynced} \subseteq BOOLEAN
    /\ deferrals \in 0..MaxDeferrals
    /\ next \in Nat /\ ckpt \in Nat /\ crashes \in Nat
    /\ fresh \subseteq Nat /\ failed \subseteq Nat /\ promised \subseteq Nat

\* The records that the next open must read: the stores cover the others.
Owed == {r \in promised : r > ckpt}

\* What a crash now would leave.
AfterCrash ==
    (IF "process" \in CrashKinds THEN Remains(file, buffered) ELSE {}) \cup
    (IF "power" \in CrashKinds
     THEN UNION {Remains(s.file, s.unsure) : s \in {Current} \cup stale}
     ELSE {})

\* No crash loses a record that the log reported durable and no checkpoint
\* covers: not one in the handle's buffer, behind a partial frame, or
\* appended to a file whose rename a power failure undoes (torn and
\* wal_name_synced, store/log.rs).
OwedSurvives == \A f \in AfterCrash : Owed \subseteq f.records

\* No number is assigned twice: whatever file a crash leaves, its records
\* were numbered before the next append's, although numbers are counted
\* anew from each file that an open finds (next_seq, store/log.rs).
NumbersUnused ==
    mode = "open" => \A f \in AfterCrash : \A r \in f.records : r < next

\* A record is never appended at or below the checkpoint, where the next
\* recovery would skip it (advance_seq_past, store/log.rs).
AppendsAboveCheckpoint == [][\A r \in fresh' \ fresh : r > ckpt]_vars

Durable == INSTANCE DurableLog WITH
    stored <- {r \in file.records : r > ckpt},
    owed <- Owed,
    released <- ckpt

\* The log, with its files and faults, is the one its callers are promised
\* (the doc comment of DocumentLog, store/log.rs).
IsDurable == Durable!Spec

=============================================================================
