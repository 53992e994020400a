# A formal model of laurus' write path and index storage

Laurus is a search library (`src/laurus`): an `Engine` over a lexical
(inverted) index, a vector index and a document store, fed through one
write-ahead log (WAL). This directory holds TLA+ modules for the part of it
where correctness depends on order, failure and concurrency: how a put, add or
delete reaches the three stores, how a commit makes it durable and drops it
from the log, how each index and the log keep their files while searches,
merges and failures go on beside them, and how a reopened index recovers.

Paths below are relative to `src/laurus/src/` unless they start with `src/`.

## 1. Inventory

| Component | State | Operations | Interacts with |
|---|---|---|---|
| Engine (`engine.rs`) | stop flag, id-lock shards, schema lock, applied numbers, auto-commit counter, commit generation | `put_document(s)`, `add_document(s)`, `delete_documents`, `commit`, `flush_wal`, `build`/`recover`, `Drop`, `add_field`/`delete_field`/`update_field` | all stores, the log, two timer threads |
| Applied numbers (`engine/applied_seqs.rs`) | watermark, finished numbers above it, progress | `finish`, `raise_to`, `watermark`, `progress` | mutations finish numbers; ladders read the watermark |
| Document log (`store/log.rs`) | WAL file, append handle with dirty flag, `next_seq`, `next_doc_id`, torn flag, deferral depth, synced-name flag | `append_put`, `append_delete`, `flush_wal`, `ensure_per_record_durability`, `defer_sync`, `read_all`, `truncate_retaining_after` | its writer lock serializes appends, flushes and truncation |
| Document store (`store/document.rs`) | pending documents, registered segments, manifest | `put_document_with_id`, `commit`, `get_document` | owned by the log |
| Lexical store (`lexical/store.rs`) and inverted index (`lexical/index/inverted/`) | cached writer, buffered documents, pending segments and deletions, manifest, bitmaps, checkpoint | `prepare_upsert`, `apply_prepared_upsert`, `delete_document_by_internal_id`, `commit_through`, `abandon_writer`, merges | one writer, dropped by every commit |
| Vector store (`vector/store.rs`) and segments (`vector/index/segment/`, `vector/index/multi_field.rs`) | writer lock, per-field buffers, sealed segments, deletion bitmaps, pending and published checkpoints | `lock_writer`, `write_prepared`, `delete_document_by_internal_id`, `commit_through`, `optimize`, merges | a put holds the writer lock from before its append to its finish; so does a commit |
| Commit ladder (`run_commit_ladder`) | the snapshot of the watermark | flush log, commit lexical, vector, documents, truncate log, advance generation | run by callers, the auto-commit and the commit timer, beside ingestion |
| Commit generation (`CommitGenerationTracker`, `index_dir.rs`) | counter, last progress, file | `advance_if_changed`, `mark_committed`, `peek_commit_generation` | ladders, recovery, other processes |
| Schema and dynamic fields | schema, `schema_change_lock` | field changes, inference, coercion | blocks ingestion |
| Storage (`storage/`) | files, directory entries | temp file, rename, sync, checksummed control files | everything persistent |
| Search, analysis, embedding, vector algorithms, CLI, server, MCP, bindings | none a mutation depends on | | read committed state, or call the Engine |

### What is hard, and what makes each part correct

- **Mutations of different ids interleave** with each other and with commits;
  they finish out of order. The watermark must stop below every mutation that
  has not finished, and commits may record or drop nothing above it.
- **A commit is five steps without a lock around them.** Records, checkpoints
  and documents change while it runs; two ladders may overlap, with different
  snapshots.
- **A crash at any point** must leave files from which the next open rebuilds,
  in each index, exactly what the surviving records say.
- **A mutation that fails after its append** has changed the stores in part.
  Nothing may make that final, and nothing may be written over it, until the
  log is replayed.
- **Locks and waits**: the id lock, the vector writer lock and the log's lock
  must not leave anyone waiting for ever.
- **Deferred fsyncs** (group commit, batches) separate what is appended from
  what is durable, and what is acknowledged from both.
- **A log file is renamed, truncated and appended to**, and any write, fsync,
  rename or directory sync may fail: no number may be used twice, and no record
  may land where the next open does not read it.
- **Segments, bitmaps and manifests are separate files.** A commit, a merge or
  a crash may stop between any two of them, and a retry finds what it left.
- **Searches cache what they built**: segment readers, bitmaps and searchers
  may be older than the index, and are built while it changes.

`PROJECT.json` lists each such hazard at its line, with the properties that
cover it, or why none does.

## 2. Modules

| Module | What it is |
|---|---|
| `AppliedSeqs` | `AppliedSeqs` of `engine/applied_seqs.rs`: the watermark and the finished numbers above it. `Finish` and `RaiseTo` are the struct's methods, each one critical section. |
| `Engine` | The write path, the commit ladder, crashes, closing and recovery, over abstract stores. |
| `MCEngine` | `Engine` for TLC, with the symmetry sets. |
| `EngineProofs` | Theorems about `Engine`, checked by TLAPS: types, watermark and checkpoints, failed ids; the log is the end of the history, and an acknowledged record survives. |
| `EngineReplayProofs` | The inductive invariant of the stores: what files and memory hold of the history at every step. Extends `EngineProofs`. |
| `EngineRecoveryProofs` | What follows from it: crashes are all or nothing, discarded records are stored, the stores follow the log. Extends `EngineReplayProofs`. |
| `DocumentLog` | The log (`store/log.rs`) at the grain of its file, over `FileStorage` (`storage/file.rs`). |
| `DurableLog` | What a log promises: numbered records, some of them owed; a crash loses a suffix of the others. `DocumentLog` implements it. |
| `DocumentLogProofs` | Theorems about `DocumentLog`, its refinement of `DurableLog` among them. |
| `CommitGeneration` | The commit counter, its file, the progress it follows and a process that polls it. Extends `AppliedSeqs`. |
| `CommitGenerationProofs` | Theorems about `CommitGeneration`. |
| `LexicalSegments` | The lexical store over its inverted index: writer, flushes, bitmaps, manifest, merges, searchers. |
| `LexicalSegmentsProofs` | Theorems about `LexicalSegments`: look-ups, searchers, what a crash leaves, one copy of each document, the entries' counts. |
| `VectorSegments` | The vector store over one segmented index: seals, lock-free deletes, bitmaps and epochs, merges, reader cache, searchers. |
| `VectorSegmentsProofs` | Theorems about `VectorSegments`: what is held, what a crash leaves, what searches find and hide. |
| `SchemaChanges` | Vector fields that are added, deleted, recreated and reindexed under ingestion: one index per field, each with its checkpoint and marks, the cached writer, the ladder, the schema lock, crashes and recovery. |
| `SchemaChangesProofs` | Theorems about `SchemaChanges`: the locks, what the fields hold, and reopening. |
| `MCDocumentLog`, `MCCommitGeneration`, `MCLexicalSegments`, `MCVectorSegments`, `MCSchemaChanges` | The instances for TLC. |

The modules fit together by what one assumes and another shows. `Engine` and
`CommitGeneration` share `AppliedSeqs`. `Engine` takes the log as a set of
records of which a crash loses a suffix that was not made durable, which is
what `DurableLog` says and `DocumentLog` implements; and it takes each index as
a set of documents with a checkpoint, replayed above it, which is what
`ReopensLive` shows of `LexicalSegments` and of `VectorSegments`. Those have
one vector field; `SchemaChanges` has several, with the log and the lexical
store reduced to their records and checkpoint.

### How `Engine` corresponds to the code

*Stores.* Each index is the set of its live documents (internal number and
external id): what the process holds (`lexMem`, `vecMem`), what its files hold
(`lexDisk`, `vecDisk`) and its checkpoint (`lexCkpt`, `vecCkpt`). `lexWriter`
says whether the lexical writer is cached, which decides whether a commit
writes a checkpoint; `vecPend` is the checkpoint the vector manager will publish
next. The document store is its pending buffer, its registered segments and
those its manifest file lists.

*Log.* `wal` is the set of records, ordered by number; a put is one record with
the document it adds and the versions it replaces. Records above `flushed` are
lost if the process dies, those above `synced` if the machine does. `torn` is
`DocumentLog::torn`, and after a crash a partial record at the file's end.

*Mutations.* A client goes through `Begin` (id lock, stop check, preparation,
lookup), `Lock` (vector writer; stop check again), `Append`, then for each
replaced version `DeleteLexical` and `DeleteVector`, then `StoreDocument`,
`InsertLexical`, `InsertVector`, `FinishMutation`, `Acknowledge`. Each step is
what the code does under one lock, so every interleaving the locks allow is
there. `AppendRefused`, `AppendFails`, `AppendUnsynced` and `ApplyFails` are the
failures at or after the append, which stop writes; `AppendUnsynced` is also
what a kill between a record's write and its fsync leaves, once a crash
follows. `AcknowledgeFails` is the durability error at the end of a call, which
does not stop writes.

*Commits.* A ladder goes through `LadderCheck`, `LadderSnapshot`,
`LadderFlush`, `LadderLexical`, `LadderVector`, `LadderDocs`, `LadderTruncate`;
each may fail where its fault is enabled, leaving what the code leaves (some
deletions on disk, segments without a checkpoint, an emptied buffer, a
truncated log with an error after it). A failure of the commit generation's
file, the last step of the code's ladder, is the last failure of
`LadderTruncate`.

*Processes.* `Crash` loses a suffix of the log between what is durable and what
was appended. A crash inside a store's commit leaves what that commit's failing
variant leaves, so with the faults enabled crashes inside steps are covered.
`CloseEngine` is `Drop for Engine` while writes are accepted; a stopped engine
abandons its writer, which is `Crash`. `Open` is `Engine::recover` up to its
commit, whose ladder then runs in mode `recovering`; if that fails the open
fails, and dropping the engine (`CloseEngine` from `failed`) still commits the
lexical writer. `OpenFails` is a record that fails to apply.

*History variables.* `history` holds every record that took effect on the log,
truncated or not; `acked`, `failed` and `unfinished` hold the acknowledged
records, the ids with a failed mutation and the numbers not finished. They are
read by properties only.

### How `DocumentLog` corresponds to the code

A file is the set of records that reading it returns, whether a partial frame
follows them, and whether it is in an older framing. `file` is what the log
will hold once the handle's buffer is written; `buffered` and `unsynced` are the
records in it that a crash of the process, or of the machine, may still take;
`stale` holds the files a power failure may put back in its place, because a
rename or a truncation was not yet synced. `handle`, `dirty`, `torn`,
`nameSynced`, `deferrals` and `next` are the fields of `DocumentLog` and of its
writer state. One action is one call, since every call holds the writer lock
throughout: appends (synced, deferred, failing in the write or in the fsync),
`FlushWal`, `DeferSync`/`ResumeSync`, `Truncate` and `Wipe` (the slow and the
fast path of `truncate_retaining_after`) with their failures, `Open` with its cut
of a partial frame, `Crash`. Callers are free, but truncate only what
`Checkpoint` covers. A failed fsync may be retried: the retry's success is
believed. What a power failure keeps of unsynced bytes is a prefix.

### How `CommitGeneration` corresponds to the code

A ladder is `Start` (`applied_before`, `progress_before`), `CommitLexical`,
`CommitVector`, `Truncate`, `Advance`, `Save`, `SetBaseline`: three separate
steps for what `advance_if_changed` does, since two ladders may run it at once.
Any step may fail (`Fail`). The other process peeks at the file (`Peek`) and, if
the number is new, copies the indexes (`Reload`, one step). A crash between the
truncation and the save, followed by an open over the now empty log, marks the
change as committed before anyone is told of it (`mark_committed`); the code
does not close that window, and the properties speak of a reader that has
reloaded since the index was last closed (`recent`).

### How `LexicalSegments` corresponds to the code

`writer` is the cached `InvertedIndexWriter`: its buffer, the segments it
knows, those it flushed and has not published, the deletion manager's bitmaps
with the changed ones, the manifest entries to bring up to date, the documents
it superseded and its checkpoint. `segs`, `nextGen` and `ckpt` are the shared
manifest and metadata in memory; `manifest`, `metadata`, `files` and `delmaps`
are the files. A commit goes through `StartCommit`, `Flush`, `SaveMarks` (one
bitmap at a time), `FlagDeletions`, `Publish`, `Checkpoint`, then merges
(`Merge`, `Release`, `DeleteSources`) and `Finish`, which drops the searcher
before the lock; an optimization is the same with the writer kept. Each write
may fail, and a save that fails may have replaced its file. A mutation is a
look-up with its append (`LogPut`, `LogDelete`), then `DeleteVersion` and
`Insert`, with an automatic flush (`AutoFlush`) anywhere between. A searcher
is built segment by segment (`StartBuild`, `ReadSegment`, `FinishBuild`) beside
all of this.

*Assumed.* An id's look-up and its append are one step (its lock is held from
the one to the other); the engine's watermark is exact; a document's id is its
record's number; a merge writes one segment; a reader's documents are read when
it is built; the sweep of an open deletes all orphans or, failing, none. The
process may crash, the storage keeps what was written.

### How `VectorSegments` corresponds to the code

`segs`, `ckpt`, `nextId` and `pending` are the manager's and core's state,
`manifest`, `files` and `delmap` the files, `slot` and `bitmaps` the deletion
bitmap (`Option<Arc<..>>`, so that a reader may hold an older one) and `epoch` its
epoch. A delete is `AppendDelete`, `MarkDeleted`, which creates or loads a bitmap
first, then `FinishDelete` once it gets the searcher's lock; it takes no writer
lock. A commit or optimization is a seal, the bitmap, the checkpoint, a merge
and the forgetting of the marks that the merge applied, step by step. Its end
is two steps, as in the code: `Release` lets go of the writer lock, and
`Return` drops the searcher once no search builds one, so that other commits
and optimizations may run in full between the two. `returning` has what the
commits between them have covered. A call whose return tells nothing new, and
`refresh`, only drop the searcher (`Refresh`). A search's or `stats`' build reads the epoch, clears the cache if it moved, reads
the bitmap, loads each segment from the cache or its file, and looks at the
epoch again.

A failed save of the manifest leaves the old one or the new one (`SaveFails`):
`save_checksummed` may fail after its rename. A merge deletes its sources'
files, or leaves some of them, which the code ignores (`DeleteFiles`); they stay
until an open sweeps them, as do the sources of a merge whose manifest was not
saved. `LeftOver` names those segments.

*Assumed.* The process may crash, the storage keeps what was written; the log
loses nothing and the ladder's number is the watermark when the lock is taken;
a merge, the deletion of its sources and the cache invalidation are one step;
any two or more segments may be merged.

### How `SchemaChanges` corresponds to the code

`schema` and `saved` are the engine's schema in memory and as the persist hook
wrote it, `index` is `MultiFieldVectorIndex::fields`; each maps a field to its
dimension, which stands for the dimension, the distance and the kind. `writer`
is the set of fields of the cached `MultiFieldWriter`, `buf` and `seal` what each
sub-writer holds and whether it has sealed it. `marks` and `pend` are a field's
deletion bitmap and pending checkpoint, `files` its directory: sealed documents,
the dimension they were written with, saved marks, published checkpoint.

A put is `Coerce` (`apply_dynamic_schema`, before any lock), `Embed` (under the
read side of `schema_change_lock`, with the checks of `embed_raw`) and
`WritePut` (append and write under the vector writer's lock); its future may be
dropped before the last (`CancelPut`). `Delete` marks the document in every
registered field. A ladder is `CommitLexical`, `CommitVector`, `TruncateLog`,
for a caller, for a schema change or for recovery; the vector commit seals the
fields one by one, then writes their marks and publishes their checkpoints, and
may fail in any of them after any others. A schema change begins under the
write side of the lock (`AddField`, `RecreateField` with a commit; `DeleteField`,
`ReindexField` without), changes the store (`ApplyNewField`, `ApplyDeletion`,
`ApplyReindex`, each with its failures) and then the schema (`SaveSchema`), and
its future may be dropped while it waits (`CancelChange`). `End` is a crash or a
drop at any point, `Open` the replay from the lowest checkpoint with its
quarantine, `OpenFails` an open that reports an error.

*Assumed.* Appends are synced and the files keep what was written; a document
has a value for one field; a purge is one step, which may fail and then leaves
any part of the field's files (`Leftovers`); the persist hook succeeds; segments
are merged by a reindex only.

*History variables.* `history`, `discarded` and `refused` hold the records that
took effect, those a replay discarded, and those whose caller got an error.
`start` is the record after which a field last began empty. `unfollowed` is the
set of fields that three failures of the code leave wrong: finding 7 and
observed 1 and 2 of section 4. A field leaves it when it is emptied or when its
deletion is saved.

## 3. What the runs check

The runs of `Engine` use two clients and two ids, so that mutations of one id
contend and mutations of different ids overlap. Clients, ids and ladders are
symmetric; the liveness runs use no symmetry.

| Run | Instance | What it shows |
|---|---|---|
| `engine_crash` | 3 records, 1 commit, 1 crash or close; an append's or a flush's fsync, an application and the vector commit may fail | `AllOrNothing`, `WatermarkTight`, `StoresMatchLog`, `LastWriterWins`, `DiscardedIsStored`, `CheckpointSound`, `Retrievable`, `NoWriteOverFailed`, `TypeOK` |
| `engine_live` | 2 records, 1 commit, syncs deferred by batches, no crash; appends, the lexical commit, the document manifest and the truncation may fail; under `FairSpec` | `AckedDurable`, `CallsReturn`, `WatermarkCatchesUp` |
| `document_log` | numbers to 4, 2 inherited records, both sync policies, 2 crashes of the process or the machine, any fault but the flush of a handle that a truncation took out | `TypeOK`, `OwedSurvives`, `NumbersUnused`, `AppendsAboveCheckpoint`, `IsDurable` |
| `commit_generation` | 2 ladders, 2 records, 1 failing step, 1 crash or close; under `FairSpec` | `TypeOK`, `UnchangedMeansCurrent`, `ChangesReachReader` |
| `lexical_segments` | 2 ids, 1 automatic flush, 1 merge; records, failing storage operations and crashes up to 4 together, of them up to 3 records and 2 others | `TypeOK`, `LookupExact`, `SearchesSeeCommit`, `ReopensLive`, `OneCopy`, `CountsMatch` |
| `vector_segments` | 1 merge, searches; records, failing storage operations and crashes up to 4 together, of them up to 3 records and 2 others | `TypeOK`, `HiddenUnlessLeftOver`, `CommittedIsFound`, `HoldsLive`, `ReopensLive` |
| `schema_changes` | 2 fields, 2 dimensions, 2 records, 2 schema changes, 1 commit, 2 ends of a process, failing lexical commits, seals, marks, purges and creations, and merges | `TypeOK`, `FieldsExact`, `ReopensWhole`, `PutsFindTheirField` |
| `engine_group`, `engine_segment`, `document_log_flush`, `vector_segments_stats`, `schema_changes_replay` | the smallest instances that show the findings below | one violated property each |

The properties of `Engine`, in words:

- `AllOrNothing`: were the process to crash now, both reopened indexes would
  hold exactly the documents the surviving records leave live. It compares, in
  every state, both stores' files and checkpoints with the whole history, so a
  checkpoint that covers too much, a record dropped too early, a failed
  mutation made final or a replay that is not idempotent all violate it.
- `CheckpointSound`: every unfinished or future number is above every
  checkpoint, snapshot and the watermark.
- `WatermarkTight`: the watermark stops only below an unfinished mutation.
- `DiscardedIsStored`: a record leaves the log only once all three stores'
  files hold what it did.
- `Retrievable`: a live document of the committed index can be read back.
- `StoresMatchLog`: an id with no mutation under way is in both stores as the
  log says.
- `LastWriterWins`: two concurrent upserts of an id never leave two versions.
- `NoWriteOverFailed`: after an id's mutation failed nothing is logged for it.
- `AckedDurable`: what a caller was told is done survives a process crash,
  while other calls defer their fsyncs.
- `CallsReturn`, `WatermarkCatchesUp`: no call waits for ever, and no gap holds
  the watermark back unless writes stop.

Of `DocumentLog`:

- `OwedSurvives`: no crash, now, loses a record that was reported durable and
  that no checkpoint covers.
- `NumbersUnused`: whatever file a crash leaves, its records' numbers are below
  the next append's.
- `AppendsAboveCheckpoint`: no append lands where a recovery would skip it.
- `IsDurable`: the log implements `DurableLog`.

Of `CommitGeneration`:

- `UnchangedMeansCurrent`: a process that finds the number it knows has what the
  indexes hold.
- `ChangesReachReader`: a finished mutation reaches a process that keeps polling.

Of `LexicalSegments`:

- `LookupExact`: an id is looked up as exactly the document the log leaves it.
  A put deletes what its look-up returns, so this is what keeps ids unique.
- `SearchesSeeCommit`: a searcher shows the checkpoint it was built after, in
  full, whatever merge it was built beside.
- `ReopensLive`: a crash now would lose nothing and bring nothing back.
- `OneCopy`: a document is live in one place, whatever was retried or replayed.
- `CountsMatch`: the manifest's counts give the number of live documents.

Of `VectorSegments`:

- `HiddenUnlessLeftOver`: no search finds a document whose delete has returned,
  except in a replaced segment whose file stayed on storage. A reader cached
  before the bitmap existed or was replaced, and a merge that a delete or
  another commit overtook while the search built, would violate it.
- `DeletedIsHidden`: the same without the exception, which findings 5 and 6
  refute.
- `CommittedIsFound`: every search finds what a finished commit covered.
- `HoldsLive`: a merge forgets no mark that a segment still needs.
- `ReopensLive`: a crash at any step loses nothing and brings nothing back.

Of `SchemaChanges`:

- `FieldsExact`: a registered field holds exactly the documents put into it
  since it last began empty, and not deleted. The exceptions are the fields in
  `unfollowed`, which finding 7 and observed 1 and 2 of section 4 leave wrong.
- `ReplayIsIdempotent`: a replay of a log that still has every record leaves
  each field as the records say, whichever of them the field already had.
  Finding 7 refutes it.
- `ReopensWhole`: the index opens again wherever its process ends, and a replay
  discards only records whose put reported the error. The exception is observed
  3 of section 4.
- `PutsFindTheirField`: a put that passed its checks finds its field in the
  vector writer, so it cannot fail after its append for want of it, unless a
  failed recreation has left a declared field unregistered.

*Bounds.* In `Engine`, `MaxSeq` bounds the numbers assigned, `MaxCommits` the
commits started, `MaxCrashes` the crashes and closes; an open that fails may be
tried again without bound, since the states it leads to are finite. Two records
are enough for a record above a snapshot, for a put that replaces a version and
for two mutations of one id to contend. Puts hold the vector writer from before
their append, so only a delete finishes out of order, and it needs an earlier
put: out-of-order finishing takes three records (`engine_crash`), as does a
mutation of an id beside one that failed. `engine_live` has two: with three,
`WatermarkTight` (checked in `engine_crash`, and proved for all constants)
leaves only that each unfinished mutation finishes, which is `CallsReturn`. A
recovery commit is not counted as a commit, so `engine_crash` has two ladders
one after the other, the second over what the first left. The process dies and
not the machine: where no batch defers a sync, the two differ only in the
records whose fsync failed, and the theorems of section 5 have both. Two more
instances are no runs of the project only for their length beside the others.
`EngineLadders.cfg` has two ladders at once, with two commits and two records:
`tlc -config EngineLadders.cfg MCEngine` finds no error in its 883,000 states.
`EngineFaults.cfg` has every fault but the failing segment write, over two
records, two commits and two ends of the process: no error in 736,000 states.
In `DocumentLog`, four numbers and two crashes let a log that was inherited in
an older framing be upgraded, truncated, appended to, crashed and reopened
twice, which is what reusing a number takes. In `CommitGeneration`, two ladders
and two records are a change that one ladder snapshots and the other announces.
In the two segment modules, three records are a document, a version that
replaces it and another, in two segments and a buffer: enough for a merge of
segments that hold a mark, a delete or a flush beside it, and a second version
to look up. `MaxUpsets` bounds the failing operations and the crashes, and
`MaxEvents` those and the records together: with three records one thing goes
wrong, with two records two do, in every pair (a failed write and a crash, a
crash of the recovery, two failed writes with a retry between). One merge
leaves out a commit that merges and an optimization that merges again while one
search builds; that case, like any number of merges, is the theorem's
(`HiddenUnlessFilesStay`). In `SchemaChanges`, two changes are a deletion and the addition of a field of the
same name; two records are a document and its deletion, or documents of two
fields; two ends are a crash and a crash of the recovery after it. Three
records with one end, and three changes with one end, were checked too (6.1 and
2.7 million states). Deadlock checking is off because a bounded system, or an
idle one, stops.

*Fairness.* `FairSpec` makes a mutation that began (`MutationGoesOn`) and a
ladder that began (`CommitGoesOn`) take their next step when they can, and a
closed index reopen. The first two are tasks of a runtime that schedules them;
the locks they wait for are `tokio` mutexes that are released by tasks that go
on, and a task that can take its lock again and again, but not continuously, is
not assumed to get it. Nothing is assumed about callers: they need not put,
commit or flush again. The failure actions are part of `Mutate` and `Commit`, so
fairness never forces a failure: it asks only that the task take some step.
`engine_live` has no crash, so the recovery's own commit is checked for
safety only.

`CommitGeneration`'s `FairSpec` assumes weak fairness of each ladder, whose
start is the commit timer's tick (the timer thread runs as long as the engine),
of the other process's `Peek` and `Reload` (it keeps polling), and of reopening.
The failing step is part of a ladder and bounded, so a commit that fails is in
time followed by one that does not.

## 4. Findings

Seven instances end in a violation of what the repository says of itself. Five
are runs; `EngineBarrier.cfg` and `VectorSegmentsLeftOver.cfg` are not, only to
keep the list short, and `tlc -config EngineBarrier.cfg MCEngine` and
`tlc -config VectorSegmentsLeftOver.cfg MCVectorSegments` show their traces in
seconds.

1. `engine_group` (`engine.rs:305`). Under `WalSyncPolicy::Group` a mutation
   can append and apply after the ladder's `flush_wal` and before its lexical
   commit, which then holds a document whose record is only in the append
   buffer. A crash there leaves the document in the lexical index and nowhere
   else. `src/docs/src/laurus/persistence.md:400` says no interleaving lets a
   committed index reference a lost record.
2. `EngineBarrier.cfg` (`store/log.rs:911`). The barrier syncs only an open append
   handle. During recovery there is none, so records that a killed process had
   written and not synced are replayed and committed without being synced.
3. `engine_segment` (`store/document.rs:570`). `DocumentStore::commit` empties
   its buffer before writing the segment. If that write fails, the next commit
   succeeds without those documents and truncates the log. If the process then
   ends, the lost document's number is known to neither the log nor the document
   store, from whose maxima the next number is taken (`store/log.rs:1267`), so
   another document may get it and the indexes confuse the two.
4. `document_log_flush` (`store/log.rs:1367`). `truncate_retaining_after` takes
   the append handle out before it flushes it. If the flush fails, the next
   `flush_wal` finds no handle and returns `Ok`, and buffered records it reported
   durable are gone.
5. `vector_segments_stats` (`vector/index/segment/reader_cache.rs:152`). `stats`
   builds readers through the searches' cache without their lock. It can insert
   a reader without the new bitmap after a search has cleared the cache for the
   new epoch; the search takes it and its cached searcher keeps finding a
   document whose delete has returned.
6. `VectorSegmentsLeftOver.cfg` (`vector/index/segment/manager.rs:520`).
   `delete_segment_files` ignores every error, and an optimization forgets the
   marks its merge has applied although a source's file stayed. A search that
   listed the source before the merge and reads the bitmap after it loads that
   file without a bitmap, and its cached searcher finds a document whose delete
   has returned, until the optimization drops it. `forget_deletions`
   (`segmented_core.rs:233-234`) says that "no copy of a document it marks is
   left". A merge whose manifest was not saved leaves its sources' files too:
   the commit that ran it releases the writer lock (`vector/store.rs:844`)
   before it waits for the searcher (`vector/store.rs:857`), an optimization
   merges once more and forgets the mark, and the search that listed the first
   sources loads one of them.
7. `schema_changes_replay` (`vector/index/multi_field.rs:490`). A vector commit
   in which one field's marks are saved and another's are not leaves the two
   checkpoints apart. If the documents of the field that is ahead are then
   merged, a delete's mark is forgotten with its document; the next open replays
   the put and the delete into that field again, since the other lags. If the
   vector commit of that recovery seals the put, fails to save this field's
   marks and publishes the other's checkpoint, nothing lags any more: the next
   open replays nothing, and the deleted document is back. `recover`
   (`engine.rs:1240-1243`) and `last_wal_seq` (`multi_field.rs:450-452`) call
   applying a record again to a field that has it "safe", because it is
   idempotent; it is not once the field's own checkpoint covers the record.

What these need, the passing runs leave out (group commit; fsync failures
together with a power failure; a failing segment write; the failing flush in a
truncation; `stats` beside searches) or except by name: `vector_segments` has
failing deletions and saves, and `HiddenUnlessLeftOver` says nothing of the
segments whose files they leave; `schema_changes` has every fault of its module,
and `FieldsExact` says nothing of the fields in `unfollowed`. So they show what
holds otherwise. Finding 7 is one of the three ways into `unfollowed`; the
others, and the exception of `ReopensWhole`, were observed while modelling:

1. *A purge that fails.* A destructive update unregisters the field, then purges
   its directory and creates it anew. If deleting a file fails, or the process
   ends there, the files stay under a schema that still declares the field as it
   was (`multi_field.rs:335-342`, `549-560`). Deletes, marks and checkpoints
   reach only registered fields, so the next open reads the files as they are,
   and what was deleted since may be back.
2. *A field between its removal and its schema.* A ladder that truncates the
   log after `delete_field` has unregistered a field and before the schema is
   saved, followed by a crash, reopens the field without the deletes made since
   its removal, or with marks that were never saved.
3. *A discarded record.* A record that a replay discards is covered by the
   recovery's own commit. If that reaches the lexical store and not the vector
   store, the next open takes the record for one that the lexical store holds
   (`engine.rs:1298-1301`) and fails, as does every later one. Such a record
   exists after a put into a field whose recreation failed: with no field left
   `embed_raw` checks nothing, and the put fails only after its append.

Others were observed and have no run, since nothing in the repository
promises otherwise, or the model does not reach them. Two ladders may save their
generations in the opposite
order, after which a crash can repeat a number (no reader takes a stale index
for the current one by it). The parts of a lexical segment are opened at
their first use, so a search through a searcher built before a merge may find a
file deleted until the searcher is dropped at the merge's end. A crash between a
destructive update's purge, if it is complete, and the save of the schema loses
the field's data and its `pending_reindex`. After a vector commit that sealed some fields and failed
in another, a put into a sealed field makes every later commit fail ("already
sealed") until the engine is opened again.

## 5. What is proved

### `Engine`

`EngineProofs` proves, with no bound on clients, ladders, ids, records, commits
or crashes, for both sync policies and any set of faults, and from no
assumption on the constants:

| Theorem | Statement |
|---|---|
| `TypeCorrect` | `Spec => []TypeOK` |
| `CoverInvariant` | `Spec => []CoverInv`, the inductive invariant |
| `NoCheckpointPassesUnfinished` | `Spec => []CheckpointSound` |
| `WatermarkExact` | `Spec => []WatermarkTight` |
| `FailedIdIsNotWritten` | `Spec => NoWriteOverFailed` |

*Type invariant.* One lemma per part of the next-state relation (`MutateType`,
`CommitType`, `EndType`, `OpenType`), with one step per action.

*Checkpoints and the watermark.* `CheckpointSound` is not inductive: that a
truncation keeps the record of a mutation being applied needs the mutation's
number to be above the ladder's snapshot, hence unfinished, hence above the
watermark, and that needs no two mutations to share a number. `CoverInv` adds:
a closed index remembers nothing (`ClosedIsFresh`), the numbers above the
watermark were assigned and an unfinished one is not finished
(`NumbersAssigned`), snapshots and checkpoints are at or below the watermark
(`RecordedCovered`), each mutation being applied has its own unfinished number
and its record in the log (`ApplyingLogged`), and there is no gap (`NoGap`). The
steps fall into four lemmas: `QuietStep` (nothing assigned or finished),
`AssignStep` (the three appends), `FinishStep`, which rests on what `Finish`
does to the watermark (`FinishAdvances`), and `LadderStep` (all ladder steps);
crashes and opens are `EndCover` and `OpenCover`.

*Failed ids.* `StopInv` says that an id's lock has one holder (`IdLocked`), and
that a failure stops writes and no client about to append has a failed id
(`FailureStops`). The stop alone is not enough: a client that passed its last
check may still append, and it is the id lock that makes its id another one.

*Acknowledged records.* `EngineProofs` proves too

| Theorem | Statement | Assumed of the constants |
|---|---|---|
| `LogInvariant` | `Spec => []LogInv` | nothing |
| `AcknowledgedSurvives` | `Spec => []AckedDurable` | `SyncPolicy = "PerRecord"` |

`LogInv` adds to `CoverInv` that what a truncation took from the log is below
everything it kept, and at or below the vector store's checkpoint, and that
numbers are not reused; `AcknowledgedSurvives` follows what a caller's record is
synced by: its own append, another's, or the close of the handle by a
truncation.

*Crashes and recovery.* `EngineReplayProofs` and `EngineRecoveryProofs` prove,
for any clients, ladders, ids and bounds,

| Theorem | Statement |
|---|---|
| `ReplayInvariant` | `Spec => []ReplayInv`, the inductive invariant |
| `CrashIsAllOrNothing` | `Spec => []AllOrNothing` |
| `ReopenedIsRetrievable` | `Spec => []Retrievable` |
| `DiscardedIsDurable` | `Spec => []DiscardedIsStored` |
| `StoresFollowLog` | `Spec => []StoresMatchLog` |
| `UpsertsAreSerial` | `Spec => []LastWriterWins` |

The five are about two stores and a log at once, and no step of the engine
changes all of them. The argument is one relation, `Tracks(store, records,
pending)`: the store holds the live documents of the records, except that what
the pending records add may be missing and what they remove may still be there.
Memory tracks the records that a process crash would leave, with the
unfinished ones pending. Each store's files track the same records with those
above its checkpoint pending, and also with those above the snapshot of
any ladder that has committed it, since that ladder will write, or truncate by,
the snapshot. A replay of records in their order ends the pending ones one by
one (`ReplayedIsLive`), so that a reopened index holds exactly what the records
leave (`ReopenedIsLive`). That a step keeps a relation needs what a client knows: the
look-up it made under the id lock is still exact when it appends (`Known`), its
record is the last of its id while it applies it, and its two stores are as
far as its step says (`Applied`); an id with an unfinished record that nobody
applies is a failed one (`UnfinishedOwned`).

The theorems assume `WritesThrough` of the constants: appends are synced one by
one and no batch defers that, no document segment's write fails, and fsyncs do
not fail where the machine, and not only the process, may. Each part is needed,
and the findings of section 4 show why: `engine_group` for the first,
`engine_segment` for the second, `EngineBarrier.cfg` for the third.

TLC checked each inductive invariant on small instances before it was
proved.

### `DocumentLog`

`DocumentLogProofs` proves, for any policies, kinds of crash, faults, inherited
records and bounds, from the four assumptions that `DocumentLog` declares:

| Theorem | Statement |
|---|---|
| `TypeCorrect` | `Spec => []TypeOK` |
| `Invariant` | `Spec => []IInv`, the inductive invariant |
| `DurableRecordsSurvive` | `Spec => []OwedSurvives` |
| `NumbersNotReused` | `Spec => []NumbersUnused` |
| `AppendsAbove` | `Spec => AppendsAboveCheckpoint` |
| `LogImplementsDurableLog` | `Spec => IsDurable`, that is `Durable!Spec` |

`IInv` is `TypeOK` with five parts. `Kept` is the heart: what was reported
durable is in the file and in everything a power failure may put in its place.
It is not inductive alone. `Handle` says that while a handle is open no rename
can be undone and no partial frame lies where the next record goes, so that an
append cannot land in a file that a crash replaces. `Prefixes` says that a crash
takes records from the end, `Bounded` that what may come back holds no uncovered
record that the file lacks, and `Numbers` that the checkpoint and every record
are below the next number; the three are what makes a step of the log a step of
`DurableLog`. One lemma for each action shows that it keeps `IInv`
(`AppendSyncedStep`, `CrashStep`, ...), and five map the actions to those of
`DurableLog` (`WriteDurable`, `LoseDurable`, ...). The parts of `IInv` were checked with TLC first.

### `SchemaChanges`

`SchemaChangesProofs` proves, for any fields, dimensions, faults and bounds:

| Theorem | Statement |
|---|---|
| `FieldInvariant` | `Spec => []FieldInv`, the inductive invariant of the locks |
| `PutsFindFields` | `Spec => []PutsFindTheirField` |
| `FieldsInvariant` | `Spec => []FieldsInv`, the inductive invariant of the contents |
| `FieldsTyped` | `Spec => []TypeOK` |
| `FieldsHoldWhatTheyOwe` | `Spec => []FieldsExact` |
| `IndexReopens` | `Spec => []ReopensWhole` |

They assume of the constants only that the bounds are numbers.

*Locks.* A put and a change exclude each other only while the put is between its
embedding and its write (`LockHeld`), and the change holds the lock across
its own commit, whose ladder must therefore end with it (`LadderOfChange`). The
writer may be older than the index, but never lacks a registered field
(`WriterKnowsFields`): additions drop it first. Nothing changes the schema once
writes have stopped (`StoppedIsQuiet`).

*Contents.* `FieldsExact` says of a running index what `Memory` says of every
mode but a closed one, and to survive a crash it needs the files and the log. A
field's files have, up to its own checkpoint, what it was given, and its marks
what was deleted of it, and the log has every record of it above that
checkpoint (`Disk`). The difficulty is that a replay does not start at a field's
checkpoint but at the lowest of all declared fields, so that it puts documents
into a field a second time whose marks are on storage, and takes their marks
away. `Disk` therefore lets a mark be missing while a recovery is uncommitted,
if the log has both the document's put and what deleted it (`Redone`), `Rebuffered`
says that until its commit the writer holds exactly what was replayed, and
`Buffers` that what is buffered is otherwise above its field's checkpoint, so
that no checkpoint a commit publishes covers a document that is not sealed.

*The log.* `Truncates` says that a ladder about to truncate takes no record from
a field that still lacks it, `Numbers` that the last number given is on the log
or is the lexical checkpoint, so that an open resumes above it. The field of
a record is known by name only: `Log` says that a record on the log whose field
is declared was put into the field that has the name now. That is what the
commit before an addition or a recreation is for: it leaves no put on the
log (`Changing`), and the schema lock lets none in before the change ends.

*Failed recreations.* A field that could not be created is declared without an
index (`Registered`). A put into it stops writes and leaves a record that the
schema, if it has another dimension, rejects at the next open (`Mismatches`):
it was refused to its caller, no field holds it, and no checkpoint or snapshot
has reached it until a replay discarded it. So a refused open is possible
only after such a discard, which is what `ReopensWhole` says. A removed
field whose removal is not saved when the log is truncated, one whose replayed
documents a failed commit sealed without its marks, and one of which a failed
recreation left files no longer follow the log (`unfollowed`); `FieldsExact`
excepts them, and so do `Memory` and `Disk`: that a field's files hold only what
was put into it since it began empty (`Contained`) is claimed of the others.
`LeftoversAre` and `PurgedIs` say what a purge may leave.

Each action has its lemma (`WritePutSafe`, `CommitVectorSafe`, `ApplyNewFieldSafe`,
`OpenSafe`, ...); `LadderKept` and `ControlSafe` have what the steps share that
change no field.

### `CommitGeneration`

`CommitGenerationProofs` proves, for any ladders, numbers, failures and crashes:

| Theorem | Statement |
|---|---|
| `GenerationInvariant` | `Spec => []GenInv`, the inductive invariant |
| `TypeCorrect` | `Spec => []TypeOK` |
| `SameNumberSameIndex` | `Spec => []UnchangedMeansCurrent` |

Between two closings no number is saved twice, and none that a reader has or
has peeked at is about to be saved (`NumbersFresh`), although two ladders may save
theirs in either order. That alone says nothing of the index: a ladder
advances the counter by what it read before it committed, and another may have
changed the index since. `ProgressCovers` says that a ladder that read the
latest progress has committed everything applied, `LogCovers` that what the log
no longer has is in both indexes and below their checkpoints, so that a reopened
index has it too, and `ReaderHasAll` puts the two together: a reader with the
current number, once the latest progress is announced, has everything that is
applied.

### `LexicalSegments`

`LexicalSegmentsProofs` proves, for any ids and any number of records, flushes,
merges, failures and crashes, from no assumption but that the bounds are numbers:

| Theorem | Statement |
|---|---|
| `LexicalInvariant` | `Spec => []LexInv`, the inductive invariant |
| `LexicalTypes` | `Spec => []TypeOK` |
| `LookupIsExact` | `Spec => []LookupExact` |
| `SearchersSeeCommits` | `Spec => []SearchesSeeCommit` |
| `CrashesReopenLive` | `Spec => []ReopensLive` |
| `DocumentsLiveOnce` | `Spec => []OneCopy` |
| `CountsInvariant` | `Spec => []Counts`, an invariant on top of `LexInv` |
| `EntriesCountTheLive` | `Spec => []CountsMatch` |

None of the first four properties after the types is inductive, and none has an invariant of its own:
each needs the others. A put drops what its look-up returned, so what the log
leaves live depends on the look-up being exact; that depends on what a cached
searcher, built beside a commit, has kept; and that on the bitmaps and flags
that a crash may have left half written. `LexInv` has four parts.

*Shape.* The log drops only what an earlier record of the same id added, and
nothing twice (`LogShape`). Mutations under way are of records above every
checkpoint, one an id, and so is what the replay has yet to apply
(`TodoShape`). Each step of a commit finds the earlier ones done (`Phases`):
from `Publish` on every bitmap is saved and every flag set. The next generation
is above whatever names or has files of one (`Numbers`), which an open restores
from the manifest and the listing of the files, and which makes the files of a
flush or a merge invisible until they are published (`UnseenFiles`).

*Contents.* A document is marked if the writer's bitmap or the one on storage
has it, and kept if it is in a segment and not marked. A live document whose
mutation is done is buffered or kept (`MemoryHas`); one whose removal is done is
marked wherever it is, and the writer leaves it out of a search's results until
the saved bitmap and the flag do (`MemoryHides`). A bitmap may hold marks that
its manifest entry does not tell of: a crash after `SaveMarks` leaves it so. Then
the replay drops those documents again (`FlaggedIn`) and sets the flag
(`FlagsIn`), because `Supersede` queues every segment it touches, also one
whose bitmap does not change; with only the changed ones queued the invariant
fails at the next checkpoint, which lets the log go. What the checkpoint covers
is kept, or hidden with its flag, in memory and on storage (`CheckpointKept`,
`HidesIn`); an open turns the one into the other, the replay being all that lies
above it (`OpenFacts`).

*Once.* Two segments of one document hide it in one of them, in memory and on
storage. A merged segment takes over what its sources keep, so that a document
of it is hidden in every other.

*Searches.* While no merge runs, what a searcher or the search that builds one
has found is what is kept, and of what is dropped only what the writer leaves
out (`SearchOfMemory`). During merges only what its checkpoint covers is known of
it (`SearchOfCheckpoint`): enough for `SearchesSeeCommit`, and for the look-ups,
since a commit drops the searcher before it lets go of the lock.

Most steps fall into a few lemmas: `MarkingKeeps` has the three that mark
documents (`DeleteVersion`, `Insert`, `ReplayRecord`), `FlushingKeeps`,
`PublishingKeeps`, `CheckpointingKeeps` and `MergedKeeps` a write to storage with
its failures, `QuietKeeps` those that change the step only.

*Counts.* An entry's count may be wrong for a while: a mutation or the replay
marks a document before the commit counts again, and a crash after `SaveMarks`
leaves a bitmap that its entry does not tell of. `Counts` says when it may be. In
memory, only if the commit is to count the segment again, or what is hidden of it
holds a document that the replay has yet to hide (`CountsIn`); in the manifest
as long as memory waits for no count (`ManifestCounts`); on storage, only if the
records above the checkpoint touch what is hidden (`StorageCounts`). The last
survives a bitmap's save because what the commit is to count again always hides
a document of such a record (`FlipsUnsaved`). From `Publish` on the counts
are exact, so the checkpoint may let the log go. `CountsSum` adds them up: by
`LexInv` what the segments keep is disjoint and makes up the live documents, and
a recursion over the subsets of the segments, shown to exist and to give the
size of the union by taking the least size at which it would not, is the fold
that `CountsMatch` names.

### `VectorSegments`

`VectorSegmentsProofs` proves, for any number of records, merges, failures and
crashes:

| Theorem | Statement | Assumed of the constants |
|---|---|---|
| `IndexInvariant` | `Spec => []IndexInv`, the inductive invariant | nothing |
| `TypeCorrect` | `Spec => []TypeOK` | nothing |
| `HoldsTheLive` | `Spec => []HoldsLive` | nothing |
| `ReopensTheLive` | `Spec => []ReopensLive` | nothing |
| `CommitsAreFound` | `Spec => []CommittedIsFound` | nothing |
| `HiddenUnlessFilesStay` | `Spec => []HiddenUnlessLeftOver` | `Builds \subseteq {"search"}` |

*What the index holds.* The bitmap in memory may not be loaded; what it would
mark then is what the next save writes (`WrittenMarks`), and in these terms
`MemoryExact` says that writer and segments have every document they should
have and that the deleted ones among them are marked. A merge may forget the
marks that its copy has only because its output lacks those documents and, when
it merges everything, no other segment and no writer has them (`Phases`). A
delete that is not applied yet is in no bitmap, copy or checkpoint
(`AppliedOnly`).

*What a crash leaves.* The published checkpoint promises that its segments have
what it covers (`DiskCovers`) and that storage marks what was deleted of it.
That is kept because the marks are saved before the checkpoint is published,
also by a commit that follows one that raised the checkpoint in memory and
failed to publish it (`MarksSaved`), and because the writer's documents all
come after the checkpoint (`WriterAbove`): a seal adds nothing that the
checkpoint covers, so a replay does not put a document a second time beside a
mark that an earlier merge forgot.

*What searches find.* A cached reader has its file's documents (`CacheHolds`),
except of the writer's own segment: a seal that failed left a file that a retry
overwrites, and until the retry drops the reader it has only what a commit has
covered. What a commit has covered is in the segments from its `Release` on
(`AckedHeld`). It is in those that the searcher has, or the search that builds
one has listed and will load or fail (`SearchHolds`), from the commit's `Return`
on, since that drops the searcher and waits for a search that builds one.

*What searches hide.* A reader is current if it has the bitmap there is and
that bitmap marks what is deleted of its documents. `CurrentReaders` says that
the cached readers, and those of a search that is building, are current while
the epoch is the one they were read in; `KeepsMarks` that a bitmap never loses a
mark and that whatever replaces it moves the epoch. A search lists the segments
first and may load one that commits and optimizations have replaced since. If
its file is gone the load fails; if it stayed, because the manifest was not
saved or the deletion failed, the segment is in `LeftOver`, which only grows
until an open sweeps it, and nothing is claimed of its reader. A segment that
is loaded and not in `LeftOver` is still one of the index, and `MemoryExact`
says that the bitmap marks what is deleted of it, whatever merges have forgotten
meanwhile. That `LeftOver` grows needs `WriterListed`: while the file of the
writer's own segment is there, a failed seal has registered it, so that a retry
brings no segment back. A finished searcher is exact for
the deletes that have returned, because a delete drops the searcher before it
returns (`SearcherHides`). No part of this rests on who holds the writer lock.
With `stats` building readers beside searches `CurrentReaders` is false, and so
is the property: that is finding 5.

### Only model-checked

The liveness properties (`CallsReturn`, `WatermarkCatchesUp`,
`ChangesReachReader`), since the prover does not handle fairness and `ENABLED`.
Every other property of a passing run is the statement of a theorem, some under
the assumptions on the constants that its section names. No module declares a
`RECURSIVE` operator.

## 6. What is left out, and why

- In `Engine`, the quarantine of records that a newer build rejects during
  replay: it needs a schema or analyzer change between two opens.
  `SchemaChanges` has it for vector fields.
- The auto-commit counter and the commit timer: a ladder may start at any time,
  which includes when they start one.
- `Engine` has of the stores only the order of a commit's effects; their files
  are in the segment modules, which in turn have one store each.
- Encodings and checksums: a record is read or it is not, and a file that is
  read is read whole. A control file is saved in one step, which may fail with
  either content.
- The segment modules have crashes of the process only; the sync of a storage's
  directory changes what their calls return, not what a process crash leaves.
- `rollback` of both writers (the stores never call it), the lexical id filter
  and the migration of older indexes; merges that a memory budget splits.
- Adding, deleting or rebuilding a lexical field; updates of a field that touch
  metadata only; the inference of a new field's type; a persist hook that fails.
- Schema changes with records that are not synced yet, and against searches.
- Search, analysis, embedding, algorithms, and the programs
  and bindings around the library.

## 7. Plan

Done: `Engine` with proofs of all its safety properties; `DocumentLog` with its
refinement and proofs; `CommitGeneration` with its proofs; `VectorSegments` with
proofs of all its invariants; so `LexicalSegments` and `SchemaChanges`. Left, in
order:

1. `DurableIndex`: the abstract specification of the engine, a set of documents
   with atomic mutations and a crash that loses only what was not durable, as a
   property of `Engine`.
2. The lexical store's fields, and field rebuilds against searches.
