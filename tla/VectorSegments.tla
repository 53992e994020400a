--------------------------- MODULE VectorSegments ---------------------------
(***************************************************************************)
(* The vector store of laurus over one segmented index: VectorStore        *)
(* (vector/store.rs) with its writer lock and cached searcher,             *)
(* SegmentedIndex and SegmentedWriter (segmented_index.rs), the deletion   *)
(* bitmap and checkpoints of SegmentedCore (segmented_core.rs), the        *)
(* SegmentManager's manifest (manager.rs) and the reader cache             *)
(* (reader_cache.rs).                                                      *)
(*                                                                         *)
(* Puts, commits and optimizations hold the writer lock; a commit or an    *)
(* optimization releases it and then waits to drop the cached searcher.  A *)
(* delete takes no writer lock: it marks the bitmap and then drops the     *)
(* searcher.  A search builds that searcher over several steps while it    *)
(* holds the searcher lock; stats builds readers through the same cache    *)
(* with no lock.  A vector is its document's internal id, which is the     *)
(* number of the put's log record: ids are never reused.                   *)
(***************************************************************************)
EXTENDS Naturals, Sequences, FiniteSets

CONSTANTS
    Builds,      \* what builds readers: "search", "stats"
    MaxSeq,      \* bound on the log
    MaxMerges,   \* bound on the merges
    MaxUpsets,   \* bound on the storage operations that fail and the crashes
    MaxEvents    \* bound on the records and the upsets together

ASSUME BuildsAssumption == Builds \subseteq {"search", "stats"}
ASSUME BoundsAssumption ==
    /\ MaxSeq \in Nat /\ MaxMerges \in Nat
    /\ MaxUpsets \in Nat /\ MaxEvents \in Nat

VARIABLES
    up,           \* the index is open
    log,          \* the write-ahead log, of which nothing is lost
    appended,     \* documents with a delete logged and not yet applied
    clearing,     \* documents with a delete applied and not yet returned
    buffer,       \* the documents in the cached writer, if there is one
    writer,       \* the cached writer's segment id, or 0
    segs,         \* SegmentManager::segments
    ckpt,         \* SegmentManager::last_wal_seq
    nextId,       \* SegmentManager::next_segment_id
    pending,      \* SegmentedCore::pending_wal_seq
    manifest,     \* segments.json
    files,        \* the segment files: their documents
    delmap,       \* {name}.delmap, or {} when there is no such file
    slot,         \* SegmentedCore::deletion: a bitmap, or 0 for None
    bitmaps,      \* the documents each bitmap marks
    epoch,        \* SegmentedCore::bitmap_epoch
    holder,       \* the step of the commit or optimize that runs, if any
    call,         \* what runs: "commit" or "optimize"
    full,         \* its merge is of all segments
    frozen,       \* the bitmap copy its merge filters with
    hasFrozen,    \* there is one
    sources,      \* the segments to merge
    returning,    \* (ghost) what the commits have covered that released the
                  \* writer lock and wait for the searcher's
    cache,        \* SegmentedReaderCache::inner
    cacheEpoch,   \* SegmentedReaderCache::bitmap_epoch
    bpc,          \* a build's step
    bsegs,        \* the segments it still loads
    bepoch,       \* the epoch it read
    bbitmap,      \* the bitmap it read
    breaders,     \* the readers it has
    searcher,     \* VectorStore::searcher_cache's readers, by segment
    hasSearcher,  \* there is one
    acked,        \* (ghost) documents that a commit has covered
    merges, upsets

logVars == <<log, appended, clearing>>
writerVars == <<buffer, writer>>
managerVars == <<segs, ckpt, nextId, pending>>
diskVars == <<manifest, files, delmap>>
bitmapVars == <<slot, bitmaps, epoch>>
holderVars == <<holder, call, full, frozen, hasFrozen, sources>>
returnVars == <<returning, acked>>
cacheVars == <<cache, cacheEpoch>>
buildVars == <<bpc, bsegs, bepoch, bbitmap, breaders>>
searcherVars == <<searcher, hasSearcher>>
countVars == <<merges, upsets>>
vars == <<up, logVars, writerVars, managerVars, diskVars, bitmapVars,
          holderVars, returnVars, cacheVars, buildVars, searcherVars,
          countVars>>

Larger(m, n) == IF m > n THEN m ELSE n

-----------------------------------------------------------------------------
(* The log.                                                                *)

Docs == 1..MaxSeq

Record == [op : {"put", "delete"}, doc : Docs]

Last == Len(log)

\* The bounded run has room for one more record, failure or crash.
Room == Last + upsets < MaxEvents

PutsIn(seqs) == {log[n].doc : n \in {m \in seqs : log[m].op = "put"}}
DeletesIn(seqs) == {log[n].doc : n \in {m \in seqs : log[m].op = "delete"}}

Puts == PutsIn(1..Last)
Deletes == DeletesIn(1..Last)

\* Every record up to n, and no longer prefix, has been applied here.
IsWatermark(n) ==
    /\ DeletesIn(1..n) \cap appended = {}
    /\ n < Last => log[n + 1].op = "delete" /\ log[n + 1].doc \in appended

-----------------------------------------------------------------------------
(* The deletion bitmap.                                                    *)

MaxBitmaps == 2 + 2 * MaxMerges

Marks(b) == IF b = 0 THEN {} ELSE bitmaps[b]

\* Installing a bitmap under the next epoch.
Install(marks) ==
    /\ epoch' = epoch + 1
    /\ slot' = epoch + 2
    /\ bitmaps' = [bitmaps EXCEPT ![epoch + 2] = marks]

\* A new bitmap is installed under the epoch there is.
CreateInEpoch(marks) ==
    /\ slot' = epoch + 1
    /\ bitmaps' = [bitmaps EXCEPT ![epoch + 1] = marks]
    /\ UNCHANGED epoch
\* load_into: a new bitmap moves the epoch.
Create(marks) == Install(marks)

\* change_bitmap(true, ...) once load_into has filled the slot: the
\* documents in lost are unmarked and those in gained are marked.
ChangeBitmap(gained, lost) ==
    IF slot # 0
    THEN /\ bitmaps' = [bitmaps EXCEPT ![slot] = (@ \ lost) \cup gained]
         /\ UNCHANGED <<slot, epoch>>
    ELSE IF delmap # {}
    THEN /\ slot' = epoch + 1
         /\ bitmaps' =
                [bitmaps EXCEPT ![epoch + 1] = (delmap \ lost) \cup gained]
         /\ UNCHANGED epoch
    ELSE Create(gained)

\* bitmap(): load_into without creating.
LoadBitmap ==
    IF slot = 0 /\ delmap # {}
    THEN /\ slot' = epoch + 1
         /\ bitmaps' = [bitmaps EXCEPT ![epoch + 1] = delmap]
         /\ UNCHANGED epoch
    ELSE UNCHANGED bitmapVars

-----------------------------------------------------------------------------
(* Mutations.                                                              *)

\* A put of a new document: write_prepared marks its id, which creates the
\* bitmap, and add_vectors clears the mark.
Put ==
    /\ up /\ holder = "free"
    /\ Last < MaxSeq /\ Room
    /\ log' = Append(log, [op |-> "put", doc |-> Last + 1])
    /\ ChangeBitmap({}, {})
    /\ buffer' = buffer \cup {Last + 1}
    /\ IF writer = 0 THEN writer' = nextId /\ nextId' = nextId + 1
       ELSE UNCHANGED <<writer, nextId>>
    /\ UNCHANGED <<up, appended, clearing, segs, ckpt, pending, diskVars,
                   holderVars, cacheVars, buildVars, searcherVars, returnVars,
                   countVars>>

AppendDelete(d) ==
    /\ up
    /\ Last < MaxSeq /\ Room
    /\ d \in Puts \ Deletes
    /\ log' = Append(log, [op |-> "delete", doc |-> d])
    /\ appended' = appended \cup {d}
    /\ UNCHANGED <<up, clearing, writerVars, managerVars, diskVars, bitmapVars,
                   holderVars, cacheVars, buildVars, searcherVars, returnVars,
                   countVars>>

\* mark_deleted.
MarkDeleted(d) ==
    /\ d \in appended
    /\ ChangeBitmap({d}, {})
    /\ appended' = appended \ {d}
    /\ clearing' = clearing \cup {d}
    /\ UNCHANGED <<up, log, writerVars, managerVars, diskVars, holderVars,
                   cacheVars, buildVars, searcherVars, returnVars, countVars>>

\* No search builds the searcher, whose lock it would hold.
SearcherFree == bpc["search"] = "idle"

DropSearcher == SearcherFree /\ searcher' = <<>> /\ hasSearcher' = FALSE

\* The delete's VectorWriteLock is dropped.
FinishDelete(d) ==
    /\ d \in clearing
    /\ DropSearcher
    /\ clearing' = clearing \ {d}
    /\ UNCHANGED <<up, log, appended, writerVars, managerVars, diskVars,
                   bitmapVars, holderVars, cacheVars, buildVars, returnVars,
                   countVars>>

-----------------------------------------------------------------------------
(* Commits and optimizations hold the writer lock from their first step to *)
(* Release; Return drops the cached searcher, once no search builds one.   *)

Step(from, to) == holder = from /\ holder' = to

\* Storage fails.  An error of a merge fails an optimization, not a commit.
Fault == upsets < MaxUpsets /\ Room /\ upsets' = upsets + 1

NewManifest == [segs |-> segs', ckpt |-> ckpt', nextId |-> nextId']
Saved == manifest' = NewManifest
\* save_checksummed fails before or after the rename.
SaveFails == manifest' \in {manifest, NewManifest}

DropWriter == buffer' = {} /\ writer' = 0

\* commit_through.  The ladder's number is the watermark as it takes the
\* lock; with an older one the store would hold more than the checkpoint
\* says, as it does after an optimization's flush.
StartCommit ==
    /\ up
    /\ Step("free", "flush")
    /\ \E n \in 0..Last : IsWatermark(n) /\ pending' = Larger(pending, n)
    /\ call' = "commit"
    /\ UNCHANGED <<up, logVars, writerVars, segs, ckpt, nextId, diskVars,
                   bitmapVars, full, frozen, hasFrozen, sources, cacheVars,
                   buildVars, searcherVars, returnVars, countVars>>

StartOptimize ==
    /\ up
    /\ merges < MaxMerges
    /\ Step("free", "flush")
    /\ call' = "optimize"
    /\ UNCHANGED <<up, logVars, writerVars, managerVars, diskVars, bitmapVars,
                   full, frozen, hasFrozen, sources, cacheVars, buildVars,
                   searcherVars, returnVars, countVars>>

\* Where a flush leads.
Flushed == IF call = "commit" THEN "persist" ELSE "choose"

\* The writer has nothing to commit.
FlushNothing ==
    /\ buffer = {}
    /\ Step("flush", Flushed)
    /\ IF call = "optimize" THEN DropWriter ELSE UNCHANGED writerVars
    /\ UNCHANGED <<up, logVars, managerVars, diskVars, bitmapVars, call, full,
                   frozen, hasFrozen, sources, cacheVars, buildVars,
                   searcherVars, returnVars, countVars>>

WriteSegment ==
    files' = [s \in DOMAIN files \cup {writer} |->
                  IF s = writer THEN buffer ELSE files[s]]

\* SegmentedWriter::commit: the file is written and add_segment registers it.
Seal ==
    /\ buffer # {}
    /\ Step("flush", "sealed")
    /\ WriteSegment
    /\ segs' = segs \cup {writer}
    /\ UNCHANGED <<ckpt, nextId>>
    /\ Saved
    /\ UNCHANGED <<up, logVars, writerVars, pending, delmap, bitmapVars, call,
                   full, frozen, hasFrozen, sources, cacheVars, buildVars,
                   searcherVars, returnVars, countVars>>

\* The manifest's save fails: the segment is registered in memory, and the
\* writer is kept for a retry under the same id.
SealUnsaved ==
    /\ buffer # {} /\ Fault
    /\ Step("flush", "failed")
    /\ WriteSegment
    /\ segs' = segs \cup {writer}
    /\ UNCHANGED <<ckpt, nextId>>
    /\ SaveFails
    /\ UNCHANGED <<up, logVars, writerVars, pending, delmap, bitmapVars, call,
                   full, frozen, hasFrozen, sources, returnVars, cacheVars,
                   buildVars, searcherVars, merges>>

Without(ids) == [s \in DOMAIN cache \ ids |-> cache[s]]

\* The cached readers are left as they are.
KeepCached == UNCHANGED cache
\* reader_cache.invalidate: a search between a failed seal and its retry may
\* have cached a reader of the file that the retry overwrites.
Invalidate == cache' = Without({writer})

InvalidateSealed ==
    /\ Step("sealed", Flushed)
    /\ Invalidate
    /\ DropWriter
    /\ UNCHANGED <<up, logVars, managerVars, diskVars, bitmapVars, call, full,
                   frozen, hasFrozen, sources, cacheEpoch, buildVars,
                   searcherVars, returnVars, countVars>>

\* A bitmap that was never loaded is written as if it marked nothing.
WrittenMarksOfSlot == Marks(slot)
\* write_deletions: a bitmap that was never loaded is as it is on storage.
WrittenMarks == IF slot # 0 THEN Marks(slot) ELSE delmap

PersistMarks ==
    /\ Step("persist", "publish")
    /\ delmap' = WrittenMarks
    /\ UNCHANGED <<up, logVars, writerVars, managerVars, manifest, files,
                   bitmapVars, call, full, frozen, hasFrozen, sources,
                   cacheVars, buildVars, searcherVars, returnVars, countVars>>

PersistFails ==
    /\ slot # 0 /\ Fault
    /\ Step("persist", "failed")
    /\ DropWriter
    /\ UNCHANGED <<up, logVars, managerVars, diskVars, bitmapVars, call, full,
                   frozen, hasFrozen, sources, cacheVars, buildVars,
                   searcherVars, returnVars, merges>>

\* The rest of persist_deletions.
Publish ==
    /\ Step("publish", "choose")
    /\ UNCHANGED <<segs, nextId>>
    /\ IF pending > ckpt THEN ckpt' = pending /\ Saved
       ELSE UNCHANGED <<ckpt, manifest>>
    /\ UNCHANGED <<up, logVars, writerVars, pending, files, delmap, bitmapVars,
                   call, full, frozen, hasFrozen, sources, cacheVars,
                   buildVars, searcherVars, returnVars, countVars>>

\* The checkpoint stays raised in memory.
PublishFails ==
    /\ pending > ckpt /\ Fault
    /\ Step("publish", "failed")
    /\ ckpt' = pending
    /\ UNCHANGED <<segs, nextId>>
    /\ SaveFails
    /\ DropWriter
    /\ UNCHANGED <<up, logVars, pending, files, delmap, bitmapVars, call, full,
                   frozen, hasFrozen, sources, returnVars, cacheVars,
                   buildVars, searcherVars, merges>>

\* The segments a merge may be of: the policy's window, or all of them.
Windows(isFull) ==
    IF isFull THEN {segs} \ {{}} ELSE {W \in SUBSET segs : Cardinality(W) > 1}

\* A commit may merge; an optimization merges everything there is.  The
\* merge filters with a frozen copy of the bitmap (deletion_snapshot).
ChooseMerge ==
    /\ merges < MaxMerges
    /\ Step("choose", "merge")
    /\ full' \in IF call = "optimize" THEN {TRUE} ELSE BOOLEAN
    /\ sources' \in Windows(full')
    /\ LoadBitmap
    /\ hasFrozen' = (slot' # 0)
    /\ frozen' = IF slot' = 0 THEN {} ELSE bitmaps'[slot']
    /\ merges' = merges + 1
    /\ UNCHANGED <<up, logVars, writerVars, managerVars, diskVars, call,
                   cacheVars, buildVars, searcherVars, returnVars, upsets>>

ChooseNothing ==
    /\ call = "optimize" => segs = {}
    /\ Step("choose", "done")
    /\ UNCHANGED <<up, logVars, writerVars, managerVars, diskVars, bitmapVars,
                   call, full, frozen, hasFrozen, sources, cacheVars,
                   buildVars, searcherVars, returnVars, countVars>>

Merged == (UNION {files[s] : s \in sources}) \ frozen

\* A merge is over: the copy it filtered with and its window are dropped.
EndMerge == full' = FALSE /\ frozen' = {} /\ hasFrozen' = FALSE /\ sources' = {}

MergeFailed == IF call = "commit" THEN "done" ELSE "failed"

\* The merged segment is written and takes its sources' place in memory;
\* the files of the deleted ones are gone.
Replace(deleted) ==
    /\ segs' = (segs \ sources) \cup {nextId}
    /\ files' = [s \in (DOMAIN files \ deleted) \cup {nextId} |->
                     IF s = nextId THEN Merged ELSE files[s]]

\* Every file is deleted, or some are not and the error is ignored.
DeleteFiles(deleted) ==
    \/ deleted = sources /\ UNCHANGED upsets
    \/ deleted # sources /\ Fault

\* merge_segments and apply_merge: once the merged segment is registered in
\* place of its sources, their files and cached readers are dropped.
Merge ==
    /\ Step("merge", IF full THEN "forget" ELSE "done")
    /\ \E deleted \in SUBSET sources : DeleteFiles(deleted) /\ Replace(deleted)
    /\ nextId' = nextId + 1
    /\ UNCHANGED ckpt
    /\ Saved
    /\ cache' = Without(sources)
    /\ IF full THEN UNCHANGED <<full, frozen, hasFrozen, sources>>
       ELSE EndMerge
    /\ UNCHANGED <<up, logVars, writerVars, pending, delmap, bitmapVars, call,
                   returnVars, cacheEpoch, buildVars, searcherVars, merges>>

\* Writing the merged file fails, or saving the manifest does: then memory
\* names the merged segment, and the sources' files stay.
MergeFails ==
    /\ Fault
    /\ Step("merge", MergeFailed)
    /\ nextId' = nextId + 1
    /\ UNCHANGED ckpt
    /\ \/ UNCHANGED <<segs, files, manifest>>
       \/ Replace({}) /\ SaveFails
    /\ EndMerge
    /\ UNCHANGED <<up, logVars, writerVars, pending, delmap, bitmapVars, call,
                   returnVars, cacheVars, buildVars, searcherVars, merges>>

\* Every mark is forgotten.
RemainingNone == {}
\* The marks made since the copy was taken.
Remaining == Marks(slot) \ frozen

\* forget_deletions, under the bitmap's write lock.
ForgetDeletions ==
    /\ Step("forget", "done")
    /\ IF hasFrozen /\ slot # 0
       THEN /\ delmap' = Remaining
            /\ IF Remaining = {}
               THEN slot' = 0 /\ epoch' = epoch + 1 /\ UNCHANGED bitmaps
               ELSE Install(Remaining)
       ELSE UNCHANGED <<delmap, bitmapVars>>
    /\ EndMerge
    /\ UNCHANGED <<up, logVars, writerVars, managerVars, manifest, files, call,
                   cacheVars, buildVars, searcherVars, returnVars, countVars>>

ForgetFails ==
    /\ hasFrozen /\ slot # 0 /\ Fault
    /\ Step("forget", MergeFailed)
    /\ EndMerge
    /\ UNCHANGED <<up, logVars, writerVars, managerVars, diskVars, bitmapVars,
                   call, cacheVars, buildVars, searcherVars, returnVars,
                   merges>>

\* The writer lock is released.
Release ==
    /\ holder \in {"done", "failed"}
    /\ holder' = "free" /\ call' = "commit"
    /\ returning' = returning \cup
           IF holder = "done" /\ ~(Puts \subseteq acked) THEN {Puts} ELSE {}
    /\ IF holder = "done" THEN DropWriter ELSE UNCHANGED writerVars
    /\ UNCHANGED <<up, logVars, managerVars, diskVars, bitmapVars, full,
                   frozen, hasFrozen, sources, cacheVars, buildVars,
                   searcherVars, acked, countVars>>

\* The cached searcher is dropped and the call returns, after which the
\* return of one that has covered less tells nothing new.
Return(covered) ==
    /\ covered \in returning
    /\ DropSearcher
    /\ returning' = {c \in returning : ~(c \subseteq covered)}
    /\ acked' = acked \cup covered
    /\ UNCHANGED <<up, logVars, writerVars, managerVars, diskVars, bitmapVars,
                   holderVars, cacheVars, buildVars, countVars>>

\* refresh, and the return of any other call: one that failed or has
\* covered nothing that another has not.
Refresh ==
    /\ hasSearcher
    /\ DropSearcher
    /\ UNCHANGED <<up, logVars, writerVars, managerVars, diskVars, bitmapVars,
                   holderVars, returnVars, cacheVars, buildVars, countVars>>

-----------------------------------------------------------------------------
(* Building readers: sealed_readers_newest_first, which a search runs for  *)
(* its searcher and stats for counting.                                    *)

Turn(b, from, to) == bpc[b] = from /\ bpc' = [bpc EXCEPT ![b] = to]

elsewhere == <<up, logVars, writerVars, managerVars, diskVars, holderVars,
               returnVars, countVars>>

\* A search whose searcher is cached builds none.
StartBuild(b) ==
    /\ up
    /\ b = "search" => ~hasSearcher
    /\ Turn(b, "idle", "epoch")
    /\ bsegs' = [bsegs EXCEPT ![b] = segs]
    /\ UNCHANGED <<elsewhere, bitmapVars, cacheVars, bepoch, bbitmap, breaders,
                   searcherVars>>

ReadEpoch(b) ==
    /\ Turn(b, "epoch", "compare")
    /\ bepoch' = [bepoch EXCEPT ![b] = epoch]
    /\ UNCHANGED <<elsewhere, bitmapVars, cacheVars, bsegs, bbitmap, breaders,
                   searcherVars>>

\* The cache is cleared before its epoch is moved.
CompareEpoch(b) ==
    /\ IF cacheEpoch = bepoch[b]
       THEN Turn(b, "compare", "bitmap") /\ UNCHANGED cache
       ELSE Turn(b, "compare", "move") /\ cache' = <<>>
    /\ UNCHANGED <<elsewhere, bitmapVars, cacheEpoch, bsegs, bepoch, bbitmap,
                   breaders, searcherVars>>

MoveEpoch(b) ==
    /\ Turn(b, "move", "bitmap")
    /\ cacheEpoch' = bepoch[b]
    /\ UNCHANGED <<elsewhere, bitmapVars, cache, bsegs, bepoch, bbitmap,
                   breaders, searcherVars>>

ReadBitmap(b) ==
    /\ Turn(b, "bitmap", "load")
    /\ LoadBitmap
    /\ bbitmap' = [bbitmap EXCEPT ![b] = slot']
    /\ breaders' = [breaders EXCEPT ![b] = <<>>]
    /\ UNCHANGED <<elsewhere, cacheVars, bsegs, bepoch, searcherVars>>

ToLoad(b) == bsegs[b] \ DOMAIN breaders[b]

With(readers, s, r) ==
    [t \in DOMAIN readers \cup {s} |-> IF t = s THEN r ELSE readers[t]]

\* get_or_load of one segment.
LoadReader(b) ==
    /\ bpc[b] = "load"
    /\ \E s \in ToLoad(b) :
           LET loaded == [docs |-> files[s], bitmap |-> bbitmap[b]] IN
           IF s \in DOMAIN cache
           THEN /\ breaders' = [breaders EXCEPT ![b] = With(@, s, cache[s])]
                /\ UNCHANGED cache
           ELSE /\ s \in DOMAIN files
                /\ breaders' = [breaders EXCEPT ![b] = With(@, s, loaded)]
                /\ cache' = With(cache, s, loaded)
    /\ UNCHANGED <<elsewhere, bitmapVars, cacheEpoch, bpc, bsegs, bepoch,
                   bbitmap, searcherVars>>

EndBuild(b, from) ==
    /\ Turn(b, from, "idle")
    /\ bsegs' = [bsegs EXCEPT ![b] = {}]
    /\ bepoch' = [bepoch EXCEPT ![b] = 0]
    /\ bbitmap' = [bbitmap EXCEPT ![b] = 0]
    /\ breaders' = [breaders EXCEPT ![b] = <<>>]

\* A merge has deleted the segment's file since the build listed it: the
\* search or stats returns an error.
LoadFails(b) ==
    /\ \E s \in ToLoad(b) : s \notin DOMAIN cache /\ s \notin DOMAIN files
    /\ EndBuild(b, "load")
    /\ UNCHANGED <<elsewhere, bitmapVars, cacheVars, searcherVars>>

\* The build is redone when the epoch has moved while it ran.
CheckEpoch(b) ==
    /\ bpc[b] = "load" /\ ToLoad(b) = {}
    /\ IF epoch = bepoch[b]
       THEN /\ EndBuild(b, "load")
            /\ IF b = "search"
               THEN searcher' = breaders[b] /\ hasSearcher' = TRUE
               ELSE UNCHANGED searcherVars
            /\ UNCHANGED cache
       ELSE /\ Turn(b, "load", "epoch")
            /\ cache' = <<>>
            /\ breaders' = [breaders EXCEPT ![b] = <<>>]
            /\ bbitmap' = [bbitmap EXCEPT ![b] = 0]
            /\ bepoch' = [bepoch EXCEPT ![b] = 0]
            /\ UNCHANGED <<bsegs, searcherVars>>
    /\ UNCHANGED <<elsewhere, bitmapVars, cacheEpoch>>

Build(b) ==
    \/ StartBuild(b) \/ ReadEpoch(b) \/ CompareEpoch(b) \/ MoveEpoch(b)
    \/ ReadBitmap(b) \/ LoadReader(b) \/ LoadFails(b) \/ CheckEpoch(b)

-----------------------------------------------------------------------------
(* Crashes and opens.                                                      *)

AllIdle == [b \in Builds \cup {"search"} |-> "idle"]
NoBuilds(x) == [b \in Builds \cup {"search"} |-> x]

Forgotten ==
    /\ appended' = {} /\ clearing' = {}
    /\ buffer' = {} /\ writer' = 0
    /\ pending' = 0
    /\ slot' = 0 /\ bitmaps' = [b \in 1..MaxBitmaps |-> {}] /\ epoch' = 0
    /\ holder' = "free" /\ call' = "commit" /\ EndMerge
    /\ returning' = {}
    /\ cache' = <<>> /\ cacheEpoch' = 0
    /\ bpc' = AllIdle /\ bsegs' = NoBuilds({}) /\ bepoch' = NoBuilds(0)
    /\ bbitmap' = NoBuilds(0) /\ breaders' = NoBuilds(<<>>)
    /\ searcher' = <<>> /\ hasSearcher' = FALSE

Crash ==
    /\ up
    /\ Fault
    /\ up' = FALSE
    /\ Forgotten
    /\ segs' = {} /\ ckpt' = 0 /\ nextId' = 1
    /\ UNCHANGED <<log, diskVars, acked, merges>>

\* The records that recovery applies again.
Replayed == manifest.ckpt + 1 .. Last

\* The counter starts again, as if it were not in the manifest.
LoadedNextIdFirst == 1
LoadedNextId == manifest.nextId

\* load_state, the sweep of unregistered segment files, and the replay, in
\* which every put unmarks its document and every delete marks it.
Open ==
    /\ ~up
    /\ up' = TRUE
    /\ segs' = manifest.segs /\ ckpt' = manifest.ckpt /\ pending' = 0
    /\ files' = [s \in DOMAIN files \cap manifest.segs |-> files[s]]
    /\ IF Replayed = {}
       THEN UNCHANGED <<bitmapVars, writerVars>> /\ nextId' = LoadedNextId
       ELSE /\ ChangeBitmap(DeletesIn(Replayed), PutsIn(Replayed))
            /\ buffer' = PutsIn(Replayed)
            /\ writer' = LoadedNextId
            /\ nextId' = LoadedNextId + 1
    /\ UNCHANGED <<logVars, manifest, delmap, holderVars, cacheVars, buildVars,
                   searcherVars, returnVars, countVars>>

Init ==
    /\ up = TRUE
    /\ log = <<>> /\ appended = {} /\ clearing = {}
    /\ buffer = {} /\ writer = 0
    /\ segs = {} /\ ckpt = 0 /\ nextId = 1 /\ pending = 0
    /\ manifest = [segs |-> {}, ckpt |-> 0, nextId |-> 1]
    /\ files = <<>> /\ delmap = {}
    /\ slot = 0 /\ bitmaps = [b \in 1..MaxBitmaps |-> {}] /\ epoch = 0
    /\ holder = "free" /\ call = "commit" /\ full = FALSE
    /\ frozen = {} /\ hasFrozen = FALSE /\ sources = {}
    /\ cache = <<>> /\ cacheEpoch = 0
    /\ bpc = AllIdle /\ bsegs = NoBuilds({}) /\ bepoch = NoBuilds(0)
    /\ bbitmap = NoBuilds(0) /\ breaders = NoBuilds(<<>>)
    /\ searcher = <<>> /\ hasSearcher = FALSE
    /\ returning = {} /\ acked = {}
    /\ merges = 0 /\ upsets = 0

Next ==
    \/ Put
    \/ \E d \in Docs : AppendDelete(d) \/ MarkDeleted(d) \/ FinishDelete(d)
    \/ StartCommit \/ StartOptimize
    \/ FlushNothing \/ Seal \/ SealUnsaved \/ InvalidateSealed
    \/ PersistMarks \/ PersistFails \/ Publish \/ PublishFails
    \/ ChooseMerge \/ ChooseNothing \/ Merge \/ MergeFails
    \/ ForgetDeletions \/ ForgetFails \/ Release
    \/ \E covered \in returning : Return(covered)
    \/ Refresh
    \/ \E b \in Builds : Build(b)
    \/ Crash \/ Open

Spec == Init /\ [][Next]_vars

-----------------------------------------------------------------------------
(* Properties.                                                             *)

Steps == {"free", "flush", "sealed", "persist", "publish", "choose", "merge",
          "forget", "done", "failed"}

TypeOK ==
    /\ {up, full, hasFrozen, hasSearcher} \subseteq BOOLEAN
    /\ log \in Seq(Record) /\ Last <= MaxSeq
    /\ appended \cup clearing \subseteq Deletes
    /\ buffer \cup acked \cup UNION returning \subseteq Puts
    /\ buffer # {} => writer # 0
    /\ segs \cup {writer} \subseteq 0 .. nextId - 1
    /\ ckpt \in 0..Last /\ pending \in 0..Last
    /\ manifest.segs \subseteq 1 .. manifest.nextId - 1
    /\ manifest.ckpt \in 0..Last
    /\ up => manifest.nextId <= nextId /\ segs \subseteq DOMAIN files
    /\ \A s \in DOMAIN files : files[s] \subseteq Puts
    /\ delmap \subseteq Deletes
    /\ epoch + 1 <= MaxBitmaps /\ slot \in {0, epoch + 1}
    /\ \A b \in DOMAIN bitmaps : bitmaps[b] \subseteq Deletes
    /\ holder \in Steps /\ call \in {"commit", "optimize"}
    /\ sources \subseteq segs \/ holder = "forget"
    /\ frozen \subseteq Deletes

\* What a searcher finds in some of its segments: each reader hides what its
\* own bitmap marks.
FoundIn(ids) ==
    UNION {searcher[s].docs \ Marks(searcher[s].bitmap) :
               s \in ids \cap DOMAIN searcher}

Found == FoundIn(DOMAIN searcher)

\* The documents whose delete has returned.
Gone == Deletes \ (appended \cup clearing)

\* No search finds a document whose delete has returned: the readers cached
\* before a bitmap existed or was replaced are dropped, and what a full
\* merge forgets is in no segment (sealed_readers_newest_first,
\* reader_cache.rs; forget_deletions, segmented_core.rs).  With stats beside
\* searches this does not hold, nor when a replaced segment's file stays.
DeletedIsHidden == hasSearcher => Found \cap Gone = {}

\* The segments that a merge has replaced and whose files are still there:
\* the manifest's save had failed, or their deletion.
LeftOver == DOMAIN files \ segs

\* While only searches build readers, a search finds a document whose delete
\* has returned in no segment but those: neither a reader that was cached
\* before the bitmap existed or was replaced, nor a merge that a delete or
\* another commit overtook while the search built, brings one back.
HiddenUnlessLeftOver ==
    hasSearcher => FoundIn(DOMAIN searcher \ LeftOver) \cap Gone = {}

\* Every search finds what a commit that returned has covered, although an
\* earlier seal of the same segment failed after searches had read its
\* file, and although commits and merges replace segments while it builds
\* (SegmentedWriter::commit, segmented_index.rs).
CommittedIsFound == hasSearcher => acked \ Deletes \subseteq Found

\* The documents the running index holds.
Held == (buffer \cup UNION {files[s] : s \in segs}) \ Marks(slot)

\* The running index holds the documents that were put and not deleted: a
\* merge forgets no mark that a segment or the writer still needs, whatever
\* was deleted while it ran and whatever failed (forget_deletions).
\* Before a bitmap on storage is loaded there is nothing to compare.
HoldsLive ==
    up /\ (slot # 0 \/ delmap = {}) => Held = Puts \ (Deletes \ appended)

\* What an open would hold.
Reopened ==
    (PutsIn(Replayed) \cup UNION {files[s] : s \in manifest.segs})
        \ ((delmap \ PutsIn(Replayed)) \cup DeletesIn(Replayed))

\* At every step of a commit, merge or optimization a crash loses nothing:
\* the manifest names files that exist, and with the bitmap on storage and
\* the records above the published checkpoint they give the documents that
\* were put and not deleted (persist_deletions, apply_merge).
ReopensLive ==
    /\ manifest.segs \subseteq DOMAIN files
    /\ Reopened = Puts \ Deletes

=============================================================================
