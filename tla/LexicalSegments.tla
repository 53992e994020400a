-------------------------- MODULE LexicalSegments --------------------------
(***************************************************************************)
(* The lexical store of laurus over its inverted index: LexicalStore       *)
(* (lexical/store.rs) with its cached writer and searcher, the             *)
(* InvertedIndexWriter (lexical/index/inverted/writer.rs), the segment     *)
(* manifest, merges and opening of InvertedIndex (lexical/index/           *)
(* inverted.rs), and the DeletionManager (maintenance/deletion.rs).        *)
(*                                                                         *)
(* Every operation on the cached writer holds its lock; a commit or an     *)
(* optimization holds it from its first step to its last.  A search takes  *)
(* only the searcher's lock and may build a searcher at any step of a      *)
(* commit.  A document is named by its internal id, which is the number    *)
(* of its log record.                                                      *)
(***************************************************************************)
EXTENDS Naturals, Sequences, FiniteSets, FiniteSetsExt

CONSTANTS
    Ids,         \* external document ids
    MaxSeq,      \* bound on the log
    MaxFlushes,  \* bound on the automatic flushes
    MaxMerges,   \* bound on the merges
    MaxUpsets,   \* bound on the storage operations that fail and the crashes
    MaxEvents    \* bound on the records and the upsets together

ASSUME BoundsAssumption ==
    /\ MaxSeq \in Nat /\ MaxFlushes \in Nat /\ MaxMerges \in Nat
    /\ MaxUpsets \in Nat /\ MaxEvents \in Nat

VARIABLES
    up,           \* the index is open
    log,          \* the write-ahead log, of which nothing is lost
    todo,         \* what the mutations under way still have to do
    replay,       \* the record that recovery applies next, or 0
    writer,       \* LexicalStore::writer_cache
    segs,         \* ManifestState::segments
    nextGen,      \* ManifestState::next_generation
    ckpt,         \* IndexMetadata::last_wal_seq
    manifest,     \* segments.json
    metadata,     \* metadata.json's last_wal_seq
    files,        \* the segments' files: their documents
    delmaps,      \* the segments' .delmap files
    holder,       \* the step of the commit or optimization that runs, if any
    call,         \* what runs: "none", "commit" or "optimize"
    sources,      \* the segments whose files its merge still has to delete
    building,     \* a search builds a searcher
    unread,       \* the segments it still has to read
    found,        \* the documents it has found in the others
    searcher,     \* what LexicalStore::searcher_cache finds
    hasSearcher,  \* there is one
    asOf,         \* (ghost) the checkpoint it was built after
    flushes, merges, upsets

logVars == <<log, todo, replay>>
memoryVars == <<segs, nextGen, ckpt>>
diskVars == <<manifest, metadata, files, delmaps>>
holderVars == <<holder, call, sources>>
searchVars == <<building, unread, found, searcher, hasSearcher, asOf>>
countVars == <<flushes, merges, upsets>>
vars == <<up, logVars, writer, memoryVars, diskVars, holderVars, searchVars,
          countVars>>

At(f, x, default) == IF x \in DOMAIN f THEN f[x] ELSE default

Without(f, S) == [x \in DOMAIN f \ S |-> f[x]]

With(f, x, v) == [y \in DOMAIN f \cup {x} |-> IF y = x THEN v ELSE f[y]]

\* What new has, and old where new has nothing.
Over(new, old) ==
    [x \in DOMAIN new \cup DOMAIN old |->
        IF x \in DOMAIN new THEN new[x] ELSE old[x]]

Larger(m, n) == IF m > n THEN m ELSE n

-----------------------------------------------------------------------------
(* The log.  A put is one record: the document it adds and the versions it *)
(* replaces.  A delete adds none.                                          *)

Docs == 1..MaxSeq

Record == [id : Ids, adds : SUBSET Docs, drops : SUBSET Docs]

Last == Len(log)

\* The bounded run has room for one more record, failure or crash.
Room == Last + upsets < MaxEvents

Adds(seqs) == UNION {log[n].adds : n \in seqs}
Drops(seqs) == UNION {log[n].drops : n \in seqs}

Live == Adds(1..Last) \ Drops(1..Last)

OfId(docs, id) == {d \in docs : log[d].id = id}

\* The records whose mutation has not finished.
UnderWay == {t.seq : t \in todo}

Watermark == CHOOSE n \in 0..Last :
    /\ \A m \in 1..n : m \notin UnderWay
    /\ n = Last \/ n + 1 \in UnderWay

-----------------------------------------------------------------------------
(* Segments.  A manifest entry says whether the segment's bitmap is to be  *)
(* read, and how many of its documents it hides.                           *)

Entry == [hasDeletions : BOOLEAN, deleted : Nat]

NewEntry == [hasDeletions |-> FALSE, deleted |-> 0]

DocsOf(s) == At(files, s, {})

\* A missing bitmap hides nothing (read_deleted_ids, load_deleted_docs).
MarksOf(s, entry) == IF entry.hasDeletions THEN At(delmaps, s, {}) ELSE {}

Visible(entries) ==
    UNION {DocsOf(s) \ MarksOf(s, entries[s]) : s \in DOMAIN entries}

-----------------------------------------------------------------------------
(* The writer.                                                             *)

NoWriter == [open |-> FALSE, buffer |-> {}, known |-> {}, flushed |-> {},
             pending |-> <<>>, manager |-> FALSE, marks |-> <<>>,
             dirty |-> {}, flips |-> {}, superseded |-> {}, seq |-> 0]

NewWriter ==
    [NoWriter EXCEPT !.open = TRUE, !.known = DOMAIN segs, !.seq = ckpt]

\* cached_writer.
Writer == IF writer.open THEN writer ELSE NewWriter

\* Only the segments whose bitmap has changed.
ToFlagChanged(touched, changed) == changed

\* The segments whose manifest entry the commit brings up to date: a bitmap
\* that a crashed commit saved may hold the marks already, and its entry not.
ToFlag(touched, changed) == touched

\* mark_persisted_doc_deleted: every segment that holds one of the documents
\* has it marked.  The first mark loads every bitmap there is on storage.
Supersede(w, docs) ==
    LET touched == {s \in w.known : DocsOf(s) \cap docs # {}}
        loaded == IF w.manager THEN w.marks ELSE delmaps
        marked == [s \in DOMAIN loaded \cup touched |->
                       At(loaded, s, {})
                           \cup IF s \in touched THEN DocsOf(s) \cap docs
                                ELSE {}]
        changed == {s \in touched : s \notin DOMAIN loaded
                        \/ marked[s] # loaded[s]}
    IN  IF touched = {} THEN w
        ELSE [w EXCEPT
                 !.manager = TRUE,
                 !.marks = marked,
                 !.dirty = @ \cup changed,
                 !.flips = @ \cup ToFlag(touched, changed),
                 !.superseded =
                     @ \cup (docs \cap UNION {DocsOf(s) : s \in touched})]

\* delete_document.
Remove(w, docs) == Supersede([w EXCEPT !.buffer = @ \ docs], docs)

\* The document is only added.
BufferOnly(w, docs) == [w EXCEPT !.buffer = @ \cup docs]

\* buffer_analyzed_document: a version of the same document goes first.
Buffer(w, docs) == [Remove(w, docs) EXCEPT !.buffer = @ \cup docs]

\* The buffer alone.
InBuffer(w) == w.buffer

\* find_doc_ids_by_term of the writer: the buffer and the segments flushed
\* since the last commit, each without what its own bitmap marks.
InWriter(w) ==
    w.buffer \cup UNION {DocsOf(s) \ (IF w.manager THEN At(w.marks, s, {})
                                      ELSE {}) : s \in w.flushed}

\* What a search finds: through the cached searcher, or a new one.
Search == IF hasSearcher THEN searcher ELSE Visible(segs)

\* find_doc_ids_by_term of the store.
Lookup(id) == OfId(InWriter(writer) \cup (Search \ writer.superseded), id)

\* flush_segment, under a generation of its own.
FlushedWriter(w) ==
    [w EXCEPT !.buffer = {}, !.known = @ \cup {nextGen},
              !.flushed = @ \cup {nextGen},
              !.pending = With(@, nextGen, NewEntry)]

\* It may fail once the segment is in the writer's cache (extend_segment_
\* cache).  Its files are left, and the documents stay buffered.
FailedFlushes(w) == {w, [w EXCEPT !.known = @ \cup {nextGen}]}

WriteBuffer ==
    /\ files' = With(files, nextGen, writer.buffer)
    /\ nextGen' = nextGen + 1

-----------------------------------------------------------------------------
(* Mutations.                                                              *)

Serving == up /\ replay = 0

\* No commit or optimization holds the writer's lock.
Unlocked == holder = "free"

Fault == upsets < MaxUpsets /\ Room /\ upsets' = upsets + 1

\* prepare_upsert of a put that finds the buffer full.  If it fails the put
\* is refused.
AutoFlush ==
    /\ up /\ Unlocked
    /\ writer.buffer # {}
    /\ flushes < MaxFlushes /\ flushes' = flushes + 1
    /\ WriteBuffer
    /\ \/ writer' = FlushedWriter(writer) /\ UNCHANGED upsets
       \/ Fault /\ writer' \in FailedFlushes(writer)
    /\ UNCHANGED <<up, logVars, segs, ckpt, manifest, metadata, delmaps,
                   holderVars, searchVars, merges>>

\* A mutation looks its id up and logs its record.  The id's lock keeps the
\* other mutations of the id out until it has finished.
Mutate(id, docs) ==
    /\ Serving /\ Unlocked
    /\ Last < MaxSeq /\ Room
    /\ \A t \in todo : log[t.seq].id # id
    /\ log' = Append(log, [id |-> id, adds |-> docs, drops |-> Lookup(id)])
    /\ todo' = todo \cup {[seq |-> Last + 1, docs |-> docs,
                           drops |-> Lookup(id)]}
    \* The lookup goes through the cached searcher, or builds one.
    /\ ~building
    /\ searcher' = Search /\ hasSearcher' = TRUE
    /\ asOf' = IF hasSearcher THEN asOf ELSE ckpt
    /\ UNCHANGED <<up, replay, memoryVars, diskVars, holderVars, building,
                   unread, found, countVars>>

\* A put's prepare_upsert, before its lookup, has opened the writer.
LogPut(id) == Mutate(id, {Last + 1}) /\ writer' = Writer

LogDelete(id) == Lookup(id) # {} /\ Mutate(id, {}) /\ UNCHANGED writer

\* A mutation goes on: t is done up to u.
Progress(t, u) ==
    todo' = (todo \ {t}) \cup IF u.docs \cup u.drops = {} THEN {} ELSE {u}

\* delete_document_by_internal_id of a replaced version.
DeleteVersion(t) ==
    /\ Serving /\ Unlocked
    /\ \E d \in t.drops :
           /\ writer' = Remove(Writer, {d})
           /\ Progress(t, [t EXCEPT !.drops = @ \ {d}])
    /\ UNCHANGED <<up, log, replay, memoryVars, diskVars, holderVars,
                   searchVars, countVars>>

\* apply_prepared_upsert.
Insert(t) ==
    /\ Serving /\ Unlocked
    /\ t.drops = {}
    /\ writer' = Buffer(Writer, t.docs)
    /\ Progress(t, [t EXCEPT !.docs = {}])
    /\ UNCHANGED <<up, log, replay, memoryVars, diskVars, holderVars,
                   searchVars, countVars>>

-----------------------------------------------------------------------------
(* Commit and optimize: the writer's commit, a step for each write to      *)
(* storage, then merges.  A failure of the writer's commit returns with    *)
(* the writer kept and the searcher not dropped.                           *)

Step(from, to) == holder = from /\ holder' = to

\* A step fails and the call returns.
Fails(from) == Step(from, "free") /\ call' = "none" /\ Fault

\* commit_through.  The number is the engine's watermark.
StartCommit ==
    /\ Serving
    /\ Step("free", IF writer.open THEN "flush" ELSE "merge")
    /\ call' = "commit"
    /\ writer' = IF writer.open
                 THEN [writer EXCEPT !.seq = Larger(@, Watermark)]
                 ELSE writer
    /\ UNCHANGED <<up, logVars, memoryVars, diskVars, sources, searchVars,
                   countVars>>

StartOptimize ==
    /\ Serving
    /\ merges < MaxMerges
    /\ Step("free", IF writer.open THEN "flush" ELSE "merge")
    /\ call' = "optimize"
    /\ UNCHANGED <<up, logVars, writer, memoryVars, diskVars, sources,
                   searchVars, countVars>>

Flush ==
    /\ IF writer.buffer = {} THEN UNCHANGED <<writer, files, nextGen>>
       ELSE WriteBuffer /\ writer' = FlushedWriter(writer)
    /\ Step("flush", "marks")
    /\ UNCHANGED <<up, logVars, segs, ckpt, manifest, metadata, delmaps, call,
                   sources, searchVars, countVars>>

FlushFails ==
    /\ writer.buffer # {}
    /\ Fails("flush")
    /\ WriteBuffer
    /\ writer' \in FailedFlushes(writer)
    /\ UNCHANGED <<up, logVars, segs, ckpt, manifest, metadata, delmaps,
                   sources, searchVars, flushes, merges>>

\* DeletionManager::flush writes the changed bitmaps one after the other, in
\* any order.
SaveMarks ==
    /\ holder = "marks"
    /\ IF writer.dirty = {}
       THEN holder' = "flags" /\ UNCHANGED <<writer, delmaps>>
       ELSE \E s \in writer.dirty :
                /\ delmaps' = With(delmaps, s, writer.marks[s])
                /\ writer' = [writer EXCEPT !.dirty = @ \ {s}]
                /\ UNCHANGED holder
    /\ UNCHANGED <<up, logVars, memoryVars, manifest, metadata, files, call,
                   sources, searchVars, countVars>>

SaveMarksFails ==
    /\ writer.dirty # {}
    /\ Fails("marks")
    /\ UNCHANGED <<up, logVars, writer, memoryVars, diskVars, sources,
                   searchVars, flushes, merges>>

\* publish_with: the manifest is saved before it is changed in memory.  A
\* save that fails may have replaced the file.
PublishAs(entries) == segs' = entries /\ manifest' = entries
PublishFailsAs(entries) == manifest' \in {manifest, entries} /\ UNCHANGED segs

\* The rest of flush_deletions: segment_deletion_count, and the flag.
Flagged(entries) ==
    [s \in DOMAIN entries |->
        IF s \in writer.flips
        THEN [hasDeletions |-> TRUE,
              deleted |-> Cardinality(writer.marks[s] \cap DocsOf(s))]
        ELSE entries[s]]

FlagDeletions ==
    /\ Step("flags", "publish")
    /\ IF writer.flips = {} THEN UNCHANGED <<writer, segs, manifest>>
       ELSE /\ PublishAs(Flagged(segs))
            /\ writer' = [writer EXCEPT !.pending = Flagged(@), !.flips = {}]
    /\ UNCHANGED <<up, logVars, nextGen, ckpt, metadata, files, delmaps, call,
                   sources, searchVars, countVars>>

FlagDeletionsFails ==
    /\ writer.flips # {}
    /\ Fails("flags")
    /\ PublishFailsAs(Flagged(segs))
    /\ UNCHANGED <<up, logVars, writer, nextGen, ckpt, metadata, files,
                   delmaps, sources, searchVars, flushes, merges>>

\* publish_pending_segments.
Publish ==
    /\ Step("publish", "checkpoint")
    /\ IF writer.pending = <<>> THEN UNCHANGED <<writer, segs, manifest>>
       ELSE /\ PublishAs(Over(writer.pending, segs))
            /\ writer' = [writer EXCEPT !.pending = <<>>]
    /\ UNCHANGED <<up, logVars, nextGen, ckpt, metadata, files, delmaps, call,
                   sources, searchVars, countVars>>

PublishFails ==
    /\ writer.pending # <<>>
    /\ Fails("publish")
    /\ PublishFailsAs(Over(writer.pending, segs))
    /\ UNCHANGED <<up, logVars, writer, nextGen, ckpt, metadata, files,
                   delmaps, sources, searchVars, flushes, merges>>

\* write_metadata_json, and the end of the writer's commit.  A store's commit
\* drops the writer.
Checkpoint ==
    /\ Step("checkpoint", "merge")
    /\ ckpt' = Larger(ckpt, writer.seq)
    /\ metadata' = ckpt'
    /\ writer' = IF call = "commit" THEN NoWriter
                 ELSE [writer EXCEPT !.flushed = {}, !.superseded = {}]
    /\ UNCHANGED <<up, logVars, segs, nextGen, manifest, files, delmaps, call,
                   sources, searchVars, countVars>>

CheckpointFails ==
    /\ Fails("checkpoint")
    /\ metadata' \in {metadata, Larger(ckpt, writer.seq)}
    /\ UNCHANGED <<up, logVars, writer, memoryVars, manifest, files, delmaps,
                   sources, searchVars, flushes, merges>>

-----------------------------------------------------------------------------
(* Merges.                                                                 *)

\* auto_merge takes any segments of similar size, optimize takes all.
Windows ==
    {S \in SUBSET DOMAIN segs :
        Cardinality(S) >= 2 /\ (call = "optimize" => S = DOMAIN segs)}

MergedDocs(S) == UNION {DocsOf(s) \ MarksOf(s, segs[s]) : s \in S}

MergedEntries(S) == With(Without(segs, S), nextGen, NewEntry)

\* A merge that finds no live document writes no file.
WriteMerged(S) ==
    files' = IF MergedDocs(S) = {} THEN files
             ELSE With(files, nextGen, MergedDocs(S))

\* One generation is reserved for each source.
Merging(S) ==
    /\ merges < MaxMerges /\ merges' = merges + 1
    /\ nextGen' = nextGen + Cardinality(S)

\* merge_segment_set_bounded up to the publication.
Merge(S) ==
    /\ Step("merge", "release")
    /\ Merging(S)
    /\ WriteMerged(S)
    /\ PublishAs(MergedEntries(S))
    /\ sources' = S
    /\ UNCHANGED <<up, logVars, writer, ckpt, metadata, delmaps, call,
                   searchVars, flushes, upsets>>

\* It may fail before its files are written, or while it publishes.
MergeFails(S) ==
    /\ Step("merge", "done")
    /\ Fault
    /\ Merging(S)
    /\ \/ UNCHANGED <<files, segs, manifest>>
       \/ WriteMerged(S) /\ PublishFailsAs(MergedEntries(S))
    /\ UNCHANGED <<up, logVars, writer, ckpt, metadata, delmaps, call, sources,
                   searchVars, flushes>>

NoMerge ==
    /\ Step("merge", "done")
    /\ call = "optimize" => Cardinality(DOMAIN segs) < 2
    /\ UNCHANGED <<up, logVars, writer, memoryVars, diskVars, call, sources,
                   searchVars, countVars>>

ReleaseReaders ==
    /\ Step("release", "delete")
    /\ UNCHANGED <<up, logVars, writer, memoryVars, diskVars, call, sources,
                   searchVars, countVars>>

\* release_replaced_segment_readers waits for a build, which holds the
\* reader cache's lock.
Release == ReleaseReaders /\ ~building

\* delete_segment_files of each source.  Nothing but a crash sees the sources
\* once they are released, so the files of one go in one step.
DeleteSources ==
    /\ holder = "delete"
    /\ IF sources = {}
       THEN /\ holder' = IF call = "commit" THEN "merge" ELSE "done"
            /\ UNCHANGED <<sources, files, delmaps>>
       ELSE LET s == Min(sources)
            IN  /\ files' = Without(files, {s})
                /\ delmaps' = Without(delmaps, {s})
                /\ sources' = sources \ {s}
                /\ UNCHANGED holder
    /\ UNCHANGED <<up, logVars, writer, memoryVars, manifest, metadata, call,
                   searchVars, countVars>>

DeleteSourcesFails ==
    /\ sources # {}
    /\ Step("delete", "done")
    /\ Fault
    /\ sources' = {}
    /\ UNCHANGED <<up, logVars, writer, memoryVars, diskVars, call, searchVars,
                   flushes, merges>>

\* invalidate_segment_cache, of a writer that optimize has kept.
Invalidated(w) ==
    [w EXCEPT !.known = DOMAIN segs, !.manager = FALSE, !.marks = <<>>,
              !.dirty = {}, !.flips = {}, !.flushed = {}]

\* The searcher is dropped, once no build holds its lock, before the writer's
\* lock is released.
Finish ==
    /\ Step("done", "free") /\ call' = "none"
    /\ ~building
    /\ searcher' = {} /\ hasSearcher' = FALSE /\ asOf' = 0
    /\ writer' = IF writer.open THEN Invalidated(writer) ELSE writer
    /\ UNCHANGED <<up, logVars, memoryVars, diskVars, sources, building,
                   unread, found, countVars>>

Commit ==
    \/ StartCommit \/ StartOptimize
    \/ Flush \/ SaveMarks \/ FlagDeletions \/ Publish \/ Checkpoint
    \/ FlushFails \/ SaveMarksFails \/ FlagDeletionsFails \/ PublishFails
    \/ CheckpointFails
    \/ \E S \in Windows : Merge(S) \/ MergeFails(S)
    \/ NoMerge \/ Release \/ DeleteSources \/ DeleteSourcesFails \/ Finish

-----------------------------------------------------------------------------
(* A search that finds no searcher builds one, holding the searcher's lock *)
(* and the reader cache's.                                                 *)

elsewhere == <<up, logVars, writer, memoryVars, diskVars, holderVars,
               countVars>>

StartBuild ==
    /\ up /\ ~building /\ ~hasSearcher
    /\ building' = TRUE
    /\ unread' = [s \in DOMAIN segs |-> segs[s]]
    /\ asOf' = ckpt
    /\ UNCHANGED <<elsewhere, found, searcher, hasSearcher>>

ReadSegment ==
    /\ unread # <<>>
    /\ LET s == Min(DOMAIN unread)
       IN  /\ found' = found \cup (DocsOf(s) \ MarksOf(s, unread[s]))
           /\ unread' = Without(unread, {s})
    /\ UNCHANGED <<elsewhere, building, searcher, hasSearcher, asOf>>

FinishBuild ==
    /\ building /\ unread = <<>>
    /\ building' = FALSE /\ found' = {}
    /\ searcher' = found /\ hasSearcher' = TRUE
    /\ UNCHANGED <<elsewhere, unread, asOf>>

BuildSearcher == StartBuild \/ ReadSegment \/ FinishBuild

-----------------------------------------------------------------------------
(* Crashes and recovery.                                                   *)

\* The process dies.  A stopped engine abandons its writer, which is the same.
Crash ==
    /\ up /\ up' = FALSE
    /\ Fault
    /\ todo' = {} /\ replay' = 0
    /\ writer' = NoWriter
    /\ segs' = <<>> /\ nextGen' = 0 /\ ckpt' = 0
    /\ holder' = "free" /\ call' = "none" /\ sources' = {}
    /\ building' = FALSE /\ unread' = <<>> /\ found' = {}
    /\ searcher' = {} /\ hasSearcher' = FALSE /\ asOf' = 0
    /\ UNCHANGED <<log, diskVars, flushes, merges>>

\* The generations with a file.
Stems == DOMAIN files \cup DOMAIN delmaps

\* The newest segment's.
DerivedGenNewest == Max({0} \cup DOMAIN manifest \cup Stems)

\* derive_next_generation, over the listing made before the sweep.
DerivedGen == Max({0} \cup {g + 1 : g \in DOMAIN manifest \cup Stems})

\* InvertedIndex::open.  sweep_orphans ignores the files it cannot delete.
Open ==
    /\ ~up /\ up' = TRUE
    /\ segs' = manifest /\ ckpt' = metadata
    /\ nextGen' = DerivedGen
    /\ replay' = IF metadata < Last THEN metadata + 1 ELSE 0
    /\ \E kept \in {{}, Stems \ DOMAIN manifest} :
           LET swept == (Stems \ DOMAIN manifest) \ kept
           IN  /\ files' = Without(files, swept)
               /\ delmaps' = Without(delmaps, swept)
               /\ IF kept = {} THEN UNCHANGED upsets ELSE Fault
    /\ UNCHANGED <<log, todo, writer, manifest, metadata, holderVars,
                   searchVars, flushes, merges>>

\* Engine::recover applies the record to the lexical store.
ReplayRecord ==
    /\ up /\ replay # 0
    /\ LET removed == Remove(Writer, log[replay].drops)
       IN  writer' = IF log[replay].adds = {} THEN removed
                     ELSE Buffer(removed, log[replay].adds)
    /\ replay' = IF replay < Last THEN replay + 1 ELSE 0
    /\ UNCHANGED <<up, log, todo, memoryVars, diskVars, holderVars, searchVars,
                   countVars>>

-----------------------------------------------------------------------------

Init ==
    /\ up = TRUE
    /\ log = <<>> /\ todo = {} /\ replay = 0
    /\ writer = NoWriter
    /\ segs = <<>> /\ nextGen = 0 /\ ckpt = 0
    /\ manifest = <<>> /\ metadata = 0 /\ files = <<>> /\ delmaps = <<>>
    /\ holder = "free" /\ call = "none" /\ sources = {}
    /\ building = FALSE /\ unread = <<>> /\ found = {}
    /\ searcher = {} /\ hasSearcher = FALSE /\ asOf = 0
    /\ flushes = 0 /\ merges = 0 /\ upsets = 0

Next ==
    \/ \E id \in Ids : LogPut(id) \/ LogDelete(id)
    \/ \E t \in todo : DeleteVersion(t) \/ Insert(t)
    \/ AutoFlush
    \/ Commit
    \/ BuildSearcher
    \/ Crash \/ Open \/ ReplayRecord

Spec == Init /\ [][Next]_vars

-----------------------------------------------------------------------------
(* Properties.                                                             *)

Steps == {"free", "flush", "marks", "flags", "publish", "checkpoint", "merge",
          "release", "delete", "done"}

\* Every variable has its type, and what memory names as a segment has a
\* generation that was reserved (reserve_generation).
TypeOK ==
    /\ up \in BOOLEAN
    /\ log \in Seq(Record) /\ Last <= MaxSeq
    /\ todo \subseteq [seq : 1..Last, docs : SUBSET Docs, drops : SUBSET Docs]
    /\ replay \in 0..Last
    /\ DOMAIN writer = DOMAIN NoWriter
    /\ \A s \in DOMAIN segs : segs[s] \in Entry /\ s < nextGen
    /\ \A s \in DOMAIN manifest : manifest[s] \in Entry
    /\ {nextGen, ckpt, metadata} \subseteq Nat
    /\ \A s \in DOMAIN files : s \in Nat /\ files[s] \subseteq Docs
    /\ \A s \in DOMAIN delmaps : s \in Nat /\ delmaps[s] \subseteq Docs
    /\ holder \in Steps /\ call \in {"none", "commit", "optimize"}
    /\ building \in BOOLEAN /\ hasSearcher \in BOOLEAN
    /\ found \subseteq Docs /\ searcher \subseteq Docs /\ asOf \in 0..Last
    /\ up => writer.known \cup sources \subseteq 0..(nextGen - 1)

\* An id that no mutation is changing is looked up as exactly the document
\* that the log leaves it: never a version that was replaced, nor nothing for
\* one that is buffered, flushed, published or merged.  A put deletes what its
\* lookup (find_doc_ids_by_term) returns, so a version that it misses would
\* stay as a duplicate.
LookupExact ==
    Serving /\ Unlocked /\ ~building =>
        \A id \in Ids :
            (\A t \in todo : log[t.seq].id # id) =>
                Lookup(id) = OfId(Live, id)

\* A searcher shows at least the checkpoint that it was built after, in full,
\* whatever the commit or merge that it was built beside; and a searcher
\* that is used when no commit runs shows the last one (with_searcher).
SearchesSeeCommit ==
    hasSearcher =>
        LET covered == 1..(IF Unlocked THEN ckpt ELSE asOf)
        IN  /\ Adds(covered) \ Drops(1..Last) \subseteq searcher
            /\ Drops(covered) \cap searcher = {}

\* Were the process to die now, the segments and bitmaps on storage and the
\* records above the checkpoint would give back exactly the live documents
\* (the order of InvertedIndexWriter::commit, and of a merge).
ReopensLive ==
    LET replayed == metadata + 1..Last
    IN  (Visible(manifest) \cup Adds(replayed)) \ Drops(replayed) = Live

\* What the writer or the manifest hides of a segment.
Hidden(s) == IF writer.manager THEN At(writer.marks, s, {})
             ELSE IF s \in DOMAIN segs THEN MarksOf(s, segs[s]) ELSE {}

\* A document is live in one place at most: the buffer or one segment, flushed
\* or published.  A retried flush, a repeated publication or a replay after a
\* crash must not leave it in two.
OneCopy ==
    \A d \in Docs :
        Cardinality({s \in DOMAIN segs \cup writer.flushed :
                        d \in DocsOf(s) \ Hidden(s)}
                    \cup (IF d \in writer.buffer THEN {nextGen} ELSE {})) <= 1

\* The counts in the manifest's entries (index_counts) give the number of
\* live documents once nothing is buffered or under way.
CountsMatch ==
    Serving /\ Unlocked /\ todo = {} /\ ~writer.open =>
        MapThenSumSet(LAMBDA s : Cardinality(DocsOf(s)) - segs[s].deleted,
                      DOMAIN segs) = Cardinality(Live)

=============================================================================
