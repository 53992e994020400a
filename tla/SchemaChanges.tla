---------------------------- MODULE SchemaChanges ----------------------------
(***************************************************************************)
(* Vector fields that come, go and change under ingestion: add_field,      *)
(* delete_field and update_field of the Engine (engine.rs), the operations *)
(* of VectorStore they call (vector/store.rs), and the one sub-index per   *)
(* field of MultiFieldVectorIndex (multi_field.rs), with its own segments, *)
(* deletion marks and checkpoint.                                          *)
(*                                                                         *)
(* A put holds the read side of schema_change_lock from its embedding to   *)
(* its finish, a schema change the write side throughout; a commit takes   *)
(* neither.  A document is the number of its put's log record and has a    *)
(* value for one field.  Module Engine has the commit ladder and the log   *)
(* in full; here every append is synced, and only the checkpoints of the   *)
(* two stores matter.  MetadataOnly updates touch neither store nor        *)
(* dimension and are left out.                                             *)
(***************************************************************************)
EXTENDS Naturals, FiniteSets, Functions

CONSTANTS
    Fields,       \* names of vector fields
    Dims,         \* the dimension, distance and kind of a field, as one value
    Faults,       \* the steps that may fail
    MaxSeq,       \* bound on the log
    MaxChanges,   \* bound on the schema changes
    MaxCommits,   \* bound on the commits of a caller
    MaxCrashes    \* bound on the ends of a process, but for failed opens

ASSUME FaultsAssumption ==
    Faults \subseteq {"lexical", "seal", "marks", "create", "merge"}
ASSUME BoundsAssumption ==
    /\ MaxSeq \in Nat /\ MaxChanges \in Nat
    /\ MaxCommits \in Nat /\ MaxCrashes \in Nat

VARIABLES
    mode,       \* "open", "recovering", "failed", "refused" or "closed"
    stop,       \* WriteStop
    schema,     \* Engine::schema: the dimension of every declared field
    saved,      \* the schema the persist hook wrote
    index,      \* MultiFieldVectorIndex::fields
    writer,     \* the fields the cached MultiFieldWriter has sub-writers for
    buf,        \* the documents a sub-writer holds
    seal,       \* it is "open", "sealed", or "dirty": sealed, then changed
    marks,      \* the deletion marks of a field's index
    pend,       \* its pending_wal_seq
    files,      \* what a field's directory holds
    lexCkpt,    \* the lexical store's checkpoint
    wal,        \* the records in the log
    nextSeq,    \* DocumentLog::next_seq
    put,        \* the put under way
    change,     \* the schema change under way
    lpc, snap,  \* a ladder's step and watermark snapshot
    changes, commits, crashes,
    history,    \* (ghost) every record that took effect on the log
    start,      \* (ghost) the record after which a field last began empty
    discarded,  \* (ghost) the records a recovery discarded
    refused,    \* (ghost) the records whose caller got an error
    unfollowed  \* (ghost) the fields a failure has left wrong: see CommitVector,
                \* TruncateLog and ApplyNewField

schemaVars == <<schema, saved, index>>
writerVars == <<writer, buf, seal>>
fieldVars == <<marks, pend, files>>
logVars == <<wal, nextSeq>>
ladderVars == <<lpc, snap, commits>>
ghostVars == <<history, start, discarded, refused, unfollowed>>
vars == <<mode, stop, schemaVars, writerVars, fieldVars, lexCkpt, logVars,
          put, change, changes, ladderVars, crashes, ghostVars>>

LastSeq == nextSeq - 1
Larger(m, n) == IF m > n THEN m ELSE n
Each(value) == [f \in Fields |-> value]

\* A put's record carries its value; a delete's names a document.
IsPut(r) == r.doc = r.seq
Puts(records) == {r \in records : IsPut(r)}
Deleted(records) == {r.doc : r \in {s \in records : ~IsPut(s)}}

\* The documents that are not deleted.
Live(records) == {r.doc : r \in Puts(records)} \ Deleted(records)

Without(table, f) == Restrict(table, DOMAIN table \ {f})
With(table, f, d) ==
    [g \in DOMAIN table \cup {f} |-> IF g = f THEN d ELSE table[g]]

-----------------------------------------------------------------------------
(* The cached writer.                                                      *)

Sealable == {f \in writer : seal[f] = "open" /\ buf[f] # {}}
\* Sealed once, then changed: its commit fails (SegmentedWriter::commit).
Unsealable == {f \in writer : seal[f] = "dirty"}

WithSealed(sealed) ==
    [f \in Fields |-> IF f \in sealed
                      THEN [files[f] EXCEPT !.docs = @ \cup buf[f]]
                      ELSE files[f]]

DropWriter ==
    /\ writer' = {}
    /\ buf' = Each({})
    /\ seal' = Each("open")

\* Every sub-writer that has changes seals its segment.
WriterCommits == Unsealable = {}

\* MultiFieldWriter::commit tries every field, fails if one did, and the
\* writer stays cached.
WriterCommitFails ==
    /\ \E failing \in SUBSET Sealable :
           /\ failing \cup Unsealable # {}
           /\ failing # {} => "seal" \in Faults
           /\ files' = WithSealed(Sealable \ failing)
           /\ seal' = [f \in Fields |-> IF f \in Sealable \ failing
                                        THEN "sealed" ELSE seal[f]]
    /\ UNCHANGED <<writer, buf>>

-----------------------------------------------------------------------------
(* Puts and deletes.                                                       *)

NoPut == [step |-> "idle"]
NoChange == [step |-> "idle"]

\* Room on the log, with the record of the put under way.
BelowMaxSeq == nextSeq + (IF put.step = "idle" THEN 0 ELSE 1) <= MaxSeq

\* The read side of schema_change_lock: no schema change holds it (or, as
\* if a put took no lock, whatever holds it).
SchemaUnlockedAlways == TRUE
SchemaUnlocked == change.step = "idle"

\* apply_dynamic_schema keeps values of declared fields only; a value for
\* a new field comes after the add_field that declares it.
Coerce(f, d) ==
    /\ mode = "open"
    /\ put.step = "idle"
    /\ BelowMaxSeq
    /\ f \in DOMAIN schema
    /\ put' = [step |-> "coerced", field |-> f, dim |-> d]
    /\ UNCHANGED <<mode, stop, schemaVars, writerVars, fieldVars, lexCkpt,
                   logVars, change, changes, ladderVars, crashes, ghostVars>>

\* embed_raw checks the value against the index, unless it has no field.
Embeds(f, d) ==
    f \in DOMAIN schema /\ DOMAIN index # {} =>
        f \in DOMAIN index /\ index[f] = d

Embed ==
    /\ put.step = "coerced"
    /\ SchemaUnlocked
    /\ put' = IF ~stop /\ Embeds(put.field, put.dim)
              THEN [step |-> "embedded", field |-> put.field, dim |-> put.dim,
                    into |-> put.field \in DOMAIN schema]
              ELSE NoPut
    /\ UNCHANGED <<mode, stop, schemaVars, writerVars, fieldVars, lexCkpt,
                   logVars, change, changes, ladderVars, crashes, ghostVars>>

\* The writer is locked, and created if there is none, before the append;
\* from there the put runs to its end.  The document is deleted from every
\* field and put into its own; a field the writer does not know fails it,
\* and writes stop.
WritePut ==
    /\ put.step = "embedded"
    /\ LET f == put.field
           r == [seq |-> nextSeq, doc |-> nextSeq, field |-> f,
                 dim |-> put.dim, into |-> put.into]
           fields == IF writer = {} THEN DOMAIN index ELSE writer
       IN  /\ writer' = fields
           /\ wal' = wal \cup {r}
           /\ history' = history \cup {r}
           /\ nextSeq' = nextSeq + 1
           /\ marks' = [g \in Fields |->
                  CASE g \notin fields -> marks[g]
                    [] g = f /\ put.into -> marks[g] \ {r.doc}
                    [] OTHER -> marks[g] \cup {r.doc}]
           /\ \/ /\ f \in fields /\ put.into
                 /\ buf' = [buf EXCEPT ![f] = @ \cup {r.doc}]
                 /\ seal' = [seal EXCEPT ![f] =
                                 IF @ = "sealed" THEN "dirty" ELSE @]
                 /\ UNCHANGED <<stop, refused>>
              \/ /\ ~put.into
                 /\ UNCHANGED <<stop, buf, seal, refused>>
              \/ /\ f \notin fields /\ put.into
                 /\ stop' = TRUE
                 /\ refused' = refused \cup {r.seq}
                 /\ UNCHANGED <<buf, seal>>
    /\ put' = NoPut
    /\ UNCHANGED <<mode, schemaVars, pend, files, lexCkpt, change, changes,
                   ladderVars, crashes, start, discarded, unfollowed>>

\* The put's future is dropped while it waits.
CancelPut ==
    /\ put.step # "idle"
    /\ put' = NoPut
    /\ UNCHANGED <<mode, stop, schemaVars, writerVars, fieldVars, lexCkpt,
                   logVars, change, changes, ladderVars, crashes, ghostVars>>

\* A soft delete marks the document in every registered field.
Delete(doc) ==
    /\ mode = "open" /\ ~stop
    /\ SchemaUnlocked
    /\ BelowMaxSeq
    /\ LET r == [seq |-> nextSeq, doc |-> doc]
       IN  wal' = wal \cup {r} /\ history' = history \cup {r}
    /\ nextSeq' = nextSeq + 1
    /\ marks' = [f \in Fields |-> IF f \in DOMAIN index
                                  THEN marks[f] \cup {doc} ELSE marks[f]]
    /\ UNCHANGED <<mode, stop, schemaVars, writerVars, pend, files, lexCkpt,
                   put, change, changes, ladderVars, crashes, start,
                   discarded, refused, unfollowed>>

\* Only a document that the lookup finds is deleted.
DeleteSome ==
    \E doc \in Live({r \in history : r.seq \notin refused}) : Delete(doc)

-----------------------------------------------------------------------------
(* The commit ladder.                                                      *)

\* Who runs one: a caller or the timer, a schema change, recovery.
Ladders == {"caller", "changer", "recovery"}

Settle(l, succeeded) ==
    /\ lpc' = [lpc EXCEPT ![l] = "idle"]
    /\ snap' = [snap EXCEPT ![l] = 0]
    /\ mode' = IF l # "recovery" THEN mode
               ELSE IF succeeded THEN "open" ELSE "failed"
    /\ change' = IF l # "changer" THEN change
                 ELSE IF succeeded THEN [change EXCEPT !.step = "apply"]
                 ELSE NoChange
    /\ UNCHANGED commits

GoesOn(l, step) ==
    /\ lpc' = [lpc EXCEPT ![l] = step]
    /\ UNCHANGED <<mode, change, snap, commits>>

StartCommit ==
    /\ mode = "open" /\ ~stop
    /\ lpc["caller"] = "idle"
    /\ commits < MaxCommits
    /\ lpc' = [lpc EXCEPT !["caller"] = "lexical"]
    /\ snap' = [snap EXCEPT !["caller"] = LastSeq]
    /\ commits' = commits + 1
    /\ UNCHANGED <<mode, stop, schemaVars, writerVars, fieldVars, lexCkpt,
                   logVars, put, change, changes, crashes, ghostVars>>

CommitLexical(l) ==
    /\ lpc[l] = "lexical"
    /\ \/ /\ lexCkpt' = Larger(lexCkpt, snap[l])
          /\ GoesOn(l, "vector")
       \/ /\ "lexical" \in Faults
          /\ Settle(l, FALSE)
          /\ UNCHANGED lexCkpt
    /\ UNCHANGED <<stop, schemaVars, writerVars, fieldVars, logVars, put,
                   changes, crashes, ghostVars>>

\* Each field writes its marks, then publishes its pending checkpoint; all
\* are tried, and one that fails may have written its marks.  A process may
\* also end among them.
Persisted(written, published) ==
    [f \in Fields |->
        [WithSealed(Sealable)[f] EXCEPT
            !.marks = IF f \in written THEN marks[f] ELSE @,
            !.ckpt = IF f \in published THEN Larger(@, pend'[f]) ELSE @]]

\* Of the fields that were to be written, those into which a replay put a
\* document again whose delete their checkpoint covers and whose mark is gone.
Resealed(fields) ==
    {f \in Sealable \cap fields :
        \E r \in history : /\ ~IsPut(r) /\ r.seq <= files[f].ckpt
                          /\ r.doc \in buf[f] \ files[f].marks}

CommitVector(l) ==
    /\ lpc[l] = "vector"
    /\ pend' = [f \in Fields |-> IF f \in DOMAIN index
                                 THEN Larger(pend[f], snap[l]) ELSE pend[f]]
    /\ \/ /\ WriterCommits
          /\ files' = Persisted(DOMAIN index, DOMAIN index)
          /\ DropWriter
          /\ GoesOn(l, "truncate")
          /\ UNCHANGED unfollowed
       \/ /\ WriterCommits
          /\ "marks" \in Faults
          /\ \E written \in SUBSET DOMAIN index :
                 \E published \in (SUBSET written) \ {DOMAIN index} :
                     /\ files' = Persisted(written, published)
                     /\ unfollowed' =
                            unfollowed \cup Resealed(Fields \ written)
          /\ DropWriter
          /\ Settle(l, FALSE)
       \/ WriterCommitFails /\ Settle(l, FALSE) /\ UNCHANGED unfollowed
    /\ UNCHANGED <<stop, schemaVars, marks, lexCkpt, logVars, put, changes,
                   crashes, history, start, discarded, refused>>

\* A removed field whose removal is not saved yet no longer follows the
\* records that this truncation takes away.
TruncateLog(l) ==
    /\ lpc[l] = "truncate"
    /\ wal' = {r \in wal : r.seq > snap[l]}
    /\ unfollowed' = IF change.step = "save" /\ change.kind = "delete"
                     THEN unfollowed \cup {change.field} ELSE unfollowed
    /\ Settle(l, TRUE)
    /\ UNCHANGED <<stop, schemaVars, writerVars, fieldVars, lexCkpt, nextSeq,
                   put, changes, crashes, history, start, discarded, refused>>

Commit == \/ StartCommit
          \/ \E l \in Ladders :
                 CommitLexical(l) \/ CommitVector(l) \/ TruncateLog(l)

-----------------------------------------------------------------------------
(* Schema changes: a check, for some a commit, the store, the schema.      *)

\* The write side of schema_change_lock: no put is past its embedding.
NoPutInFlight == put.step # "embedded"

Begin(kind, f, d, step) ==
    /\ mode = "open" /\ ~stop
    /\ change.step = "idle"
    /\ changes < MaxChanges
    /\ NoPutInFlight
    /\ change' = [step |-> step, kind |-> kind, field |-> f, dim |-> d]
    /\ changes' = changes + 1
    /\ UNCHANGED <<mode, stop, schemaVars, writerVars, fieldVars, lexCkpt,
                   logVars, put, commits, crashes, ghostVars>>

\* A vector field begins after a commit, so that no record put into another
\* field of its name is replayed into it (or begins without one).
BeginAfterCommitUncommitted(kind, f, d) ==
    /\ Begin(kind, f, d, "apply")
    /\ UNCHANGED <<lpc, snap>>

BeginAfterCommit(kind, f, d) ==
    /\ Begin(kind, f, d, "commit")
    /\ lpc' = [lpc EXCEPT !["changer"] = "lexical"]
    /\ snap' = [snap EXCEPT !["changer"] = LastSeq]

BeginAtOnce(kind, f) ==
    /\ f \in DOMAIN schema
    /\ Begin(kind, f, schema[f], "apply")
    /\ UNCHANGED <<lpc, snap>>

AddField(f, d) == f \notin DOMAIN schema /\ BeginAfterCommit("add", f, d)

DeleteField(f) == BeginAtOnce("delete", f)

\* update_field, classified as Destructive.
RecreateField(f, d) ==
    /\ f \in DOMAIN schema /\ schema[f] # d
    /\ BeginAfterCommit("recreate", f, d)

\* update_field, classified as Reindex.
ReindexField(f) == BeginAtOnce("reindex", f)

\* The call's future is dropped while it waits for its commit or for the
\* vector writer.
CancelChange ==
    /\ change.step \in {"commit", "apply"}
    /\ change' = NoChange
    /\ lpc' = [lpc EXCEPT !["changer"] = "idle"]
    /\ snap' = [snap EXCEPT !["changer"] = 0]
    /\ UNCHANGED <<mode, stop, schemaVars, writerVars, fieldVars, lexCkpt,
                   logVars, put, changes, commits, crashes, ghostVars>>

Saving == change' = [change EXCEPT !.step = "save"]

\* The checkpoint of the field that lags most, of those in a table (or of
\* the one that is furthest, whose records the others may lack).
LowestCkptFurthest(table) ==
    IF DOMAIN table = {} THEN 0
    ELSE CHOOSE n \in {files[f].ckpt : f \in DOMAIN table} :
             \A f \in DOMAIN table : n >= files[f].ckpt

LowestCkpt(table) ==
    IF DOMAIN table = {} THEN 0
    ELSE CHOOSE n \in {files[f].ckpt : f \in DOMAIN table} :
             \A f \in DOMAIN table : n <= files[f].ckpt

EmptyDirectory(d) == [docs |-> {}, dim |-> d, marks |-> {}, ckpt |-> 0]

\* What a purge that fails, or that the end of the process cuts off, leaves
\* of a directory: any of the segments while the manifest names them, and
\* the marks or not.
Leftovers(dir) ==
    {left \in {[docs |-> docs, dim |-> dir.dim, marks |-> kept, ckpt |-> n] :
                   docs \in SUBSET dir.docs, kept \in {{}, dir.marks},
                   n \in {0, dir.ckpt}} :
        left.docs # {} => left.ckpt = dir.ckpt}

Purged(f, left) == [WithSealed(Sealable) EXCEPT ![f] = left]

\* VectorStore::add_field, and rebuild_field with a purge.  The commit left
\* no writer, and no put has run since.  The sub-index of a new field starts
\* over a directory without files, and its checkpoint is the lowest of the
\* others' from the next commit on.  When the directory cannot be purged or
\* the field not created, a recreated field is left unregistered, and what
\* is left of its files follows no delete and no commit any more.
ApplyNewField ==
    /\ change.kind \in {"add", "recreate"}
    /\ LET f == change.field
           others == Without(index, f)
       IN  /\ WriterCommits
           /\ DropWriter
           /\ marks' = [marks EXCEPT ![f] = {}]
           /\ start' = [start EXCEPT ![f] = LastSeq]
           /\ \/ /\ files' = Purged(f, EmptyDirectory(change.dim))
                 /\ unfollowed' = unfollowed \ {f}
                 /\ index' = With(others, f, change.dim)
                 /\ pend' = [pend EXCEPT ![f] = LowestCkpt(others)]
                 /\ Saving
              \/ /\ "create" \in Faults
                 /\ \E left \in Leftovers(WithSealed(Sealable)[f]) :
                        /\ files' = Purged(f, left)
                        /\ unfollowed' = IF left.docs = {}
                                         THEN unfollowed \ {f}
                                         ELSE unfollowed \cup {f}
                 /\ index' = others
                 /\ pend' = [pend EXCEPT ![f] = 0]
                 /\ change' = NoChange

\* VectorStore::delete_field: the files stay, and so does a writer that
\* fails to commit.
ApplyDeletion ==
    /\ change.kind = "delete"
    /\ index' = Without(index, change.field)
    /\ \/ WriterCommits /\ files' = WithSealed(Sealable) /\ DropWriter
       \/ WriterCommitFails
    /\ marks' = [marks EXCEPT ![change.field] = {}]
    /\ pend' = [pend EXCEPT ![change.field] = 0]
    /\ Saving
    /\ UNCHANGED <<start, unfollowed>>

\* VectorStore::rebuild_field without a purge: the marks are written, the
\* files opened anew and merged, and the marks of what the merge dropped
\* forgotten, if that does not fail.
ApplyReindex ==
    /\ change.kind = "reindex"
    /\ LET f == change.field
           sealed == WithSealed(Sealable)
           rewritten(docs, kept) ==
               [sealed EXCEPT ![f] = [@ EXCEPT !.docs = docs, !.marks = kept]]
       IN  \/ /\ WriterCommits
              /\ f \in DOMAIN index
              /\ \E kept \in {marks[f], {}} :
                     /\ kept = {} => sealed[f].docs # {}
                     /\ kept # {} => sealed[f].docs = {} \/ "merge" \in Faults
                     /\ files' = rewritten(sealed[f].docs \ marks[f], kept)
                     /\ marks' = [marks EXCEPT ![f] = kept]
              /\ pend' = [pend EXCEPT ![f] = 0]
              /\ DropWriter
              /\ Saving
           \/ /\ WriterCommits
              /\ \/ f \notin DOMAIN index /\ files' = sealed
                 \/ /\ f \in DOMAIN index
                    /\ "merge" \in Faults
                    /\ files' = rewritten(sealed[f].docs, marks[f])
              /\ DropWriter
              /\ change' = NoChange
              /\ UNCHANGED <<marks, pend>>
           \/ /\ WriterCommitFails
              /\ change' = NoChange
              /\ UNCHANGED <<marks, pend>>
    /\ UNCHANGED <<index, start, unfollowed>>

ApplyChange ==
    /\ change.step = "apply"
    /\ ApplyNewField \/ ApplyDeletion \/ ApplyReindex
    /\ UNCHANGED <<mode, stop, schema, saved, lexCkpt, logVars, put, changes,
                   ladderVars, crashes, history, discarded, refused>>

\* The schema is updated in memory and handed to the persist hook.
SaveSchema ==
    /\ change.step = "save"
    /\ schema' = IF change.kind = "delete" THEN Without(schema, change.field)
                 ELSE With(schema, change.field, change.dim)
    /\ saved' = schema'
    /\ unfollowed' = IF change.kind = "delete"
                     THEN unfollowed \ {change.field} ELSE unfollowed
    /\ change' = NoChange
    /\ UNCHANGED <<mode, stop, index, writerVars, fieldVars, lexCkpt, logVars,
                   put, changes, ladderVars, crashes, history, start,
                   discarded, refused>>

ChangeSchema ==
    \/ \E f \in Fields, d \in Dims : AddField(f, d) \/ RecreateField(f, d)
    \/ \E f \in Fields : DeleteField(f) \/ ReindexField(f)
    \/ CancelChange
    \/ ApplyChange
    \/ SaveSchema

-----------------------------------------------------------------------------
(* The end of a process, and the next open.                                *)

\* Also a drop, whose lexical writer commits if nothing is under way.
End ==
    /\ mode # "closed"
    /\ mode = "open" \/ mode = "recovering" => crashes < MaxCrashes
    /\ crashes' = IF mode \in {"open", "recovering"} THEN crashes + 1
                  ELSE crashes
    /\ \/ UNCHANGED lexCkpt
       \/ /\ mode = "open" /\ ~stop
          /\ put.step = "idle" /\ change.step = "idle"
          /\ \A l \in Ladders : lpc[l] = "idle"
          /\ lexCkpt' = LastSeq
    /\ mode' = "closed"
    /\ stop' = FALSE
    /\ index' = <<>> /\ schema' = saved
    /\ DropWriter
    /\ marks' = Each({}) /\ pend' = Each(0)
    /\ put' = NoPut /\ change' = NoChange
    /\ lpc' = [l \in Ladders |-> "idle"]
    /\ snap' = [l \in Ladders |-> 0]
    /\ UNCHANGED <<saved, files, logVars, changes, commits, ghostVars>>

\* The files of a field cannot be read as the schema declares it.
Unreadable(f) == files[f].docs # {} /\ files[f].dim # saved[f]

\* What the vector store lacks: the records above the lowest checkpoint.
Replayed == {r \in wal : r.seq > LowestCkpt(saved)}

\* The puts among them whose value their field no longer accepts.
Rejected == {r \in Puts(Replayed) :
                r.field \in DOMAIN saved /\ r.dim # saved[r.field]}

\* A rejected record fails the open unless neither store has committed it.
OpenFails ==
    /\ mode = "closed"
    /\ \/ \E f \in DOMAIN saved : Unreadable(f)
       \/ \E r \in Rejected : r.seq <= lexCkpt
    /\ mode' = "refused"
    /\ UNCHANGED <<stop, schemaVars, writerVars, fieldVars, lexCkpt, logVars,
                   put, change, changes, ladderVars, crashes, ghostVars>>

\* The numbers that the next append must be above (or the log's alone).
UsedNumbersOfLog == {0} \cup {r.seq : r \in wal}
UsedNumbers ==
    {lexCkpt} \cup {files[f].ckpt : f \in DOMAIN saved} \cup
        {r.seq : r \in wal}

\* Engine::recover: the replay, and its commit if anything was replayed.
Open ==
    /\ mode = "closed"
    /\ \A f \in DOMAIN saved : ~Unreadable(f)
    /\ \A r \in Rejected : r.seq > lexCkpt
    /\ LET replayed == Puts(Replayed) \ Rejected
           docs == {r.doc : r \in replayed}
           into(f) == {r.doc : r \in {s \in replayed : s.field = f}}
       IN  /\ index' = saved
           /\ writer' = IF replayed = {} THEN {} ELSE DOMAIN saved
           /\ buf' = [f \in Fields |-> IF f \in DOMAIN saved THEN into(f)
                                       ELSE {}]
           /\ marks' = [f \in Fields |->
                  IF f \in DOMAIN saved
                  THEN ((files[f].marks \cup docs) \ into(f))
                           \cup Deleted(Replayed)
                  ELSE {}]
           /\ files' = [f \in Fields |->
                  IF f \in DOMAIN saved
                  THEN [files[f] EXCEPT !.dim = saved[f]] ELSE files[f]]
           /\ \E top \in UsedNumbers :
                  (\A n \in UsedNumbers : n <= top) /\ nextSeq' = top + 1
    /\ history' = history \ Rejected
    /\ discarded' = discarded \cup {r.seq : r \in Rejected}
    /\ IF \E r \in wal : IsPut(r) \/ r.seq > lexCkpt \/ r \in Replayed
       THEN /\ mode' = "recovering"
            /\ lpc' = [lpc EXCEPT !["recovery"] = "lexical"]
            /\ snap' = [snap EXCEPT !["recovery"] = nextSeq' - 1]
       ELSE mode' = "open" /\ UNCHANGED <<lpc, snap>>
    /\ UNCHANGED <<stop, schema, saved, seal, pend, lexCkpt, wal, put, change,
                   changes, commits, crashes, start, refused, unfollowed>>

-----------------------------------------------------------------------------

Init ==
    /\ mode = "open" /\ stop = FALSE
    /\ \E declared \in SUBSET Fields :
           schema \in [declared -> Dims] /\ saved = schema /\ index = schema
    /\ writer = {} /\ buf = Each({}) /\ seal = Each("open")
    /\ marks = Each({}) /\ pend = Each(0)
    /\ files = [f \in Fields |->
           EmptyDirectory(IF f \in DOMAIN schema THEN schema[f] ELSE "none")]
    /\ lexCkpt = 0 /\ wal = {} /\ nextSeq = 1
    /\ put = NoPut /\ change = NoChange
    /\ lpc = [l \in Ladders |-> "idle"] /\ snap = [l \in Ladders |-> 0]
    /\ changes = 0 /\ commits = 0 /\ crashes = 0
    /\ history = {} /\ start = Each(0)
    /\ discarded = {} /\ refused = {} /\ unfollowed = {}

Next ==
    \/ \E f \in Fields, d \in Dims : Coerce(f, d)
    \/ Embed \/ WritePut \/ CancelPut
    \/ DeleteSome
    \/ Commit
    \/ ChangeSchema
    \/ End \/ OpenFails \/ Open

Spec == Init /\ [][Next]_vars

-----------------------------------------------------------------------------
(* Properties.                                                             *)

Tables == UNION {[S -> Dims] : S \in SUBSET Fields}

TypeOK ==
    /\ mode \in {"open", "recovering", "failed", "refused", "closed"}
    /\ stop \in BOOLEAN
    /\ {schema, saved, index} \subseteq Tables
    /\ writer \subseteq Fields
    /\ \A f \in Fields :
           /\ buf[f] \cup marks[f] \cup files[f].docs \subseteq 1..LastSeq
           /\ files[f].marks \subseteq 1..LastSeq
           /\ f \notin writer => buf[f] = {} /\ seal[f] = "open"
           /\ files[f].ckpt \in 0..LastSeq /\ pend[f] \in 0..LastSeq
    /\ lexCkpt \in 0..LastSeq
    /\ mode # "closed" => LastSeq <= MaxSeq
    /\ change.step # "idle" => mode = "open"

\* What a field's index holds.
Held(f) == (files[f].docs \cup buf[f]) \ marks[f]

\* The documents put into it since it last began empty, and not deleted.
Owed(f) ==
    {r.doc : r \in {s \in Puts(history) :
                       s.into /\ s.field = f /\ s.seq > start[f]}}
        \ Deleted(history)

\* Every registered field that is not in unfollowed holds exactly the
\* documents put into it since it was added or recreated, and not deleted: a
\* schema change, a commit that reaches only some fields, a crash between any
\* two steps and the replay lose none, bring none back that was deleted or
\* put before, and apply no record to another field of the same name (Issues
\* #1492, #1527, #1535).  In unfollowed, and so excepted until they are
\* emptied or deleted, are the fields that the code leaves wrong:
\*  - a document that a replay put into the field again, after a merge that
\*    dropped it with its mark, is sealed by a commit that fails before it
\*    writes the field's marks (see ReplayIsIdempotent);
\*  - the log is truncated while the field is removed from the index and not
\*    yet from the saved schema;
\*  - a recreation fails and leaves files of the field, which the saved
\*    schema still declares.
FieldsExact ==
    mode = "open" /\ ~stop =>
        \A f \in DOMAIN index \ unfollowed : Held(f) = Owed(f)

\* A replay of a log that still has every record leaves each field with the
\* documents it owes, whichever of the records the field already had: "safe",
\* since applying a record again is idempotent (recover, engine.rs, and
\* last_wal_seq, multi_field.rs).  It is not once the field has dropped a
\* deleted document with its mark and the commit of a recovery then fails.
ReplayIsIdempotent ==
    mode = "recovering" /\ history \subseteq wal =>
        \A f \in DOMAIN index : Held(f) = Owed(f)

\* An index opens again wherever its process ends, and the replay discards
\* only a record whose put reported the error.  The exception is an open
\* whose replay discarded one, and whose commit then reached the lexical
\* store only: the next open takes it for committed (recover, engine.rs).
ReopensWhole ==
    /\ discarded \subseteq refused
    /\ mode = "refused" => \E r \in Rejected : r.seq \in discarded

\* A put that passed its checks finds its field in the writer, so writes
\* stop only once a failed recreation left a declared field unregistered
\* (index_internal, Issues #1326 and #1492).
PutsFindTheirField == stop => \E f \in DOMAIN schema : f \notin DOMAIN index

=============================================================================
