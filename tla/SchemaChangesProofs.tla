------------------------- MODULE SchemaChangesProofs -------------------------
(***************************************************************************)
(* That a put which passed its checks finds its field in the vector        *)
(* writer, and that every field holds, in memory and after the next open,  *)
(* what was put into it since it last began empty and not deleted,         *)
(* whatever schema changes, commits, failures and ends of the process      *)
(* come between, for any fields, dimensions, faults and bounds.  Excepted  *)
(* are the fields in unfollowed, which three failures leave wrong: they    *)
(* are listed at FieldsExact.                                              *)
(***************************************************************************)
EXTENDS SchemaChanges, WellFoundedInduction, TLAPS

-----------------------------------------------------------------------------
(* The inductive invariant.                                                *)

\* A schema change and an embedded put exclude each other, so that the
\* put's field is still as declared as when it was embedded.
LockHeld ==
    put.step = "embedded" =>
        change.step = "idle" /\ (put.into => put.field \in DOMAIN schema)

\* Only a change that is at its commit has a ladder of its own.
LadderOfChange == lpc["changer"] # "idle" => change.step = "commit"

\* No schema change outlives the failure that stopped writes.
StoppedIsQuiet == stop => change.step = "idle" /\ mode # "closed"

\* A cached writer has a sub-writer for every registered field.
WriterKnowsFields == writer # {} => DOMAIN index \subseteq writer

\* Nothing runs in a process that has ended.
NoPutWhenClosed == mode = "closed" => put.step = "idle"

LadderSteps == {"idle", "lexical", "vector", "truncate"}

FieldInv ==
    /\ lpc \in [Ladders -> LadderSteps]
    /\ LockHeld
    /\ LadderOfChange
    /\ StoppedIsQuiet
    /\ WriterKnowsFields
    /\ NoPutWhenClosed
    /\ PutsFindTheirField

USE DEF Ladders, LadderSteps

LEMMA InitFieldInv == Init => FieldInv
<1> SUFFICES ASSUME Init PROVE FieldInv
  OBVIOUS
<1>1. put.step = "idle" /\ change.step = "idle" /\ stop = FALSE /\ writer = {}
  BY DEF Init, NoPut, NoChange
<1>2. lpc = [l \in Ladders |-> "idle"]
  BY DEF Init
<1>3. lpc \in [Ladders -> LadderSteps] /\ lpc["changer"] = "idle"
  BY <1>2
<1> QED
  BY <1>1, <1>3 DEF FieldInv, LockHeld, LadderOfChange, StoppedIsQuiet,
                    WriterKnowsFields, NoPutWhenClosed, PutsFindTheirField

\* What a step of a ladder leaves alone.
LEMMA SettleKeeps ==
    ASSUME FieldInv, NEW l \in Ladders, NEW b \in BOOLEAN, lpc[l] # "idle",
           Settle(l, b)
    PROVE  /\ lpc' \in [Ladders -> LadderSteps]
           /\ LadderOfChange'
           /\ change.step = "idle" => change' = change
           /\ mode # "closed" => mode' # "closed"
<1> lpc \in [Ladders -> LadderSteps] /\ lpc' = [lpc EXCEPT ![l] = "idle"]
  BY DEF Settle, FieldInv
<1>1. /\ lpc' \in [Ladders -> LadderSteps]
      /\ l = "changer" => lpc'["changer"] = "idle"
  OBVIOUS
<1>2. l # "changer" => lpc'["changer"] = lpc["changer"] /\ change' = change
  <2>1. l # "changer" => lpc'["changer"] = lpc["changer"]
    OBVIOUS
  <2>2. l # "changer" => change' = change
    BY DEF Settle
  <2> QED BY <2>1, <2>2
<1>3. LadderOfChange'
  BY <1>1, <1>2 DEF FieldInv, LadderOfChange
<1>4. l = "changer" => change.step # "idle"
  BY DEF FieldInv, LadderOfChange
<1>5. mode # "closed" => mode' # "closed"
  BY DEF Settle
<1> QED BY <1>1, <1>2, <1>3, <1>4, <1>5

LEMMA GoesOnKeeps ==
    ASSUME FieldInv, NEW l \in Ladders, NEW s \in LadderSteps,
           lpc[l] # "idle", GoesOn(l, s)
    PROVE  /\ lpc' \in [Ladders -> LadderSteps]
           /\ LadderOfChange'
           /\ change' = change
           /\ mode' = mode
<1>1. lpc' \in [Ladders -> LadderSteps] /\ change' = change /\ mode' = mode
  BY DEF GoesOn, FieldInv
<1>2. lpc'["changer"] # "idle" => lpc["changer"] # "idle"
  BY DEF GoesOn, FieldInv
<1> QED BY <1>1, <1>2 DEF LadderOfChange, FieldInv

\* A step of a ladder that keeps the fields, or drops the writer.
LEMMA LadderKeeps ==
    ASSUME FieldInv, lpc' \in [Ladders -> LadderSteps], LadderOfChange',
           change.step = "idle" => change' = change,
           mode # "closed" => mode' # "closed",
           UNCHANGED <<stop, schema, index, put>>,
           writer' = writer \/ writer' = {}
    PROVE  FieldInv'
BY DEF FieldInv, LockHeld, StoppedIsQuiet, WriterKnowsFields,
       NoPutWhenClosed, PutsFindTheirField

\* A step that keeps or drops the writer and leaves the fields, the put, the
\* change and the ladders alone.
LEMMA OtherKeeps ==
    ASSUME FieldInv, UNCHANGED <<mode, stop, schema, index, put, change, lpc>>,
           writer' = writer \/ writer' = {}
    PROVE  FieldInv'
BY DEF FieldInv, LockHeld, LadderOfChange, StoppedIsQuiet, WriterKnowsFields,
       NoPutWhenClosed, PutsFindTheirField

-----------------------------------------------------------------------------
(* Puts and deletes.                                                       *)

LEMMA EmbedKeeps == FieldInv /\ Embed => FieldInv'
<1> SUFFICES ASSUME FieldInv, Embed PROVE FieldInv'
  OBVIOUS
<1>1. /\ UNCHANGED <<mode, stop, schema, index, writer, change, lpc>>
      /\ put.step = "coerced"
  BY DEF Embed, schemaVars, writerVars, ladderVars
<1>2. put'.step = "embedded" =>
          /\ change.step = "idle"
          /\ put'.into => put'.field \in DOMAIN schema
  <2>1. CASE ~stop /\ Embeds(put.field, put.dim)
    BY <2>1 DEF Embed, SchemaUnlocked
  <2>2. CASE ~(~stop /\ Embeds(put.field, put.dim))
    BY <2>2 DEF Embed, NoPut
  <2> QED BY <2>1, <2>2
<1> QED
  BY <1>1, <1>2 DEF FieldInv, LockHeld, LadderOfChange, StoppedIsQuiet,
                    WriterKnowsFields, NoPutWhenClosed, PutsFindTheirField

\* The put's field is declared, so it is the unregistered one if the writer,
\* which knows every registered field, does not know it.
LEMMA WritePutKeeps == FieldInv /\ WritePut => FieldInv'
<1> SUFFICES ASSUME FieldInv, WritePut PROVE FieldInv'
  OBVIOUS
<1> DEFINE fields == IF writer = {} THEN DOMAIN index ELSE writer
<1>1. /\ UNCHANGED <<mode, schema, index, change, lpc>>
      /\ put'.step = "idle"
      /\ writer' = fields
  BY DEF WritePut, schemaVars, ladderVars, NoPut
<1>2. put.step = "embedded" /\ change.step = "idle" /\ mode # "closed"
  BY DEF WritePut, FieldInv, LockHeld, NoPutWhenClosed
<1>3. DOMAIN index \subseteq fields
  BY DEF FieldInv, WriterKnowsFields
<1>4. stop' = stop \/ (put.field \notin fields /\ put.into)
  BY DEF WritePut
<1>5. stop' => \E f \in DOMAIN schema : f \notin DOMAIN index
  <2>1. CASE stop' = stop
    BY <2>1 DEF FieldInv, PutsFindTheirField
  <2>2. CASE put.field \notin fields /\ put.into
    <3>1. put.field \in DOMAIN schema
      BY <1>2, <2>2 DEF FieldInv, LockHeld
    <3> QED BY <1>3, <2>2, <3>1
  <2> QED BY <1>4, <2>1, <2>2
<1>6. WriterKnowsFields'
  BY <1>1, <1>3 DEF WriterKnowsFields
<1> QED
  BY <1>1, <1>2, <1>5, <1>6 DEF FieldInv, LockHeld, LadderOfChange,
                                StoppedIsQuiet, NoPutWhenClosed,
                                PutsFindTheirField

-----------------------------------------------------------------------------
(* The commit ladder.                                                      *)

LEMMA StartCommitKeeps == FieldInv /\ StartCommit => FieldInv'
<1> SUFFICES ASSUME FieldInv, StartCommit PROVE FieldInv'
  OBVIOUS
<1>1. UNCHANGED <<mode, stop, schema, index, writer, put, change>>
  BY DEF StartCommit, schemaVars, writerVars
<1>2. lpc' \in [Ladders -> LadderSteps] /\ lpc'["changer"] = lpc["changer"]
  BY DEF StartCommit, FieldInv
<1> QED
  BY <1>1, <1>2 DEF FieldInv, LockHeld, LadderOfChange, StoppedIsQuiet,
                    WriterKnowsFields, NoPutWhenClosed, PutsFindTheirField

LEMMA CommitLexicalKeeps ==
    ASSUME NEW l \in Ladders, FieldInv, CommitLexical(l)
    PROVE  FieldInv'
<1>1. lpc[l] # "idle" /\ UNCHANGED <<stop, schema, index, writer, put>>
  BY DEF CommitLexical, schemaVars, writerVars
<1>2. GoesOn(l, "vector") \/ Settle(l, FALSE)
  BY DEF CommitLexical
<1>3. CASE GoesOn(l, "vector")
  BY <1>1, <1>3, GoesOnKeeps, LadderKeeps
<1>4. CASE Settle(l, FALSE)
  BY <1>1, <1>4, SettleKeeps, LadderKeeps
<1> QED BY <1>2, <1>3, <1>4

LEMMA CommitVectorKeeps ==
    ASSUME NEW l \in Ladders, FieldInv, CommitVector(l)
    PROVE  FieldInv'
<1>1. lpc[l] # "idle" /\ UNCHANGED <<stop, schema, index, put>>
  BY DEF CommitVector, schemaVars
<1>2. writer' = writer \/ writer' = {}
  BY DEF CommitVector, DropWriter, WriterCommitFails
<1>3. GoesOn(l, "truncate") \/ Settle(l, FALSE)
  BY DEF CommitVector
<1>4. CASE GoesOn(l, "truncate")
  BY <1>1, <1>2, <1>4, GoesOnKeeps, LadderKeeps
<1>5. CASE Settle(l, FALSE)
  BY <1>1, <1>2, <1>5, SettleKeeps, LadderKeeps
<1> QED BY <1>3, <1>4, <1>5

LEMMA TruncateLogKeeps ==
    ASSUME NEW l \in Ladders, FieldInv, TruncateLog(l)
    PROVE  FieldInv'
<1>1. /\ lpc[l] # "idle" /\ Settle(l, TRUE)
      /\ UNCHANGED <<stop, schema, index, writer, put>>
  BY DEF TruncateLog, schemaVars, writerVars
<1> QED BY <1>1, SettleKeeps, LadderKeeps

-----------------------------------------------------------------------------
(* Schema changes.                                                         *)

\* While a change is under way no put is embedded and writes go on.
LEMMA ChangeAlone ==
    ASSUME FieldInv, change.step # "idle"
    PROVE  put.step # "embedded" /\ ~stop
BY DEF FieldInv, LockHeld, StoppedIsQuiet

LEMMA BeginKeeps ==
    ASSUME NEW kind, NEW f, NEW d, FieldInv,
           BeginAfterCommit(kind, f, d) \/ BeginAtOnce(kind, f)
    PROVE  FieldInv'
<1>1. /\ UNCHANGED <<mode, stop, schema, index, writer, put>>
      /\ ~stop /\ put.step # "embedded" /\ change.step = "idle"
  BY DEF BeginAfterCommit, BeginAtOnce, Begin, NoPutInFlight, schemaVars,
         writerVars
<1>2. lpc' \in [Ladders -> LadderSteps] /\ LadderOfChange'
  <2>1. CASE BeginAfterCommit(kind, f, d)
    <3>1. change' = [step |-> "commit", kind |-> kind, field |-> f, dim |-> d]
      BY <2>1 DEF BeginAfterCommit, Begin
    <3>2. lpc' \in [Ladders -> LadderSteps]
      BY <2>1 DEF BeginAfterCommit, FieldInv
    <3> QED BY <3>1, <3>2 DEF LadderOfChange
  <2>2. CASE BeginAtOnce(kind, f)
    BY <1>1, <2>2 DEF BeginAtOnce, FieldInv, LadderOfChange
  <2> QED BY <2>1, <2>2
<1> QED
  BY <1>1, <1>2 DEF FieldInv, LockHeld, StoppedIsQuiet, WriterKnowsFields,
                    NoPutWhenClosed, PutsFindTheirField

LEMMA CancelChangeKeeps == FieldInv /\ CancelChange => FieldInv'
<1> SUFFICES ASSUME FieldInv, CancelChange PROVE FieldInv'
  OBVIOUS
<1>1. /\ UNCHANGED <<mode, stop, schema, index, writer, put>>
      /\ change.step # "idle" /\ change'.step = "idle"
  BY DEF CancelChange, NoChange, schemaVars, writerVars
<1>2. lpc' \in [Ladders -> LadderSteps] /\ lpc'["changer"] = "idle"
  BY DEF CancelChange, FieldInv
<1> QED
  BY <1>1, <1>2, ChangeAlone
     DEF FieldInv, LockHeld, LadderOfChange, StoppedIsQuiet,
         WriterKnowsFields, NoPutWhenClosed, PutsFindTheirField

\* Fields are registered without a writer, or only taken away.
LEMMA ApplyChangeKeeps == FieldInv /\ ApplyChange => FieldInv'
<1> SUFFICES ASSUME FieldInv, ApplyChange PROVE FieldInv'
  OBVIOUS
<1>1. /\ UNCHANGED <<mode, stop, schema, put, lpc>>
      /\ change.step = "apply"
  BY DEF ApplyChange, ladderVars
<1>2. \/ writer' = {}
      \/ writer' = writer /\ DOMAIN index' \subseteq DOMAIN index
  <2>1. CASE ApplyNewField
    BY <2>1 DEF ApplyNewField, DropWriter
  <2>2. CASE ApplyDeletion
    <3>1. DOMAIN index' \subseteq DOMAIN index
      BY <2>2 DEF ApplyDeletion, Without, Restrict
    <3>2. writer' = {} \/ writer' = writer
      BY <2>2 DEF ApplyDeletion, DropWriter, WriterCommitFails
    <3> QED BY <3>1, <3>2
  <2>3. CASE ApplyReindex
    BY <2>3 DEF ApplyReindex, DropWriter, WriterCommitFails
  <2> QED BY <2>1, <2>2, <2>3 DEF ApplyChange
<1> QED
  BY <1>1, <1>2, ChangeAlone
     DEF FieldInv, LockHeld, LadderOfChange, StoppedIsQuiet,
         WriterKnowsFields, NoPutWhenClosed, PutsFindTheirField

LEMMA SaveSchemaKeeps == FieldInv /\ SaveSchema => FieldInv'
<1> SUFFICES ASSUME FieldInv, SaveSchema PROVE FieldInv'
  OBVIOUS
<1>1. /\ UNCHANGED <<mode, stop, index, writer, put, lpc>>
      /\ change.step = "save" /\ change'.step = "idle"
  BY DEF SaveSchema, NoChange, writerVars, ladderVars
<1> QED
  BY <1>1, ChangeAlone
     DEF FieldInv, LockHeld, LadderOfChange, StoppedIsQuiet,
         WriterKnowsFields, NoPutWhenClosed, PutsFindTheirField

-----------------------------------------------------------------------------
(* The end of a process, and the next open.                                *)

LEMMA EndKeeps == FieldInv /\ End => FieldInv'
<1> SUFFICES ASSUME FieldInv, End PROVE FieldInv'
  OBVIOUS
<1>1. /\ stop' = FALSE /\ writer' = {}
      /\ put'.step = "idle" /\ change'.step = "idle"
  BY DEF End, DropWriter, NoPut, NoChange
<1>2. lpc' = [l \in Ladders |-> "idle"]
  BY DEF End
<1>3. lpc' \in [Ladders -> LadderSteps] /\ lpc'["changer"] = "idle"
  BY <1>2
<1> QED
  BY <1>1, <1>3 DEF FieldInv, LockHeld, LadderOfChange, StoppedIsQuiet,
                    WriterKnowsFields, NoPutWhenClosed, PutsFindTheirField

LEMMA OpenFailsKeeps == FieldInv /\ OpenFails => FieldInv'
<1> SUFFICES ASSUME FieldInv, OpenFails PROVE FieldInv'
  OBVIOUS
<1>1. /\ UNCHANGED <<stop, schema, index, writer, put, change, lpc>>
      /\ mode' = "refused"
  BY DEF OpenFails, schemaVars, writerVars, ladderVars
<1> QED
  BY <1>1 DEF FieldInv, LockHeld, LadderOfChange, StoppedIsQuiet,
              WriterKnowsFields, NoPutWhenClosed, PutsFindTheirField

LEMMA OpenKeeps == FieldInv /\ Open => FieldInv'
<1> SUFFICES ASSUME FieldInv, Open PROVE FieldInv'
  OBVIOUS
<1>1. /\ UNCHANGED <<stop, schema, put, change>>
      /\ mode = "closed" /\ mode' # "closed"
      /\ index' = saved
      /\ writer' = {} \/ writer' = DOMAIN saved
  BY DEF Open
<1>2. ~stop /\ put.step = "idle"
  BY <1>1 DEF FieldInv, StoppedIsQuiet, NoPutWhenClosed
<1>3. lpc' \in [Ladders -> LadderSteps] /\ lpc'["changer"] = lpc["changer"]
  BY DEF Open, FieldInv
<1> QED
  BY <1>1, <1>2, <1>3
     DEF FieldInv, LockHeld, LadderOfChange, StoppedIsQuiet,
         WriterKnowsFields, NoPutWhenClosed, PutsFindTheirField

-----------------------------------------------------------------------------
(* The theorem.                                                            *)

\* What the writer lock, the schema change lock and the writer's life give
\* in every reachable state (index_internal, add_field, delete_field and
\* update_field in engine.rs; the writer cache of vector/store.rs).
THEOREM FieldInvariant == Spec => []FieldInv
<1>1. FieldInv /\ [Next]_vars => FieldInv'
  <2> SUFFICES ASSUME FieldInv, [Next]_vars PROVE FieldInv'
    OBVIOUS
  <2>1. CASE \E f \in Fields, d \in Dims : Coerce(f, d)
    <3>1. PICK f \in Fields, d \in Dims : Coerce(f, d)
      BY <2>1
    <3>2. /\ UNCHANGED <<mode, stop, schema, index, writer, change, lpc>>
          /\ mode = "open" /\ put'.step = "coerced"
      BY <3>1 DEF Coerce, schemaVars, writerVars, ladderVars
    <3> QED
      BY <3>2 DEF FieldInv, LockHeld, LadderOfChange, StoppedIsQuiet,
                  WriterKnowsFields, NoPutWhenClosed, PutsFindTheirField
  <2>2. CASE Embed
    BY <2>2, EmbedKeeps
  <2>3. CASE WritePut
    BY <2>3, WritePutKeeps
  <2>4. CASE CancelPut
    <3>1. /\ UNCHANGED <<mode, stop, schema, index, writer, change, lpc>>
          /\ put'.step = "idle"
      BY <2>4 DEF CancelPut, NoPut, schemaVars, writerVars, ladderVars
    <3> QED
      BY <3>1 DEF FieldInv, LockHeld, LadderOfChange, StoppedIsQuiet,
                  WriterKnowsFields, NoPutWhenClosed, PutsFindTheirField
  <2>5. CASE DeleteSome
    <3>1. UNCHANGED <<mode, stop, schema, index, writer, put, change, lpc>>
      BY <2>5 DEF DeleteSome, Delete, schemaVars, writerVars, ladderVars
    <3> QED BY <3>1, OtherKeeps
  <2>6. CASE Commit
    BY <2>6, StartCommitKeeps, CommitLexicalKeeps, CommitVectorKeeps,
       TruncateLogKeeps DEF Commit
  <2>7. CASE ChangeSchema
    <3>1. ASSUME NEW f \in Fields, NEW d \in Dims,
                 AddField(f, d) \/ RecreateField(f, d)
          PROVE  FieldInv'
      BY <3>1, BeginKeeps DEF AddField, RecreateField
    <3>2. ASSUME NEW f \in Fields, DeleteField(f) \/ ReindexField(f)
          PROVE  FieldInv'
      BY <3>2, BeginKeeps DEF DeleteField, ReindexField
    <3> QED
      BY <2>7, <3>1, <3>2, CancelChangeKeeps, ApplyChangeKeeps,
         SaveSchemaKeeps DEF ChangeSchema
  <2>8. CASE End \/ OpenFails \/ Open
    BY <2>8, EndKeeps, OpenFailsKeeps, OpenKeeps
  <2>9. CASE UNCHANGED vars
    <3>1. UNCHANGED <<mode, stop, schema, index, writer, put, change, lpc>>
      BY <2>9 DEF vars, schemaVars, writerVars, ladderVars
    <3> QED BY <3>1, OtherKeeps
  <2> QED
    BY <2>1, <2>2, <2>3, <2>4, <2>5, <2>6, <2>7, <2>8, <2>9 DEF Next
<1> QED BY <1>1, InitFieldInv, PTL DEF Spec

\* A put that passed its checks never stops writes by finding its field gone
\* from the vector writer: a field is declared and not registered only after
\* a failed recreation (index_internal in engine.rs, step 2 and after; its
\* read side of schema_change_lock and the changes' write side).
THEOREM PutsFindFields == Spec => []PutsFindTheirField
<1>1. FieldInv => PutsFindTheirField
  BY DEF FieldInv
<1> QED BY <1>1, FieldInvariant, PTL
-----------------------------------------------------------------------------
(* What the fields hold: the inductive invariant.  Its parts are about the  *)
(* put under way, the schema change, the fields that are registered, the    *)
(* log, the records an open would reject, and what a field holds in memory  *)
(* and on disk.                                                             *)

\* The documents a field was given since it last began empty.
Given(f) == {r.doc : r \in {s \in Puts(history) :
                               s.into /\ s.field = f /\ s.seq > start[f]}}

Directory == [docs : SUBSET Nat, dim : Dims \cup {"none"},
              marks : SUBSET Nat, ckpt : Nat]
PutSteps == {"idle", "coerced", "embedded"}
Changes == [step : {"commit", "apply", "save"},
            kind : {"add", "delete", "recreate", "reindex"},
            field : Fields, dim : Dims]

Types ==
    /\ mode \in {"open", "recovering", "failed", "refused", "closed"}
    /\ stop \in BOOLEAN
    /\ schema = saved /\ saved \in Tables /\ index \in Tables
    /\ writer \in SUBSET Fields
    /\ buf \in [Fields -> SUBSET Nat]
    /\ seal \in [Fields -> {"open", "sealed", "dirty"}]
    /\ marks \in [Fields -> SUBSET Nat] /\ pend \in [Fields -> Nat]
    /\ files \in [Fields -> Directory] /\ start \in [Fields -> Nat]
    /\ nextSeq \in Nat \ {0} /\ lexCkpt \in Nat
    /\ snap \in [Ladders -> Nat] /\ lpc \in [Ladders -> LadderSteps]
    /\ change \in Changes \cup {NoChange}

RecordShape(r) ==
    /\ r.seq \in Nat /\ r.doc \in Nat /\ 1 <= r.doc /\ r.doc <= r.seq
    /\ IsPut(r) =>
           r.field \in Fields /\ r.dim \in Dims /\ r.into \in BOOLEAN

\* No number is above the last one given, which is still on the log or
\* committed, so that the next open goes on from it.
Numbers ==
    /\ \A f \in Fields :
           /\ buf[f] \subseteq 1..LastSeq /\ marks[f] \subseteq 1..LastSeq
           /\ files[f].docs \subseteq 1..LastSeq
           /\ files[f].marks \subseteq 1..LastSeq
           /\ files[f].ckpt <= LastSeq /\ pend[f] <= LastSeq
           /\ start[f] <= LastSeq
    /\ \A l \in Ladders :
           /\ snap[l] <= LastSeq
           /\ lpc[l] \in {"vector", "truncate"} => snap[l] <= lexCkpt
    /\ \A r \in wal \cup history : RecordShape(r) /\ r.seq <= LastSeq
    /\ lexCkpt <= LastSeq
    /\ lexCkpt = LastSeq \/ \E r \in wal : r.seq = LastSeq
    /\ LastSeq <= MaxSeq

\* A put runs in an open index, and once embedded its value is one that its
\* field takes.
PutChecked ==
    /\ put.step \in PutSteps
    /\ put.step # "idle" =>
           /\ mode = "open" /\ nextSeq <= MaxSeq
           /\ put.field \in Fields /\ put.dim \in Dims
    /\ put.step = "embedded" =>
           /\ put.into \in BOOLEAN
           /\ put.into <=> put.field \in DOMAIN saved
           /\ put.into /\ DOMAIN index # {} =>
                  put.field \in DOMAIN index /\ index[put.field] = put.dim

\* Who may run in which mode.
Modes ==
    /\ lpc["caller"] # "idle" => mode = "open"
    /\ lpc["recovery"] # "idle" <=> mode = "recovering"
    /\ mode = "recovering" =>
           snap["recovery"] = LastSeq /\ index = saved /\ seal = Each("open")
    /\ change.step # "idle" => mode = "open"
    /\ stop => mode = "open"
    /\ mode = "closed" => seal = Each("open")

\* A field of this name is new, or emptied, and not saved yet.
NewFieldSaves ==
    change.step = "save" /\ change.kind \in {"add", "recreate"}
\* A field is removed, and its removal not saved yet.
PendingDelete(f) ==
    change.step = "save" /\ change.kind = "delete" /\ change.field = f

\* What a schema change found when it began still holds, and the commit it
\* began with leaves no put on the log.
Changing ==
    change.step # "idle" =>
        /\ change.kind = "add" <=> change.field \notin DOMAIN saved
        /\ change.kind = "reindex" => saved[change.field] = change.dim
        /\ change.step = "commit" =>
               /\ lpc["changer"] # "idle"
               /\ change.kind \in {"add", "recreate"}
               /\ \A r \in Puts(wal) : r.seq <= snap["changer"]
        /\ change.step # "commit" /\ change.kind \in {"add", "recreate"} =>
               Puts(wal) = {}
        /\ change.step = "save" /\ change.kind = "delete" =>
               change.field \notin DOMAIN index
        /\ NewFieldSaves =>
               /\ change.field \in DOMAIN index
               /\ index[change.field] = change.dim

\* The fields with an index are the declared ones, but for a change that is
\* not saved and for a field whose recreation failed, which holds nothing
\* that a commit under way could take for committed.
Registered ==
    /\ \A f \in DOMAIN index :
           /\ files[f].dim = index[f]
           /\ \/ f \in DOMAIN saved /\ index[f] = saved[f]
              \/ NewFieldSaves /\ change.field = f
    /\ \A f \in DOMAIN saved :
           /\ files[f].docs # {} \/ buf[f] # {} => files[f].dim = saved[f]
           /\ f \in writer => f \in DOMAIN index \/ PendingDelete(f)
    /\ \A f \in DOMAIN saved \ DOMAIN index :
           mode = "open" /\ ~PendingDelete(f) =>
               /\ Given(f) # {} => stop
               /\ \A d \in Given(f), l \in Ladders : d > snap[l]

\* No replay is left to be committed.
Settled == mode = "open" \/ lpc["recovery"] = "truncate"

\* What a sub-writer holds is above its field's checkpoint, unless a replay
\* put it there, and on disk once sealed.
Buffers ==
    /\ \A f \in Fields : f \notin writer => buf[f] = {} /\ seal[f] = "open"
    /\ \A f \in Fields : seal[f] = "sealed" => buf[f] \subseteq files[f].docs
    /\ Settled => \A f \in Fields : \A d \in buf[f] : d > files[f].ckpt

\* The log holds the last records, each under its own number, and those of
\* a declared field are the field's own.
Log ==
    /\ \A r, s \in wal \cup history : r.seq = s.seq => r = s
    /\ \A r \in wal, s \in history : s.seq > r.seq => s \in wal
    /\ mode = "open" => wal \subseteq history
    /\ \A r \in wal :
           IsPut(r) /\ r.field \in DOMAIN saved =>
               r.into /\ r.seq > start[r.field]

\* A record on the log that its field would not take.
Mismatch(r) ==
    r \in wal /\ IsPut(r) /\ r.field \in DOMAIN saved /\ r.dim # saved[r.field]
\* A number that no store and no commit under way has reached.
Beyond(n) ==
    /\ n > lexCkpt
    /\ \A f \in Fields : n > files[f].ckpt /\ n > pend[f]
    /\ \A l \in Ladders : n > snap[l]

\* Such a record was refused, no field holds it, and until a replay discards
\* it no commit reaches it.
Mismatches ==
    /\ \A r \in wal : r \notin history => Mismatch(r)
    /\ \A r \in wal :
           Mismatch(r) =>
               /\ r.seq \in refused
               /\ r.doc \notin files[r.field].docs
               /\ r.doc \notin buf[r.field]
               /\ r.seq \in discarded \/ Beyond(r.seq)
               /\ mode = "recovering" => r.seq \in discarded
               /\ ~(mode = "open" /\ ~stop)
    /\ discarded \subseteq refused
    /\ mode = "refused" => \E r \in Rejected : r.seq \in discarded

\* The fields that follow the log.
Followed == (DOMAIN saved \cup DOMAIN index) \ unfollowed

\* A field has no document that it was not given, unless a purge left it.
Contained ==
    /\ \A f \in Followed : files[f].docs \subseteq Given(f)
    /\ \A f \in DOMAIN saved \cup DOMAIN index : buf[f] \subseteq Given(f)

\* In memory a field holds what it owes.
Memory ==
    mode \in {"open", "recovering", "failed"} =>
        \A f \in DOMAIN index \ unfollowed : Held(f) = Owed(f)

\* A replay puts d into its field again, and then deletes it.
Redone(d) == d > LowestCkpt(saved) /\ \E r \in wal : IsPut(r) /\ r.doc = d

\* On disk it holds it up to its checkpoint, but for deletes that a replay
\* does again, and the log has the rest.
HasDocs(f) ==
    \A d \in Given(f) \ Deleted(history) :
        d \in files[f].docs \/ d > files[f].ckpt
HasMarks(f) ==
    \A r \in history :
        ~IsPut(r) /\ r.doc \in files[f].docs /\ r.seq <= files[f].ckpt =>
            r.doc \in files[f].marks \/ (~Settled /\ Redone(r.doc))
HasLog(f) ==
    \A r \in history :
        r.doc \in Given(f) /\ r.seq > files[f].ckpt => r \in wal
MarksRight(f) == files[f].marks \cap Given(f) \subseteq Deleted(history)
Disk ==
    \A f \in Followed : HasDocs(f) /\ HasMarks(f) /\ HasLog(f) /\ MarksRight(f)

\* Until its commit a recovery's writer holds exactly what was replayed.
Rebuffered ==
    lpc["recovery"] \in {"lexical", "vector"} =>
        \A f \in DOMAIN index, d \in Nat :
            d \in buf[f] <=>
                /\ d > LowestCkpt(saved)
                /\ \E r \in wal : /\ IsPut(r) /\ ~Mismatch(r)
                                  /\ r.doc = d /\ r.field = f

\* A commit about to truncate the log takes no record away that a field
\* lacks.
Reached(f, n) ==
    \A r \in history :
        r.doc \in Given(f) /\ r.seq > files[f].ckpt => r.seq > n
Truncates ==
    \A l \in Ladders :
        lpc[l] = "truncate" =>
            \A f \in Followed : PendingDelete(f) \/ Reached(f, snap[l])

Rest ==
    /\ Types /\ Numbers /\ Modes /\ Changing /\ Registered /\ Buffers /\ Log
    /\ Mismatches /\ Contained /\ Memory /\ Disk /\ Rebuffered /\ Truncates

FieldsInv == Rest /\ PutChecked

-----------------------------------------------------------------------------
(* Facts about the operators of the module.                                *)

LEMMA GivenIs ==
    \A f, d : d \in Given(f) <=>
        \E r \in history : /\ IsPut(r) /\ r.doc = d /\ r.into
                           /\ r.field = f /\ r.seq > start[f]
BY DEF Given, Puts

LEMMA GivenIsNext ==
    \A f, d : d \in Given(f)' <=>
        \E r \in history' : /\ IsPut(r) /\ r.doc = d /\ r.into
                            /\ r.field = f /\ r.seq > (start')[f]
BY DEF Given, Puts

LEMMA DeletedIs ==
    \A records, d : d \in Deleted(records) <=>
        \E r \in records : ~IsPut(r) /\ r.doc = d
BY DEF Deleted

\* What a field owes, and what it holds.
LEMMA OwedIs ==
    /\ \A f : Owed(f) = Given(f) \ Deleted(history)
    /\ \A f : Owed(f)' = Given(f)' \ Deleted(history')
BY DEF Owed, Given

LEMMA HeldIs ==
    /\ \A f, d : d \in Held(f) <=>
           (d \in files[f].docs \/ d \in buf[f]) /\ d \notin marks[f]
    /\ \A f, d : d \in Held(f)' <=>
           (d \in (files')[f].docs \/ d \in (buf')[f]) /\ d \notin (marks')[f]
BY DEF Held

\* Tables of fields and their dimensions.
LEMMA TableIs ==
    \A t : t \in Tables <=> DOMAIN t \subseteq Fields /\ t \in [DOMAIN t -> Dims]
BY DEF Tables

LEMMA WithoutIs ==
    ASSUME NEW t \in Tables, NEW f
    PROVE  /\ Without(t, f) \in Tables
           /\ DOMAIN Without(t, f) = DOMAIN t \ {f}
           /\ \A g \in DOMAIN t : g # f => Without(t, f)[g] = t[g]
<1>1. DOMAIN t \subseteq Fields /\ t \in [DOMAIN t -> Dims]
  BY TableIs
<1>2. /\ DOMAIN Without(t, f) = DOMAIN t \ {f}
      /\ \A g \in DOMAIN t : g # f => Without(t, f)[g] = t[g]
      /\ Without(t, f) \in [DOMAIN t \ {f} -> Dims]
  BY <1>1 DEF Without, Restrict
<1> QED BY <1>1, <1>2, TableIs

LEMMA WithIs ==
    ASSUME NEW t \in Tables, NEW f \in Fields, NEW d \in Dims
    PROVE  /\ With(t, f, d) \in Tables
           /\ DOMAIN With(t, f, d) = DOMAIN t \cup {f}
           /\ With(t, f, d)[f] = d
           /\ \A g \in DOMAIN t : g # f => With(t, f, d)[g] = t[g]
<1>1. DOMAIN t \subseteq Fields /\ t \in [DOMAIN t -> Dims]
  BY TableIs
<1>2. /\ DOMAIN With(t, f, d) = DOMAIN t \cup {f}
      /\ With(t, f, d)[f] = d
      /\ \A g \in DOMAIN t : g # f => With(t, f, d)[g] = t[g]
      /\ With(t, f, d) \in [DOMAIN t \cup {f} -> Dims]
  BY <1>1 DEF With
<1> QED BY <1>1, <1>2, TableIs

\* The least checkpoint of the fields of a table.
LEMMA Least ==
    ASSUME NEW S \in SUBSET Nat, S # {}
    PROVE  \E x \in S : \A y \in S : x <= y
<1> DEFINE R == {p \in Nat \X Nat : p[1] < p[2]}
<1>1. IsWellFoundedOn(R, Nat)
  BY NatLessThanWellFounded, Zenon DEF OpToRel
<1> HIDE DEF R
<1>2. PICK x \in S : \A y \in S : ~(<<y, x>> \in R)
  BY <1>1, WFMin
<1>3. ASSUME NEW y \in S PROVE x <= y
  <2>1. y < x => <<y, x>> \in R
    BY DEF R
  <2> QED BY <1>2, <2>1
<1> QED BY <1>3

LEMMA LowestIs ==
    ASSUME files \in [Fields -> Directory], NEW t \in Tables
    PROVE  /\ LowestCkpt(t) \in Nat
           /\ \A f \in DOMAIN t : LowestCkpt(t) <= files[f].ckpt
           /\ DOMAIN t # {} =>
                  \E f \in DOMAIN t : LowestCkpt(t) = files[f].ckpt
<1> DEFINE S == {files[f].ckpt : f \in DOMAIN t}
<1>1. DOMAIN t \subseteq Fields /\ S \in SUBSET Nat
  BY TableIs DEF Directory
<1>2. CASE DOMAIN t = {}
  BY <1>2 DEF LowestCkpt
<1>3. CASE DOMAIN t # {}
  <2>1. PICK x \in S : \A y \in S : x <= y
    <3>1. S # {}
      BY <1>3
    <3> HIDE DEF S
    <3> QED BY <1>1, <3>1, Least
  <2>2. \A f \in DOMAIN t : x <= files[f].ckpt
    BY <2>1
  <2>3. /\ LowestCkpt(t) \in S
        /\ \A f \in DOMAIN t : LowestCkpt(t) <= files[f].ckpt
    BY <1>3, <2>1, <2>2 DEF LowestCkpt
  <2> QED BY <1>1, <2>3
<1> QED BY <1>2, <1>3

LEMMA LowestIsNext ==
    ASSUME files' \in [Fields -> Directory], NEW t \in Tables
    PROVE  /\ LowestCkpt(t)' \in Nat
           /\ \A f \in DOMAIN t : LowestCkpt(t)' <= (files')[f].ckpt
           /\ DOMAIN t # {} =>
                  \E f \in DOMAIN t : LowestCkpt(t)' = (files')[f].ckpt
<1> DEFINE S == {(files')[f].ckpt : f \in DOMAIN t}
<1>1. DOMAIN t \subseteq Fields /\ S \in SUBSET Nat
  BY TableIs DEF Directory
<1>2. CASE DOMAIN t = {}
  BY <1>2 DEF LowestCkpt
<1>3. CASE DOMAIN t # {}
  <2>1. PICK x \in S : \A y \in S : x <= y
    <3>1. S # {}
      BY <1>3
    <3> HIDE DEF S
    <3> QED BY <1>1, <3>1, Least
  <2>2. \A f \in DOMAIN t : x <= (files')[f].ckpt
    BY <2>1
  <2>3. /\ LowestCkpt(t)' \in S
        /\ \A f \in DOMAIN t : LowestCkpt(t)' <= (files')[f].ckpt
    BY <1>3, <2>1, <2>2 DEF LowestCkpt
  <2> QED BY <1>1, <2>3
<1> QED BY <1>2, <1>3

LEMMA SameLowest ==
    ASSUME files \in [Fields -> Directory], files' \in [Fields -> Directory],
           NEW t \in Tables,
           \A f \in DOMAIN t : (files')[f].ckpt = files[f].ckpt
    PROVE  LowestCkpt(t)' = LowestCkpt(t)
<1>1. CASE DOMAIN t = {}
  BY <1>1 DEF LowestCkpt
<1>2. CASE DOMAIN t # {}
  <2>1. LowestCkpt(t) \in Nat /\ LowestCkpt(t)' \in Nat
    BY LowestIs, LowestIsNext
  <2>2. PICK f \in DOMAIN t : LowestCkpt(t) = files[f].ckpt
    BY <1>2, LowestIs
  <2>3. PICK g \in DOMAIN t : LowestCkpt(t)' = (files')[g].ckpt
    BY <1>2, LowestIsNext
  <2>4. LowestCkpt(t) <= files[g].ckpt /\ LowestCkpt(t)' <= (files')[f].ckpt
    BY LowestIs, LowestIsNext
  <2> QED BY <2>1, <2>2, <2>3, <2>4
<1> QED BY <1>1, <1>2

\* Segments that are sealed join their field's files.
LEMMA SealedIs ==
    ASSUME files \in [Fields -> Directory], buf \in [Fields -> SUBSET Nat],
           NEW S
    PROVE  /\ WithSealed(S) \in [Fields -> Directory]
           /\ \A f \in Fields :
                  /\ WithSealed(S)[f].ckpt = files[f].ckpt
                  /\ WithSealed(S)[f].dim = files[f].dim
                  /\ WithSealed(S)[f].marks = files[f].marks
                  /\ WithSealed(S)[f].docs =
                         IF f \in S THEN files[f].docs \cup buf[f]
                         ELSE files[f].docs
BY DEF WithSealed, Directory

LEMMA RejectedIs ==
    /\ \A r : r \in Rejected <=> Mismatch(r) /\ r.seq > LowestCkpt(saved)
    /\ \A r : r \in Rejected' <=>
           Mismatch(r)' /\ r.seq > LowestCkpt(saved)'
BY DEF Rejected, Replayed, Puts, Mismatch

\* What a step that leaves their variables alone keeps.
LEMMA RestStays ==
    ASSUME Rest,
           UNCHANGED <<mode, stop, schemaVars, writerVars, fieldVars, lexCkpt,
                       logVars, change, lpc, snap, history, start, discarded,
                       refused, unfollowed>>
    PROVE  Rest'
<1> USE DEF schemaVars, writerVars, fieldVars, logVars
<1>1. Types' /\ Modes'
  <2>1. Types'
    BY DEF Rest, Types
  <2>2. Modes'
    <3>1. UNCHANGED <<mode, stop, index, saved, seal, nextSeq, change, lpc, snap>>
      OBVIOUS
    <3>2. Modes
      BY DEF Rest
    <3> QED BY <3>1, <3>2 DEF Modes, Each, LastSeq
  <2> QED BY <2>1, <2>2
<1>2. Numbers'
  BY DEF Rest, Numbers, RecordShape, IsPut, LastSeq
<1>3. Changing'
  BY DEF Rest, Changing, NewFieldSaves
<1>4. Registered'
  BY DEF Rest, Registered, NewFieldSaves, PendingDelete, Given
<1>5. Buffers' /\ Log'
  BY DEF Rest, Buffers, Log, IsPut, Settled
<1>6. LowestCkpt(saved)' = LowestCkpt(saved)
  BY DEF LowestCkpt
<1>7. \A r : Mismatch(r)' <=> Mismatch(r)
  BY DEF Mismatch, IsPut
<1>8. Mismatches'
  BY <1>6, <1>7, RejectedIs DEF Rest, Mismatches, Beyond
<1>9. Contained' /\ Memory'
  BY DEF Rest, Contained, Followed, Memory, Given, Held, Owed
<1>10. Disk'
  BY <1>6 DEF Rest, Disk, HasDocs, HasMarks, HasLog, MarksRight, Followed,
              Given, Deleted, Settled, Redone, IsPut
<1>11. Rebuffered'
  BY <1>6, <1>7 DEF Rest, Rebuffered
<1>12. Truncates'
  BY DEF Rest, Truncates, Followed, Reached, PendingDelete, Given
<1> QED
  BY <1>1, <1>2, <1>3, <1>4, <1>5, <1>8, <1>9, <1>10, <1>11, <1>12 DEF Rest

-----------------------------------------------------------------------------
(* Puts and deletes.                                                       *)

\* A put that waits changes nothing else.
LEMMA CoerceSafe ==
    ASSUME FieldsInv, NEW f \in Fields, NEW d \in Dims, Coerce(f, d)
    PROVE  FieldsInv'
<1>1. Rest'
  BY RestStays DEF FieldsInv, Coerce, ladderVars, ghostVars
<1>2. /\ put' = [step |-> "coerced", field |-> f, dim |-> d]
      /\ mode = "open" /\ nextSeq <= MaxSeq
      /\ UNCHANGED <<mode, nextSeq>>
  BY DEF Coerce, BelowMaxSeq, logVars, FieldsInv, Rest, Types
<1>3. PutChecked'
  BY <1>2 DEF PutChecked, PutSteps
<1> QED BY <1>1, <1>3 DEF FieldsInv

LEMMA EmbedSafe ==
    ASSUME FieldsInv, Embed
    PROVE  FieldsInv'
<1>1. Rest'
  BY RestStays DEF FieldsInv, Embed, ladderVars, ghostVars
<1>2. /\ put.step = "coerced" /\ PutChecked
      /\ UNCHANGED <<mode, nextSeq, saved, index>> /\ schema = saved
  BY DEF FieldsInv, Embed, schemaVars, logVars, Rest, Types
<1>3. CASE ~stop /\ Embeds(put.field, put.dim)
  <2>1. put' = [step |-> "embedded", field |-> put.field, dim |-> put.dim,
                into |-> put.field \in DOMAIN schema]
    BY <1>3 DEF Embed
  <2>2. /\ put'.step = "embedded" /\ put'.field = put.field
        /\ put'.dim = put.dim /\ put'.into \in BOOLEAN
        /\ put'.into <=> put.field \in DOMAIN saved
    <3>1. /\ put'.step = "embedded" /\ put'.field = put.field
          /\ put'.dim = put.dim
          /\ put'.into = (put.field \in DOMAIN schema)
      BY <2>1
    <3>2. put'.into = (put.field \in DOMAIN saved)
      BY <1>2, <3>1
    <3>3. put'.into \in BOOLEAN
      BY <3>2
    <3>4. put'.into <=> put.field \in DOMAIN saved
      BY <3>2
    <3> QED BY <3>1, <3>3, <3>4
  <2>3. put'.into /\ DOMAIN index # {} =>
            put.field \in DOMAIN index /\ index[put.field] = put.dim
    BY <1>2, <1>3, <2>2 DEF Embeds
  <2>4. PutChecked'
    BY <1>2, <2>2, <2>3 DEF PutChecked, PutSteps
  <2> QED BY <1>1, <2>4 DEF FieldsInv
<1>4. CASE ~(~stop /\ Embeds(put.field, put.dim))
  <2>1. put'.step = "idle"
    BY <1>4 DEF Embed, NoPut
  <2>2. PutChecked'
    BY <2>1 DEF PutChecked, PutSteps
  <2> QED BY <1>1, <2>2 DEF FieldsInv
<1> QED BY <1>3, <1>4

LEMMA CancelPutSafe ==
    ASSUME FieldsInv, CancelPut
    PROVE  FieldsInv'
<1>1. Rest'
  BY RestStays DEF FieldsInv, CancelPut, ladderVars, ghostVars
<1>2. PutChecked'
  BY DEF CancelPut, NoPut, PutChecked, PutSteps
<1> QED BY <1>1, <1>2 DEF FieldsInv

LEMMA StutterSafe ==
    ASSUME FieldsInv, UNCHANGED vars
    PROVE  FieldsInv'
<1>1. Rest'
  BY RestStays DEF FieldsInv, vars, ladderVars, ghostVars
<1>2. UNCHANGED <<put, mode, nextSeq, saved, index>>
  BY DEF vars, schemaVars, logVars
<1>3. PutChecked'
  BY <1>2 DEF FieldsInv, PutChecked
<1> QED BY <1>1, <1>3 DEF FieldsInv

\* A record that is appended.
LEMMA PutAppended ==
    ASSUME NEW r, IsPut(r), history' = history \cup {r}, start' = start,
           Types, Numbers, r.seq = nextSeq
    PROVE  /\ \A f \in Fields : \A d : d \in Given(f)' <=>
                  d \in Given(f) \/ (d = r.doc /\ r.into /\ r.field = f)
           /\ \A d : d \in Deleted(history') <=> d \in Deleted(history)
<1>1. \A f \in Fields : r.seq > start[f]
  BY DEF Types, Numbers, LastSeq
<1>2. \A f \in Fields : \A d : d \in Given(f)' <=>
          d \in Given(f) \/ (d = r.doc /\ r.into /\ r.field = f)
  <2> SUFFICES ASSUME NEW f \in Fields, NEW d
               PROVE  d \in Given(f)' <=>
                        d \in Given(f) \/ (d = r.doc /\ r.into /\ r.field = f)
    OBVIOUS
  <2> QED BY <1>1, GivenIs, GivenIsNext
<1>3. \A d : d \in Deleted(history') <=> d \in Deleted(history)
  BY DeletedIs
<1> QED BY <1>2, <1>3

LEMMA DeleteAppended ==
    ASSUME NEW r, ~IsPut(r), history' = history \cup {r}, start' = start
    PROVE  /\ \A f, d : d \in Given(f)' <=> d \in Given(f)
           /\ \A d : d \in Deleted(history') <=>
                  d \in Deleted(history) \/ d = r.doc
<1>1. \A f, d : d \in Given(f)' <=> d \in Given(f)
  BY GivenIs, GivenIsNext
<1>2. \A d : d \in Deleted(history') <=> d \in Deleted(history) \/ d = r.doc
  BY DeletedIs
<1> QED BY <1>1, <1>2

\* The field of a put, if the writer knows it.
PutField == IF writer = {} THEN DOMAIN index ELSE writer
Accepted == put.into /\ put.field \in PutField

LEMMA WritePutFacts ==
    ASSUME FieldInv, FieldsInv, WritePut
    PROVE  /\ mode = "open" /\ change.step = "idle"
           /\ put.field \in Fields /\ nextSeq <= MaxSeq
           /\ put.into \in BOOLEAN
           /\ put.into <=> put.field \in DOMAIN saved
           /\ Accepted => /\ put.field \in DOMAIN index
                          /\ put.dim = saved[put.field]
           /\ PutField \subseteq Fields
           /\ PutField \cap DOMAIN saved \subseteq DOMAIN index
           /\ put.into /\ ~Accepted => put.field \notin DOMAIN index
<1>1. /\ mode = "open" /\ change.step = "idle" /\ put.step = "embedded"
      /\ put.field \in Fields /\ nextSeq <= MaxSeq
  BY DEF WritePut, FieldInv, LockHeld, FieldsInv, PutChecked
<1>2. put.into \in BOOLEAN /\ (put.into <=> put.field \in DOMAIN saved)
  BY <1>1 DEF FieldsInv, PutChecked
<1>3. PutField \subseteq Fields
  BY TableIs DEF PutField, FieldsInv, Rest, Types
<1>4. PutField \cap DOMAIN saved \subseteq DOMAIN index
  BY <1>1 DEF PutField, FieldsInv, Rest, Registered, PendingDelete
<1>5. Accepted => put.field \in DOMAIN index /\ put.dim = saved[put.field]
  <2> SUFFICES ASSUME Accepted
               PROVE  put.field \in DOMAIN index /\ put.dim = saved[put.field]
    OBVIOUS
  <2>1. put.into /\ put.field \in DOMAIN saved /\ put.field \in DOMAIN index
    BY <1>2, <1>4 DEF Accepted
  <2>2. index[put.field] = put.dim
    BY <1>1, <2>1 DEF FieldsInv, PutChecked
  <2>3. index[put.field] = saved[put.field]
    BY <1>1, <2>1 DEF FieldsInv, Rest, Registered, NewFieldSaves
  <2> QED BY <2>1, <2>2, <2>3
<1>6. DOMAIN index \subseteq PutField
  BY DEF PutField, FieldInv, WriterKnowsFields
<1>7. put.into /\ ~Accepted => put.field \notin DOMAIN index
  BY <1>6 DEF Accepted
<1> QED BY <1>1, <1>2, <1>3, <1>4, <1>5, <1>7

\* What the put writes, with its record.
LEMMA WritePutWrites ==
    ASSUME FieldInv, FieldsInv, WritePut
    PROVE  \E r :
      /\ IsPut(r) /\ r.seq = nextSeq /\ r.doc = nextSeq
      /\ r.field = put.field /\ r.dim = put.dim /\ r.into = put.into
      /\ writer' = PutField /\ wal' = wal \cup {r}
      /\ history' = history \cup {r} /\ nextSeq' = nextSeq + 1
      /\ marks' \in [Fields -> SUBSET Nat]
      /\ \A g \in Fields : \A d :
             /\ d # nextSeq => (d \in (marks')[g] <=> d \in marks[g])
             /\ Accepted /\ g = put.field => nextSeq \notin (marks')[g]
      /\ buf' \in [Fields -> SUBSET Nat]
      /\ \A g \in Fields : (buf')[g] = IF Accepted /\ g = put.field
                                       THEN buf[g] \cup {nextSeq} ELSE buf[g]
      /\ seal' \in [Fields -> {"open", "sealed", "dirty"}]
      /\ \A g \in Fields :
             (seal')[g] = IF Accepted /\ g = put.field /\ seal[g] = "sealed"
                          THEN "dirty" ELSE seal[g]
      /\ stop' \in BOOLEAN
      /\ stop' <=> stop \/ (put.into /\ ~Accepted)
      /\ refused' = IF put.into /\ ~Accepted THEN refused \cup {nextSeq}
                    ELSE refused
      /\ put' = NoPut
      /\ UNCHANGED <<mode, schema, saved, index, pend, files, lexCkpt, change,
                     lpc, snap, start, discarded, unfollowed>>
<1> DEFINE r == [seq |-> nextSeq, doc |-> nextSeq, field |-> put.field,
                 dim |-> put.dim, into |-> put.into]
           f == put.field
<1>1. /\ IsPut(r) /\ r.seq = nextSeq /\ r.doc = nextSeq
      /\ r.field = put.field /\ r.dim = put.dim /\ r.into = put.into
  BY DEF IsPut
<1>2. /\ writer' = PutField /\ wal' = wal \cup {r}
      /\ history' = history \cup {r} /\ nextSeq' = nextSeq + 1
      /\ put' = NoPut
  BY DEF WritePut, PutField
<1>3. UNCHANGED <<mode, schema, saved, index, pend, files, lexCkpt, change,
                  lpc, snap, start, discarded, unfollowed>>
  BY DEF WritePut, schemaVars, ladderVars
<1>4. put.into \in BOOLEAN /\ put.field \in Fields /\ Types
  BY WritePutFacts DEF FieldsInv, Rest
<1>5. marks' = [g \in Fields |->
                  CASE g \notin PutField -> marks[g]
                    [] g = f /\ put.into -> marks[g] \ {r.doc}
                    [] OTHER -> marks[g] \cup {r.doc}]
  BY DEF WritePut, PutField
<1>6. /\ marks' \in [Fields -> SUBSET Nat]
      /\ \A g \in Fields : \A d :
             /\ d # nextSeq => (d \in (marks')[g] <=> d \in marks[g])
             /\ Accepted /\ g = put.field => nextSeq \notin (marks')[g]
  <2>1. nextSeq \in Nat /\ marks \in [Fields -> SUBSET Nat]
    BY <1>4 DEF Types
  <2>2. ASSUME NEW g \in Fields
        PROVE  /\ (marks')[g] \in SUBSET Nat
               /\ \A d : d # nextSeq => (d \in (marks')[g] <=> d \in marks[g])
               /\ Accepted /\ g = put.field => nextSeq \notin (marks')[g]
    <3>1. CASE g \notin PutField
      BY <1>5, <2>1, <3>1 DEF Accepted
    <3>2. CASE g \in PutField /\ g = f /\ put.into
      <4>1. (marks')[g] = marks[g] \ {nextSeq}
        BY <1>1, <1>5, <3>2
      <4> QED BY <2>1, <4>1
    <3>3. CASE g \in PutField /\ ~(g = f /\ put.into)
      <4>1. (marks')[g] = marks[g] \cup {nextSeq}
        BY <1>1, <1>5, <3>3
      <4> QED BY <2>1, <3>3, <4>1 DEF Accepted
    <3> QED BY <3>1, <3>2, <3>3
  <2>3. DOMAIN marks' = Fields /\ marks' = [g \in Fields |-> (marks')[g]]
    BY <1>5
  <2> QED BY <2>2, <2>3
<1>7. \/ /\ Accepted
         /\ buf' = [buf EXCEPT ![f] = @ \cup {nextSeq}]
         /\ seal' = [seal EXCEPT ![f] = IF @ = "sealed" THEN "dirty" ELSE @]
         /\ stop' = stop /\ refused' = refused
      \/ /\ ~put.into
         /\ buf' = buf /\ seal' = seal /\ stop' = stop /\ refused' = refused
      \/ /\ put.into /\ ~Accepted
         /\ stop' = TRUE /\ refused' = refused \cup {nextSeq}
         /\ buf' = buf /\ seal' = seal
  BY <1>1 DEF WritePut, Accepted, PutField
<1>8. /\ buf' \in [Fields -> SUBSET Nat]
      /\ \A g \in Fields : (buf')[g] = IF Accepted /\ g = put.field
                                       THEN buf[g] \cup {nextSeq} ELSE buf[g]
  <2>1. /\ f \in Fields /\ nextSeq \in Nat /\ buf \in [Fields -> SUBSET Nat]
        /\ Accepted => put.into
    BY <1>4 DEF Types, Accepted
  <2>2. \/ Accepted /\ buf' = [buf EXCEPT ![f] = @ \cup {nextSeq}]
        \/ ~Accepted /\ buf' = buf
    BY <1>7, <2>1
  <2> QED BY <2>1, <2>2
<1>9. /\ seal' \in [Fields -> {"open", "sealed", "dirty"}]
      /\ \A g \in Fields :
             (seal')[g] = IF Accepted /\ g = put.field /\ seal[g] = "sealed"
                          THEN "dirty" ELSE seal[g]
  BY <1>4, <1>7 DEF Types, Accepted
<1>10. /\ stop' \in BOOLEAN
       /\ stop' <=> stop \/ (put.into /\ ~Accepted)
       /\ refused' = IF put.into /\ ~Accepted THEN refused \cup {nextSeq}
                     ELSE refused
  <2>1. stop \in BOOLEAN
    BY <1>4 DEF Types
  <2>2. Accepted => put.into
    BY DEF Accepted
  <2>3. CASE put.into /\ ~Accepted
    <3>1. stop' = TRUE /\ refused' = refused \cup {nextSeq}
      BY <1>7, <2>3
    <3> QED BY <2>3, <3>1
  <2>4. CASE ~(put.into /\ ~Accepted)
    <3>1. stop' = stop /\ refused' = refused
      BY <1>7, <2>4
    <3> QED BY <2>1, <2>4, <3>1
  <2> QED BY <2>3, <2>4
<1> HIDE DEF r
<1> QED BY <1>1, <1>2, <1>3, <1>6, <1>8, <1>9, <1>10

\* The record of the put is the last one; the field's sub-writer has it, or
\* the put is refused and writes stop.
LEMMA WritePutSafe ==
    ASSUME FieldInv, FieldsInv, WritePut
    PROVE  FieldsInv'
<1>1. /\ mode = "open" /\ change.step = "idle"
      /\ put.field \in Fields /\ nextSeq <= MaxSeq
      /\ put.into \in BOOLEAN
      /\ put.into <=> put.field \in DOMAIN saved
      /\ Accepted => /\ put.field \in DOMAIN index
                     /\ put.dim = saved[put.field]
      /\ PutField \subseteq Fields
      /\ PutField \cap DOMAIN saved \subseteq DOMAIN index
      /\ put.into /\ ~Accepted => put.field \notin DOMAIN index
  BY WritePutFacts
<1>2. PICK r :
      /\ IsPut(r) /\ r.seq = nextSeq /\ r.doc = nextSeq
      /\ r.field = put.field /\ r.dim = put.dim /\ r.into = put.into
      /\ writer' = PutField /\ wal' = wal \cup {r}
      /\ history' = history \cup {r} /\ nextSeq' = nextSeq + 1
      /\ marks' \in [Fields -> SUBSET Nat]
      /\ \A g \in Fields : \A d :
             /\ d # nextSeq => (d \in (marks')[g] <=> d \in marks[g])
             /\ Accepted /\ g = put.field => nextSeq \notin (marks')[g]
      /\ buf' \in [Fields -> SUBSET Nat]
      /\ \A g \in Fields : (buf')[g] = IF Accepted /\ g = put.field
                                       THEN buf[g] \cup {nextSeq} ELSE buf[g]
      /\ seal' \in [Fields -> {"open", "sealed", "dirty"}]
      /\ \A g \in Fields :
             (seal')[g] = IF Accepted /\ g = put.field /\ seal[g] = "sealed"
                          THEN "dirty" ELSE seal[g]
      /\ stop' \in BOOLEAN
      /\ stop' <=> stop \/ (put.into /\ ~Accepted)
      /\ refused' = IF put.into /\ ~Accepted THEN refused \cup {nextSeq}
                    ELSE refused
      /\ put' = NoPut
      /\ UNCHANGED <<mode, schema, saved, index, pend, files, lexCkpt, change,
                     lpc, snap, start, discarded, unfollowed>>
  BY WritePutWrites
<1>3. Types /\ Numbers /\ nextSeq \in Nat \ {0} /\ LastSeq = nextSeq - 1
  BY DEF FieldsInv, Rest, Types, LastSeq
<1>4. LastSeq' = nextSeq /\ LastSeq < nextSeq
  BY <1>2, <1>3 DEF LastSeq
<1>5. /\ DOMAIN saved \subseteq Fields /\ DOMAIN index \subseteq Fields
      /\ IsPut(r)' = IsPut(r)
  BY <1>3, TableIs DEF Types, IsPut
<1>6. /\ \A g \in Fields : \A d : d \in Given(g)' <=>
             d \in Given(g) \/ (d = nextSeq /\ put.into /\ put.field = g)
      /\ \A d : d \in Deleted(history') <=> d \in Deleted(history)
  BY ZenonT(60), <1>2, <1>3, PutAppended
<1>7. \A x \in wal \cup history :
          RecordShape(x) /\ x.seq <= LastSeq /\ x.seq < nextSeq
  BY <1>3, <1>4 DEF Numbers, RecordShape
<1>8. \A g \in Fields :
          /\ nextSeq \notin files[g].docs /\ nextSeq \notin files[g].marks
          /\ nextSeq \notin buf[g] /\ nextSeq > files[g].ckpt
          /\ nextSeq > pend[g] /\ nextSeq > start[g]
          /\ files[g].ckpt \in Nat
  BY <1>3, <1>4 DEF Numbers, Types, Directory
<1>9. \A d \in Deleted(history) : d # nextSeq
  BY <1>7, DeletedIs DEF RecordShape
<1>10. Types'
  BY <1>1, <1>2, <1>3 DEF Types
<1>11. Numbers'
  <2>1. \A g \in Fields :
            /\ (buf')[g] \subseteq 1..nextSeq /\ (marks')[g] \subseteq 1..nextSeq
            /\ files[g].docs \subseteq 1..nextSeq
            /\ files[g].marks \subseteq 1..nextSeq
            /\ files[g].ckpt <= nextSeq /\ pend[g] <= nextSeq
            /\ start[g] <= nextSeq
    <3> SUFFICES ASSUME NEW g \in Fields
                 PROVE  /\ (buf')[g] \subseteq 1..nextSeq
                        /\ (marks')[g] \subseteq 1..nextSeq
                        /\ files[g].docs \subseteq 1..nextSeq
                        /\ files[g].marks \subseteq 1..nextSeq
                        /\ files[g].ckpt <= nextSeq /\ pend[g] <= nextSeq
                        /\ start[g] <= nextSeq
      OBVIOUS
    <3>1. /\ buf[g] \subseteq 1..nextSeq /\ marks[g] \subseteq 1..nextSeq
          /\ files[g].docs \subseteq 1..nextSeq
          /\ files[g].marks \subseteq 1..nextSeq
      BY <1>3, <1>4 DEF Numbers
    <3>2. /\ (buf')[g] \subseteq 1..nextSeq
      BY <1>2, <1>3, <3>1
    <3>3. \A d \in (marks')[g] : d \in 1..nextSeq
      BY <1>2, <1>3, <3>1
    <3>4. pend[g] \in Nat /\ start[g] \in Nat
      BY <1>3 DEF Types
    <3> QED BY <1>3, <1>8, <3>1, <3>2, <3>3, <3>4
  <2>2. \A l \in Ladders :
            /\ snap[l] <= nextSeq
            /\ lpc[l] \in {"vector", "truncate"} => snap[l] <= lexCkpt
    BY <1>3, <1>4 DEF Numbers, Types
  <2>3. RecordShape(r)
    BY <1>1, <1>2, <1>3, <1>10 DEF RecordShape, FieldsInv, PutChecked, WritePut
  <2>4. \A x \in wal' \cup history' : RecordShape(x)' /\ x.seq <= nextSeq
    BY <1>2, <1>3, <1>4, <1>7, <2>3 DEF RecordShape, IsPut
  <2>5. lexCkpt <= nextSeq /\ nextSeq <= MaxSeq /\ \E x \in wal' : x.seq = nextSeq
    BY <1>1, <1>2, <1>3, <1>4 DEF Numbers, Types
  <2> QED BY <1>2, <1>4, <2>1, <2>2, <2>4, <2>5 DEF Numbers
<1>12. Modes' /\ Changing'
  <2>1. Modes'
    BY <1>1, <1>2 DEF FieldsInv, Rest, Modes
  <2>2. Changing'
    BY <1>1, <1>2 DEF Changing
  <2> QED BY <2>1, <2>2
<1>13. Registered'
  <2>1. \A g \in DOMAIN index :
            files[g].dim = index[g] /\ g \in DOMAIN saved /\ index[g] = saved[g]
    BY <1>1 DEF FieldsInv, Rest, Registered, NewFieldSaves
  <2>2. \A g \in DOMAIN saved :
            /\ files[g].docs # {} \/ (buf')[g] # {} => files[g].dim = saved[g]
            /\ g \in writer' => g \in DOMAIN index
    BY <1>1, <1>2, <1>5, <2>1 DEF FieldsInv, Rest, Registered
  <2>3. ASSUME NEW g \in DOMAIN saved \ DOMAIN index
        PROVE  /\ Given(g)' # {} => stop'
               /\ \A d \in Given(g)', l \in Ladders : d > snap[l]
    <3>1. /\ Given(g) # {} => stop
          /\ \A d \in Given(g), l \in Ladders : d > snap[l]
      BY <1>1 DEF FieldsInv, Rest, Registered, PendingDelete
    <3>2. \A l \in Ladders : nextSeq > snap[l]
      BY <1>3, <1>4 DEF Numbers, Types
    <3>3. put.into /\ put.field = g => stop'
      BY <1>1, <1>2
    <3> QED BY <1>2, <1>5, <1>6, <3>1, <3>2, <3>3
  <2> QED BY <1>2, <2>1, <2>2, <2>3 DEF Registered
<1>14. Buffers'
  <2>1. \A g \in Fields : g \notin writer' => (buf')[g] = {} /\ (seal')[g] = "open"
    <3> SUFFICES ASSUME NEW g \in Fields, g \notin PutField
                 PROVE  (buf')[g] = {} /\ (seal')[g] = "open"
      BY <1>2
    <3>1. g \notin writer /\ ~(Accepted /\ g = put.field)
      BY DEF PutField, Accepted
    <3> QED BY <1>2, <3>1 DEF FieldsInv, Rest, Buffers
  <2>2. \A g \in Fields :
            (seal')[g] = "sealed" => (buf')[g] \subseteq files[g].docs
    BY <1>2 DEF FieldsInv, Rest, Buffers
  <2>3. \A g \in Fields : \A d \in (buf')[g] : d > files[g].ckpt
    BY <1>1, <1>2, <1>8 DEF FieldsInv, Rest, Buffers, Settled
  <2>4. files' = files
    BY <1>2
  <2> QED BY <2>1, <2>2, <2>3, <2>4 DEF Buffers
<1>15. Log'
  <2>1. \A x, s \in wal' \cup history' : x.seq = s.seq => x = s
    BY <1>2, <1>3, <1>4, <1>7 DEF FieldsInv, Rest, Log
  <2>2. ASSUME NEW x \in wal', NEW s \in history', s.seq > x.seq
        PROVE  s \in wal'
    <3>1. CASE s = r
      BY <1>2, <3>1
    <3>2. CASE s # r /\ x = r
      BY <1>2, <1>3, <1>7, <2>2, <3>2 DEF RecordShape
    <3>3. CASE s # r /\ x # r
      BY <1>2, <2>2, <3>3 DEF FieldsInv, Rest, Log
    <3> QED BY <3>1, <3>2, <3>3
  <2>3. wal' \subseteq history'
    BY <1>1, <1>2 DEF FieldsInv, Rest, Log
  <2>4. \A x \in wal' :
            IsPut(x) /\ x.field \in DOMAIN saved =>
                x.into /\ x.seq > start[x.field]
    BY <1>1, <1>2, <1>8 DEF FieldsInv, Rest, Log
  <2> QED BY <1>2, <2>1, <2>2, <2>3, <2>4 DEF Log, IsPut
<1> DEFINE Bad(x) == /\ x \in wal' /\ IsPut(x) /\ x.field \in DOMAIN saved
                     /\ x.dim # saved[x.field]
<1>16. \A x : Mismatch(x)' <=> Bad(x)
  BY <1>2 DEF Mismatch, IsPut
<1>17. Mismatches'
  <2>1. \A x \in wal' : x \in history'
    BY <1>1, <1>2 DEF FieldsInv, Rest, Log
  <2>2. ASSUME NEW x \in wal', Bad(x)
        PROVE  /\ x.seq \in refused'
               /\ x.doc \notin files[x.field].docs
               /\ x.doc \notin (buf')[x.field]
               /\ x.seq \in discarded \/ Beyond(x.seq)'
               /\ stop'
    <3>1. x.field \in Fields
      BY <1>5, <2>2
    <3>2. \A m : Beyond(m)' <=> Beyond(m)
      BY <1>2 DEF Beyond
    <3>3. CASE x = r
      <4>1. ~Accepted /\ put.into
        BY <1>1, <1>2, <2>2, <3>3
      <4>2. Beyond(nextSeq)
        BY <1>3, <1>4, <1>8 DEF Beyond, Numbers, Types
      <4> QED BY <1>2, <1>8, <3>1, <3>2, <3>3, <4>1, <4>2
    <3>4. CASE x # r
      <4>1. x \in wal /\ Mismatch(x)
        BY <1>2, <2>2, <3>4 DEF Mismatch
      <4>2. /\ x.seq \in refused /\ x.doc \notin files[x.field].docs
            /\ x.doc \notin buf[x.field]
            /\ x.seq \in discarded \/ Beyond(x.seq)
        BY <1>1, <4>1 DEF FieldsInv, Rest, Mismatches
      <4>3. x.doc # nextSeq /\ stop
        <5>1. x.doc # nextSeq
          BY <1>3, <1>7, <2>2, <4>1 DEF IsPut, RecordShape
        <5>2. stop
          BY <1>1, <4>1 DEF FieldsInv, Rest, Mismatches
        <5> QED BY <5>1, <5>2
      <4>4. x.doc \notin (buf')[x.field]
        BY <1>2, <3>1, <4>2, <4>3
      <4> QED BY <1>2, <3>2, <4>2, <4>3, <4>4
    <3> QED BY <3>3, <3>4
  <2>3. discarded \subseteq refused'
    BY <1>2 DEF FieldsInv, Rest, Mismatches
  <2> QED BY <1>1, <1>2, <1>16, <2>1, <2>2, <2>3 DEF Mismatches
<1>18. Contained'
  <2>1. ASSUME NEW g \in Followed PROVE files[g].docs \subseteq Given(g)'
    <3>1. g \in Fields /\ files[g].docs \subseteq Given(g)
      BY <1>5, <2>1 DEF FieldsInv, Rest, Contained, Followed
    <3> QED BY <1>6, <3>1
  <2>2. ASSUME NEW g \in DOMAIN saved \cup DOMAIN index
        PROVE  (buf')[g] \subseteq Given(g)'
    <3>1. g \in Fields /\ buf[g] \subseteq Given(g)
      BY <1>5 DEF FieldsInv, Rest, Contained
    <3>2. Accepted => put.into
      BY DEF Accepted
    <3> QED BY <1>2, <1>6, <3>1, <3>2
  <2>3. Followed' = Followed /\ files' = files
    BY <1>2 DEF Followed
  <2> QED BY <1>2, <2>1, <2>2, <2>3 DEF Contained
<1>19. Memory'
  <2> SUFFICES ASSUME NEW g \in DOMAIN index \ unfollowed
               PROVE  Held(g)' = Owed(g)'
    BY <1>2 DEF Memory
  <2>1. g \in Fields /\ Held(g) = Owed(g)
    BY <1>1, <1>5 DEF FieldsInv, Rest, Memory
  <2>2. Accepted => put.into
    BY DEF Accepted
  <2>3. \A d : d # nextSeq => (d \in Held(g)' <=> d \in Held(g))
    BY <1>2, <2>1, HeldIs
  <2>4. \A d : d # nextSeq => (d \in Owed(g)' <=> d \in Owed(g))
    BY <1>6, <2>1, OwedIs
  <2>5. nextSeq \in Owed(g)' <=> put.into /\ put.field = g
    <3>1. nextSeq \notin Given(g)
      BY <1>7, GivenIs DEF RecordShape
    <3> QED BY <1>6, <1>9, <2>1, <3>1, OwedIs
  <2>6. nextSeq \in Held(g)' <=> Accepted /\ put.field = g
    BY <1>2, <1>8, <2>1, HeldIs
  <2>7. put.into /\ put.field = g <=> Accepted /\ put.field = g
    BY <1>1, <2>2
  <2> QED BY <2>1, <2>3, <2>4, <2>5, <2>6, <2>7
<1>20. Disk'
  <2> SUFFICES ASSUME NEW g \in Followed
               PROVE  HasDocs(g)' /\ HasMarks(g)' /\ HasLog(g)' /\ MarksRight(g)'
    BY <1>2 DEF Disk, Followed
  <2>1. g \in Fields /\ HasDocs(g) /\ HasMarks(g) /\ HasLog(g) /\ MarksRight(g)
    BY <1>5 DEF FieldsInv, Rest, Disk, Followed
  <2>2. HasDocs(g)'
    BY <1>2, <1>6, <1>8, <2>1 DEF HasDocs
  <2>3. HasMarks(g)'
    BY <1>1, <1>2, <2>1 DEF HasMarks, Settled, IsPut
  <2>4. HasLog(g)'
    <3> SUFFICES ASSUME NEW x \in history', x.doc \in Given(g)',
                        x.seq > files[g].ckpt
                 PROVE  x \in wal'
      BY <1>2 DEF HasLog
    <3>1. CASE x = r
      BY <1>2, <3>1
    <3>2. CASE x # r
      <4>1. x \in history /\ x.doc # nextSeq
        BY <1>2, <1>7, <3>2 DEF RecordShape
      <4> QED BY <1>2, <1>6, <2>1, <4>1 DEF HasLog
    <3> QED BY <3>1, <3>2
  <2>5. MarksRight(g)'
    <3>1. \A d \in files[g].marks :
              d \in Given(g)' => d \in Deleted(history')
      BY <1>6, <1>8, <2>1 DEF MarksRight
    <3>2. files' = files
      BY <1>2
    <3> QED BY <3>1, <3>2 DEF MarksRight
  <2> QED BY <2>2, <2>3, <2>4, <2>5
<1>21. Rebuffered'
  BY <1>1, <1>2 DEF FieldsInv, Rest, Modes, Rebuffered
<1>22. Truncates'
  <2> SUFFICES ASSUME NEW l \in Ladders, lpc[l] = "truncate",
                      NEW g \in Followed, ~PendingDelete(g)
               PROVE  Reached(g, snap[l])'
    BY <1>2 DEF Truncates, Followed, PendingDelete
  <2>1. g \in Fields /\ Reached(g, snap[l])
    BY <1>5 DEF FieldsInv, Rest, Truncates, Followed
  <2>2. nextSeq > snap[l]
    BY <1>3, <1>4 DEF Numbers, Types
  <2>3. ASSUME NEW x \in history', x.doc \in Given(g)', x.seq > files[g].ckpt
        PROVE  x.seq > snap[l]
    <3>1. CASE x = r
      BY <1>2, <2>2, <3>1
    <3>2. CASE x # r
      <4>1. x \in history /\ x.doc # nextSeq
        BY <1>2, <1>7, <3>2 DEF RecordShape
      <4> QED BY <1>6, <2>1, <2>3, <4>1 DEF Reached
    <3> QED BY <3>1, <3>2
  <2> QED BY <1>2, <2>3 DEF Reached
<1>23. PutChecked'
  BY <1>2 DEF PutChecked, PutSteps, NoPut
<1> QED
  BY <1>10, <1>11, <1>12, <1>13, <1>14, <1>15, <1>17, <1>18, <1>19, <1>20,
     <1>21, <1>22, <1>23 DEF FieldsInv, Rest

\* A delete finds its document, and marks it in every field.
LEMMA DeleteWrites ==
    ASSUME FieldsInv, DeleteSome
    PROVE  \E r :
      /\ ~IsPut(r) /\ r.seq = nextSeq /\ r.doc \in 1..LastSeq
      /\ mode = "open" /\ ~stop /\ change.step = "idle"
      /\ nextSeq <= MaxSeq
      /\ put.step # "idle" => nextSeq + 1 <= MaxSeq
      /\ wal' = wal \cup {r} /\ history' = history \cup {r}
      /\ nextSeq' = nextSeq + 1
      /\ marks' \in [Fields -> SUBSET Nat]
      /\ \A g \in Fields : \A d : d \in (marks')[g] <=>
             d \in marks[g] \/ (g \in DOMAIN index /\ d = r.doc)
      /\ UNCHANGED <<mode, stop, schema, saved, index, writer, buf, seal,
                     pend, files, lexCkpt, change, lpc, snap, start,
                     discarded, refused, unfollowed, put>>
<1>1. PICK doc \in Live({x \in history : x.seq \notin refused}) : Delete(doc)
  BY DEF DeleteSome
<1>2. PICK x \in history : doc = x.doc
  BY DEF Live, Puts
<1>3. /\ Numbers /\ Types /\ LastSeq = nextSeq - 1 /\ nextSeq \in Nat \ {0}
  BY DEF FieldsInv, Rest, LastSeq, Types
<1>4. doc \in 1..LastSeq /\ doc # nextSeq /\ doc \in Nat
  BY <1>2, <1>3 DEF Numbers, RecordShape
<1> DEFINE r == [seq |-> nextSeq, doc |-> doc]
<1>5. ~IsPut(r) /\ r.seq = nextSeq /\ r.doc = doc
  BY <1>4 DEF IsPut
<1>6. /\ wal' = wal \cup {r} /\ history' = history \cup {r}
      /\ nextSeq' = nextSeq + 1 /\ mode = "open" /\ ~stop
      /\ change.step = "idle"
  BY <1>1 DEF Delete, SchemaUnlocked
<1>7. /\ nextSeq <= MaxSeq
      /\ put.step # "idle" => nextSeq + 1 <= MaxSeq
  BY <1>1, <1>3, BoundsAssumption DEF Delete, BelowMaxSeq
<1>8. marks' = [f \in Fields |-> IF f \in DOMAIN index
                                 THEN marks[f] \cup {doc} ELSE marks[f]]
  BY <1>1 DEF Delete
<1>9. /\ marks' \in [Fields -> SUBSET Nat]
      /\ \A g \in Fields : \A d : d \in (marks')[g] <=>
             d \in marks[g] \/ (g \in DOMAIN index /\ d = doc)
  BY <1>3, <1>4, <1>8 DEF Types
<1>10. UNCHANGED <<mode, stop, schema, saved, index, writer, buf, seal,
                   pend, files, lexCkpt, change, lpc, snap, start,
                   discarded, refused, unfollowed, put>>
  BY <1>1 DEF Delete, schemaVars, writerVars, ladderVars
<1> HIDE DEF r
<1> QED BY <1>4, <1>5, <1>6, <1>7, <1>9, <1>10

LEMMA DeleteSafe ==
    ASSUME FieldsInv, DeleteSome
    PROVE  FieldsInv'
<1>1. PICK r :
      /\ ~IsPut(r) /\ r.seq = nextSeq /\ r.doc \in 1..LastSeq
      /\ mode = "open" /\ ~stop /\ change.step = "idle"
      /\ nextSeq <= MaxSeq
      /\ put.step # "idle" => nextSeq + 1 <= MaxSeq
      /\ wal' = wal \cup {r} /\ history' = history \cup {r}
      /\ nextSeq' = nextSeq + 1
      /\ marks' \in [Fields -> SUBSET Nat]
      /\ \A g \in Fields : \A d : d \in (marks')[g] <=>
             d \in marks[g] \/ (g \in DOMAIN index /\ d = r.doc)
      /\ UNCHANGED <<mode, stop, schema, saved, index, writer, buf, seal,
                     pend, files, lexCkpt, change, lpc, snap, start,
                     discarded, refused, unfollowed, put>>
  BY DeleteWrites
<1>2. Types /\ Numbers /\ nextSeq \in Nat \ {0} /\ LastSeq = nextSeq - 1
  BY DEF FieldsInv, Rest, Types, LastSeq
<1>3. LastSeq' = nextSeq /\ LastSeq < nextSeq
  BY <1>1, <1>2 DEF LastSeq
<1>4. DOMAIN saved \subseteq Fields /\ DOMAIN index \subseteq Fields
  BY <1>2, TableIs DEF Types
<1>5. /\ \A g, d : d \in Given(g)' <=> d \in Given(g)
      /\ \A d : d \in Deleted(history') <=> d \in Deleted(history) \/ d = r.doc
  BY <1>1, DeleteAppended
<1>6. \A x \in wal \cup history :
          RecordShape(x) /\ x.seq <= LastSeq /\ x.seq < nextSeq /\ x.seq \in Nat
  BY <1>2, <1>3 DEF Numbers, RecordShape
<1>7. \A l \in Ladders : snap[l] <= nextSeq /\ nextSeq > snap[l]
  BY <1>2, <1>3 DEF Numbers, Types
<1>8. Types'
  BY <1>1, <1>2 DEF Types
<1>9. Numbers'
  <2>1. ASSUME NEW g \in Fields
        PROVE  /\ buf[g] \subseteq 1..nextSeq /\ (marks')[g] \subseteq 1..nextSeq
               /\ files[g].docs \subseteq 1..nextSeq
               /\ files[g].marks \subseteq 1..nextSeq
               /\ files[g].ckpt <= nextSeq /\ pend[g] <= nextSeq
               /\ start[g] <= nextSeq
    <3>1. /\ buf[g] \subseteq 1..nextSeq /\ marks[g] \subseteq 1..nextSeq
          /\ files[g].docs \subseteq 1..nextSeq
          /\ files[g].marks \subseteq 1..nextSeq
      BY <1>2, <1>3 DEF Numbers
    <3>2. r.doc \in 1..nextSeq
      BY <1>1, <1>2, <1>3
    <3>3. \A d \in (marks')[g] : d \in 1..nextSeq
      BY <1>1, <3>1, <3>2
    <3>4. /\ pend[g] \in Nat /\ start[g] \in Nat /\ files[g].ckpt \in Nat
          /\ files[g].ckpt <= LastSeq /\ pend[g] <= LastSeq /\ start[g] <= LastSeq
      BY <1>2 DEF Types, Directory, Numbers
    <3> QED BY <1>2, <1>3, <3>1, <3>3, <3>4
  <2>2. \A l \in Ladders :
            /\ snap[l] <= nextSeq
            /\ lpc[l] \in {"vector", "truncate"} => snap[l] <= lexCkpt
    BY <1>2, <1>7 DEF Numbers
  <2>3. \A x \in wal' \cup history' : RecordShape(x)' /\ x.seq <= nextSeq
    BY <1>1, <1>2, <1>6 DEF RecordShape, IsPut
  <2>4. lexCkpt <= nextSeq /\ nextSeq <= MaxSeq /\ \E x \in wal' : x.seq = nextSeq
    BY <1>1, <1>2, <1>3 DEF Numbers, Types
  <2> QED BY <1>1, <1>3, <2>1, <2>2, <2>3, <2>4 DEF Numbers
<1>10. Modes' /\ Changing'
  <2>1. Modes'
    BY <1>1 DEF FieldsInv, Rest, Modes
  <2>2. Changing'
    BY <1>1 DEF Changing
  <2> QED BY <2>1, <2>2
<1>11. Registered'
  BY <1>1, <1>5 DEF FieldsInv, Rest, Registered, NewFieldSaves, PendingDelete
<1>12. Buffers'
  BY <1>1 DEF FieldsInv, Rest, Buffers, Settled
<1>13. Log'
  <2>1. \A x, s \in wal' \cup history' : x.seq = s.seq => x = s
    BY <1>1, <1>2, <1>6 DEF FieldsInv, Rest, Log
  <2>2. ASSUME NEW x \in wal', NEW s \in history', s.seq > x.seq
        PROVE  s \in wal'
    <3>1. CASE s = r
      BY <1>1, <3>1
    <3>2. CASE s # r /\ x = r
      BY <1>1, <1>2, <1>6, <2>2, <3>2
    <3>3. CASE s # r /\ x # r
      BY <1>1, <2>2, <3>3 DEF FieldsInv, Rest, Log
    <3> QED BY <3>1, <3>2, <3>3
  <2>3. wal' \subseteq history'
    BY <1>1 DEF FieldsInv, Rest, Log
  <2>4. \A x \in wal' :
            IsPut(x) /\ x.field \in DOMAIN saved =>
                x.into /\ x.seq > start[x.field]
    BY <1>1 DEF FieldsInv, Rest, Log
  <2> QED BY <1>1, <2>1, <2>2, <2>3, <2>4 DEF Log, IsPut
<1>14. \A x : Mismatch(x)' => FALSE
  BY <1>1 DEF FieldsInv, Rest, Mismatches, Mismatch, IsPut
<1>15. Mismatches'
  BY <1>1, <1>14 DEF FieldsInv, Rest, Mismatches, Log
<1>16. Contained'
  BY <1>1, <1>5 DEF FieldsInv, Rest, Contained, Followed
<1>17. Memory'
  <2> SUFFICES ASSUME NEW g \in DOMAIN index \ unfollowed
               PROVE  Held(g)' = Owed(g)'
    BY <1>1 DEF Memory
  <2>1. g \in Fields /\ Held(g) = Owed(g)
    BY <1>1, <1>4 DEF FieldsInv, Rest, Memory
  <2>2. \A d : d \in Held(g)' <=> d \in Held(g) /\ d # r.doc
    BY <1>1, <2>1, HeldIs
  <2>3. \A d : d \in Owed(g)' <=> d \in Owed(g) /\ d # r.doc
    BY <1>5, OwedIs
  <2> QED BY <2>1, <2>2, <2>3
<1>18. Disk'
  <2> SUFFICES ASSUME NEW g \in Followed
               PROVE  HasDocs(g)' /\ HasMarks(g)' /\ HasLog(g)' /\ MarksRight(g)'
    BY <1>1 DEF Disk, Followed
  <2>1. g \in Fields /\ HasDocs(g) /\ HasMarks(g) /\ HasLog(g) /\ MarksRight(g)
    BY <1>4 DEF FieldsInv, Rest, Disk, Followed
  <2>2. HasDocs(g)'
    BY <1>1, <1>5, <2>1 DEF HasDocs
  <2>3. HasMarks(g)'
    <3>1. files[g].ckpt < nextSeq
      BY <1>2, <1>3, <2>1 DEF Numbers, Types, Directory
    <3>2. files[g].ckpt \in Nat
      BY <1>2, <2>1 DEF Types, Directory
    <3>3. \A x \in history' : x.seq <= files[g].ckpt => x \in history
      BY <1>1, <1>2, <3>1, <3>2
    <3> QED BY <1>1, <2>1, <3>3 DEF HasMarks, Settled, IsPut
  <2>4. HasLog(g)'
    BY <1>1, <1>5, <2>1 DEF HasLog
  <2>5. MarksRight(g)'
    BY <1>1, <1>5, <2>1 DEF MarksRight
  <2> QED BY <2>2, <2>3, <2>4, <2>5
<1>19. Rebuffered'
  BY <1>1 DEF FieldsInv, Rest, Modes, Rebuffered
<1>20. Truncates'
  BY <1>1, <1>5, <1>7 DEF FieldsInv, Rest, Truncates, Followed, PendingDelete,
                          Reached
<1>21. PutChecked'
  BY <1>1 DEF FieldsInv, PutChecked
<1> QED
  BY <1>8, <1>9, <1>10, <1>11, <1>12, <1>13, <1>15, <1>16, <1>17, <1>18,
     <1>19, <1>20, <1>21 DEF FieldsInv, Rest

-----------------------------------------------------------------------------
(* Steps that begin or give up a commit or a schema change.                *)

\* A step in an open index that changes no field and no log, and raises a
\* ladder's watermark only while writes go on.
LEMMA ControlSafe ==
    ASSUME FieldsInv, mode = "open",
           UNCHANGED <<mode, stop, schema, saved, index, writer, buf, seal,
                       marks, pend, files, lexCkpt, wal, nextSeq, put, history,
                       start, discarded, refused, unfollowed>>,
           lpc' \in [Ladders -> LadderSteps], snap' \in [Ladders -> Nat],
           lpc'["recovery"] = lpc["recovery"],
           \A l \in Ladders :
               /\ (snap')[l] <= LastSeq
               /\ (lpc')[l] \in {"vector", "truncate"} =>
                      (lpc')[l] = lpc[l] /\ (snap')[l] = snap[l],
           ~stop \/ \A l \in Ladders : (snap')[l] <= snap[l],
           change' \in Changes \cup {NoChange}, Changing',
           change' = change \/ (change.step # "save" /\ change'.step # "save")
    PROVE  FieldsInv'
<1>1. Types /\ Numbers /\ LastSeq' = LastSeq /\ Modes
  BY DEF FieldsInv, Rest, LastSeq
<1>2. \A f : PendingDelete(f)' <=> PendingDelete(f)
  BY DEF PendingDelete
<1>3. \A f : (NewFieldSaves /\ change.field = f)' <=>
                 NewFieldSaves /\ change.field = f
  BY DEF NewFieldSaves
<1>4. \A f : Given(f)' = Given(f)
  BY DEF Given
<1>5. Types'
  BY <1>1 DEF Types
<1>6. Numbers'
  BY <1>1 DEF Numbers, RecordShape, IsPut
<1>7. Modes'
  <2>1. change'.step # "idle" => mode' = "open"
    OBVIOUS
  <2>2. (lpc')["caller"] # "idle" => mode' = "open"
    OBVIOUS
  <2>3. /\ (lpc')["recovery"] # "idle" <=> mode' = "recovering"
        /\ stop' => mode' = "open"
    BY <1>1 DEF Modes
  <2>4. mode' # "recovering" /\ mode' # "closed"
    OBVIOUS
  <2> QED BY <2>1, <2>2, <2>3, <2>4 DEF Modes
<1>8. Registered'
  <2>1. \A f \in DOMAIN index :
            /\ files[f].dim = index[f]
            /\ \/ f \in DOMAIN saved /\ index[f] = saved[f]
               \/ (NewFieldSaves /\ change.field = f)'
    BY <1>3 DEF FieldsInv, Rest, Registered
  <2>2. \A f \in DOMAIN saved :
            /\ files[f].docs # {} \/ buf[f] # {} => files[f].dim = saved[f]
            /\ f \in writer => f \in DOMAIN index \/ PendingDelete(f)'
    BY <1>2 DEF FieldsInv, Rest, Registered
  <2>3. ASSUME NEW f \in DOMAIN saved \ DOMAIN index, ~PendingDelete(f)'
        PROVE  /\ Given(f) # {} => stop
               /\ \A d \in Given(f), l \in Ladders : d > (snap')[l]
    <3>1. /\ Given(f) # {} => stop
          /\ \A d \in Given(f), l \in Ladders : d > snap[l]
      BY <1>2, <2>3 DEF FieldsInv, Rest, Registered
    <3>2. ASSUME NEW d \in Given(f), NEW l \in Ladders PROVE d > (snap')[l]
      <4>1. d > snap[l] /\ (snap')[l] <= snap[l]
        BY <3>1
      <4>2. d \in Nat /\ snap[l] \in Nat /\ (snap')[l] \in Nat
        BY <1>1, GivenIs DEF Types, Numbers, RecordShape
      <4> QED BY <4>1, <4>2
    <3> QED BY <3>1, <3>2
  <2>4. UNCHANGED <<index, saved, files, writer, mode, stop>>
    OBVIOUS
  <2> QED BY <1>4, <2>1, <2>2, <2>3, <2>4 DEF Registered
<1>9. Buffers' /\ Log'
  BY DEF FieldsInv, Rest, Buffers, Log, IsPut, Settled
<1>10. Mismatches'
  <2>1. \A r : Mismatch(r)' <=> Mismatch(r)
    BY DEF Mismatch, IsPut
  <2>2. ASSUME NEW r \in wal, Mismatch(r), Beyond(r.seq)
        PROVE  Beyond(r.seq)'
    <3>1. \A l \in Ladders : (snap')[l] <= snap[l]
      BY <2>2 DEF FieldsInv, Rest, Mismatches
    <3>2. \A l \in Ladders : r.seq \in Nat /\ snap[l] \in Nat /\ (snap')[l] \in Nat
      BY <1>1 DEF Numbers, Types, RecordShape
    <3>3. \A l \in Ladders : r.seq > (snap')[l]
      BY <2>2, <3>1, <3>2 DEF Beyond
    <3> QED BY <2>2, <3>3 DEF Beyond
  <2> QED BY <2>1, <2>2 DEF FieldsInv, Rest, Mismatches
<1>11. Contained' /\ Memory'
  BY DEF FieldsInv, Rest, Contained, Followed, Memory, Given, Held, Owed
<1>12. Disk'
  <2> SUFFICES ASSUME NEW f \in Followed
               PROVE  HasDocs(f)' /\ HasMarks(f)' /\ HasLog(f)' /\ MarksRight(f)'
    BY DEF Disk, Followed
  <2>1. HasDocs(f) /\ HasMarks(f) /\ HasLog(f) /\ MarksRight(f)
    BY DEF FieldsInv, Rest, Disk
  <2>2. HasDocs(f)' /\ HasLog(f)' /\ MarksRight(f)'
    BY <1>4, <2>1 DEF HasDocs, HasLog, MarksRight
  <2>3. HasMarks(f)'
    BY <2>1 DEF HasMarks, Settled, IsPut
  <2> QED BY <2>2, <2>3
<1>13. Rebuffered'
  BY <1>1 DEF Modes, Rebuffered
<1>14. Truncates'
  BY <1>2, <1>4 DEF FieldsInv, Rest, Truncates, Followed, Reached
<1>15. PutChecked'
  BY DEF FieldsInv, PutChecked
<1> QED
  BY <1>5, <1>6, <1>7, <1>8, <1>9, <1>10, <1>11, <1>12, <1>13, <1>14, <1>15
     DEF FieldsInv, Rest

LEMMA StartCommitSafe ==
    ASSUME FieldsInv, StartCommit
    PROVE  FieldsInv'
<1>1. /\ mode = "open" /\ ~stop
      /\ UNCHANGED <<mode, stop, schema, saved, index, writer, buf, seal,
                     marks, pend, files, lexCkpt, wal, nextSeq, put, history,
                     start, discarded, refused, unfollowed, change>>
      /\ lpc' = [lpc EXCEPT !["caller"] = "lexical"]
      /\ snap' = [snap EXCEPT !["caller"] = LastSeq]
  BY DEF StartCommit, schemaVars, writerVars, fieldVars, logVars, ghostVars
<1>2. Types /\ LastSeq \in Nat /\ \A l \in Ladders : snap[l] <= LastSeq
  BY DEF FieldsInv, Rest, Types, Numbers, LastSeq
<1>3. /\ lpc' \in [Ladders -> LadderSteps] /\ snap' \in [Ladders -> Nat]
      /\ lpc'["recovery"] = lpc["recovery"] /\ lpc'["changer"] = lpc["changer"]
      /\ snap'["changer"] = snap["changer"]
      /\ \A l \in Ladders :
             /\ (snap')[l] <= LastSeq
             /\ (lpc')[l] \in {"vector", "truncate"} =>
                    (lpc')[l] = lpc[l] /\ (snap')[l] = snap[l]
  BY <1>1, <1>2 DEF Types
<1>4. Changing'
  BY <1>1, <1>3 DEF FieldsInv, Rest, Changing, NewFieldSaves, Puts, IsPut
<1>5. change' \in Changes \cup {NoChange} /\ change' = change
  BY <1>1, <1>2 DEF Types
<1> QED BY <1>1, <1>3, <1>4, <1>5, ControlSafe

\* The commit of a schema change reaches every put on the log.
LEMMA BeginAfterCommitSafe ==
    ASSUME FieldsInv, NEW kind \in {"add", "recreate"},
           NEW f \in Fields, NEW d \in Dims, BeginAfterCommit(kind, f, d),
           kind = "add" <=> f \notin DOMAIN saved
    PROVE  FieldsInv'
<1>1. /\ mode = "open" /\ ~stop /\ change.step = "idle"
      /\ change' = [step |-> "commit", kind |-> kind, field |-> f, dim |-> d]
      /\ UNCHANGED <<mode, stop, schema, saved, index, writer, buf, seal,
                     marks, pend, files, lexCkpt, wal, nextSeq, put, history,
                     start, discarded, refused, unfollowed>>
      /\ lpc' = [lpc EXCEPT !["changer"] = "lexical"]
      /\ snap' = [snap EXCEPT !["changer"] = LastSeq]
  BY DEF BeginAfterCommit, Begin, schemaVars, writerVars, fieldVars, logVars,
         ghostVars
<1>2. /\ Types /\ LastSeq \in Nat /\ \A l \in Ladders : snap[l] <= LastSeq
      /\ \A r \in wal : r.seq <= LastSeq
  BY DEF FieldsInv, Rest, Types, Numbers, LastSeq
<1>3. /\ lpc' \in [Ladders -> LadderSteps] /\ snap' \in [Ladders -> Nat]
      /\ lpc'["recovery"] = lpc["recovery"] /\ lpc'["changer"] = "lexical"
      /\ snap'["changer"] = LastSeq
      /\ \A l \in Ladders :
             /\ (snap')[l] <= LastSeq
             /\ (lpc')[l] \in {"vector", "truncate"} =>
                    (lpc')[l] = lpc[l] /\ (snap')[l] = snap[l]
  BY <1>1, <1>2 DEF Types
<1>4. /\ change' \in Changes /\ change'.step = "commit" /\ change'.kind = kind
      /\ change'.field = f
  BY <1>1 DEF Changes
<1>5. \A r \in Puts(wal) : r.seq <= LastSeq
  BY <1>2 DEF Puts
<1>6. Puts(wal)' = Puts(wal) /\ saved' = saved
  BY <1>1 DEF Puts, IsPut
<1>7. Changing'
  BY <1>3, <1>4, <1>5, <1>6 DEF Changing, NewFieldSaves
<1> QED BY <1>1, <1>3, <1>4, <1>7, ControlSafe

LEMMA BeginAtOnceSafe ==
    ASSUME FieldsInv, NEW kind \in {"delete", "reindex"}, NEW f \in Fields,
           BeginAtOnce(kind, f)
    PROVE  FieldsInv'
<1>1. /\ mode = "open" /\ ~stop /\ change.step = "idle" /\ f \in DOMAIN schema
      /\ change' = [step |-> "apply", kind |-> kind, field |-> f,
                    dim |-> schema[f]]
      /\ UNCHANGED <<mode, stop, schema, saved, index, writer, buf, seal,
                     marks, pend, files, lexCkpt, wal, nextSeq, put, history,
                     start, discarded, refused, unfollowed, lpc, snap>>
  BY DEF BeginAtOnce, Begin, schemaVars, writerVars, fieldVars, logVars,
         ghostVars
<1>2. /\ Types /\ schema = saved /\ \A l \in Ladders : snap[l] <= LastSeq
      /\ saved[f] \in Dims
  BY <1>1, TableIs DEF FieldsInv, Rest, Types, Numbers
<1>3. /\ lpc' \in [Ladders -> LadderSteps] /\ snap' \in [Ladders -> Nat]
      /\ lpc'["recovery"] = lpc["recovery"]
      /\ \A l \in Ladders :
             /\ (snap')[l] <= LastSeq
             /\ (lpc')[l] \in {"vector", "truncate"} =>
                    (lpc')[l] = lpc[l] /\ (snap')[l] = snap[l]
  BY <1>1, <1>2 DEF Types
<1>4. /\ change' \in Changes /\ change'.step = "apply" /\ change'.kind = kind
      /\ change'.field = f /\ change'.dim = saved[f]
  BY <1>1, <1>2 DEF Changes
<1>5. Changing'
  BY <1>1, <1>2, <1>4 DEF Changing, NewFieldSaves
<1> QED BY <1>1, <1>3, <1>4, <1>5, ControlSafe

LEMMA CancelChangeSafe ==
    ASSUME FieldsInv, CancelChange
    PROVE  FieldsInv'
<1>1. /\ change.step \in {"commit", "apply"} /\ change' = NoChange
      /\ UNCHANGED <<mode, stop, schema, saved, index, writer, buf, seal,
                     marks, pend, files, lexCkpt, wal, nextSeq, put, history,
                     start, discarded, refused, unfollowed>>
      /\ lpc' = [lpc EXCEPT !["changer"] = "idle"]
      /\ snap' = [snap EXCEPT !["changer"] = 0]
  BY DEF CancelChange, schemaVars, writerVars, fieldVars, logVars, ghostVars
<1>2. /\ Types /\ \A l \in Ladders : snap[l] <= LastSeq
      /\ LastSeq \in Nat /\ mode = "open"
  BY <1>1 DEF FieldsInv, Rest, Types, Numbers, Modes, LastSeq
<1>3. /\ lpc' \in [Ladders -> LadderSteps] /\ snap' \in [Ladders -> Nat]
      /\ lpc'["recovery"] = lpc["recovery"]
      /\ \A l \in Ladders :
             /\ (snap')[l] <= LastSeq /\ (snap')[l] <= snap[l]
             /\ (lpc')[l] \in {"vector", "truncate"} =>
                    (lpc')[l] = lpc[l] /\ (snap')[l] = snap[l]
  BY <1>1, <1>2 DEF Types
<1>4. Changing' /\ change' \in Changes \cup {NoChange} /\ change'.step # "save"
  BY <1>1 DEF Changing, NoChange
<1> QED BY <1>1, <1>2, <1>3, <1>4, ControlSafe

-----------------------------------------------------------------------------
(* The commit ladder.                                                      *)

\* A step of ladder l: it goes on with step s, or ends.
StepsTo(l, s, succeeded) ==
    IF s = "idle" THEN Settle(l, succeeded) ELSE GoesOn(l, s)

\* Who runs a ladder, and what its step does to the ladders, to the mode and
\* to the schema change that waits for it.
LEMMA LadderControl ==
    ASSUME FieldInv, FieldsInv, NEW l \in Ladders, lpc[l] # "idle",
           NEW s \in LadderSteps, NEW b \in BOOLEAN, StepsTo(l, s, b)
    PROVE  /\ lpc' \in [Ladders -> LadderSteps] /\ snap' \in [Ladders -> Nat]
           /\ (lpc')[l] = s
           /\ \A k \in Ladders :
                  /\ k # l => (lpc')[k] = lpc[k] /\ (snap')[k] = snap[k]
                  /\ (lpc')[k] # "idle" => (snap')[k] = snap[k]
                  /\ (snap')[k] <= snap[k]
           /\ change' \in Changes \cup {NoChange}
           /\ mode' \in {"open", "recovering", "failed"}
           /\ l # "recovery" => mode = "open" /\ mode' = "open"
           /\ l = "recovery" =>
                  /\ mode = "recovering" /\ change.step = "idle"
                  /\ mode' = IF s # "idle" THEN "recovering"
                             ELSE IF b THEN "open" ELSE "failed"
           /\ l # "changer" \/ s # "idle" => change' = change
           /\ l = "changer" => change.step = "commit"
           /\ l = "changer" /\ s = "idle" /\ ~b => change' = NoChange
           /\ l = "changer" /\ s = "idle" /\ b =>
                  /\ change'.step = "apply" /\ change'.kind = change.kind
                  /\ change'.field = change.field
<1>1. /\ Types /\ Modes /\ lpc \in [Ladders -> LadderSteps]
      /\ snap \in [Ladders -> Nat] /\ change \in Changes \cup {NoChange}
  BY DEF FieldsInv, Rest, Types
<1>2. /\ l = "changer" => change.step = "commit" /\ change \in Changes
      /\ l # "recovery" => mode = "open"
      /\ l = "recovery" => mode = "recovering" /\ change.step = "idle"
  BY <1>1 DEF FieldInv, LadderOfChange, Modes, NoChange
<1>3. CASE s # "idle"
  <2>1. /\ lpc' = [lpc EXCEPT ![l] = s]
        /\ UNCHANGED <<mode, change, snap>>
    BY <1>3 DEF StepsTo, GoesOn
  <2>2. \A k \in Ladders : (snap')[k] <= snap[k]
    BY <1>1, <2>1
  <2> QED BY <1>1, <1>2, <1>3, <2>1, <2>2
<1>4. CASE s = "idle"
  <2>1. /\ lpc' = [lpc EXCEPT ![l] = "idle"]
        /\ snap' = [snap EXCEPT ![l] = 0]
        /\ mode' = IF l # "recovery" THEN mode
                   ELSE IF b THEN "open" ELSE "failed"
        /\ change' = IF l # "changer" THEN change
                     ELSE IF b THEN [change EXCEPT !.step = "apply"]
                     ELSE NoChange
    BY <1>4 DEF StepsTo, Settle
  <2>2. /\ lpc' \in [Ladders -> LadderSteps] /\ snap' \in [Ladders -> Nat]
        /\ (lpc')[l] = "idle"
        /\ \A k \in Ladders :
               /\ k # l => (lpc')[k] = lpc[k] /\ (snap')[k] = snap[k]
               /\ (lpc')[k] # "idle" => (snap')[k] = snap[k]
               /\ (snap')[k] <= snap[k]
    BY <1>1, <2>1
  <2>3. l = "changer" /\ b =>
            /\ change' \in Changes
            /\ change'.step = "apply" /\ change'.kind = change.kind
            /\ change'.field = change.field
    <3> SUFFICES ASSUME l = "changer", b
                 PROVE  /\ change' \in Changes
                        /\ change'.step = "apply" /\ change'.kind = change.kind
                        /\ change'.field = change.field
      OBVIOUS
    <3>1. change' = [change EXCEPT !.step = "apply"] /\ change \in Changes
      BY <1>2, <2>1
    <3> QED BY <3>1 DEF Changes
  <2>4. change' \in Changes \cup {NoChange}
    BY <1>1, <2>1, <2>3
  <2>5. /\ l # "recovery" => mode = "open" /\ mode' = "open"
        /\ l = "recovery" =>
               /\ mode = "recovering" /\ change.step = "idle"
               /\ mode' = IF b THEN "open" ELSE "failed"
    BY <1>2, <2>1
  <2>6. /\ l # "changer" => change' = change
        /\ l = "changer" => change.step = "commit"
        /\ l = "changer" /\ ~b => change' = NoChange
    BY <1>2, <2>1
  <2> QED BY <1>4, <2>2, <2>3, <2>4, <2>5, <2>6
<1> QED BY <1>3, <1>4

\* What follows from it, if the fields, the schema and the last number given
\* stay, and no put joins the log.
LEMMA LadderKept ==
    ASSUME FieldInv, FieldsInv, NEW l \in Ladders, lpc[l] # "idle",
           NEW s \in LadderSteps, NEW b \in BOOLEAN, StepsTo(l, s, b),
           UNCHANGED <<stop, saved, index, nextSeq>>,
           mode' = "recovering" => seal' = Each("open"),
           wal' \subseteq wal,
           l = "changer" /\ s = "idle" /\ b => Puts(wal)' = {}
    PROVE  /\ Modes' /\ Changing'
           /\ \A f : PendingDelete(f)' <=> PendingDelete(f)
           /\ \A f : (NewFieldSaves /\ change.field = f)' <=>
                         NewFieldSaves /\ change.field = f
<1>1. /\ lpc' \in [Ladders -> LadderSteps] /\ snap' \in [Ladders -> Nat]
      /\ (lpc')[l] = s
      /\ \A k \in Ladders :
             /\ k # l => (lpc')[k] = lpc[k] /\ (snap')[k] = snap[k]
             /\ (lpc')[k] # "idle" => (snap')[k] = snap[k]
      /\ l # "recovery" => mode = "open" /\ mode' = "open"
      /\ l = "recovery" =>
             /\ mode = "recovering" /\ change.step = "idle"
             /\ mode' = IF s # "idle" THEN "recovering"
                        ELSE IF b THEN "open" ELSE "failed"
      /\ l # "changer" \/ s # "idle" => change' = change
      /\ l = "changer" => change.step = "commit"
      /\ l = "changer" /\ s = "idle" /\ ~b => change' = NoChange
      /\ l = "changer" /\ s = "idle" /\ b =>
             /\ change'.step = "apply" /\ change'.kind = change.kind
             /\ change'.field = change.field
  BY LadderControl
<1>2. Types /\ Modes /\ Changing /\ LastSeq' = LastSeq
  BY DEF FieldsInv, Rest, LastSeq
<1>3. Modes'
  <2>1. CASE l = "recovery"
    <3>1. /\ (lpc')["caller"] = lpc["caller"] /\ lpc["caller"] = "idle"
          /\ change' = change /\ ~stop
      BY <1>1, <1>2, <2>1 DEF Modes, Types
    <3>2. mode' = "recovering" =>
              snap'["recovery"] = LastSeq /\ seal' = Each("open") /\ index = saved
      BY <1>1, <1>2, <2>1 DEF Modes
    <3>3. (lpc')["recovery"] # "idle" <=> mode' = "recovering"
      BY <1>1, <2>1
    <3>4. mode' # "closed"
      BY <1>1, <2>1
    <3>5. change'.step = "idle"
      BY <1>1, <2>1
    <3> QED BY <1>2, <3>1, <3>2, <3>3, <3>4, <3>5 DEF Modes
  <2>2. CASE l # "recovery"
    BY <1>1, <1>2, <2>2 DEF Modes
  <2> QED BY <2>1, <2>2
<1>4. Puts(wal)' \subseteq Puts(wal)
  BY DEF Puts, IsPut
<1>5. Changing'
  <2>1. CASE l = "changer" /\ s = "idle"
    <3>1. CASE ~b
      BY <1>1, <2>1, <3>1 DEF Changing, NoChange
    <3>2. CASE b
      <4>1. /\ change'.step = "apply" /\ change'.kind = change.kind
            /\ change'.field = change.field /\ Puts(wal)' = {}
            /\ change.step = "commit"
        BY <1>1, <2>1, <3>2
      <4>2. /\ change.kind = "add" <=> change.field \notin DOMAIN saved
            /\ change.kind \in {"add", "recreate"}
        BY <1>2, <4>1 DEF Changing
      <4> QED BY <4>1, <4>2 DEF Changing, NewFieldSaves
    <3> QED BY <3>1, <3>2
  <2>2. CASE ~(l = "changer" /\ s = "idle")
    <3>1. change' = change
      BY <1>1, <2>2
    <3>2. /\ lpc["changer"] # "idle" => (lpc')["changer"] # "idle"
          /\ lpc["changer"] # "idle" => (snap')["changer"] = snap["changer"]
      BY <1>1, <2>2
    <3>3. /\ change.step = "commit" =>
                 \A r \in Puts(wal)' : r.seq <= (snap')["changer"]
          /\ change.step \notin {"idle", "commit"}
                /\ change.kind \in {"add", "recreate"} => Puts(wal)' = {}
      BY <1>2, <1>4, <3>2 DEF Changing
    <3> QED BY <1>2, <3>1, <3>2, <3>3 DEF Changing, NewFieldSaves
  <2> QED BY <2>1, <2>2
<1>6. /\ \A f : PendingDelete(f)' <=> PendingDelete(f)
      /\ \A f : (NewFieldSaves /\ change.field = f)' <=>
                    NewFieldSaves /\ change.field = f
  <2>1. change' = change \/ (change.step # "save" /\ change'.step # "save")
    BY <1>1 DEF NoChange
  <2> QED BY <2>1 DEF PendingDelete, NewFieldSaves
<1> QED BY <1>3, <1>5, <1>6

\* No commit has reached the records that a lexical commit passes by.
LEMMA CommitLexicalSafe ==
    ASSUME FieldInv, FieldsInv, NEW l \in Ladders, CommitLexical(l)
    PROVE  FieldsInv'
<1>1. /\ lpc[l] = "lexical"
      /\ UNCHANGED <<stop, schema, saved, index, writer, buf, seal,
                     marks, pend, files, wal, nextSeq, put, history,
                     start, discarded, refused, unfollowed>>
  BY DEF CommitLexical, schemaVars, writerVars, fieldVars, logVars, ghostVars
<1>2. \E s \in {"vector", "idle"} :
          /\ StepsTo(l, s, FALSE)
          /\ lexCkpt' = IF s = "vector" THEN Larger(lexCkpt, snap[l]) ELSE lexCkpt
  BY DEF CommitLexical, StepsTo
<1>3. PICK s \in {"vector", "idle"} :
          /\ StepsTo(l, s, FALSE)
          /\ lexCkpt' = IF s = "vector" THEN Larger(lexCkpt, snap[l]) ELSE lexCkpt
  BY <1>2
<1>4. /\ lpc' \in [Ladders -> LadderSteps] /\ snap' \in [Ladders -> Nat]
      /\ (lpc')[l] = s
      /\ \A k \in Ladders :
             /\ k # l => (lpc')[k] = lpc[k] /\ (snap')[k] = snap[k]
             /\ (lpc')[k] # "idle" => (snap')[k] = snap[k]
             /\ (snap')[k] <= snap[k]
      /\ change' \in Changes \cup {NoChange}
      /\ mode' \in {"open", "recovering", "failed"}
      /\ l # "recovery" => mode = "open" /\ mode' = "open"
      /\ l = "recovery" =>
             mode = "recovering" /\ mode' \in {"recovering", "failed"}
  BY <1>1, <1>3, LadderControl
<1>5. Types /\ Numbers /\ Modes /\ LastSeq' = LastSeq
  BY <1>1 DEF FieldsInv, Rest, LastSeq
<1>6. mode' = "recovering" => seal' = Each("open")
  BY <1>1, <1>4, <1>5 DEF Modes
<1>7. /\ Modes' /\ Changing'
      /\ \A f : PendingDelete(f)' <=> PendingDelete(f)
      /\ \A f : (NewFieldSaves /\ change.field = f)' <=>
                    NewFieldSaves /\ change.field = f
  BY <1>1, <1>3, <1>6, LadderKept
<1>8. /\ lexCkpt' \in Nat /\ lexCkpt' >= lexCkpt
      /\ lexCkpt' = lexCkpt \/ lexCkpt' = snap[l]
      /\ s = "vector" => lexCkpt' >= snap[l]
  BY <1>3, <1>5 DEF Types, Larger
<1>9. Types'
  BY <1>1, <1>4, <1>5, <1>8 DEF Types
<1>10. Numbers'
  <2>1. \A k \in Ladders :
            /\ (snap')[k] <= LastSeq
            /\ (lpc')[k] \in {"vector", "truncate"} => (snap')[k] <= lexCkpt'
    <3> SUFFICES ASSUME NEW k \in Ladders
                 PROVE  /\ (snap')[k] <= LastSeq
                        /\ (lpc')[k] \in {"vector", "truncate"} =>
                               (snap')[k] <= lexCkpt'
      OBVIOUS
    <3>1. /\ snap[k] \in Nat /\ (snap')[k] \in Nat /\ lexCkpt \in Nat
          /\ LastSeq \in Nat /\ snap[k] <= LastSeq /\ (snap')[k] <= snap[k]
          /\ lpc[k] \in {"vector", "truncate"} => snap[k] <= lexCkpt
      BY <1>4, <1>5 DEF Types, Numbers, LastSeq
    <3>2. (lpc')[k] \in {"vector", "truncate"} => (snap')[k] <= lexCkpt'
      <4>1. CASE k = l
        BY <1>3, <1>4, <1>8, <3>1, <4>1
      <4>2. CASE k # l
        BY <1>4, <1>8, <3>1, <4>2
      <4> QED BY <4>1, <4>2
    <3> QED BY <3>1, <3>2
  <2>2. /\ lexCkpt' <= LastSeq
        /\ lexCkpt' = LastSeq \/ \E r \in wal : r.seq = LastSeq
    <3>1. /\ lexCkpt <= LastSeq /\ snap[l] <= LastSeq /\ LastSeq \in Nat
          /\ lexCkpt \in Nat
          /\ lexCkpt = LastSeq \/ \E r \in wal : r.seq = LastSeq
      BY <1>5 DEF Numbers, Types, LastSeq
    <3> QED BY <1>8, <3>1
  <2>3. \A r \in wal' \cup history' : RecordShape(r)' /\ r.seq <= LastSeq
    BY <1>1, <1>5 DEF Numbers, RecordShape, IsPut
  <2>4. LastSeq' <= MaxSeq
    BY <1>5 DEF Numbers
  <2>5. \A f \in Fields :
           /\ buf[f] \subseteq 1..LastSeq /\ marks[f] \subseteq 1..LastSeq
           /\ files[f].docs \subseteq 1..LastSeq
           /\ files[f].marks \subseteq 1..LastSeq
           /\ files[f].ckpt <= LastSeq /\ pend[f] <= LastSeq
           /\ start[f] <= LastSeq
    BY <1>5 DEF Numbers
  <2> QED BY <1>1, <1>5, <2>1, <2>2, <2>3, <2>4, <2>5 DEF Numbers
<1>11. \A f : Given(f)' = Given(f)
  BY <1>1 DEF Given, Puts, IsPut
<1>12. Registered'
  <2>1. \A f \in DOMAIN saved \ DOMAIN index :
            mode' = "open" /\ ~PendingDelete(f) =>
                /\ Given(f) # {} => stop
                /\ \A d \in Given(f), k \in Ladders : d > (snap')[k]
    <3> SUFFICES ASSUME NEW f \in DOMAIN saved \ DOMAIN index,
                        mode' = "open", ~PendingDelete(f)
                 PROVE  /\ Given(f) # {} => stop
                        /\ \A d \in Given(f), k \in Ladders : d > (snap')[k]
      OBVIOUS
    <3>1. mode = "open"
      BY <1>4
    <3>2. /\ Given(f) # {} => stop
          /\ \A d \in Given(f), k \in Ladders : d > snap[k]
      BY <3>1 DEF FieldsInv, Rest, Registered
    <3>3. \A d \in Given(f) : d \in Nat
      BY <1>5, GivenIs DEF Numbers, RecordShape
    <3> QED BY <1>4, <1>5, <3>2, <3>3 DEF Types
  <2>2. /\ \A f \in DOMAIN index :
               /\ files[f].dim = index[f]
               /\ \/ f \in DOMAIN saved /\ index[f] = saved[f]
                  \/ (NewFieldSaves /\ change.field = f)'
        /\ \A f \in DOMAIN saved :
               /\ files[f].docs # {} \/ buf[f] # {} => files[f].dim = saved[f]
               /\ f \in writer => f \in DOMAIN index \/ PendingDelete(f)'
    BY <1>7 DEF FieldsInv, Rest, Registered
  <2> QED BY <1>1, <1>7, <1>11, <2>1, <2>2 DEF Registered
<1>13. Buffers' /\ Log'
  <2>1. mode' = "open" => mode = "open"
    BY <1>4
  <2>2. Settled' <=> Settled
    BY <1>1, <1>3, <1>4 DEF Settled
  <2> QED BY <1>1, <2>1, <2>2 DEF FieldsInv, Rest, Buffers, Log, IsPut
<1>14. Mismatches'
  <2>1. \A r : Mismatch(r)' <=> Mismatch(r)
    BY <1>1 DEF Mismatch, IsPut
  <2>2. ASSUME NEW r \in wal, Beyond(r.seq)
        PROVE  Beyond(r.seq)'
    <3>1. \A k \in Ladders : r.seq > (snap')[k]
      BY <1>4, <1>5, <2>2 DEF Beyond, Numbers, Types, RecordShape
    <3>2. r.seq > lexCkpt'
      BY <1>8, <2>2 DEF Beyond
    <3>3. \A f \in Fields : r.seq > files[f].ckpt /\ r.seq > pend[f]
      BY <2>2 DEF Beyond
    <3> QED BY <1>1, <3>1, <3>2, <3>3 DEF Beyond
  <2>3. /\ mode' = "open" => mode = "open"
        /\ mode' = "recovering" => mode = "recovering"
        /\ mode' # "refused"
    BY <1>4
  <2> QED BY <1>1, <2>1, <2>2, <2>3 DEF FieldsInv, Rest, Mismatches
<1>15. Contained' /\ Memory'
  <2>1. mode \in {"open", "recovering", "failed"}
    BY <1>4
  <2> QED
    BY <1>1, <2>1
       DEF FieldsInv, Rest, Contained, Followed, Memory, Given, Held, Owed
<1>16. LowestCkpt(saved)' = LowestCkpt(saved)
  BY <1>1 DEF LowestCkpt
<1>17. Disk'
  <2> SUFFICES ASSUME NEW f \in Followed
               PROVE  HasDocs(f)' /\ HasMarks(f)' /\ HasLog(f)' /\ MarksRight(f)'
    BY <1>1 DEF Disk, Followed
  <2>1. HasDocs(f) /\ HasMarks(f) /\ HasLog(f) /\ MarksRight(f)
    BY DEF FieldsInv, Rest, Disk
  <2>2. HasDocs(f)' /\ HasLog(f)' /\ MarksRight(f)'
    BY <1>1, <1>11, <2>1 DEF HasDocs, HasLog, MarksRight
  <2>3. Settled' <=> Settled
    BY <1>1, <1>3, <1>4 DEF Settled
  <2>4. HasMarks(f)'
    BY <1>1, <1>16, <2>1, <2>3 DEF HasMarks, Redone, IsPut
  <2> QED BY <2>2, <2>4
<1>18. Rebuffered'
  <2>1. (lpc')["recovery"] \in {"lexical", "vector"} =>
            lpc["recovery"] \in {"lexical", "vector"}
    BY <1>1, <1>4
  <2>2. \A r : Mismatch(r)' <=> Mismatch(r)
    BY <1>1 DEF Mismatch, IsPut
  <2> QED BY <1>1, <1>16, <2>1, <2>2 DEF FieldsInv, Rest, Rebuffered, IsPut
<1>19. Truncates'
  <2>1. \A k \in Ladders : (lpc')[k] = "truncate" =>
            lpc[k] = "truncate" /\ (snap')[k] = snap[k]
    BY <1>3, <1>4
  <2> QED BY <1>1, <1>7, <1>11, <2>1
          DEF FieldsInv, Rest, Truncates, Followed, Reached
<1>20. PutChecked'
  <2>1. put.step # "idle" => mode' = "open"
    BY <1>4 DEF FieldsInv, PutChecked
  <2> QED BY <1>1, <2>1 DEF FieldsInv, PutChecked
<1> QED
  BY <1>7, <1>9, <1>10, <1>12, <1>13, <1>14, <1>15, <1>17, <1>18, <1>19, <1>20
     DEF FieldsInv, Rest

\* What a truncation takes away every field that follows the log has.
LEMMA TruncateLogSafe ==
    ASSUME FieldInv, FieldsInv, NEW l \in Ladders, TruncateLog(l)
    PROVE  FieldsInv'
<1>1. /\ lpc[l] = "truncate" /\ wal' = {r \in wal : r.seq > snap[l]}
      /\ unfollowed' = IF change.step = "save" /\ change.kind = "delete"
                       THEN unfollowed \cup {change.field} ELSE unfollowed
      /\ UNCHANGED <<stop, schema, saved, index, writer, buf, seal,
                     marks, pend, files, lexCkpt, nextSeq, put, history,
                     start, discarded, refused>>
  BY DEF TruncateLog, schemaVars, writerVars, fieldVars
<1>2. StepsTo(l, "idle", TRUE)
  BY DEF TruncateLog, StepsTo
<1>3. /\ lpc' \in [Ladders -> LadderSteps] /\ snap' \in [Ladders -> Nat]
      /\ (lpc')[l] = "idle"
      /\ \A k \in Ladders :
             /\ k # l => (lpc')[k] = lpc[k] /\ (snap')[k] = snap[k]
             /\ (lpc')[k] # "idle" => (snap')[k] = snap[k]
             /\ (snap')[k] <= snap[k]
      /\ change' \in Changes \cup {NoChange} /\ mode' = "open"
      /\ l # "recovery" => mode = "open"
      /\ l = "recovery" => mode = "recovering"
      /\ l = "changer" => change.step = "commit"
  BY <1>1, <1>2, LadderControl
<1>4. Types /\ Numbers /\ Modes /\ LastSeq' = LastSeq /\ LastSeq \in Nat
  BY <1>1 DEF FieldsInv, Rest, LastSeq, Types
<1>5. Settled /\ Settled'
  BY <1>1, <1>3 DEF Settled
<1>6. l = "recovery" => wal' = {} /\ index = saved
  BY <1>1, <1>3, <1>4 DEF Modes, Numbers, RecordShape
<1>7. l = "changer" => Puts(wal)' = {}
  <2> SUFFICES ASSUME l = "changer", NEW r \in wal', IsPut(r) PROVE FALSE
    BY DEF Puts, IsPut
  <2>1. r \in Puts(wal) /\ r.seq > snap["changer"]
    BY <1>1 DEF Puts
  <2>2. r.seq <= snap["changer"]
    BY <1>3, <2>1 DEF FieldsInv, Rest, Changing
  <2>3. r.seq \in Nat /\ snap["changer"] \in Nat
    BY <1>1, <1>4 DEF Types, Numbers, RecordShape
  <2> QED BY <2>1, <2>2, <2>3
<1>8. /\ Modes' /\ Changing'
      /\ \A f : PendingDelete(f)' <=> PendingDelete(f)
      /\ \A f : (NewFieldSaves /\ change.field = f)' <=>
                    NewFieldSaves /\ change.field = f
  <2>1. wal' \subseteq wal /\ mode' # "recovering"
    BY <1>1, <1>3
  <2> QED BY <1>1, <1>2, <1>7, <2>1, LadderKept
<1>9. /\ Followed' \subseteq Followed
      /\ \A f \in Followed' : ~PendingDelete(f)
  BY <1>1 DEF Followed, PendingDelete
<1>10. \A f : Given(f)' = Given(f)
  BY <1>1 DEF Given, Puts, IsPut
<1>11. Types'
  BY <1>1, <1>3, <1>4 DEF Types
<1>12. Numbers'
  <2>1. \A k \in Ladders :
            /\ (snap')[k] <= LastSeq
            /\ (lpc')[k] \in {"vector", "truncate"} => (snap')[k] <= lexCkpt
    <3> SUFFICES ASSUME NEW k \in Ladders
                 PROVE  /\ (snap')[k] <= LastSeq
                        /\ (lpc')[k] \in {"vector", "truncate"} =>
                               (snap')[k] <= lexCkpt
      OBVIOUS
    <3>1. /\ snap[k] \in Nat /\ (snap')[k] \in Nat
          /\ snap[k] <= LastSeq /\ (snap')[k] <= snap[k]
          /\ lpc[k] \in {"vector", "truncate"} => snap[k] <= lexCkpt
      BY <1>3, <1>4 DEF Types, Numbers
    <3> QED BY <1>3, <1>4, <3>1
  <2>2. lexCkpt = LastSeq \/ \E r \in wal' : r.seq = LastSeq
    <3>1. /\ lexCkpt <= LastSeq /\ snap[l] <= lexCkpt /\ snap[l] \in Nat
          /\ lexCkpt \in Nat
          /\ lexCkpt = LastSeq \/ \E r \in wal : r.seq = LastSeq
      BY <1>1, <1>4 DEF Numbers, Types
    <3> QED BY <1>1, <1>4, <3>1
  <2>3. \A r \in wal' \cup history' : RecordShape(r)' /\ r.seq <= LastSeq
    BY <1>1, <1>4 DEF Numbers, RecordShape, IsPut
  <2>4. /\ LastSeq' <= MaxSeq /\ lexCkpt <= LastSeq
        /\ \A f \in Fields :
               /\ buf[f] \subseteq 1..LastSeq /\ marks[f] \subseteq 1..LastSeq
               /\ files[f].docs \subseteq 1..LastSeq
               /\ files[f].marks \subseteq 1..LastSeq
               /\ files[f].ckpt <= LastSeq /\ pend[f] <= LastSeq
               /\ start[f] <= LastSeq
    BY <1>4 DEF Numbers
  <2> QED BY <1>1, <1>4, <2>1, <2>2, <2>3, <2>4 DEF Numbers
<1>13. Registered'
  <2>1. ASSUME NEW f \in DOMAIN saved \ DOMAIN index, ~PendingDelete(f)
        PROVE  /\ Given(f) # {} => stop
               /\ \A d \in Given(f), k \in Ladders : d > (snap')[k]
    <3>1. mode = "open"
      BY <1>3, <1>6
    <3>2. /\ Given(f) # {} => stop
          /\ \A d \in Given(f), k \in Ladders : d > snap[k]
      BY <2>1, <3>1 DEF FieldsInv, Rest, Registered
    <3>3. \A d \in Given(f) : d \in Nat
      BY <1>4, GivenIs DEF Numbers, RecordShape
    <3> QED BY <1>3, <1>4, <3>2, <3>3 DEF Types
  <2>2. /\ \A f \in DOMAIN index :
               /\ files[f].dim = index[f]
               /\ \/ f \in DOMAIN saved /\ index[f] = saved[f]
                  \/ (NewFieldSaves /\ change.field = f)'
        /\ \A f \in DOMAIN saved :
               /\ files[f].docs # {} \/ buf[f] # {} => files[f].dim = saved[f]
               /\ f \in writer => f \in DOMAIN index \/ PendingDelete(f)'
    BY <1>8 DEF FieldsInv, Rest, Registered
  <2> QED BY <1>1, <1>8, <1>10, <2>1, <2>2 DEF Registered
<1>14. Buffers'
  BY <1>1, <1>5 DEF FieldsInv, Rest, Buffers
<1>15. Log'
  <2>1. \A r, s \in wal' \cup history' : r.seq = s.seq => r = s
    BY <1>1 DEF FieldsInv, Rest, Log
  <2>2. ASSUME NEW r \in wal', NEW s \in history', s.seq > r.seq
        PROVE  s \in wal'
    <3>1. s \in wal
      BY <1>1, <2>2 DEF FieldsInv, Rest, Log
    <3>2. s.seq \in Nat /\ r.seq \in Nat /\ snap[l] \in Nat /\ r.seq > snap[l]
      BY <1>1, <1>4, <3>1 DEF Numbers, RecordShape, Types
    <3> QED BY <1>1, <2>2, <3>1, <3>2
  <2>3. wal' \subseteq history'
    BY <1>1, <1>3, <1>6 DEF FieldsInv, Rest, Log
  <2>4. \A r \in wal' :
            IsPut(r) /\ r.field \in DOMAIN saved =>
                r.into /\ r.seq > start[r.field]
    BY <1>1 DEF FieldsInv, Rest, Log
  <2> QED BY <1>1, <2>1, <2>2, <2>3, <2>4 DEF Log, IsPut
<1>16. Mismatches'
  <2>1. \A r : Mismatch(r)' => Mismatch(r) /\ r \in wal'
    BY <1>1 DEF Mismatch, IsPut
  <2>2. ASSUME NEW r \in wal', Beyond(r.seq)
        PROVE  Beyond(r.seq)'
    <3>1. \A k \in Ladders : r.seq > (snap')[k]
      BY <1>1, <1>3, <1>4, <2>2 DEF Beyond, Numbers, Types, RecordShape
    <3> QED BY <1>1, <2>2, <3>1 DEF Beyond
  <2>3. \A r \in wal' : r \in history'
    BY <1>1, <1>3, <1>6 DEF FieldsInv, Rest, Log
  <2>4. ASSUME NEW r \in wal', Mismatch(r)'
        PROVE  /\ r.seq \in refused
               /\ r.doc \notin files[r.field].docs
               /\ r.doc \notin buf[r.field]
               /\ r.seq \in discarded \/ Beyond(r.seq)'
               /\ stop
    <3>1. r \in wal /\ Mismatch(r) /\ mode = "open"
      BY <1>1, <1>3, <1>6, <2>1, <2>4
    <3>2. /\ r.seq \in refused
          /\ r.doc \notin files[r.field].docs
          /\ r.doc \notin buf[r.field]
          /\ r.seq \in discarded \/ Beyond(r.seq)
      BY <3>1 DEF FieldsInv, Rest, Mismatches
    <3>3. stop
      BY <3>1 DEF FieldsInv, Rest, Mismatches
    <3> QED BY <2>2, <3>2, <3>3
  <2>5. discarded \subseteq refused
    BY DEF FieldsInv, Rest, Mismatches
  <2> QED BY <1>1, <1>3, <2>3, <2>4, <2>5 DEF Mismatches
<1>17. Contained' /\ Memory'
  <2>1. mode \in {"open", "recovering", "failed"} /\ unfollowed \subseteq unfollowed'
    BY <1>1, <1>3
  <2> QED
    BY <1>1, <2>1
       DEF FieldsInv, Rest, Contained, Followed, Memory, Given, Held, Owed
<1>18. Disk'
  <2> SUFFICES ASSUME NEW f \in Followed'
               PROVE  HasDocs(f)' /\ HasMarks(f)' /\ HasLog(f)' /\ MarksRight(f)'
    BY DEF Disk
  <2>1. HasDocs(f) /\ HasMarks(f) /\ HasLog(f) /\ MarksRight(f)
    BY <1>9 DEF FieldsInv, Rest, Disk
  <2>2. HasDocs(f)' /\ MarksRight(f)'
    BY <1>1, <1>10, <2>1 DEF HasDocs, MarksRight
  <2>3. HasMarks(f)'
    BY <1>1, <1>5, <2>1 DEF HasMarks, IsPut
  <2>4. Reached(f, snap[l])
    BY <1>1, <1>9 DEF FieldsInv, Rest, Truncates
  <2>5. HasLog(f)'
    BY <1>1, <1>10, <2>1, <2>4 DEF HasLog, Reached
  <2> QED BY <2>2, <2>3, <2>5
<1>19. Rebuffered'
  BY <1>8, <1>3 DEF Modes, Rebuffered
<1>20. Truncates'
  <2>1. \A k \in Ladders : (lpc')[k] = "truncate" =>
            lpc[k] = "truncate" /\ (snap')[k] = snap[k]
    BY <1>3
  <2> QED BY <1>1, <1>8, <1>9, <1>10, <2>1
          DEF FieldsInv, Rest, Truncates, Reached
<1>21. PutChecked'
  BY <1>1, <1>3 DEF FieldsInv, PutChecked
<1> QED
  BY <1>8, <1>11, <1>12, <1>13, <1>14, <1>15, <1>16, <1>17, <1>18, <1>19,
     <1>20, <1>21 DEF FieldsInv, Rest

\* The writer commits every field it has, or fails for some of them.
LEMMA WriterCommitsFacts ==
    ASSUME FieldsInv, WriterCommits
    PROVE  /\ WithSealed(Sealable) \in [Fields -> Directory]
           /\ \A f \in Fields :
                  /\ WithSealed(Sealable)[f].docs = files[f].docs \cup buf[f]
                  /\ WithSealed(Sealable)[f].ckpt = files[f].ckpt
                  /\ WithSealed(Sealable)[f].dim = files[f].dim
                  /\ WithSealed(Sealable)[f].marks = files[f].marks
<1>1. Types /\ Buffers
  BY DEF FieldsInv, Rest
<1>2. /\ WithSealed(Sealable) \in [Fields -> Directory]
      /\ \A f \in Fields :
             /\ WithSealed(Sealable)[f].ckpt = files[f].ckpt
             /\ WithSealed(Sealable)[f].dim = files[f].dim
             /\ WithSealed(Sealable)[f].marks = files[f].marks
             /\ WithSealed(Sealable)[f].docs =
                    IF f \in Sealable THEN files[f].docs \cup buf[f]
                    ELSE files[f].docs
  BY <1>1, SealedIs DEF Types
<1>3. ASSUME NEW f \in Fields, f \notin Sealable
      PROVE  buf[f] \subseteq files[f].docs
  <2>1. buf[f] # {} => f \in writer
    BY <1>1 DEF Buffers
  <2>2. f \in writer => seal[f] # "dirty"
    BY DEF WriterCommits, Unsealable
  <2>3. buf[f] # {} => seal[f] = "sealed"
    BY <1>1, <1>3, <2>1, <2>2 DEF Sealable, Types
  <2> QED BY <1>1, <2>3 DEF Buffers
<1> QED BY <1>2, <1>3

LEMMA DroppedFacts ==
    ASSUME DropWriter
    PROVE  /\ writer' = {} /\ buf' \in [Fields -> SUBSET Nat]
           /\ seal' = Each("open")
           /\ seal' \in [Fields -> {"open", "sealed", "dirty"}]
           /\ \A f \in Fields : (buf')[f] = {} /\ (seal')[f] = "open"
BY DEF DropWriter, Each

LEMMA WriterFailsFacts ==
    ASSUME FieldsInv, WriterCommitFails
    PROVE  /\ files' \in [Fields -> Directory]
           /\ writer' = writer /\ buf' = buf
           /\ seal' \in [Fields -> {"open", "sealed", "dirty"}]
           /\ \A f \in Fields :
                  /\ (files')[f].ckpt = files[f].ckpt
                  /\ (files')[f].dim = files[f].dim
                  /\ (files')[f].marks = files[f].marks
                  /\ (files')[f].docs = files[f].docs
                        \/ (files')[f].docs = files[f].docs \cup buf[f]
                  /\ \/ (seal')[f] = seal[f]
                     \/ /\ (seal')[f] = "sealed" /\ f \in writer
                        /\ (files')[f].docs = files[f].docs \cup buf[f]
<1>1. PICK failing \in SUBSET Sealable :
          /\ files' = WithSealed(Sealable \ failing)
          /\ seal' = [f \in Fields |-> IF f \in Sealable \ failing
                                       THEN "sealed" ELSE seal[f]]
  BY DEF WriterCommitFails
<1>2. Types
  BY DEF FieldsInv, Rest
<1>3. /\ files' \in [Fields -> Directory]
      /\ \A f \in Fields :
             /\ (files')[f].ckpt = files[f].ckpt
             /\ (files')[f].dim = files[f].dim
             /\ (files')[f].marks = files[f].marks
             /\ (files')[f].docs = IF f \in Sealable \ failing
                                   THEN files[f].docs \cup buf[f]
                                   ELSE files[f].docs
  <2>1. PICK S : S = Sealable \ failing
    OBVIOUS
  <2>2. files \in [Fields -> Directory] /\ buf \in [Fields -> SUBSET Nat]
    BY <1>2 DEF Types
  <2>3. files' = WithSealed(S)
    BY <1>1, <2>1
  <2>4. /\ WithSealed(S) \in [Fields -> Directory]
        /\ \A f \in Fields :
               /\ WithSealed(S)[f].ckpt = files[f].ckpt
               /\ WithSealed(S)[f].dim = files[f].dim
               /\ WithSealed(S)[f].marks = files[f].marks
               /\ WithSealed(S)[f].docs =
                      IF f \in S THEN files[f].docs \cup buf[f]
                      ELSE files[f].docs
    BY <2>2, SealedIs
  <2> HIDE DEF Sealable
  <2> QED BY <2>1, <2>3, <2>4
<1>4. /\ writer' = writer /\ buf' = buf
      /\ seal' \in [Fields -> {"open", "sealed", "dirty"}]
      /\ \A f \in Fields : (seal')[f] = IF f \in Sealable \ failing
                                        THEN "sealed" ELSE seal[f]
  BY <1>1, <1>2 DEF WriterCommitFails, Types
<1>5. Sealable \subseteq writer
  BY DEF Sealable
<1>6. ASSUME NEW f \in Fields
      PROVE  /\ (files')[f].docs = files[f].docs
                   \/ (files')[f].docs = files[f].docs \cup buf[f]
             /\ \/ (seal')[f] = seal[f]
                \/ /\ (seal')[f] = "sealed" /\ f \in writer
                   /\ (files')[f].docs = files[f].docs \cup buf[f]
  <2>1. CASE f \in Sealable \ failing
    BY <1>3, <1>4, <1>5, <2>1
  <2>2. CASE f \notin Sealable \ failing
    <3>1. (files')[f].docs = files[f].docs
      BY <1>3, <2>2
    <3>2. (seal')[f] = seal[f]
      BY <1>4, <2>2
    <3> QED BY <3>1, <3>2
  <2> QED BY <2>1, <2>2
<1>7. /\ files' \in [Fields -> Directory]
      /\ \A f \in Fields :
             /\ (files')[f].ckpt = files[f].ckpt
             /\ (files')[f].dim = files[f].dim
             /\ (files')[f].marks = files[f].marks
  BY <1>3
<1> QED BY <1>4, <1>6, <1>7

\* What a vector commit that sealed every segment writes, of the fields W
\* whose marks it wrote and P whose checkpoints it published.
VectorWrites(l, s, W, P) ==
    /\ W \subseteq DOMAIN index /\ P \subseteq W
    /\ s = "truncate" => P = DOMAIN index
    /\ files' \in [Fields -> Directory]
    /\ \A f \in Fields :
           /\ (files')[f].docs = files[f].docs \cup buf[f]
           /\ (files')[f].dim = files[f].dim
           /\ (files')[f].marks = IF f \in W THEN marks[f] ELSE files[f].marks
           /\ (files')[f].ckpt = IF f \in P THEN Larger(files[f].ckpt, (pend')[f])
                                 ELSE files[f].ckpt
    /\ writer' = {} /\ buf' \in [Fields -> SUBSET Nat]
    /\ seal' = Each("open")
    /\ seal' \in [Fields -> {"open", "sealed", "dirty"}]
    /\ \A f \in Fields : (buf')[f] = {} /\ (seal')[f] = "open"
    /\ unfollowed \subseteq unfollowed'
    /\ s = "idle" =>
           \A f \in Fields \ W, r \in history :
               /\ f \in Sealable /\ ~IsPut(r) /\ r.seq <= files[f].ckpt
               /\ r.doc \in buf[f] \ files[f].marks
               => f \in unfollowed'
    /\ StepsTo(l, s, FALSE)

LEMMA PersistedIs ==
    ASSUME FieldsInv, WriterCommits, NEW W, NEW P,
           pend' \in [Fields -> Nat], files' = Persisted(W, P)
    PROVE  /\ files' \in [Fields -> Directory]
           /\ \A f \in Fields :
                  /\ (files')[f].docs = files[f].docs \cup buf[f]
                  /\ (files')[f].dim = files[f].dim
                  /\ (files')[f].marks = IF f \in W THEN marks[f]
                                         ELSE files[f].marks
                  /\ (files')[f].ckpt =
                         IF f \in P THEN Larger(files[f].ckpt, (pend')[f])
                         ELSE files[f].ckpt
<1>1. PICK sealed : sealed = WithSealed(Sealable)
  OBVIOUS
<1>2. /\ sealed \in [Fields -> Directory]
      /\ \A f \in Fields :
             /\ sealed[f].docs = files[f].docs \cup buf[f]
             /\ sealed[f].ckpt = files[f].ckpt
             /\ sealed[f].dim = files[f].dim
             /\ sealed[f].marks = files[f].marks
  BY <1>1, WriterCommitsFacts
<1>3. marks \in [Fields -> SUBSET Nat]
  BY DEF FieldsInv, Rest, Types
<1>4. files' = [f \in Fields |->
        [sealed[f] EXCEPT
            !.marks = IF f \in W THEN marks[f] ELSE @,
            !.ckpt = IF f \in P THEN Larger(@, (pend')[f]) ELSE @]]
  BY <1>1 DEF Persisted
<1>5. ASSUME NEW f \in Fields
      PROVE  /\ (files')[f] \in Directory
             /\ (files')[f].docs = sealed[f].docs
             /\ (files')[f].dim = sealed[f].dim
             /\ (files')[f].marks = IF f \in W THEN marks[f]
                                    ELSE sealed[f].marks
             /\ (files')[f].ckpt =
                    IF f \in P THEN Larger(sealed[f].ckpt, (pend')[f])
                    ELSE sealed[f].ckpt
  <2>1. PICK m : m = IF f \in W THEN marks[f] ELSE sealed[f].marks
    OBVIOUS
  <2>2. PICK c : c = IF f \in P THEN Larger(sealed[f].ckpt, (pend')[f])
                     ELSE sealed[f].ckpt
    OBVIOUS
  <2>3. sealed[f] \in Directory
    BY <1>2
  <2>4. m \in SUBSET Nat /\ c \in Nat
    BY <1>3, <2>1, <2>2, <2>3 DEF Directory, Larger
  <2>5. (files')[f] = [sealed[f] EXCEPT !.marks = m, !.ckpt = c]
    BY <1>4, <2>1, <2>2
  <2> QED BY <2>1, <2>2, <2>3, <2>4, <2>5 DEF Directory
<1>6. files' = [f \in Fields |-> (files')[f]]
  BY <1>4
<1> QED BY <1>2, <1>5, <1>6

LEMMA CommitVectorIs ==
    ASSUME FieldInv, FieldsInv, NEW l \in Ladders, CommitVector(l)
    PROVE  /\ lpc[l] = "vector"
           /\ UNCHANGED <<stop, schema, saved, index, marks, lexCkpt, wal,
                          nextSeq, put, history, start, discarded, refused>>
           /\ pend' \in [Fields -> Nat]
           /\ \A f \in Fields :
                  (pend')[f] = IF f \in DOMAIN index
                               THEN Larger(pend[f], snap[l]) ELSE pend[f]
           /\ \/ \E s \in {"truncate", "idle"}, W, P \in SUBSET DOMAIN index :
                     VectorWrites(l, s, W, P)
              \/ /\ WriterCommitFails /\ StepsTo(l, "idle", FALSE)
                 /\ unfollowed' = unfollowed
<1>1. /\ lpc[l] = "vector"
      /\ UNCHANGED <<stop, schema, saved, index, marks, lexCkpt, wal,
                     nextSeq, put, history, start, discarded, refused>>
  BY DEF CommitVector, schemaVars, logVars
<1>2. Types
  BY DEF FieldsInv, Rest
<1>3. /\ pend' \in [Fields -> Nat]
      /\ \A f \in Fields :
             (pend')[f] = IF f \in DOMAIN index
                          THEN Larger(pend[f], snap[l]) ELSE pend[f]
  BY <1>2 DEF CommitVector, Types, Larger
<1>4. \/ /\ WriterCommits /\ DropWriter /\ unfollowed' = unfollowed
         /\ files' = Persisted(DOMAIN index, DOMAIN index)
         /\ StepsTo(l, "truncate", FALSE)
      \/ /\ WriterCommits /\ DropWriter /\ StepsTo(l, "idle", FALSE)
         /\ \E W \in SUBSET DOMAIN index : \E P \in SUBSET W :
                /\ files' = Persisted(W, P)
                /\ unfollowed' = unfollowed \cup Resealed(Fields \ W)
      \/ /\ WriterCommitFails /\ StepsTo(l, "idle", FALSE)
         /\ unfollowed' = unfollowed
  BY DEF CommitVector, StepsTo
<1>5. CASE /\ WriterCommits /\ DropWriter /\ unfollowed' = unfollowed
           /\ files' = Persisted(DOMAIN index, DOMAIN index)
           /\ StepsTo(l, "truncate", FALSE)
  <2>1. VectorWrites(l, "truncate", DOMAIN index, DOMAIN index)
    <3>1. PICK W : W = DOMAIN index
      OBVIOUS
    <3>2. files' = Persisted(W, W)
      BY <1>5, <3>1
    <3>3. /\ files' \in [Fields -> Directory]
          /\ \A f \in Fields :
                 /\ (files')[f].docs = files[f].docs \cup buf[f]
                 /\ (files')[f].dim = files[f].dim
                 /\ (files')[f].marks = IF f \in W THEN marks[f]
                                        ELSE files[f].marks
                 /\ (files')[f].ckpt =
                        IF f \in W THEN Larger(files[f].ckpt, (pend')[f])
                        ELSE files[f].ckpt
      BY <1>3, <1>5, <3>2, PersistedIs
    <3>4. /\ writer' = {} /\ buf' \in [Fields -> SUBSET Nat]
          /\ seal' = Each("open")
          /\ seal' \in [Fields -> {"open", "sealed", "dirty"}]
          /\ \A f \in Fields : (buf')[f] = {} /\ (seal')[f] = "open"
      BY <1>5, DroppedFacts
    <3> QED BY <1>5, <3>1, <3>3, <3>4 DEF VectorWrites
  <2> QED BY <1>1, <1>3, <2>1
<1>6. CASE /\ WriterCommits /\ DropWriter /\ StepsTo(l, "idle", FALSE)
           /\ \E W \in SUBSET DOMAIN index : \E P \in SUBSET W :
                  /\ files' = Persisted(W, P)
                  /\ unfollowed' = unfollowed \cup Resealed(Fields \ W)
  <2>1. PICK W \in SUBSET DOMAIN index : \E P \in SUBSET W :
                  /\ files' = Persisted(W, P)
                  /\ unfollowed' = unfollowed \cup Resealed(Fields \ W)
    BY <1>6
  <2>2. PICK P \in SUBSET W : files' = Persisted(W, P)
    BY <2>1
  <2>3. unfollowed' = unfollowed \cup Resealed(Fields \ W)
    BY <2>1
  <2>4. \A f \in Fields \ W, r \in history :
            /\ f \in Sealable /\ ~IsPut(r) /\ r.seq <= files[f].ckpt
            /\ r.doc \in buf[f] \ files[f].marks
            => f \in unfollowed'
    BY <2>3 DEF Resealed
  <2>5. VectorWrites(l, "idle", W, P)
    BY <1>3, <1>6, <2>2, <2>3, <2>4, PersistedIs, DroppedFacts DEF VectorWrites
  <2>6. P \in SUBSET DOMAIN index
    OBVIOUS
  <2> QED BY <1>1, <1>3, <2>5, <2>6
<1> QED BY <1>1, <1>3, <1>4, <1>5, <1>6
\* A vector commit whose writer sealed every segment: what it publishes it
\* has, and a field that it failed to write follows the log no longer if a
\* replay's deletes are lost with it.
LEMMA VectorWritesSafe ==
    ASSUME FieldInv, FieldsInv, NEW l \in Ladders, lpc[l] = "vector",
           UNCHANGED <<stop, schema, saved, index, marks, lexCkpt, wal,
                       nextSeq, put, history, start, discarded, refused>>,
           pend' \in [Fields -> Nat],
           \A f \in Fields : (pend')[f] = IF f \in DOMAIN index
                                          THEN Larger(pend[f], snap[l])
                                          ELSE pend[f],
           NEW s \in {"truncate", "idle"},
           NEW W \in SUBSET DOMAIN index, NEW P \in SUBSET DOMAIN index,
           VectorWrites(l, s, W, P)
    PROVE  FieldsInv'
<1>1. /\ lpc' \in [Ladders -> LadderSteps] /\ snap' \in [Ladders -> Nat]
      /\ (lpc')[l] = s
      /\ \A k \in Ladders :
             /\ k # l => (lpc')[k] = lpc[k] /\ (snap')[k] = snap[k]
             /\ (lpc')[k] # "idle" => (snap')[k] = snap[k]
             /\ (snap')[k] <= snap[k]
      /\ change' \in Changes \cup {NoChange}
      /\ mode' \in {"open", "recovering", "failed"}
      /\ l # "recovery" => mode = "open" /\ mode' = "open"
      /\ l = "recovery" =>
             /\ mode = "recovering" /\ change.step = "idle"
             /\ mode' = IF s # "idle" THEN "recovering" ELSE "failed"
  BY ZenonT(60), LadderControl DEF VectorWrites
<1>2. /\ Modes' /\ Changing'
      /\ \A f : PendingDelete(f)' <=> PendingDelete(f)
      /\ \A f : (NewFieldSaves /\ change.field = f)' <=>
                    NewFieldSaves /\ change.field = f
  BY LadderKept DEF VectorWrites
<1>3. /\ writer' = {} /\ buf' \in [Fields -> SUBSET Nat]
      /\ seal' = Each("open")
      /\ seal' \in [Fields -> {"open", "sealed", "dirty"}]
      /\ \A f \in Fields : (buf')[f] = {} /\ (seal')[f] = "open"
      /\ files' \in [Fields -> Directory]
      /\ unfollowed \subseteq unfollowed'
  BY DEF VectorWrites
<1>4. /\ Types /\ Numbers /\ Modes /\ LastSeq' = LastSeq /\ LastSeq \in Nat
      /\ snap[l] <= lexCkpt /\ lexCkpt <= LastSeq /\ snap[l] \in Nat
      /\ DOMAIN index \subseteq Fields /\ DOMAIN saved \subseteq Fields
  BY TableIs DEF FieldsInv, Rest, Types, Numbers, LastSeq
<1>5. \A f : Given(f)' = Given(f)
  BY DEF Given
<1>6. \A f \in Fields :
          /\ (files')[f].docs = files[f].docs \cup buf[f]
          /\ (files')[f].dim = files[f].dim
          /\ (files')[f].marks = IF f \in W THEN marks[f] ELSE files[f].marks
          /\ (files')[f].ckpt = IF f \in P
                                THEN Larger(files[f].ckpt, (pend')[f])
                                ELSE files[f].ckpt
  BY DEF VectorWrites
<1>7. \A f \in Fields :
          /\ files[f].ckpt \in Nat /\ (files')[f].ckpt \in Nat
          /\ (pend')[f] <= LastSeq /\ (pend')[f] \in Nat
          /\ files[f].ckpt <= (files')[f].ckpt
          /\ (files')[f].ckpt <= LastSeq
          /\ f \in P => (pend')[f] <= (files')[f].ckpt
          /\ f \in DOMAIN index => snap[l] <= (pend')[f]
          /\ f \notin P => (files')[f].ckpt = files[f].ckpt
          /\ \A n \in Nat :
                 n > files[f].ckpt /\ n > pend[f] /\ n > snap[l] =>
                     n > (files')[f].ckpt /\ n > (pend')[f]
  <2> SUFFICES ASSUME NEW f \in Fields
               PROVE  /\ files[f].ckpt \in Nat /\ (files')[f].ckpt \in Nat
                      /\ (pend')[f] <= LastSeq /\ (pend')[f] \in Nat
                      /\ files[f].ckpt <= (files')[f].ckpt
                      /\ (files')[f].ckpt <= LastSeq
                      /\ f \in P => (pend')[f] <= (files')[f].ckpt
                      /\ f \in DOMAIN index => snap[l] <= (pend')[f]
                      /\ f \notin P => (files')[f].ckpt = files[f].ckpt
                      /\ \A n \in Nat :
                             n > files[f].ckpt /\ n > pend[f] /\ n > snap[l] =>
                                 n > (files')[f].ckpt /\ n > (pend')[f]
    OBVIOUS
  <2>1. /\ files[f].ckpt \in Nat /\ pend[f] \in Nat /\ pend[f] <= LastSeq
        /\ files[f].ckpt <= LastSeq
    BY <1>4 DEF Types, Directory, Numbers
  <2>2. /\ (pend')[f] \in Nat /\ (pend')[f] <= LastSeq
        /\ f \in DOMAIN index => snap[l] <= (pend')[f]
        /\ (pend')[f] = pend[f] \/ (pend')[f] = snap[l]
    <3>1. (pend')[f] = IF f \in DOMAIN index
                       THEN Larger(pend[f], snap[l]) ELSE pend[f]
      OBVIOUS
    <3>2. CASE f \in DOMAIN index
      <4>1. (pend')[f] = IF pend[f] > snap[l] THEN pend[f] ELSE snap[l]
        BY <3>1, <3>2 DEF Larger
      <4>2. snap[l] <= LastSeq
        BY <1>4 DEF Numbers
      <4>3. CASE pend[f] > snap[l]
        BY <1>4, <2>1, <4>1, <4>3
      <4>4. CASE ~(pend[f] > snap[l])
        BY <1>4, <2>1, <4>1, <4>2, <4>4
      <4> QED BY <4>3, <4>4
    <3>3. CASE f \notin DOMAIN index
      BY <2>1, <3>1, <3>3
    <3> QED BY <3>2, <3>3
  <2>3. /\ (files')[f].ckpt = files[f].ckpt
             \/ ((files')[f].ckpt = (pend')[f] /\ files[f].ckpt < (pend')[f])
        /\ f \notin P => (files')[f].ckpt = files[f].ckpt
        /\ f \in P => (pend')[f] <= (files')[f].ckpt
    BY <1>6, <2>1, <2>2 DEF Larger
  <2> QED BY <1>4, <2>1, <2>2, <2>3
<1>8. Types'
  BY <1>1, <1>3, <1>4 DEF Types
<1>9. Numbers'
  <2>1. \A f \in Fields :
            /\ (buf')[f] \subseteq 1..LastSeq /\ marks[f] \subseteq 1..LastSeq
            /\ (files')[f].docs \subseteq 1..LastSeq
            /\ (files')[f].marks \subseteq 1..LastSeq
            /\ (files')[f].ckpt <= LastSeq /\ (pend')[f] <= LastSeq
            /\ start[f] <= LastSeq
    BY <1>3, <1>4, <1>6, <1>7 DEF Numbers
  <2>2. \A k \in Ladders :
            /\ (snap')[k] <= LastSeq
            /\ (lpc')[k] \in {"vector", "truncate"} => (snap')[k] <= lexCkpt
    <3> SUFFICES ASSUME NEW k \in Ladders
                 PROVE  /\ (snap')[k] <= LastSeq
                        /\ (lpc')[k] \in {"vector", "truncate"} =>
                               (snap')[k] <= lexCkpt
      OBVIOUS
    <3>1. snap[k] <= LastSeq /\ snap[k] \in Nat /\ (snap')[k] \in Nat
      BY <1>1, <1>4 DEF Numbers, Types
    <3>2. (snap')[k] <= snap[k]
      BY <1>1
    <3>3. (lpc')[k] \in {"vector", "truncate"} => (snap')[k] <= lexCkpt
      BY <1>1, <1>4 DEF Numbers
    <3> QED BY <1>4, <3>1, <3>2, <3>3
  <2>3. \A r \in wal \cup history : RecordShape(r)' /\ r.seq <= LastSeq
    BY <1>4 DEF Numbers, RecordShape, IsPut
  <2>4. /\ lexCkpt <= LastSeq /\ LastSeq <= MaxSeq
        /\ lexCkpt = LastSeq \/ \E r \in wal : r.seq = LastSeq
    BY <1>4 DEF Numbers
  <2> QED BY <1>4, <2>1, <2>2, <2>3, <2>4 DEF Numbers
<1>10. mode' = "open" => mode = "open"
  BY <1>1
<1>11. mode = "recovering" => index = saved
  BY <1>4 DEF Modes
<1>12. mode \in {"open", "recovering"}
  BY <1>1
<1>13. Registered'
  <2>1. \A f \in DOMAIN index :
            /\ (files')[f].dim = index[f]
            /\ \/ f \in DOMAIN saved /\ index[f] = saved[f]
               \/ (NewFieldSaves /\ change.field = f)'
    BY <1>2, <1>4, <1>6 DEF FieldsInv, Rest, Registered
  <2>2. \A f \in DOMAIN saved :
            (files')[f].docs # {} \/ (buf')[f] # {} =>
                (files')[f].dim = saved[f]
    <3> SUFFICES ASSUME NEW f \in DOMAIN saved, (files')[f].docs # {}
                 PROVE  (files')[f].dim = saved[f]
      BY <1>3, <1>4
    <3>1. files[f].docs # {} \/ buf[f] # {}
      BY <1>4, <1>6
    <3> QED BY <1>4, <1>6, <3>1 DEF FieldsInv, Rest, Registered
  <2>3. ASSUME NEW f \in DOMAIN saved \ DOMAIN index,
               mode' = "open", ~PendingDelete(f)'
        PROVE  /\ Given(f) # {} => stop
               /\ \A d \in Given(f), k \in Ladders : d > (snap')[k]
    <3>1. /\ Given(f) # {} => stop
          /\ \A d \in Given(f), k \in Ladders : d > snap[k]
      BY <1>2, <1>10, <2>3 DEF FieldsInv, Rest, Registered
    <3>2. \A d \in Given(f) : d \in Nat
      BY <1>4, GivenIs DEF Numbers, RecordShape
    <3>3. \A k \in Ladders : snap[k] \in Nat /\ (snap')[k] \in Nat
      BY <1>1, <1>4 DEF Types
    <3> QED BY <1>1, <3>1, <3>2, <3>3
  <2> QED BY <1>3, <1>5, <2>1, <2>2, <2>3 DEF Registered
<1>14. Buffers'
  BY <1>3 DEF Buffers
<1>15. Log'
  BY <1>10 DEF FieldsInv, Rest, Log, IsPut
<1>16. Mismatches'
  <2>1. \A r : Mismatch(r)' <=> Mismatch(r)
    BY DEF Mismatch, IsPut
  <2>2. ASSUME NEW r \in wal, Beyond(r.seq)
        PROVE  Beyond(r.seq)'
    <3>1. r.seq \in Nat /\ \A k \in Ladders : snap[k] \in Nat /\ (snap')[k] \in Nat
      BY <1>1, <1>4 DEF Numbers, RecordShape, Types
    <3>2. \A k \in Ladders : r.seq > (snap')[k]
      BY <1>1, <2>2, <3>1 DEF Beyond
    <3>3. \A f \in Fields : r.seq > (files')[f].ckpt /\ r.seq > (pend')[f]
      BY <1>7, <2>2, <3>1 DEF Beyond
    <3> QED BY <2>2, <3>2, <3>3 DEF Beyond
  <2>3. \A r \in wal : Mismatch(r) => r.field \in Fields
    BY <1>4 DEF Mismatch
  <2>4. \A r \in wal :
            Mismatch(r) =>
                /\ r.seq \in refused
                /\ r.doc \notin (files')[r.field].docs
                /\ r.doc \notin (buf')[r.field]
                /\ r.seq \in discarded \/ Beyond(r.seq)'
                /\ mode' = "recovering" => r.seq \in discarded
                /\ ~(mode' = "open" /\ ~stop)
    BY <1>1, <1>3, <1>6, <2>2, <2>3 DEF FieldsInv, Rest, Mismatches
  <2>5. mode' # "refused" /\ discarded \subseteq refused
    BY <1>1 DEF FieldsInv, Rest, Mismatches
  <2>6. \A r \in wal : r \notin history => Mismatch(r)
    BY DEF FieldsInv, Rest, Mismatches
  <2> QED BY <2>1, <2>4, <2>5, <2>6 DEF Mismatches
<1>17. Contained'
  <2>1. ASSUME NEW f \in Followed PROVE (files')[f].docs \subseteq Given(f)
    <3>1. f \in Fields /\ f \in DOMAIN saved \cup DOMAIN index
      BY <1>4, <2>1 DEF Followed
    <3>2. files[f].docs \subseteq Given(f) /\ buf[f] \subseteq Given(f)
      BY <2>1, <3>1 DEF FieldsInv, Rest, Contained
    <3> QED BY <1>6, <3>1, <3>2
  <2>2. ASSUME NEW f \in DOMAIN saved \cup DOMAIN index
        PROVE  (buf')[f] \subseteq Given(f)
    BY <1>3, <1>4, <2>2
  <2>3. Followed' \subseteq Followed
    BY <1>3 DEF Followed
  <2> QED BY <1>5, <2>1, <2>2, <2>3 DEF Contained
<1>18. \A f \in DOMAIN index \ unfollowed : \A d :
           (d \in files[f].docs \/ d \in buf[f]) /\ d \notin marks[f] <=>
               d \in Given(f) /\ d \notin Deleted(history)
  BY <1>12, HeldIs, OwedIs DEF FieldsInv, Rest, Memory
<1>19. Memory'
  <2> SUFFICES ASSUME NEW f \in DOMAIN index \ unfollowed', NEW d
               PROVE  d \in Held(f)' <=> d \in Owed(f)'
    BY DEF Memory, Held, Owed
  <2>1. f \in DOMAIN index \ unfollowed /\ f \in Fields
    BY <1>3, <1>4
  <2>2. d \in Held(f)' <=>
            (d \in files[f].docs \/ d \in buf[f]) /\ d \notin marks[f]
    BY <1>3, <1>6, <2>1, HeldIs
  <2>3. d \in Owed(f)' <=> d \in Given(f) /\ d \notin Deleted(history)
    BY <1>5, OwedIs
  <2> QED BY <1>18, <2>1, <2>2, <2>3
<1>20. ASSUME NEW f \in Followed'
       PROVE  f \in Followed /\ f \in Fields /\ f \notin unfollowed'
  BY <1>3, <1>4, <1>20 DEF Followed
<1>21. Disk'
  <2> SUFFICES ASSUME NEW f \in Followed'
               PROVE  HasDocs(f)' /\ HasMarks(f)' /\ HasLog(f)' /\ MarksRight(f)'
    BY DEF Disk
  <2>1. f \in Followed /\ f \in Fields /\ f \notin unfollowed'
    BY <1>20
  <2>2. HasDocs(f) /\ HasMarks(f) /\ HasLog(f) /\ MarksRight(f)
    BY <2>1 DEF FieldsInv, Rest, Disk
  <2>3. f \in DOMAIN index => f \in DOMAIN index \ unfollowed
    BY <2>1 DEF Followed
  <2>4. \A d \in Given(f) : d \in Nat
    BY <1>4, GivenIs DEF Numbers, RecordShape
  <2>5. HasDocs(f)'
    <3> SUFFICES ASSUME NEW d \in Given(f), d \notin Deleted(history)
                 PROVE  d \in (files')[f].docs \/ d > (files')[f].ckpt
      BY <1>5 DEF HasDocs
    <3>1. CASE f \in DOMAIN index
      BY <1>6, <1>18, <2>1, <2>3, <3>1
    <3>2. CASE f \notin DOMAIN index
      BY <1>6, <1>7, <2>1, <2>2, <3>2 DEF HasDocs
    <3> QED BY <3>1, <3>2
  <2>6. HasMarks(f)'
    <3> SUFFICES ASSUME NEW r \in history, ~IsPut(r),
                        r.doc \in (files')[f].docs, r.seq <= (files')[f].ckpt
                 PROVE  r.doc \in (files')[f].marks
      BY DEF HasMarks, IsPut
    <3>1. r.doc \in files[f].docs \/ r.doc \in buf[f]
      BY <1>6, <2>1
    <3>2. r.doc \in Deleted(history)
      BY DeletedIs
    <3>3. r.doc \in Nat /\ r.seq \in Nat /\ r.doc <= r.seq
      BY <1>4 DEF Numbers, RecordShape
    <3>4. CASE f \in W
      <4>1. f \in DOMAIN index \ unfollowed
        BY <2>3, <3>4
      <4>2. r.doc \in marks[f]
        BY <1>18, <3>1, <3>2, <4>1
      <4> QED BY <1>6, <2>1, <3>4, <4>2
    <3>5. CASE f \notin W
      <4>1. /\ (files')[f].ckpt = files[f].ckpt
            /\ (files')[f].marks = files[f].marks
        BY <1>6, <2>1, <3>5 DEF VectorWrites
      <4>2. r.doc \in buf[f] => ~Settled
        <5>1. ASSUME r.doc \in buf[f], Settled PROVE FALSE
          <6>1. r.doc > files[f].ckpt
            BY <2>1, <5>1 DEF FieldsInv, Rest, Buffers
          <6> QED BY <1>7, <2>1, <3>3, <4>1, <6>1
        <5> QED BY <5>1
      <4>3. r.doc \in files[f].docs => r.doc \in files[f].marks
                                          \/ (~Settled /\ Redone(r.doc))
        BY <2>2, <4>1 DEF HasMarks
      <4>4. ASSUME ~Settled, r.doc \in buf[f] \/ Redone(r.doc),
                   r.doc \notin files[f].marks
            PROVE  FALSE
        <5>1. l = "recovery" /\ mode = "recovering" /\ index = saved
          BY <1>1, <1>11, <4>4 DEF Settled
        <5>2. f \in DOMAIN index \ unfollowed
          BY <2>1, <5>1 DEF Followed
        <5>3. s = "idle"
          BY <3>5, <5>2 DEF VectorWrites
        <5>4. r.doc \in buf[f]
          <6> SUFFICES ASSUME Redone(r.doc) PROVE r.doc \in buf[f]
            BY <4>4
          <6>1. PICK q \in wal : IsPut(q) /\ q.doc = r.doc
            BY DEF Redone
          <6>2. r.doc > LowestCkpt(saved)
            BY DEF Redone
          <6> SUFFICES ASSUME r.doc \notin buf[f] PROVE FALSE
            OBVIOUS
          <6>3. r.doc \in files[f].docs /\ r.doc \in Given(f)
            BY <3>1, <2>1, <5>2 DEF FieldsInv, Rest, Contained, Followed
          <6>4. PICK g \in history : IsPut(g) /\ g.doc = r.doc /\ g.field = f
            BY <6>3, GivenIs
          <6>5. g = q
            BY <6>1, <6>4 DEF FieldsInv, Rest, Log, IsPut
          <6>6. ~Mismatch(q)
            BY <6>1, <6>3, <6>4, <6>5 DEF FieldsInv, Rest, Mismatches
          <6>7. lpc["recovery"] \in {"lexical", "vector"}
            BY <5>1
          <6> QED
            BY <3>3, <5>2, <6>1, <6>2, <6>4, <6>5, <6>6, <6>7
               DEF FieldsInv, Rest, Rebuffered
        <5>5. f \in Sealable
          <6>1. f \in writer
            BY <2>1, <5>4 DEF FieldsInv, Rest, Buffers
          <6>2. seal[f] = "open"
            BY <1>4, <2>1, <5>1 DEF Modes, Each
          <6> QED BY <5>4, <6>1, <6>2 DEF Sealable
        <5>6. r.seq <= files[f].ckpt
          BY <4>1
        <5>7. f \in unfollowed'
          BY <2>1, <3>5, <4>4, <5>3, <5>4, <5>5, <5>6 DEF VectorWrites
        <5> QED BY <2>1, <5>7
      <4> QED BY <3>1, <4>1, <4>2, <4>3, <4>4
    <3> QED BY <3>4, <3>5
  <2>7. HasLog(f)'
    <3> SUFFICES ASSUME NEW r \in history, r.doc \in Given(f),
                        r.seq > (files')[f].ckpt
                 PROVE  r \in wal
      BY <1>5 DEF HasLog
    <3>1. r.seq \in Nat
      BY <1>4 DEF Numbers, RecordShape
    <3>2. r.seq > files[f].ckpt
      BY <1>7, <2>1, <3>1
    <3> QED BY <2>2, <3>2 DEF HasLog
  <2>8. MarksRight(f)'
    <3> SUFFICES ASSUME NEW d \in (files')[f].marks, d \in Given(f)
                 PROVE  d \in Deleted(history)
      BY <1>5 DEF MarksRight
    <3>1. CASE f \in W
      <4>1. f \in DOMAIN index \ unfollowed /\ d \in marks[f]
        BY <1>6, <2>1, <2>3, <3>1
      <4> QED BY <1>18, <4>1
    <3>2. CASE f \notin W
      BY <1>6, <2>1, <2>2, <3>2 DEF MarksRight
    <3> QED BY <3>1, <3>2
  <2> QED BY <2>5, <2>6, <2>7, <2>8
<1>22. Rebuffered'
  <2>1. (lpc')["recovery"] \notin {"lexical", "vector"}
    BY <1>1, <1>4 DEF Modes
  <2> QED BY <2>1 DEF Rebuffered
<1>23. Truncates'
  <2> SUFFICES ASSUME NEW k \in Ladders, (lpc')[k] = "truncate",
                      NEW f \in Followed', ~PendingDelete(f)',
                      NEW r \in history, r.doc \in Given(f),
                      r.seq > (files')[f].ckpt
               PROVE  r.seq > (snap')[k]
    BY <1>5 DEF Truncates, Reached
  <2>1. f \in Followed /\ f \in Fields /\ f \notin unfollowed'
    BY <1>20
  <2>2. /\ r.seq \in Nat /\ r.doc \in Nat /\ r.doc <= r.seq
        /\ r.seq > files[f].ckpt
    <3>1. r.seq \in Nat /\ r.doc \in Nat /\ r.doc <= r.seq
      BY <1>4 DEF Numbers, RecordShape
    <3> QED BY <1>7, <2>1, <3>1
  <2>3. (snap')[k] = snap[k] /\ snap[k] \in Nat
    BY <1>1, <1>4 DEF Types
  <2>4. CASE k # l
    <3>1. lpc[k] = "truncate"
      BY <1>1, <2>4
    <3>2. Reached(f, snap[k])
      BY <1>2, <2>1, <3>1 DEF FieldsInv, Rest, Truncates
    <3> QED BY <2>2, <2>3, <3>2 DEF Reached
  <2>5. CASE k = l /\ f \in DOMAIN index
    <3>1. f \in P
      BY <1>1, <2>5 DEF VectorWrites
    <3>2. snap[l] <= (pend')[f] /\ (pend')[f] <= (files')[f].ckpt
      BY <1>7, <2>1, <2>5, <3>1
    <3>3. (pend')[f] \in Nat /\ (files')[f].ckpt \in Nat
      BY <1>7, <2>1
    <3> QED BY <2>2, <2>3, <2>5, <3>2, <3>3
  <2>6. CASE k = l /\ f \notin DOMAIN index
    <3>1. f \in DOMAIN saved \ DOMAIN index
      BY <2>1, <2>6 DEF Followed
    <3>2. mode = "open"
      BY <1>11, <1>12, <3>1
    <3>3. r.doc > snap[l]
      BY <1>2, <3>1, <3>2 DEF FieldsInv, Rest, Registered
    <3> QED BY <2>2, <2>3, <2>6, <3>3
  <2> QED BY <2>4, <2>5, <2>6
<1>24. PutChecked'
  <2>1. put.step # "idle" => mode' = "open"
    BY <1>1 DEF FieldsInv, PutChecked
  <2> QED BY <2>1 DEF FieldsInv, PutChecked
<1> QED
  BY <1>2, <1>8, <1>9, <1>13, <1>14, <1>15, <1>16, <1>17, <1>19, <1>21,
     <1>22, <1>23, <1>24 DEF FieldsInv, Rest
\* What a writer that fails to commit some fields keeps of the invariant.
LEMMA WriterFailsKeeps ==
    ASSUME FieldsInv, WriterCommitFails, mode \in {"open", "recovering"},
           UNCHANGED <<saved, wal, history, start>>, Settled' => Settled
    PROVE  /\ Buffers'
           /\ \A f \in Followed : (files')[f].docs \subseteq Given(f)
           /\ \A f \in DOMAIN saved \cup DOMAIN index :
                  (buf')[f] \subseteq Given(f)
           /\ \A r \in wal :
                  Mismatch(r) => /\ r.doc \notin (files')[r.field].docs
                                 /\ r.doc \notin (buf')[r.field]
           /\ \A f \in Followed :
                  HasDocs(f)' /\ HasMarks(f)' /\ HasLog(f)' /\ MarksRight(f)'
<1>1. /\ files' \in [Fields -> Directory]
      /\ writer' = writer /\ buf' = buf
      /\ \A f \in Fields :
             /\ (files')[f].ckpt = files[f].ckpt
             /\ (files')[f].marks = files[f].marks
             /\ (files')[f].docs = files[f].docs
                   \/ (files')[f].docs = files[f].docs \cup buf[f]
             /\ \/ (seal')[f] = seal[f]
                \/ /\ (seal')[f] = "sealed" /\ f \in writer
                   /\ (files')[f].docs = files[f].docs \cup buf[f]
  BY WriterFailsFacts
<1>2. /\ Types /\ Numbers /\ Modes /\ Buffers
      /\ DOMAIN index \subseteq Fields /\ DOMAIN saved \subseteq Fields
      /\ files \in [Fields -> Directory] /\ saved \in Tables
  BY TableIs DEF FieldsInv, Rest, Types
<1>3. \A f : Given(f)' = Given(f)
  BY DEF Given
<1>4. Buffers'
  <2>1. \A f \in Fields : f \notin writer' => (buf')[f] = {} /\ (seal')[f] = "open"
    BY <1>1, <1>2 DEF Buffers
  <2>2. \A f \in Fields : (seal')[f] = "sealed" => (buf')[f] \subseteq (files')[f].docs
    <3> SUFFICES ASSUME NEW f \in Fields, (seal')[f] = "sealed"
                 PROVE  buf[f] \subseteq (files')[f].docs
      BY <1>1
    <3>1. CASE (seal')[f] = seal[f]
      <4>1. buf[f] \subseteq files[f].docs
        BY <1>2, <3>1 DEF Buffers
      <4> QED BY <1>1, <4>1
    <3>2. CASE (files')[f].docs = files[f].docs \cup buf[f]
      BY <3>2
    <3> QED BY <1>1, <3>1, <3>2
  <2>3. Settled' => \A f \in Fields : \A d \in (buf')[f] : d > (files')[f].ckpt
    BY <1>1, <1>2 DEF Buffers
  <2> QED BY <2>1, <2>2, <2>3 DEF Buffers
<1>5. /\ \A f \in Followed : (files')[f].docs \subseteq Given(f)
      /\ \A f \in DOMAIN saved \cup DOMAIN index : (buf')[f] \subseteq Given(f)
  <2>1. \A f \in DOMAIN saved \cup DOMAIN index :
            f \in Fields /\ buf[f] \subseteq Given(f)
    BY <1>2 DEF FieldsInv, Rest, Contained
  <2>2. ASSUME NEW f \in Followed PROVE (files')[f].docs \subseteq Given(f)
    <3>1. f \in Fields /\ buf[f] \subseteq Given(f)
      BY <2>1, <2>2 DEF Followed
    <3>2. files[f].docs \subseteq Given(f)
      BY <2>2 DEF FieldsInv, Rest, Contained
    <3>3. (files')[f].docs = files[f].docs
              \/ (files')[f].docs = files[f].docs \cup buf[f]
      BY <1>1, <3>1
    <3> QED BY <3>1, <3>2, <3>3
  <2> QED BY <1>1, <2>1, <2>2
<1>6. ASSUME NEW r \in wal, Mismatch(r)
      PROVE  r.doc \notin (files')[r.field].docs /\ r.doc \notin (buf')[r.field]
  <2>1. /\ r.doc \notin files[r.field].docs /\ r.doc \notin buf[r.field]
        /\ r.field \in Fields
    BY <1>2, <1>6 DEF FieldsInv, Rest, Mismatches, Mismatch
  <2>2. (files')[r.field].docs = files[r.field].docs
            \/ (files')[r.field].docs = files[r.field].docs \cup buf[r.field]
    BY <1>1, <2>1
  <2> QED BY <1>1, <2>1, <2>2
<1>7. LowestCkpt(saved)' = LowestCkpt(saved)
  <2>1. PICK t : t = saved
    OBVIOUS
  <2>2. LowestCkpt(t)' = LowestCkpt(t)
    BY <1>1, <1>2, <2>1, SameLowest
  <2> QED BY <2>1, <2>2 DEF LowestCkpt
<1>8. ASSUME NEW f \in Followed
      PROVE  HasDocs(f)' /\ HasMarks(f)' /\ HasLog(f)' /\ MarksRight(f)'
  <2>1. HasDocs(f) /\ HasMarks(f) /\ HasLog(f) /\ MarksRight(f) /\ f \in Fields
    BY <1>2 DEF FieldsInv, Rest, Disk, Followed
  <2>2. /\ (files')[f].ckpt = files[f].ckpt
        /\ (files')[f].marks = files[f].marks
        /\ files[f].docs \subseteq (files')[f].docs
        /\ \A d \in (files')[f].docs : d \in files[f].docs \/ d \in buf[f]
    <3>1. (files')[f].docs = files[f].docs
              \/ (files')[f].docs = files[f].docs \cup buf[f]
      BY <1>1, <2>1
    <3>2. /\ files[f].docs \subseteq (files')[f].docs
          /\ \A d \in (files')[f].docs : d \in files[f].docs \/ d \in buf[f]
      BY <3>1
    <3> QED BY <1>1, <2>1, <3>2
  <2>3. HasDocs(f)' /\ HasLog(f)' /\ MarksRight(f)'
    BY <1>3, <2>1, <2>2 DEF HasDocs, HasLog, MarksRight
  <2>4. \A d : Redone(d)' <=> Redone(d)
    BY <1>7 DEF Redone, IsPut
  <2>5. HasMarks(f)'
    <3> SUFFICES ASSUME NEW r \in history, ~IsPut(r),
                        r.doc \in (files')[f].docs, r.seq <= files[f].ckpt
                 PROVE  \/ r.doc \in files[f].marks
                        \/ ~Settled' /\ Redone(r.doc)
      BY <2>2, <2>4 DEF HasMarks, IsPut
    <3>1. CASE r.doc \in files[f].docs
      BY <2>1, <3>1 DEF HasMarks
    <3>2. CASE r.doc \in buf[f]
      <4>1. r.doc \in Nat /\ r.seq \in Nat /\ r.doc <= r.seq /\ files[f].ckpt \in Nat
        BY <1>2, <2>1 DEF Numbers, RecordShape, Directory
      <4>2. ~Settled
        <5>1. ASSUME Settled PROVE FALSE
          <6>1. r.doc > files[f].ckpt
            BY <1>2, <2>1, <3>2, <5>1 DEF Buffers
          <6> QED BY <4>1, <6>1
        <5> QED BY <5>1
      <4>3. mode = "recovering" /\ lpc["recovery"] \in {"lexical", "vector"}
        BY <1>2, <4>2 DEF Settled, Modes, Types
      <4>4. f \in DOMAIN index
        BY <1>2, <4>3 DEF Modes, Followed
      <4>5. Redone(r.doc)
        BY <3>2, <4>1, <4>3, <4>4 DEF FieldsInv, Rest, Rebuffered, Redone
      <4> QED BY <4>2, <4>5
    <3> QED BY <2>2, <3>1, <3>2
  <2> QED BY <2>3, <2>5
<1> QED BY <1>4, <1>5, <1>6, <1>8

\* A vector commit whose writer failed publishes no checkpoint.
LEMMA VectorFailsSafe ==
    ASSUME FieldInv, FieldsInv, NEW l \in Ladders, lpc[l] = "vector",
           UNCHANGED <<stop, schema, saved, index, marks, lexCkpt, wal,
                       nextSeq, put, history, start, discarded, refused,
                       unfollowed>>,
           pend' \in [Fields -> Nat],
           \A f \in Fields : (pend')[f] = IF f \in DOMAIN index
                                          THEN Larger(pend[f], snap[l])
                                          ELSE pend[f],
           WriterCommitFails, StepsTo(l, "idle", FALSE)
    PROVE  FieldsInv'
<1>1. /\ lpc' \in [Ladders -> LadderSteps] /\ snap' \in [Ladders -> Nat]
      /\ (lpc')[l] = "idle"
      /\ \A k \in Ladders :
             /\ k # l => (lpc')[k] = lpc[k] /\ (snap')[k] = snap[k]
             /\ (lpc')[k] # "idle" => (snap')[k] = snap[k]
             /\ (snap')[k] <= snap[k]
      /\ change' \in Changes \cup {NoChange}
      /\ mode' \in {"open", "recovering", "failed"}
      /\ l # "recovery" => mode = "open" /\ mode' = "open"
      /\ l = "recovery" =>
             /\ mode = "recovering" /\ change.step = "idle"
             /\ mode' = "failed"
  BY LadderControl
<1>2. /\ Modes' /\ Changing'
      /\ \A f : PendingDelete(f)' <=> PendingDelete(f)
      /\ \A f : (NewFieldSaves /\ change.field = f)' <=>
                    NewFieldSaves /\ change.field = f
  <2>1. mode' # "recovering"
    BY <1>1
  <2> QED BY <2>1, LadderKept
<1>3. /\ files' \in [Fields -> Directory]
      /\ writer' = writer /\ buf' = buf
      /\ seal' \in [Fields -> {"open", "sealed", "dirty"}]
      /\ \A f \in Fields :
             /\ (files')[f].ckpt = files[f].ckpt
             /\ (files')[f].dim = files[f].dim
             /\ (files')[f].marks = files[f].marks
             /\ (files')[f].docs = files[f].docs
                   \/ (files')[f].docs = files[f].docs \cup buf[f]
  BY WriterFailsFacts
<1>4. /\ Types /\ Numbers /\ Modes /\ LastSeq' = LastSeq /\ LastSeq \in Nat
      /\ snap[l] \in Nat /\ snap[l] <= LastSeq
      /\ DOMAIN index \subseteq Fields /\ DOMAIN saved \subseteq Fields
  BY TableIs DEF FieldsInv, Rest, Types, Numbers, LastSeq
<1>5. \A f : Given(f)' = Given(f)
  BY DEF Given
<1>6. mode \in {"open", "recovering"} /\ (mode' = "open" => mode = "open")
  BY <1>1
<1>7. Settled' => Settled
  <2>1. CASE l = "recovery"
    BY <1>1, <2>1 DEF Settled
  <2>2. CASE l # "recovery"
    BY <1>1, <2>2 DEF Settled
  <2> QED BY <2>1, <2>2
<1>8. /\ Buffers'
      /\ \A f \in Followed : (files')[f].docs \subseteq Given(f)
      /\ \A f \in DOMAIN saved \cup DOMAIN index :
             (buf')[f] \subseteq Given(f)
      /\ \A r \in wal :
             Mismatch(r) => /\ r.doc \notin (files')[r.field].docs
                            /\ r.doc \notin (buf')[r.field]
      /\ \A f \in Followed :
             HasDocs(f)' /\ HasMarks(f)' /\ HasLog(f)' /\ MarksRight(f)'
  BY <1>6, <1>7, WriterFailsKeeps
<1>9. \A f \in Fields :
          /\ (pend')[f] <= LastSeq /\ (pend')[f] \in Nat
          /\ (pend')[f] = pend[f] \/ (pend')[f] = snap[l]
  <2> SUFFICES ASSUME NEW f \in Fields
               PROVE  /\ (pend')[f] <= LastSeq /\ (pend')[f] \in Nat
                      /\ (pend')[f] = pend[f] \/ (pend')[f] = snap[l]
    OBVIOUS
  <2>1. pend[f] \in Nat /\ pend[f] <= LastSeq
    BY <1>4 DEF Types, Numbers
  <2>2. CASE f \in DOMAIN index
    <3>1. (pend')[f] = IF pend[f] > snap[l] THEN pend[f] ELSE snap[l]
      BY <2>2 DEF Larger
    <3> QED BY <1>4, <2>1, <3>1
  <2>3. CASE f \notin DOMAIN index
    BY <2>1, <2>3
  <2> QED BY <2>2, <2>3
<1>10. Types'
  BY <1>1, <1>3, <1>4 DEF Types
<1>11. Numbers'
  <2>1. \A f \in Fields :
            /\ buf[f] \subseteq 1..LastSeq /\ marks[f] \subseteq 1..LastSeq
            /\ (files')[f].docs \subseteq 1..LastSeq
            /\ (files')[f].marks \subseteq 1..LastSeq
            /\ (files')[f].ckpt <= LastSeq /\ (pend')[f] <= LastSeq
            /\ start[f] <= LastSeq
    <3> SUFFICES ASSUME NEW f \in Fields
                 PROVE  /\ buf[f] \subseteq 1..LastSeq /\ marks[f] \subseteq 1..LastSeq
                        /\ (files')[f].docs \subseteq 1..LastSeq
                        /\ (files')[f].marks \subseteq 1..LastSeq
                        /\ (files')[f].ckpt <= LastSeq /\ (pend')[f] <= LastSeq
                        /\ start[f] <= LastSeq
      OBVIOUS
    <3>1. /\ buf[f] \subseteq 1..LastSeq /\ marks[f] \subseteq 1..LastSeq
          /\ files[f].docs \subseteq 1..LastSeq
          /\ files[f].marks \subseteq 1..LastSeq
          /\ files[f].ckpt <= LastSeq /\ start[f] <= LastSeq
      BY <1>4 DEF Numbers
    <3>2. (files')[f].docs \subseteq 1..LastSeq
      BY <1>3, <3>1
    <3> QED BY <1>3, <1>9, <3>1, <3>2
  <2>2. \A k \in Ladders :
            /\ (snap')[k] <= LastSeq
            /\ (lpc')[k] \in {"vector", "truncate"} => (snap')[k] <= lexCkpt
    <3> SUFFICES ASSUME NEW k \in Ladders
                 PROVE  /\ (snap')[k] <= LastSeq
                        /\ (lpc')[k] \in {"vector", "truncate"} =>
                               (snap')[k] <= lexCkpt
      OBVIOUS
    <3>1. snap[k] <= LastSeq /\ snap[k] \in Nat /\ (snap')[k] \in Nat
      BY <1>1, <1>4 DEF Numbers, Types
    <3>2. (snap')[k] <= snap[k]
      BY <1>1
    <3>3. (lpc')[k] \in {"vector", "truncate"} => (snap')[k] <= lexCkpt
      BY <1>1, <1>4 DEF Numbers
    <3> QED BY <1>4, <3>1, <3>2, <3>3
  <2>3. \A r \in wal \cup history : RecordShape(r)' /\ r.seq <= LastSeq
    BY <1>4 DEF Numbers, RecordShape, IsPut
  <2>4. /\ lexCkpt <= LastSeq /\ LastSeq <= MaxSeq
        /\ lexCkpt = LastSeq \/ \E r \in wal : r.seq = LastSeq
    BY <1>4 DEF Numbers
  <2> QED BY <1>3, <1>4, <2>1, <2>2, <2>3, <2>4 DEF Numbers
<1>12. Registered'
  <2>1. \A f \in DOMAIN index :
            /\ (files')[f].dim = index[f]
            /\ \/ f \in DOMAIN saved /\ index[f] = saved[f]
               \/ (NewFieldSaves /\ change.field = f)'
    BY <1>2, <1>3, <1>4 DEF FieldsInv, Rest, Registered
  <2>2. ASSUME NEW f \in DOMAIN saved
        PROVE  /\ (files')[f].docs # {} \/ buf[f] # {} =>
                      (files')[f].dim = saved[f]
               /\ f \in writer => f \in DOMAIN index \/ PendingDelete(f)'
    <3>1. /\ files[f].docs # {} \/ buf[f] # {} => files[f].dim = saved[f]
          /\ f \in writer => f \in DOMAIN index \/ PendingDelete(f)'
      BY <1>2 DEF FieldsInv, Rest, Registered
    <3>2. /\ (files')[f].dim = files[f].dim
          /\ (files')[f].docs = files[f].docs
                \/ (files')[f].docs = files[f].docs \cup buf[f]
      BY <1>3, <1>4
    <3> QED BY <3>1, <3>2
  <2>3. ASSUME NEW f \in DOMAIN saved \ DOMAIN index,
               mode' = "open", ~PendingDelete(f)'
        PROVE  /\ Given(f) # {} => stop
               /\ \A d \in Given(f), k \in Ladders : d > (snap')[k]
    <3>1. /\ Given(f) # {} => stop
          /\ \A d \in Given(f), k \in Ladders : d > snap[k]
      BY <1>2, <1>6, <2>3 DEF FieldsInv, Rest, Registered
    <3>2. \A d \in Given(f) : d \in Nat
      BY <1>4, GivenIs DEF Numbers, RecordShape
    <3>3. \A k \in Ladders : snap[k] \in Nat /\ (snap')[k] \in Nat
      BY <1>1, <1>4 DEF Types
    <3> QED BY <1>1, <3>1, <3>2, <3>3
  <2> QED BY <1>3, <1>5, <2>1, <2>2, <2>3 DEF Registered
<1>13. Log'
  BY <1>6 DEF FieldsInv, Rest, Log, IsPut
<1>14. Mismatches'
  <2>1. \A r : Mismatch(r)' <=> Mismatch(r)
    BY DEF Mismatch, IsPut
  <2>2. ASSUME NEW r \in wal, Beyond(r.seq)
        PROVE  Beyond(r.seq)'
    <3>1. r.seq \in Nat /\ \A k \in Ladders : snap[k] \in Nat /\ (snap')[k] \in Nat
      BY <1>1, <1>4 DEF Numbers, RecordShape, Types
    <3>2. \A k \in Ladders : r.seq > (snap')[k]
      BY <1>1, <2>2, <3>1 DEF Beyond
    <3>3. \A f \in Fields : r.seq > (files')[f].ckpt /\ r.seq > (pend')[f]
      BY <1>3, <1>9, <2>2 DEF Beyond
    <3> QED BY <2>2, <3>2, <3>3 DEF Beyond
  <2>3. \A r \in wal :
            Mismatch(r) =>
                /\ r.seq \in refused
                /\ r.seq \in discarded \/ Beyond(r.seq)'
                /\ ~(mode' = "open" /\ ~stop)
    BY <1>6, <2>2 DEF FieldsInv, Rest, Mismatches
  <2>4. /\ mode' # "refused" /\ mode' # "recovering"
        /\ discarded \subseteq refused
    BY <1>1 DEF FieldsInv, Rest, Mismatches
  <2>5. \A r \in wal : r \notin history => Mismatch(r)
    BY DEF FieldsInv, Rest, Mismatches
  <2> QED BY <1>8, <2>1, <2>3, <2>4, <2>5 DEF Mismatches
<1>15. Contained'
  BY <1>5, <1>8 DEF Contained, Followed
<1>16. Memory'
  <2> SUFFICES ASSUME NEW f \in DOMAIN index \ unfollowed, NEW d
               PROVE  d \in Held(f)' <=> d \in Owed(f)'
    BY DEF Memory, Held, Owed
  <2>1. d \in Held(f) <=> d \in Owed(f)
    BY <1>6 DEF FieldsInv, Rest, Memory
  <2>2. (files')[f].docs = files[f].docs
            \/ (files')[f].docs = files[f].docs \cup buf[f]
    BY <1>3, <1>4
  <2>3. d \in Held(f)' <=> d \in Held(f)
    BY <1>3, <2>2, HeldIs
  <2>4. d \in Owed(f)' <=> d \in Owed(f)
    BY <1>5, OwedIs
  <2> QED BY <2>1, <2>3, <2>4
<1>17. Disk'
  BY <1>8 DEF Disk, Followed
<1>18. Rebuffered'
  <2>1. (lpc')["recovery"] \notin {"lexical", "vector"}
    BY <1>1, <1>4 DEF Modes
  <2> QED BY <2>1 DEF Rebuffered
<1>19. Truncates'
  <2> SUFFICES ASSUME NEW k \in Ladders, (lpc')[k] = "truncate",
                      NEW f \in Followed, ~PendingDelete(f)'
               PROVE  Reached(f, snap[k])'
    BY <1>1 DEF Truncates, Followed, Reached
  <2>1. lpc[k] = "truncate" /\ (snap')[k] = snap[k]
    BY <1>1
  <2>2. Reached(f, snap[k])
    BY <1>2, <2>1 DEF FieldsInv, Rest, Truncates
  <2>3. (files')[f].ckpt = files[f].ckpt
    BY <1>3, <1>4 DEF Followed
  <2> QED BY <1>5, <2>1, <2>2, <2>3 DEF Reached
<1>20. PutChecked'
  <2>1. put.step # "idle" => mode' = "open"
    BY <1>1 DEF FieldsInv, PutChecked
  <2> QED BY <2>1 DEF FieldsInv, PutChecked
<1> QED
  BY <1>2, <1>8, <1>10, <1>11, <1>12, <1>13, <1>14, <1>15, <1>16, <1>17,
     <1>18, <1>19, <1>20 DEF FieldsInv, Rest

LEMMA CommitVectorSafe ==
    ASSUME FieldInv, FieldsInv, NEW l \in Ladders, CommitVector(l)
    PROVE  FieldsInv'
<1>1. /\ lpc[l] = "vector"
      /\ UNCHANGED <<stop, schema, saved, index, marks, lexCkpt, wal,
                     nextSeq, put, history, start, discarded, refused>>
      /\ pend' \in [Fields -> Nat]
      /\ \A f \in Fields :
             (pend')[f] = IF f \in DOMAIN index
                          THEN Larger(pend[f], snap[l]) ELSE pend[f]
      /\ \/ \E s \in {"truncate", "idle"}, W, P \in SUBSET DOMAIN index :
                VectorWrites(l, s, W, P)
         \/ /\ WriterCommitFails /\ StepsTo(l, "idle", FALSE)
            /\ unfollowed' = unfollowed
  BY CommitVectorIs
<1>2. CASE \E s \in {"truncate", "idle"}, W, P \in SUBSET DOMAIN index :
               VectorWrites(l, s, W, P)
  BY <1>1, <1>2, VectorWritesSafe
<1>3. CASE /\ WriterCommitFails /\ StepsTo(l, "idle", FALSE)
           /\ unfollowed' = unfollowed
  BY <1>1, <1>3, VectorFailsSafe
<1> QED BY <1>1, <1>2, <1>3
-----------------------------------------------------------------------------
(* Schema changes.                                                         *)

\* A schema change is applied in an open index that takes writes, so that no
\* record on the log is one that its field would not take.
LEMMA ApplyFrame ==
    ASSUME FieldInv, FieldsInv, ApplyChange
    PROVE  /\ mode = "open" /\ ~stop /\ Settled
           /\ change.step = "apply" /\ change \in Changes
           /\ UNCHANGED <<mode, stop, schema, saved, lexCkpt, wal, nextSeq, put,
                          lpc, snap, history, discarded, refused>>
           /\ Types /\ Numbers /\ Registered /\ Changing /\ LastSeq' = LastSeq
           /\ LastSeq \in Nat
           /\ DOMAIN index \subseteq Fields /\ DOMAIN saved \subseteq Fields
           /\ \A f : ~PendingDelete(f)
           /\ Mismatches' /\ Rebuffered' /\ PutChecked'
           /\ Modes'
<1>1. /\ change.step = "apply"
      /\ UNCHANGED <<mode, stop, schema, saved, lexCkpt, wal, nextSeq, put,
                     lpc, snap, history, discarded, refused>>
  BY DEF ApplyChange, logVars, ladderVars
<1>2. /\ Types /\ Numbers /\ Registered /\ Changing /\ LastSeq' = LastSeq
      /\ LastSeq \in Nat /\ Modes /\ Log /\ Mismatches
      /\ DOMAIN index \subseteq Fields /\ DOMAIN saved \subseteq Fields
  BY <1>1, TableIs DEF FieldsInv, Rest, Types, LastSeq
<1>3. change \in Changes
  BY <1>1, <1>2 DEF Types, NoChange
<1>4. mode = "open"
  BY <1>1, <1>2 DEF Modes
<1>5. ~stop
  BY <1>1 DEF FieldInv, StoppedIsQuiet
<1>6. lpc["recovery"] = "idle"
  BY <1>2, <1>4 DEF Modes
<1>7. \A f : ~PendingDelete(f)
  BY <1>1 DEF PendingDelete
<1>8. Mismatches'
  <2>1. \A r : Mismatch(r)' <=> Mismatch(r)
    BY <1>1 DEF Mismatch, IsPut
  <2>2. \A r \in wal : ~Mismatch(r)
    BY <1>2, <1>4, <1>5 DEF Mismatches
  <2>3. wal' \subseteq history' /\ mode' # "refused" /\ discarded' \subseteq refused'
    BY <1>1, <1>2, <1>4 DEF Log, Mismatches
  <2> QED BY <1>1, <2>1, <2>2, <2>3 DEF Mismatches
<1>9. Rebuffered'
  BY <1>1, <1>6 DEF Rebuffered
<1>10. PutChecked'
  <2>1. put.step # "embedded"
    BY <1>1 DEF FieldInv, LockHeld
  <2>2. put.step \in PutSteps
    BY DEF FieldsInv, PutChecked
  <2>3. put.step # "idle" =>
           /\ mode = "open" /\ nextSeq <= MaxSeq
           /\ put.field \in Fields /\ put.dim \in Dims
    BY DEF FieldsInv, PutChecked
  <2> QED BY <1>1, <2>1, <2>2, <2>3 DEF PutChecked
<1>11. Modes'
  BY <1>1, <1>2, <1>4, <1>6 DEF Modes
<1>12. Settled
  BY <1>4 DEF Settled
<1> QED
  BY <1>1, <1>2, <1>3, <1>4, <1>5, <1>7, <1>8, <1>9, <1>10, <1>11, <1>12

\* A step of a schema change that gives no field new documents, keeps every
\* checkpoint, and unregisters at most a field whose removal it saves next.
LEMMA ApplyWithoutNewField ==
    ASSUME FieldInv, FieldsInv, ApplyChange,
           UNCHANGED <<start, unfollowed>>,
           index' \in Tables, DOMAIN index' \subseteq DOMAIN index,
           \A g \in DOMAIN index' : (index')[g] = index[g],
           files' \in [Fields -> Directory], writer' \subseteq writer,
           buf' \in [Fields -> SUBSET Nat],
           seal' \in [Fields -> {"open", "sealed", "dirty"}], Buffers',
           marks' \in [Fields -> SUBSET Nat], pend' \in [Fields -> Nat],
           \A g \in Fields :
               /\ (files')[g].ckpt = files[g].ckpt
               /\ (files')[g].dim = files[g].dim
               /\ (files')[g].docs \subseteq files[g].docs \cup buf[g]
               /\ (files')[g].marks \subseteq files[g].marks \cup marks[g]
               /\ (buf')[g] \subseteq buf[g]
               /\ (marks')[g] \subseteq marks[g]
               /\ (pend')[g] \in {0, pend[g]},
           change' \in Changes \cup {NoChange}, Changing', ~NewFieldSaves',
           \A g \in DOMAIN index : PendingDelete(g)' \/ g \in DOMAIN index',
           \A g \in DOMAIN index' \ unfollowed : Held(g)' = Held(g),
           \A g \in Followed :
               HasDocs(g)' /\ HasMarks(g)' /\ HasLog(g)' /\ MarksRight(g)'
    PROVE  FieldsInv'
<1>1. /\ mode = "open" /\ ~stop /\ Settled
      /\ change.step = "apply" /\ change \in Changes
      /\ UNCHANGED <<mode, stop, schema, saved, lexCkpt, wal, nextSeq, put,
                     lpc, snap, history, discarded, refused>>
      /\ Types /\ Numbers /\ Registered /\ Changing /\ LastSeq' = LastSeq
      /\ LastSeq \in Nat
      /\ DOMAIN index \subseteq Fields /\ DOMAIN saved \subseteq Fields
      /\ \A f : ~PendingDelete(f)
      /\ Mismatches' /\ Rebuffered' /\ PutChecked'
      /\ Modes'
  BY ApplyFrame
<1>2. \A f : Given(f)' = Given(f)
  BY <1>1 DEF Given
<1>3. Types'
  <2>1. writer' \in SUBSET Fields
    BY <1>1 DEF Types
  <2> QED BY <1>1, <2>1 DEF Types
<1>4. Numbers'
  <2>1. \A f \in Fields :
            /\ (buf')[f] \subseteq 1..LastSeq /\ (marks')[f] \subseteq 1..LastSeq
            /\ (files')[f].docs \subseteq 1..LastSeq
            /\ (files')[f].marks \subseteq 1..LastSeq
            /\ (files')[f].ckpt <= LastSeq /\ (pend')[f] <= LastSeq
            /\ start[f] <= LastSeq
    <3> SUFFICES ASSUME NEW f \in Fields
                 PROVE  /\ (buf')[f] \subseteq 1..LastSeq
                        /\ (marks')[f] \subseteq 1..LastSeq
                        /\ (files')[f].docs \subseteq 1..LastSeq
                        /\ (files')[f].marks \subseteq 1..LastSeq
                        /\ (files')[f].ckpt <= LastSeq /\ (pend')[f] <= LastSeq
                        /\ start[f] <= LastSeq
      OBVIOUS
    <3>1. /\ buf[f] \subseteq 1..LastSeq /\ marks[f] \subseteq 1..LastSeq
          /\ files[f].docs \subseteq 1..LastSeq
          /\ files[f].marks \subseteq 1..LastSeq
          /\ files[f].ckpt <= LastSeq /\ pend[f] <= LastSeq
          /\ start[f] <= LastSeq
      BY <1>1 DEF Numbers
    <3>2. /\ (buf')[f] \subseteq 1..LastSeq /\ (marks')[f] \subseteq 1..LastSeq
          /\ (files')[f].docs \subseteq 1..LastSeq
          /\ (files')[f].marks \subseteq 1..LastSeq
      BY <3>1
    <3>3. (pend')[f] <= LastSeq
      BY <1>1, <3>1
    <3> QED BY <3>1, <3>2, <3>3
  <2>2. \A r \in wal \cup history : RecordShape(r)' /\ r.seq <= LastSeq
    BY <1>1 DEF Numbers, RecordShape, IsPut
  <2>3. /\ \A l \in Ladders :
               /\ snap[l] <= LastSeq
               /\ lpc[l] \in {"vector", "truncate"} => snap[l] <= lexCkpt
        /\ lexCkpt <= LastSeq /\ LastSeq <= MaxSeq
        /\ lexCkpt = LastSeq \/ \E r \in wal : r.seq = LastSeq
    BY <1>1 DEF Numbers
  <2> QED BY <1>1, <2>1, <2>2, <2>3 DEF Numbers
<1>5. Registered'
  <2>1. \A g \in DOMAIN index' :
            /\ (files')[g].dim = (index')[g]
            /\ g \in DOMAIN saved /\ (index')[g] = saved[g]
    BY <1>1 DEF Registered, NewFieldSaves
  <2>2. ASSUME NEW g \in DOMAIN saved
        PROVE  /\ (files')[g].docs # {} \/ (buf')[g] # {} =>
                      (files')[g].dim = saved[g]
               /\ g \in writer' => g \in DOMAIN index' \/ PendingDelete(g)'
    <3>1. g \in Fields
      BY <1>1
    <3>2. (files')[g].docs # {} \/ (buf')[g] # {} =>
              files[g].docs # {} \/ buf[g] # {}
      BY <3>1
    <3>3. g \in writer => g \in DOMAIN index
      BY <1>1 DEF Registered
    <3> QED BY <1>1, <3>1, <3>2, <3>3 DEF Registered
  <2>3. ASSUME NEW g \in DOMAIN saved \ DOMAIN index', ~PendingDelete(g)'
        PROVE  /\ Given(g) # {} => stop
               /\ \A d \in Given(g), l \in Ladders : d > snap[l]
    BY <1>1, <2>3 DEF Registered
  <2> QED BY <1>1, <1>2, <2>1, <2>2, <2>3 DEF Registered
<1>6. Log'
  BY <1>1 DEF FieldsInv, Rest, Log, IsPut
<1>7. Contained'
  <2>1. ASSUME NEW g \in DOMAIN saved \cup DOMAIN index'
        PROVE  g \in Fields /\ buf[g] \subseteq Given(g) /\ (buf')[g] \subseteq Given(g)
    <3>1. buf[g] \subseteq Given(g)
      BY DEF FieldsInv, Rest, Contained
    <3>2. g \in Fields
      BY <1>1
    <3> QED BY <3>1, <3>2
  <2>2. ASSUME NEW g \in Followed' PROVE (files')[g].docs \subseteq Given(g)
    <3>1. g \in Followed /\ g \in DOMAIN saved \cup DOMAIN index'
      BY <1>1, <2>2 DEF Followed
    <3>2. files[g].docs \subseteq Given(g)
      BY <3>1 DEF FieldsInv, Rest, Contained
    <3> QED BY <2>1, <3>1, <3>2
  <2> QED BY <1>1, <1>2, <2>1, <2>2 DEF Contained
<1>8. Memory'
  <2>1. \A g : Owed(g)' = Owed(g)
    BY <1>1 DEF Owed
  <2> QED BY <1>1, <2>1 DEF FieldsInv, Rest, Memory
<1>9. Disk'
  BY <1>1 DEF Disk, Followed
<1>10. Truncates'
  <2> SUFFICES ASSUME NEW l \in Ladders, lpc[l] = "truncate",
                      NEW g \in Followed
               PROVE  Reached(g, snap[l])'
    BY <1>1 DEF Truncates, Followed, Reached
  <2>1. Reached(g, snap[l])
    BY <1>1 DEF FieldsInv, Rest, Truncates
  <2>2. (files')[g].ckpt = files[g].ckpt
    BY <1>1 DEF Followed
  <2> QED BY <1>1, <1>2, <2>1, <2>2 DEF Reached
<1> QED
  BY <1>1, <1>3, <1>4, <1>5, <1>6, <1>7, <1>8, <1>9, <1>10 DEF FieldsInv, Rest

\* A field whose segment is sealed, by a process whose replay is committed.
LEMMA SealedKeeps ==
    ASSUME FieldsInv, Settled, NEW g \in Followed, Given(g)' = Given(g),
           UNCHANGED <<history, wal>>,
           (files')[g].docs = files[g].docs \cup buf[g],
           (files')[g].ckpt = files[g].ckpt, (files')[g].marks = files[g].marks
    PROVE  HasDocs(g)' /\ HasMarks(g)' /\ HasLog(g)' /\ MarksRight(g)'
<1>1. /\ Types /\ Numbers /\ g \in Fields
  BY TableIs DEF FieldsInv, Rest, Types, Followed
<1>2. HasDocs(g) /\ HasMarks(g) /\ HasLog(g) /\ MarksRight(g)
  BY DEF FieldsInv, Rest, Disk
<1>3. HasDocs(g)' /\ HasLog(g)' /\ MarksRight(g)'
  BY <1>2 DEF HasDocs, HasLog, MarksRight
<1>4. HasMarks(g)'
  <2> SUFFICES ASSUME NEW r \in history, ~IsPut(r),
                      r.doc \in files[g].docs \/ r.doc \in buf[g],
                      r.seq <= files[g].ckpt
               PROVE  r.doc \in files[g].marks
    BY DEF HasMarks, IsPut
  <2>1. r.doc \in Nat /\ r.seq \in Nat /\ r.doc <= r.seq /\ files[g].ckpt \in Nat
    BY <1>1 DEF Numbers, RecordShape, Types, Directory
  <2>2. r.doc \in files[g].docs
    <3>1. ASSUME r.doc \in buf[g] PROVE FALSE
      <4>1. r.doc > files[g].ckpt
        BY <1>1, <3>1 DEF FieldsInv, Rest, Buffers
      <4> QED BY <2>1, <4>1
    <3> QED BY <3>1
  <2> QED BY <1>2, <2>2 DEF HasMarks
<1> QED BY <1>3, <1>4

\* What a field in memory holds, it owes; so a deleted document that it has
\* is marked, and one that it owes is not.
LEMMA MarksExact ==
    ASSUME FieldsInv, mode \in {"open", "recovering", "failed"},
           NEW g \in DOMAIN index \ unfollowed
    PROVE  /\ \A d : (d \in files[g].docs \/ d \in buf[g]) /\ d \notin marks[g] <=>
                         d \in Given(g) /\ d \notin Deleted(history)
           /\ marks[g] \cap Given(g) \subseteq Deleted(history)
<1>1. \A d : (d \in files[g].docs \/ d \in buf[g]) /\ d \notin marks[g] <=>
                 d \in Given(g) /\ d \notin Deleted(history)
  BY HeldIs, OwedIs DEF FieldsInv, Rest, Memory
<1> QED BY <1>1
\* The step of a change that its store operation ends with.
LEMMA SavingIs ==
    ASSUME change \in Changes, Saving
    PROVE  /\ change' \in Changes /\ change'.step = "save"
           /\ change'.kind = change.kind /\ change'.field = change.field
           /\ change'.dim = change.dim
BY DEF Changes, Saving

LEMMA ApplyDeletionSafe ==
    ASSUME FieldInv, FieldsInv, ApplyChange, ApplyDeletion
    PROVE  FieldsInv'
<1> DEFINE f == change.field
<1>1. /\ mode = "open" /\ ~stop /\ Settled
      /\ change.step = "apply" /\ change \in Changes
      /\ UNCHANGED <<mode, stop, schema, saved, lexCkpt, wal, nextSeq, put,
                     lpc, snap, history, discarded, refused>>
      /\ Types /\ Numbers /\ Registered /\ Changing
      /\ DOMAIN index \subseteq Fields /\ DOMAIN saved \subseteq Fields
  BY ApplyFrame
<1>2. /\ change.kind = "delete" /\ f \in Fields
      /\ index' = Without(index, f)
      /\ marks' = [marks EXCEPT ![f] = {}]
      /\ pend' = [pend EXCEPT ![f] = 0]
      /\ Saving /\ start' = start /\ unfollowed' = unfollowed
      /\ \/ WriterCommits /\ files' = WithSealed(Sealable) /\ DropWriter
         \/ WriterCommitFails
  BY <1>1 DEF ApplyDeletion, Changes
<1>3. /\ index' \in Tables /\ DOMAIN index' = DOMAIN index \ {f}
      /\ \A g \in DOMAIN index' : (index')[g] = index[g]
  <2>1. /\ Without(index, f) \in Tables
        /\ DOMAIN Without(index, f) = DOMAIN index \ {f}
        /\ \A g \in DOMAIN index : g # f => Without(index, f)[g] = index[g]
    BY <1>1, WithoutIs DEF Types
  <2> QED BY <1>2, <2>1
<1>4. /\ marks' \in [Fields -> SUBSET Nat] /\ pend' \in [Fields -> Nat]
      /\ \A g \in Fields :
             /\ (marks')[g] \subseteq marks[g]
             /\ g # f => (marks')[g] = marks[g]
             /\ (pend')[g] \in {0, pend[g]}
  BY <1>1, <1>2 DEF Types
<1>5. /\ change' \in Changes /\ change'.step = "save"
      /\ change'.kind = "delete" /\ change'.field = f
  BY <1>1, <1>2, SavingIs
<1>6. /\ \A g \in DOMAIN index : PendingDelete(g)' \/ g \in DOMAIN index'
      /\ ~NewFieldSaves'
  <2>1. \A g \in DOMAIN index : PendingDelete(g)' \/ g \in DOMAIN index'
    BY <1>3, <1>5 DEF PendingDelete
  <2>2. ~NewFieldSaves'
    BY <1>5 DEF NewFieldSaves
  <2> QED BY <2>1, <2>2
<1>7. Changing'
  <2>1. change.kind = "add" <=> change.field \notin DOMAIN saved
    BY <1>1 DEF Changing
  <2>2. f \in DOMAIN saved
    BY <1>2, <2>1
  <2> QED BY <1>1, <1>3, <1>5, <2>2 DEF Changing, NewFieldSaves
<1>8. /\ files' \in [Fields -> Directory] /\ writer' \subseteq writer
      /\ buf' \in [Fields -> SUBSET Nat]
      /\ seal' \in [Fields -> {"open", "sealed", "dirty"}] /\ Buffers'
      /\ \A g \in Fields :
             /\ (files')[g].ckpt = files[g].ckpt
             /\ (files')[g].dim = files[g].dim
             /\ (files')[g].marks = files[g].marks
             /\ (files')[g].docs \cup (buf')[g] = files[g].docs \cup buf[g]
             /\ (buf')[g] \subseteq buf[g]
      /\ \A g \in Followed :
             HasDocs(g)' /\ HasMarks(g)' /\ HasLog(g)' /\ MarksRight(g)'
  <2>1. CASE WriterCommits /\ files' = WithSealed(Sealable) /\ DropWriter
    <3>1. /\ files' \in [Fields -> Directory]
          /\ \A g \in Fields :
                 /\ (files')[g].docs = files[g].docs \cup buf[g]
                 /\ (files')[g].ckpt = files[g].ckpt
                 /\ (files')[g].dim = files[g].dim
                 /\ (files')[g].marks = files[g].marks
      BY <2>1, WriterCommitsFacts
    <3>2. /\ writer' = {} /\ buf' \in [Fields -> SUBSET Nat]
          /\ seal' \in [Fields -> {"open", "sealed", "dirty"}]
          /\ \A g \in Fields : (buf')[g] = {} /\ (seal')[g] = "open"
      BY <2>1, DroppedFacts
    <3>3. Buffers'
      BY <3>2 DEF Buffers
    <3>4. ASSUME NEW g \in Followed
          PROVE  HasDocs(g)' /\ HasMarks(g)' /\ HasLog(g)' /\ MarksRight(g)'
      <4>1. g \in Fields
        BY <1>1 DEF Followed
      <4>2. Given(g)' = Given(g)
        BY <1>1, <1>2 DEF Given
      <4> QED BY <1>1, <3>1, <4>1, <4>2, SealedKeeps
    <3>5. \A g \in Fields :
              /\ (files')[g].docs \cup (buf')[g] = files[g].docs \cup buf[g]
              /\ (buf')[g] \subseteq buf[g]
      BY <3>1, <3>2
    <3> QED BY <3>1, <3>2, <3>3, <3>4, <3>5
  <2>2. CASE WriterCommitFails
    <3>1. /\ files' \in [Fields -> Directory]
          /\ writer' = writer /\ buf' = buf
          /\ seal' \in [Fields -> {"open", "sealed", "dirty"}]
          /\ \A g \in Fields :
                 /\ (files')[g].ckpt = files[g].ckpt
                 /\ (files')[g].dim = files[g].dim
                 /\ (files')[g].marks = files[g].marks
                 /\ (files')[g].docs = files[g].docs
                       \/ (files')[g].docs = files[g].docs \cup buf[g]
      BY <2>2, WriterFailsFacts
    <3>2. Settled' => Settled
      BY <1>1
    <3>3. /\ Buffers'
          /\ \A g \in Followed :
                 HasDocs(g)' /\ HasMarks(g)' /\ HasLog(g)' /\ MarksRight(g)'
      BY <1>1, <1>2, <2>2, <3>2, WriterFailsKeeps
    <3>4. \A g \in Fields :
              (files')[g].docs \cup (buf')[g] = files[g].docs \cup buf[g]
      <4> SUFFICES ASSUME NEW g \in Fields
                   PROVE (files')[g].docs \cup buf[g] = files[g].docs \cup buf[g]
        BY <3>1
      <4>1. (files')[g].docs = files[g].docs
                \/ (files')[g].docs = files[g].docs \cup buf[g]
        BY <3>1
      <4> QED BY <4>1
    <3>5. buf' \in [Fields -> SUBSET Nat]
      BY <1>1, <3>1 DEF Types
    <3> QED BY <3>1, <3>3, <3>4, <3>5
  <2> QED BY <1>2, <2>1, <2>2
<1>9. \A g \in DOMAIN index' \ unfollowed : Held(g)' = Held(g)
  <2> SUFFICES ASSUME NEW g \in DOMAIN index', NEW d
               PROVE  d \in Held(g)' <=> d \in Held(g)
    BY DEF Held
  <2>1. g \in Fields /\ g # f
    BY <1>1, <1>3
  <2>2. (files')[g].docs \cup (buf')[g] = files[g].docs \cup buf[g]
    BY <1>8, <2>1
  <2>3. (d \in (files')[g].docs \/ d \in (buf')[g]) <=>
            (d \in files[g].docs \/ d \in buf[g])
    BY <2>2
  <2> QED BY <1>4, <2>1, <2>3, HeldIs
<1>10. \A g \in Fields :
           /\ (files')[g].docs \subseteq files[g].docs \cup buf[g]
           /\ (files')[g].marks \subseteq files[g].marks \cup marks[g]
  BY <1>8
<1> HIDE DEF f
<1> QED
  BY <1>2, <1>3, <1>4, <1>5, <1>6, <1>7, <1>8, <1>9, <1>10,
     ApplyWithoutNewField
\* The files of a field that are merged into one, after all are sealed.
LEMMA RewrittenIs ==
    ASSUME FieldsInv, WriterCommits, NEW f \in Fields,
           NEW docs \in SUBSET Nat, NEW kept \in SUBSET Nat,
           files' = [WithSealed(Sealable) EXCEPT ![f] =
                        [@ EXCEPT !.docs = docs, !.marks = kept]]
    PROVE  /\ files' \in [Fields -> Directory]
           /\ (files')[f].docs = docs /\ (files')[f].marks = kept
           /\ \A g \in Fields :
                  /\ (files')[g].ckpt = files[g].ckpt
                  /\ (files')[g].dim = files[g].dim
                  /\ g # f => /\ (files')[g].docs = files[g].docs \cup buf[g]
                              /\ (files')[g].marks = files[g].marks
<1>1. PICK sealed : sealed = WithSealed(Sealable)
  OBVIOUS
<1>2. /\ sealed \in [Fields -> Directory]
      /\ \A g \in Fields :
             /\ sealed[g].docs = files[g].docs \cup buf[g]
             /\ sealed[g].ckpt = files[g].ckpt
             /\ sealed[g].dim = files[g].dim
             /\ sealed[g].marks = files[g].marks
  BY <1>1, WriterCommitsFacts
<1>3. PICK d : d = [sealed[f] EXCEPT !.docs = docs, !.marks = kept]
  OBVIOUS
<1>4. sealed[f] \in Directory
  BY <1>2
<1>5. /\ d \in Directory /\ d.docs = docs /\ d.marks = kept
      /\ d.ckpt = sealed[f].ckpt /\ d.dim = sealed[f].dim
  BY <1>3, <1>4 DEF Directory
<1>6. files' = [sealed EXCEPT ![f] = d]
  BY <1>1, <1>2, <1>3
<1>7. /\ files' \in [Fields -> Directory] /\ (files')[f] = d
      /\ \A g \in Fields : g # f => (files')[g] = sealed[g]
  BY <1>2, <1>5, <1>6
<1> QED BY <1>2, <1>5, <1>7

\* What a merge drops is not owed, and a mark is kept while its document is.
LEMMA ReindexWrites ==
    ASSUME FieldInv, FieldsInv, ApplyChange, ApplyReindex, WriterCommits,
           DropWriter, NEW f \in Fields, f = change.field,
           \/ /\ f \in DOMAIN index
              /\ \E kept \in {marks[f], {}} :
                     /\ files' = [WithSealed(Sealable) EXCEPT ![f] =
                            [@ EXCEPT !.docs =
                                 WithSealed(Sealable)[f].docs \ marks[f],
                                      !.marks = kept]]
                     /\ marks' = [marks EXCEPT ![f] = kept]
           \/ f \notin DOMAIN index /\ files' = WithSealed(Sealable)
                /\ marks' = marks
           \/ /\ f \in DOMAIN index
              /\ files' = [WithSealed(Sealable) EXCEPT ![f] =
                     [@ EXCEPT !.docs = WithSealed(Sealable)[f].docs,
                               !.marks = marks[f]]]
              /\ marks' = marks
    PROVE  /\ files' \in [Fields -> Directory]
           /\ marks' \in [Fields -> SUBSET Nat]
           /\ \A g \in Fields :
                  /\ (files')[g].ckpt = files[g].ckpt
                  /\ (files')[g].dim = files[g].dim
                  /\ (files')[g].docs \subseteq files[g].docs \cup buf[g]
                  /\ (files')[g].marks \subseteq files[g].marks \cup marks[g]
                  /\ (marks')[g] \subseteq marks[g]
                  /\ (files')[g].docs \ (marks')[g] =
                         (files[g].docs \cup buf[g]) \ marks[g]
           /\ \A g \in Followed :
                  HasDocs(g)' /\ HasMarks(g)' /\ HasLog(g)' /\ MarksRight(g)'
<1>1. /\ mode = "open" /\ Settled /\ UNCHANGED <<saved, wal, history>>
      /\ Types /\ Numbers
      /\ DOMAIN index \subseteq Fields /\ DOMAIN saved \subseteq Fields
  BY ApplyFrame
<1>2. \A g : Given(g)' = Given(g)
  BY <1>1 DEF ApplyReindex, Given
<1>3. /\ WithSealed(Sealable) \in [Fields -> Directory]
      /\ \A g \in Fields :
             /\ WithSealed(Sealable)[g].docs = files[g].docs \cup buf[g]
             /\ WithSealed(Sealable)[g].ckpt = files[g].ckpt
             /\ WithSealed(Sealable)[g].dim = files[g].dim
             /\ WithSealed(Sealable)[g].marks = files[g].marks
  BY WriterCommitsFacts
<1>4. /\ marks[f] \in SUBSET Nat
      /\ files[f].docs \cup buf[f] \in SUBSET Nat
      /\ marks \in [Fields -> SUBSET Nat]
  BY <1>1 DEF Types, Directory
<1>5. \/ /\ f \in DOMAIN index
         /\ \E kept \in {marks[f], {}} :
                /\ (files')[f].docs = (files[f].docs \cup buf[f]) \ marks[f]
                /\ (files')[f].marks = kept
                /\ marks' = [marks EXCEPT ![f] = kept]
      \/ /\ f \notin DOMAIN index
         /\ (files')[f].docs = files[f].docs \cup buf[f]
         /\ (files')[f].marks = files[f].marks
         /\ marks' = marks
      \/ /\ f \in DOMAIN index
         /\ (files')[f].docs = files[f].docs \cup buf[f]
         /\ (files')[f].marks = marks[f]
         /\ marks' = marks
  <2>0. ASSUME NEW docs \in SUBSET Nat, NEW kept \in SUBSET Nat,
               files' = [WithSealed(Sealable) EXCEPT ![f] =
                            [@ EXCEPT !.docs = docs, !.marks = kept]]
        PROVE  (files')[f].docs = docs /\ (files')[f].marks = kept
    <3>1. /\ files' \in [Fields -> Directory]
          /\ (files')[f].docs = docs /\ (files')[f].marks = kept
          /\ \A g \in Fields :
                 /\ (files')[g].ckpt = files[g].ckpt
                 /\ (files')[g].dim = files[g].dim
                 /\ g # f => /\ (files')[g].docs = files[g].docs \cup buf[g]
                             /\ (files')[g].marks = files[g].marks
      BY <2>0, RewrittenIs, Zenon
    <3> QED BY <3>1
  <2>1. ASSUME NEW kept \in {marks[f], {}},
               files' = [WithSealed(Sealable) EXCEPT ![f] =
                            [@ EXCEPT !.docs =
                                 WithSealed(Sealable)[f].docs \ marks[f],
                                      !.marks = kept]]
        PROVE  /\ (files')[f].docs = (files[f].docs \cup buf[f]) \ marks[f]
               /\ (files')[f].marks = kept
    <3>1. PICK docs : docs = WithSealed(Sealable)[f].docs \ marks[f]
      OBVIOUS
    <3>2. docs = (files[f].docs \cup buf[f]) \ marks[f] /\ docs \in SUBSET Nat
      BY <1>3, <1>4, <3>1
    <3>3. kept \in SUBSET Nat
      BY <1>4
    <3>4. files' = [WithSealed(Sealable) EXCEPT ![f] =
                        [@ EXCEPT !.docs = docs, !.marks = kept]]
      BY <2>1, <3>1
    <3>5. (files')[f].docs = docs /\ (files')[f].marks = kept
      BY <2>0, <3>2, <3>3, <3>4
    <3> QED BY <3>2, <3>5
  <2>2. ASSUME files' = [WithSealed(Sealable) EXCEPT ![f] =
                     [@ EXCEPT !.docs = WithSealed(Sealable)[f].docs,
                               !.marks = marks[f]]]
        PROVE  /\ (files')[f].docs = files[f].docs \cup buf[f]
               /\ (files')[f].marks = marks[f]
    <3>1. PICK docs : docs = WithSealed(Sealable)[f].docs
      OBVIOUS
    <3>2. docs = files[f].docs \cup buf[f] /\ docs \in SUBSET Nat
      BY <1>3, <1>4, <3>1
    <3>3. files' = [WithSealed(Sealable) EXCEPT ![f] =
                        [@ EXCEPT !.docs = docs, !.marks = marks[f]]]
      BY <2>2, <3>1
    <3>4. (files')[f].docs = docs /\ (files')[f].marks = marks[f]
      BY ZenonT(60), <1>4, <2>0, <3>2, <3>3
    <3> QED BY <3>2, <3>4
  <2> QED BY <1>3, <2>1, <2>2
<1>6. /\ files' \in [Fields -> Directory]
      /\ \A g \in Fields :
             /\ (files')[g].ckpt = files[g].ckpt
             /\ (files')[g].dim = files[g].dim
             /\ g # f => /\ (files')[g].docs = files[g].docs \cup buf[g]
                         /\ (files')[g].marks = files[g].marks
  <2>1. CASE files' = WithSealed(Sealable)
    BY <1>3, <2>1
  <2>2. ASSUME NEW docs \in SUBSET Nat, NEW kept \in SUBSET Nat,
               files' = [WithSealed(Sealable) EXCEPT ![f] =
                            [@ EXCEPT !.docs = docs, !.marks = kept]]
        PROVE  /\ files' \in [Fields -> Directory]
               /\ \A g \in Fields :
                      /\ (files')[g].ckpt = files[g].ckpt
                      /\ (files')[g].dim = files[g].dim
                      /\ g # f =>
                             /\ (files')[g].docs = files[g].docs \cup buf[g]
                             /\ (files')[g].marks = files[g].marks
    BY <2>2, RewrittenIs
  <2>3. /\ WithSealed(Sealable)[f].docs \in SUBSET Nat
        /\ WithSealed(Sealable)[f].docs \ marks[f] \in SUBSET Nat
    BY <1>3, <1>4
  <2> QED BY ZenonT(60), <1>4, <2>1, <2>2, <2>3
<1>7. /\ marks' \in [Fields -> SUBSET Nat]
      /\ \A g \in Fields : g # f => (marks')[g] = marks[g]
  BY <1>4, <1>5
<1>8. /\ (files')[f].docs \subseteq files[f].docs \cup buf[f]
      /\ (files')[f].marks \subseteq files[f].marks \cup marks[f]
      /\ (marks')[f] \subseteq marks[f]
      /\ (files')[f].docs \ (marks')[f] = (files[f].docs \cup buf[f]) \ marks[f]
  <2>1. CASE (files')[f].docs = (files[f].docs \cup buf[f]) \ marks[f]
    <3>1. (marks')[f] \in {marks[f], {}}
      BY <1>4, <1>5
    <3>2. (files')[f].docs = (files[f].docs \cup buf[f]) \ marks[f]
      BY <2>1
    <3>3. (files')[f].marks \subseteq files[f].marks \cup marks[f]
      BY <1>5
    <3> QED BY <3>1, <3>2, <3>3
  <2>2. CASE (files')[f].docs # (files[f].docs \cup buf[f]) \ marks[f]
    <3>1. /\ (files')[f].docs = files[f].docs \cup buf[f] /\ marks' = marks
          /\ (files')[f].marks \in {files[f].marks, marks[f]}
      BY <1>5, <2>2
    <3> QED BY <3>1
  <2> QED BY <2>1, <2>2
<1>9. ASSUME NEW g \in Followed
      PROVE  HasDocs(g)' /\ HasMarks(g)' /\ HasLog(g)' /\ MarksRight(g)'
  <2>1. g \in Fields /\ HasLog(g)
    BY <1>1 DEF FieldsInv, Rest, Disk, Followed
  <2>2. CASE g # f \/ f \notin DOMAIN index
    <3>1. /\ (files')[g].docs = files[g].docs \cup buf[g]
          /\ (files')[g].ckpt = files[g].ckpt
          /\ (files')[g].marks = files[g].marks
      BY <1>5, <1>6, <2>1, <2>2
    <3> QED BY <1>1, <1>2, <3>1, SealedKeeps
  <2>3. CASE g = f /\ f \in DOMAIN index
    <3>1. g \in DOMAIN index \ unfollowed
      BY <2>3 DEF Followed
    <3>2. /\ \A d : (d \in files[g].docs \/ d \in buf[g]) /\ d \notin marks[g] <=>
                        d \in Given(g) /\ d \notin Deleted(history)
          /\ marks[g] \cap Given(g) \subseteq Deleted(history)
      BY <1>1, <3>1, MarksExact
    <3>3. \/ (files')[g].docs = (files[g].docs \cup buf[g]) \ marks[g]
                /\ (files')[g].marks \subseteq marks[g]
          \/ (files')[g].docs = files[g].docs \cup buf[g]
                /\ (files')[g].marks = marks[g]
      BY <1>5, <2>3
    <3>4. HasDocs(g)'
      BY <1>1, <1>2, <3>2, <3>3 DEF HasDocs
    <3>5. HasMarks(g)'
      <4> SUFFICES ASSUME NEW r \in history, ~IsPut(r), r.doc \in (files')[g].docs
                   PROVE  r.doc \in (files')[g].marks
        BY <1>1 DEF HasMarks, IsPut
      <4>1. r.doc \in Deleted(history)
        BY DeletedIs
      <4> QED BY <3>2, <3>3, <4>1
    <3>6. HasLog(g)'
      BY <1>1, <1>2, <1>6, <2>1 DEF HasLog
    <3>7. MarksRight(g)'
      BY <1>1, <1>2, <3>2, <3>3 DEF MarksRight
    <3> QED BY <3>4, <3>5, <3>6, <3>7
  <2> QED BY <2>2, <2>3
<1>10. ASSUME NEW g \in Fields, g # f
       PROVE  /\ (files')[g].docs \subseteq files[g].docs \cup buf[g]
              /\ (files')[g].marks \subseteq files[g].marks \cup marks[g]
              /\ (marks')[g] \subseteq marks[g]
              /\ (files')[g].docs \ (marks')[g] =
                     (files[g].docs \cup buf[g]) \ marks[g]
  <2>1. /\ (files')[g].docs = files[g].docs \cup buf[g]
        /\ (files')[g].marks = files[g].marks /\ (marks')[g] = marks[g]
    BY <1>6, <1>7, <1>10
  <2> QED BY <2>1
<1> QED BY <1>6, <1>7, <1>8, <1>9, <1>10
LEMMA ApplyReindexSafe ==
    ASSUME FieldInv, FieldsInv, ApplyChange, ApplyReindex
    PROVE  FieldsInv'
<1>1. /\ mode = "open" /\ Settled
      /\ change.step = "apply" /\ change \in Changes
      /\ UNCHANGED <<mode, saved, wal, history>>
      /\ Types /\ Numbers /\ Changing
      /\ DOMAIN index \subseteq Fields /\ DOMAIN saved \subseteq Fields
  BY ApplyFrame
<1>2. PICK f \in Fields : f = change.field
  BY <1>1 DEF Changes
<1>3. change.kind = "reindex" /\ UNCHANGED <<index, start, unfollowed>>
  BY DEF ApplyReindex
<1>4. \/ /\ WriterCommits /\ DropWriter /\ Saving
         /\ f \in DOMAIN index
         /\ \E kept \in {marks[f], {}} :
                /\ files' = [WithSealed(Sealable) EXCEPT ![f] =
                       [@ EXCEPT !.docs =
                            WithSealed(Sealable)[f].docs \ marks[f],
                                 !.marks = kept]]
                /\ marks' = [marks EXCEPT ![f] = kept]
         /\ pend' = [pend EXCEPT ![f] = 0]
      \/ /\ WriterCommits /\ DropWriter /\ change' = NoChange
         /\ \/ f \notin DOMAIN index /\ files' = WithSealed(Sealable)
            \/ /\ f \in DOMAIN index
               /\ files' = [WithSealed(Sealable) EXCEPT ![f] =
                      [@ EXCEPT !.docs = WithSealed(Sealable)[f].docs,
                                !.marks = marks[f]]]
         /\ UNCHANGED <<marks, pend>>
      \/ WriterCommitFails /\ change' = NoChange /\ UNCHANGED <<marks, pend>>
  BY <1>2 DEF ApplyReindex
<1>5. /\ change' \in Changes \cup {NoChange}
      /\ Changing' /\ ~NewFieldSaves'
  <2>1. CASE change' = NoChange
    BY <2>1 DEF Changing, NewFieldSaves, NoChange
  <2>2. CASE Saving
    <3>1. /\ change' \in Changes /\ change'.step = "save"
          /\ change'.kind = "reindex" /\ change'.field = f
          /\ change'.dim = change.dim
      BY <1>1, <1>2, <1>3, <2>2, SavingIs
    <3>2. f \in DOMAIN saved /\ saved[f] = change.dim
      BY <1>1, <1>2, <1>3 DEF Changing
    <3>3. Changing'
      BY <1>1, <3>1, <3>2 DEF Changing, NewFieldSaves
    <3> QED BY <3>1, <3>3 DEF NewFieldSaves
  <2> QED BY <1>4, <2>1, <2>2
<1>6. /\ pend' \in [Fields -> Nat]
      /\ \A g \in Fields : (pend')[g] \in {0, pend[g]}
  BY <1>1, <1>4 DEF Types
<1>7. /\ files' \in [Fields -> Directory] /\ writer' \subseteq writer
      /\ buf' \in [Fields -> SUBSET Nat]
      /\ seal' \in [Fields -> {"open", "sealed", "dirty"}] /\ Buffers'
      /\ marks' \in [Fields -> SUBSET Nat]
      /\ \A g \in Fields :
             /\ (files')[g].ckpt = files[g].ckpt
             /\ (files')[g].dim = files[g].dim
             /\ (files')[g].docs \subseteq files[g].docs \cup buf[g]
             /\ (files')[g].marks \subseteq files[g].marks \cup marks[g]
             /\ (buf')[g] \subseteq buf[g]
             /\ (marks')[g] \subseteq marks[g]
             /\ ((files')[g].docs \cup (buf')[g]) \ (marks')[g] =
                    (files[g].docs \cup buf[g]) \ marks[g]
      /\ \A g \in Followed :
             HasDocs(g)' /\ HasMarks(g)' /\ HasLog(g)' /\ MarksRight(g)'
  <2>1. CASE WriterCommits /\ DropWriter
    <3>1. /\ writer' = {} /\ buf' \in [Fields -> SUBSET Nat]
          /\ seal' \in [Fields -> {"open", "sealed", "dirty"}]
          /\ \A g \in Fields : (buf')[g] = {} /\ (seal')[g] = "open"
      BY <2>1, DroppedFacts
    <3>2. Buffers'
      BY <3>1 DEF Buffers
    <3>3. /\ files' \in [Fields -> Directory]
          /\ marks' \in [Fields -> SUBSET Nat]
          /\ \A g \in Fields :
                 /\ (files')[g].ckpt = files[g].ckpt
                 /\ (files')[g].dim = files[g].dim
                 /\ (files')[g].docs \subseteq files[g].docs \cup buf[g]
                 /\ (files')[g].marks \subseteq files[g].marks \cup marks[g]
                 /\ (marks')[g] \subseteq marks[g]
                 /\ (files')[g].docs \ (marks')[g] =
                        (files[g].docs \cup buf[g]) \ marks[g]
          /\ \A g \in Followed :
                 HasDocs(g)' /\ HasMarks(g)' /\ HasLog(g)' /\ MarksRight(g)'
      <4>1. CASE /\ f \in DOMAIN index
                 /\ \E kept \in {marks[f], {}} :
                        /\ files' = [WithSealed(Sealable) EXCEPT ![f] =
                               [@ EXCEPT !.docs =
                                    WithSealed(Sealable)[f].docs \ marks[f],
                                         !.marks = kept]]
                        /\ marks' = [marks EXCEPT ![f] = kept]
        BY <1>2, <2>1, <4>1, ReindexWrites
      <4>2. CASE f \notin DOMAIN index /\ files' = WithSealed(Sealable)
                     /\ marks' = marks
        BY <1>2, <2>1, <4>2, ReindexWrites
      <4>3. CASE /\ f \in DOMAIN index
                 /\ files' = [WithSealed(Sealable) EXCEPT ![f] =
                        [@ EXCEPT !.docs = WithSealed(Sealable)[f].docs,
                                  !.marks = marks[f]]]
                 /\ marks' = marks
        BY <1>2, <2>1, <4>3, ReindexWrites
      <4>4. CASE WriterCommitFails
        <5>1. Unsealable = {}
          BY <2>1 DEF WriterCommits
        <5>2. PICK failing \in SUBSET Sealable : failing # {}
          BY <4>4, <5>1 DEF WriterCommitFails
        <5>3. PICK g \in Sealable : g \in writer
          BY <5>2 DEF Sealable
        <5> QED BY <3>1, <4>4, <5>3 DEF WriterCommitFails
      <4> QED BY <1>4, <4>1, <4>2, <4>3, <4>4
    <3>4. \A g \in Fields :
              /\ ((files')[g].docs \cup (buf')[g]) \ (marks')[g] =
                     (files[g].docs \cup buf[g]) \ marks[g]
              /\ (buf')[g] \subseteq buf[g]
      BY <3>1, <3>3
    <3> QED BY <3>1, <3>2, <3>3, <3>4
  <2>2. CASE WriterCommitFails /\ UNCHANGED <<marks, pend>>
    <3>1. /\ files' \in [Fields -> Directory]
          /\ writer' = writer /\ buf' = buf
          /\ seal' \in [Fields -> {"open", "sealed", "dirty"}]
          /\ \A g \in Fields :
                 /\ (files')[g].ckpt = files[g].ckpt
                 /\ (files')[g].dim = files[g].dim
                 /\ (files')[g].marks = files[g].marks
                 /\ (files')[g].docs = files[g].docs
                       \/ (files')[g].docs = files[g].docs \cup buf[g]
      BY <2>2, WriterFailsFacts
    <3>2. Settled' => Settled
      BY <1>1
    <3>3. /\ Buffers'
          /\ \A g \in Followed :
                 HasDocs(g)' /\ HasMarks(g)' /\ HasLog(g)' /\ MarksRight(g)'
      BY <1>1, <1>3, <2>2, <3>2, WriterFailsKeeps
    <3>4. ASSUME NEW g \in Fields
          PROVE  /\ (files')[g].docs \subseteq files[g].docs \cup buf[g]
                 /\ ((files')[g].docs \cup buf[g]) \ marks[g] =
                        (files[g].docs \cup buf[g]) \ marks[g]
      <4>1. (files')[g].docs = files[g].docs
                \/ (files')[g].docs = files[g].docs \cup buf[g]
        BY <3>1
      <4> QED BY <4>1
    <3>5. buf' \in [Fields -> SUBSET Nat] /\ marks' \in [Fields -> SUBSET Nat]
      BY <1>1, <2>2, <3>1 DEF Types
    <3> QED BY <2>2, <3>1, <3>3, <3>4, <3>5
  <2> QED BY <1>4, <2>1, <2>2
<1>8. \A g \in DOMAIN index' \ unfollowed : Held(g)' = Held(g)
  BY <1>1, <1>3, <1>7 DEF Held
<1>9. /\ index' \in Tables /\ DOMAIN index' \subseteq DOMAIN index
      /\ \A g \in DOMAIN index' : (index')[g] = index[g]
      /\ \A g \in DOMAIN index : PendingDelete(g)' \/ g \in DOMAIN index'
  BY <1>1, <1>3 DEF Types
<1> QED
  BY <1>3, <1>5, <1>6, <1>7, <1>8, <1>9, ApplyWithoutNewField
\* What a failed purge leaves was there, under the checkpoint it had.
LEMMA LeftoversAre ==
    ASSUME FieldsInv, WriterCommits, NEW f \in Fields,
           NEW left \in Leftovers(WithSealed(Sealable)[f])
    PROVE  /\ left \in Directory /\ left.dim = files[f].dim
           /\ left.docs \subseteq files[f].docs \cup buf[f]
           /\ left.marks \subseteq files[f].marks
           /\ left.ckpt <= files[f].ckpt
<1>1. PICK dir : dir = WithSealed(Sealable)[f]
  OBVIOUS
<1>2. /\ dir \in Directory
      /\ dir.docs = files[f].docs \cup buf[f]
      /\ dir.ckpt = files[f].ckpt
      /\ dir.dim = files[f].dim
      /\ dir.marks = files[f].marks
  BY <1>1, WriterCommitsFacts
<1>3. PICK docs \in SUBSET dir.docs, kept \in {{}, dir.marks},
           n \in {0, dir.ckpt} :
           left = [docs |-> docs, dim |-> dir.dim, marks |-> kept, ckpt |-> n]
  BY <1>1 DEF Leftovers
<1>4. dir.docs \in SUBSET Nat /\ dir.marks \in SUBSET Nat
      /\ dir.ckpt \in Nat /\ dir.dim \in Dims \cup {"none"}
  BY <1>2 DEF Directory
<1>5. docs \in SUBSET Nat /\ kept \in SUBSET Nat /\ n \in Nat
      /\ kept \subseteq dir.marks /\ n <= dir.ckpt
  BY <1>3, <1>4
<1>6. left \in Directory
  BY <1>3, <1>4, <1>5 DEF Directory
<1>7. left.docs = docs /\ left.marks = kept /\ left.ckpt = n
      /\ left.dim = dir.dim
  BY <1>3
<1> QED BY <1>2, <1>3, <1>5, <1>6, <1>7

\* The files after a purge, whose writer sealed all others.
LEMMA PurgedIs ==
    ASSUME FieldsInv, WriterCommits, NEW f \in Fields, NEW left \in Directory,
           files' = Purged(f, left)
    PROVE  /\ files' \in [Fields -> Directory]
           /\ (files')[f] = left
           /\ \A g \in Fields :
                  g # f => /\ (files')[g].docs = files[g].docs \cup buf[g]
                           /\ (files')[g].marks = files[g].marks
                           /\ (files')[g].ckpt = files[g].ckpt
                           /\ (files')[g].dim = files[g].dim
<1>1. PICK sealed : sealed = WithSealed(Sealable)
  OBVIOUS
<1>2. /\ sealed \in [Fields -> Directory]
      /\ \A g \in Fields :
             /\ sealed[g].docs = files[g].docs \cup buf[g]
             /\ sealed[g].ckpt = files[g].ckpt
             /\ sealed[g].dim = files[g].dim
             /\ sealed[g].marks = files[g].marks
  BY <1>1, WriterCommitsFacts
<1>3. files' = [sealed EXCEPT ![f] = left]
  BY <1>1 DEF Purged
<1>4. /\ files' \in [Fields -> Directory] /\ (files')[f] = left
      /\ \A g \in Fields : g # f => (files')[g] = sealed[g]
  BY <1>2, <1>3
<1> QED BY <1>2, <1>4

\* No put on the log is for the field that begins, which holds nothing, or
\* only what a failed purge left in it.
LEMMA ApplyNewFieldSafe ==
    ASSUME FieldInv, FieldsInv, ApplyChange, ApplyNewField
    PROVE  FieldsInv'
<1>1. /\ mode = "open" /\ ~stop /\ Settled
      /\ change.step = "apply" /\ change \in Changes
      /\ UNCHANGED <<mode, stop, schema, saved, lexCkpt, wal, nextSeq, put,
                     lpc, snap, history, discarded, refused>>
      /\ Types /\ Numbers /\ Registered /\ Changing /\ LastSeq' = LastSeq
      /\ LastSeq \in Nat
      /\ DOMAIN index \subseteq Fields /\ DOMAIN saved \subseteq Fields
      /\ \A f : ~PendingDelete(f)
      /\ Mismatches' /\ Rebuffered' /\ PutChecked'
      /\ Modes'
  BY ApplyFrame
<1>2. PICK f \in Fields : f = change.field
  BY <1>1 DEF Changes
<1>3. PICK d \in Dims : d = change.dim
  BY <1>1 DEF Changes
<1>4. PICK others : others = Without(index, f)
  OBVIOUS
<1>5. /\ others \in Tables /\ DOMAIN others = DOMAIN index \ {f}
      /\ \A g \in DOMAIN others : others[g] = index[g]
  <2>1. index \in Tables
    BY <1>1 DEF Types
  <2>2. /\ Without(index, f) \in Tables
        /\ DOMAIN Without(index, f) = DOMAIN index \ {f}
        /\ \A g \in DOMAIN index : g # f => Without(index, f)[g] = index[g]
    BY <2>1, WithoutIs
  <2> QED BY <1>4, <2>2
<1>6. /\ change.kind \in {"add", "recreate"} /\ WriterCommits /\ DropWriter
      /\ marks' = [marks EXCEPT ![f] = {}]
      /\ start' = [start EXCEPT ![f] = LastSeq]
      /\ \/ /\ files' = Purged(f, EmptyDirectory(d))
            /\ unfollowed' = unfollowed \ {f}
            /\ index' = With(others, f, d)
            /\ pend' = [pend EXCEPT ![f] = LowestCkpt(others)]
            /\ Saving
         \/ /\ \E left \in Leftovers(WithSealed(Sealable)[f]) :
                   /\ files' = Purged(f, left)
                   /\ unfollowed' = IF left.docs = {} THEN unfollowed \ {f}
                                    ELSE unfollowed \cup {f}
            /\ index' = others
            /\ pend' = [pend EXCEPT ![f] = 0]
            /\ change' = NoChange
  BY <1>2, <1>3, <1>4 DEF ApplyNewField
<1>7. Puts(wal) = {}
  BY <1>1, <1>6 DEF Changing
<1>26. /\ EmptyDirectory(d) \in Directory
       /\ EmptyDirectory(d).docs = {} /\ EmptyDirectory(d).marks = {}
       /\ EmptyDirectory(d).dim = d /\ EmptyDirectory(d).ckpt = 0
  BY DEF EmptyDirectory, Directory
<1>27. PICK left \in Directory :
           /\ files' = Purged(f, left)
           /\ left.docs \subseteq files[f].docs \cup buf[f]
           /\ left.marks \subseteq files[f].marks
           /\ left.ckpt <= files[f].ckpt
           /\ left.docs = {} => unfollowed' = unfollowed \ {f}
           /\ left.docs # {} => unfollowed' = unfollowed \cup {f}
           /\ \/ /\ index' = With(others, f, d) /\ Saving
                 /\ left.dim = d /\ left.docs = {}
              \/ /\ index' = others /\ change' = NoChange
                 /\ left.dim = files[f].dim
  <2>1. CASE /\ files' = Purged(f, EmptyDirectory(d))
             /\ unfollowed' = unfollowed \ {f}
             /\ index' = With(others, f, d) /\ Saving
    <3>1. files[f].ckpt \in Nat
      BY <1>1 DEF Types, Directory
    <3>2. EmptyDirectory(d).ckpt <= files[f].ckpt
      BY <1>26, <3>1
    <3> QED BY <1>26, <2>1, <3>2
  <2>2. CASE /\ \E left \in Leftovers(WithSealed(Sealable)[f]) :
                   /\ files' = Purged(f, left)
                   /\ unfollowed' = IF left.docs = {} THEN unfollowed \ {f}
                                    ELSE unfollowed \cup {f}
             /\ index' = others /\ change' = NoChange
    <3>1. PICK left \in Leftovers(WithSealed(Sealable)[f]) :
              /\ files' = Purged(f, left)
              /\ left.docs = {} => unfollowed' = unfollowed \ {f}
              /\ left.docs # {} => unfollowed' = unfollowed \cup {f}
      BY <2>2
    <3>2. /\ left \in Directory /\ left.dim = files[f].dim
          /\ left.docs \subseteq files[f].docs \cup buf[f]
          /\ left.marks \subseteq files[f].marks
          /\ left.ckpt <= files[f].ckpt
      BY <1>6, LeftoversAre
    <3> QED BY <2>2, <3>1, <3>2
  <2> QED BY <1>6, <2>1, <2>2
<1>8. /\ files' \in [Fields -> Directory]
      /\ (files')[f] = left
      /\ \A g \in Fields :
             g # f => /\ (files')[g].docs = files[g].docs \cup buf[g]
                      /\ (files')[g].marks = files[g].marks
                      /\ (files')[g].ckpt = files[g].ckpt
                      /\ (files')[g].dim = files[g].dim
  BY <1>6, <1>27, PurgedIs
<1>28. f \in Followed' => left.docs = {}
  BY <1>27 DEF Followed
<1>9. /\ writer' = {} /\ buf' \in [Fields -> SUBSET Nat]
      /\ seal' \in [Fields -> {"open", "sealed", "dirty"}]
      /\ \A g \in Fields : (buf')[g] = {} /\ (seal')[g] = "open"
  BY <1>6, DroppedFacts
<1>10. /\ marks' \in [Fields -> SUBSET Nat] /\ start' \in [Fields -> Nat]
       /\ (marks')[f] = {} /\ (start')[f] = LastSeq
       /\ \A g \in Fields : g # f => /\ (marks')[g] = marks[g]
                                     /\ (start')[g] = start[g]
  BY <1>1, <1>6 DEF Types
<1>11. LowestCkpt(others) \in Nat /\ LowestCkpt(others) <= LastSeq
  <2>1. files \in [Fields -> Directory]
    BY <1>1 DEF Types
  <2>2. CASE DOMAIN others = {}
    BY <1>1, <2>2 DEF LowestCkpt
  <2>3. CASE DOMAIN others # {}
    <3>1. /\ LowestCkpt(others) \in Nat
          /\ \E g \in DOMAIN others : LowestCkpt(others) = files[g].ckpt
      BY <1>5, <2>1, <2>3, LowestIs
    <3> QED BY <1>1, <1>5, <3>1 DEF Numbers
  <2> QED BY <2>2, <2>3
<1>12. /\ pend' \in [Fields -> Nat]
       /\ \A g \in Fields : (pend')[g] <= LastSeq
  <2>1. PICK p \in Nat : p <= LastSeq /\ pend' = [pend EXCEPT ![f] = p]
    BY <1>1, <1>6, <1>11
  <2>2. pend \in [Fields -> Nat] /\ \A g \in Fields : pend[g] <= LastSeq
    BY <1>1 DEF Types, Numbers
  <2> QED BY <2>1, <2>2
<1>13. /\ index' \in Tables
       /\ \A g \in DOMAIN index' \ {f} : g \in DOMAIN index /\ (index')[g] = index[g]
       /\ DOMAIN index \subseteq DOMAIN index' \cup {f}
       /\ \/ /\ f \in DOMAIN index' /\ (index')[f] = d
             /\ change' \in Changes /\ change'.step = "save"
             /\ change'.kind = change.kind /\ change'.field = f
             /\ change'.dim = d /\ left.dim = d /\ left.docs = {}
          \/ /\ f \notin DOMAIN index' /\ change' = NoChange
             /\ left.dim = files[f].dim
  <2>1. CASE /\ index' = With(others, f, d) /\ Saving
             /\ left.dim = d /\ left.docs = {}
    <3>1. /\ With(others, f, d) \in Tables
          /\ DOMAIN With(others, f, d) = DOMAIN others \cup {f}
          /\ With(others, f, d)[f] = d
          /\ \A g \in DOMAIN others : g # f => With(others, f, d)[g] = others[g]
      BY <1>5, WithIs
    <3>2. /\ change' \in Changes /\ change'.step = "save"
          /\ change'.kind = change.kind /\ change'.field = f
          /\ change'.dim = d
      BY <1>1, <1>2, <1>3, <2>1, SavingIs
    <3> QED BY <1>5, <2>1, <3>1, <3>2
  <2>2. CASE /\ index' = others /\ change' = NoChange
             /\ left.dim = files[f].dim
    BY <1>5, <2>2
  <2> QED BY <1>27, <2>1, <2>2
<1>14. /\ \A x : x \notin Given(f)'
       /\ \A g \in Fields \ {f} : Given(g)' = Given(g)
  <2>1. \A x : x \notin Given(f)'
    <3>1. \A r \in history : ~(r.seq > LastSeq)
      BY <1>1 DEF Numbers, RecordShape
    <3> QED BY <1>1, <1>10, <3>1, GivenIsNext
  <2>2. ASSUME NEW g \in Fields \ {f} PROVE Given(g)' = Given(g)
    <3>1. (start')[g] = start[g]
      BY <1>10
    <3>2. \A x : x \in Given(g)' <=> x \in Given(g)
      BY <1>1, <3>1, GivenIs, GivenIsNext
    <3> QED BY <3>2 DEF Given
  <2> QED BY <2>1, <2>2
<1>15. Types'
  BY <1>1, <1>8, <1>9, <1>10, <1>12, <1>13 DEF Types
<1>16. Numbers'
  <2>1. ASSUME NEW g \in Fields
        PROVE  /\ (buf')[g] \subseteq 1..LastSeq /\ (marks')[g] \subseteq 1..LastSeq
               /\ (files')[g].docs \subseteq 1..LastSeq
               /\ (files')[g].marks \subseteq 1..LastSeq
               /\ (files')[g].ckpt <= LastSeq /\ (pend')[g] <= LastSeq
               /\ (start')[g] <= LastSeq
    <3>1. /\ buf[g] \subseteq 1..LastSeq /\ marks[g] \subseteq 1..LastSeq
          /\ files[g].docs \subseteq 1..LastSeq
          /\ files[g].marks \subseteq 1..LastSeq
          /\ files[g].ckpt <= LastSeq /\ start[g] <= LastSeq
      BY <1>1 DEF Numbers
    <3>2. CASE g = f
      <4>1. left.docs \subseteq 1..LastSeq /\ left.marks \subseteq 1..LastSeq
        BY <1>27, <3>1, <3>2
      <4>2. left.ckpt <= LastSeq
        <5>1. files[f].ckpt \in Nat /\ left.ckpt \in Nat
          BY <1>1 DEF Types, Directory
        <5> QED BY <1>1, <1>27, <3>1, <3>2, <5>1
      <4> QED BY <1>1, <1>8, <1>9, <1>10, <1>12, <3>2, <4>1, <4>2
    <3>3. CASE g # f
      <4>1. (files')[g].docs \subseteq 1..LastSeq
        BY <1>8, <3>1, <3>3
      <4> QED BY <1>8, <1>9, <1>10, <1>12, <3>1, <3>3, <4>1
    <3> QED BY <3>2, <3>3
  <2>2. \A r \in wal \cup history : RecordShape(r)' /\ r.seq <= LastSeq
    BY <1>1 DEF Numbers, RecordShape, IsPut
  <2>3. /\ \A l \in Ladders :
               /\ snap[l] <= LastSeq
               /\ lpc[l] \in {"vector", "truncate"} => snap[l] <= lexCkpt
        /\ lexCkpt <= LastSeq /\ LastSeq <= MaxSeq
        /\ lexCkpt = LastSeq \/ \E r \in wal : r.seq = LastSeq
    BY <1>1 DEF Numbers
  <2> QED BY <1>1, <2>1, <2>2, <2>3 DEF Numbers
<1>17. Changing'
  <2>1. CASE change' = NoChange
    BY <2>1 DEF Changing, NoChange
  <2>2. CASE /\ f \in DOMAIN index' /\ (index')[f] = d
             /\ change' \in Changes /\ change'.step = "save"
             /\ change'.kind = change.kind /\ change'.field = f
             /\ change'.dim = d
    <3>1. change.kind = "add" <=> f \notin DOMAIN saved
      BY <1>1, <1>2 DEF Changing
    <3>2. Puts(wal)' = {}
      BY <1>1, <1>7 DEF Puts, IsPut
    <3> QED BY <1>1, <1>6, <2>2, <3>1, <3>2 DEF Changing, NewFieldSaves
  <2> QED BY <1>13, <2>1, <2>2
<1>18. Registered'
  <2>1. ASSUME NEW g \in DOMAIN index'
        PROVE  /\ (files')[g].dim = (index')[g]
               /\ \/ g \in DOMAIN saved /\ (index')[g] = saved[g]
                  \/ (NewFieldSaves /\ change.field = g)'
    <3>1. CASE g = f
      BY <1>6, <1>8, <1>13, <3>1 DEF NewFieldSaves
    <3>2. CASE g # f
      <4>1. g \in DOMAIN index /\ (index')[g] = index[g] /\ g \in Fields
        BY <1>1, <1>13, <3>2
      <4>2. /\ files[g].dim = index[g]
            /\ g \in DOMAIN saved /\ index[g] = saved[g]
        BY <1>1, <4>1 DEF Registered, NewFieldSaves
      <4> QED BY <1>8, <3>2, <4>1, <4>2
    <3> QED BY <3>1, <3>2
  <2>2. ASSUME NEW g \in DOMAIN saved
        PROVE  (files')[g].docs # {} \/ (buf')[g] # {} =>
                   (files')[g].dim = saved[g]
    <3>1. CASE g = f
      <4>1. CASE left.docs = {}
        BY <1>8, <1>9, <3>1, <4>1
      <4>2. CASE left.docs # {}
        <5>1. files[f].docs # {} \/ buf[f] # {}
          BY <1>27, <4>2
        <5>2. files[f].dim = saved[f]
          BY <1>1, <3>1, <5>1 DEF Registered
        <5>3. left.dim = files[f].dim
          BY <1>13, <4>2
        <5> QED BY <1>8, <3>1, <5>2, <5>3
      <4> QED BY <4>1, <4>2
    <3>2. CASE g # f
      <4>1. files[g].docs # {} \/ buf[g] # {} => files[g].dim = saved[g]
        BY <1>1 DEF Registered
      <4>2. g \in Fields
        BY <1>1
      <4> QED BY <1>8, <1>9, <3>2, <4>1, <4>2
    <3> QED BY <3>1, <3>2
  <2>3. ASSUME NEW g \in DOMAIN saved \ DOMAIN index'
        PROVE  /\ Given(g)' # {} => stop
               /\ \A x \in Given(g)', l \in Ladders : x > snap[l]
    <3>1. CASE g = f
      <4>1. Given(g)' = {}
        BY <1>14, <3>1
      <4> QED BY <4>1
    <3>2. CASE g # f
      <4>1. g \in DOMAIN saved \ DOMAIN index /\ g \in Fields
        BY <1>1, <1>13, <3>2
      <4>2. /\ Given(g) # {} => stop
            /\ \A x \in Given(g), l \in Ladders : x > snap[l]
        BY <1>1, <4>1 DEF Registered
      <4>3. Given(g)' = Given(g)
        BY <1>14, <3>2, <4>1
      <4> QED BY <4>2, <4>3
    <3> QED BY <3>1, <3>2
  <2> QED BY <1>1, <1>9, <2>1, <2>2, <2>3 DEF Registered
<1>19. Buffers'
  BY <1>9 DEF Buffers
<1>20. Log'
  <2>1. \A r \in wal : ~IsPut(r)
    BY <1>7 DEF Puts
  <2>2. /\ \A r, s \in wal \cup history : r.seq = s.seq => r = s
        /\ \A r \in wal, s \in history : s.seq > r.seq => s \in wal
        /\ mode = "open" => wal \subseteq history
    BY DEF FieldsInv, Rest, Log
  <2> QED BY <1>1, <2>1, <2>2 DEF Log, IsPut
<1>23. ASSUME NEW g \in Followed', g # f
       PROVE  g \in Followed /\ g \in Fields
  BY <1>1, <1>13, <1>23, <1>27 DEF Followed
<1>21. Contained'
  <2>1. ASSUME NEW g \in Followed' PROVE (files')[g].docs \subseteq Given(g)'
    <3>1. CASE g = f
      BY <1>8, <1>28, <2>1, <3>1
    <3>2. CASE g # f
      <4>1. g \in Followed /\ g \in Fields
        BY <1>23, <2>1, <3>2
      <4>2. g \in DOMAIN saved \cup DOMAIN index
        BY <4>1 DEF Followed
      <4>3. files[g].docs \subseteq Given(g) /\ buf[g] \subseteq Given(g)
        BY <4>1, <4>2 DEF FieldsInv, Rest, Contained
      <4>4. Given(g)' = Given(g)
        BY <1>14, <3>2, <4>1
      <4>5. (files')[g].docs = files[g].docs \cup buf[g]
        BY <1>8, <3>2, <4>1
      <4> QED BY <4>3, <4>4, <4>5
    <3> QED BY <3>1, <3>2
  <2>2. ASSUME NEW g \in DOMAIN saved' \cup DOMAIN index'
        PROVE  (buf')[g] \subseteq Given(g)'
    <3>1. g \in Fields
      BY <1>1, <1>13
    <3> QED BY <1>9, <3>1
  <2> QED BY <2>1, <2>2 DEF Contained
<1>22. Memory'
  <2> SUFFICES ASSUME NEW g \in DOMAIN index' \ unfollowed', NEW x
               PROVE  x \in Held(g)' <=> x \in Owed(g)'
    BY DEF Memory, Held, Owed
  <2>1. g \in Fields
    BY <1>1, <1>13
  <2>2. CASE g = f
    <3>1. left.docs = {}
      BY <1>13, <2>2
    <3> QED BY <1>8, <1>9, <1>14, <2>2, <3>1, HeldIs, OwedIs
  <2>3. CASE g # f
    <3>1. g \in DOMAIN index \ unfollowed
      BY <1>13, <1>27, <2>3
    <3>2. (x \in files[g].docs \/ x \in buf[g]) /\ x \notin marks[g] <=>
              x \in Given(g) /\ x \notin Deleted(history)
      BY <1>1, <3>1, MarksExact
    <3>3. x \in Held(g)' <=>
              (x \in files[g].docs \/ x \in buf[g]) /\ x \notin marks[g]
      BY <1>8, <1>9, <1>10, <2>1, <2>3, HeldIs
    <3>4. x \in Owed(g)' <=> x \in Given(g) /\ x \notin Deleted(history)
      BY <1>1, <1>14, <2>1, <2>3, OwedIs
    <3> QED BY <3>2, <3>3, <3>4
  <2> QED BY <2>2, <2>3
<1>24. Disk'
  <2> SUFFICES ASSUME NEW g \in Followed'
               PROVE  HasDocs(g)' /\ HasMarks(g)' /\ HasLog(g)' /\ MarksRight(g)'
    BY DEF Disk
  <2>1. CASE g = f
    <3>1. HasDocs(g)' /\ HasLog(g)' /\ MarksRight(g)'
      BY <1>14, <2>1 DEF HasDocs, HasLog, MarksRight
    <3>2. HasMarks(g)'
      BY <1>8, <1>28, <2>1 DEF HasMarks
    <3> QED BY <3>1, <3>2
  <2>2. CASE g # f
    <3>1. g \in Followed /\ g \in Fields
      BY <1>23, <2>2
    <3>2. /\ (files')[g].docs = files[g].docs \cup buf[g]
          /\ (files')[g].marks = files[g].marks
          /\ (files')[g].ckpt = files[g].ckpt
      BY <1>8, <2>2, <3>1
    <3>3. Given(g)' = Given(g)
      BY <1>14, <2>2, <3>1
    <3> QED BY <1>1, <3>1, <3>2, <3>3, SealedKeeps
  <2> QED BY <2>1, <2>2
<1>25. Truncates'
  <2> SUFFICES ASSUME NEW l \in Ladders, lpc[l] = "truncate",
                      NEW g \in Followed'
               PROVE  Reached(g, snap[l])'
    BY <1>1 DEF Truncates, Reached
  <2>1. CASE g = f
    BY <1>14, <2>1 DEF Reached
  <2>2. CASE g # f
    <3>1. g \in Followed /\ g \in Fields
      BY <1>23, <2>2
    <3>2. Reached(g, snap[l])
      BY <1>1, <3>1 DEF FieldsInv, Rest, Truncates
    <3>3. Given(g)' = Given(g) /\ (files')[g].ckpt = files[g].ckpt
      BY <1>8, <1>14, <2>2, <3>1
    <3> QED BY <1>1, <3>2, <3>3 DEF Reached
  <2> QED BY <2>1, <2>2
<1> QED
  BY <1>1, <1>15, <1>16, <1>17, <1>18, <1>19, <1>20, <1>21, <1>22, <1>24,
     <1>25 DEF FieldsInv, Rest

LEMMA ApplyChangeSafe ==
    ASSUME FieldInv, FieldsInv, ApplyChange
    PROVE  FieldsInv'
BY ApplyNewFieldSafe, ApplyDeletionSafe, ApplyReindexSafe DEF ApplyChange
\* The table that is saved: the field is gone from it, or has the dimension
\* that its index has.
LEMMA SavedTable ==
    ASSUME FieldInv, FieldsInv, SaveSchema
    PROVE  \E f \in Fields, d \in Dims :
             /\ f = change.field /\ d = change.dim
             /\ saved' \in Tables
             /\ \A g : g # f =>
                    /\ g \in DOMAIN saved' <=> g \in DOMAIN saved
                    /\ g \in DOMAIN saved => (saved')[g] = saved[g]
             /\ \/ /\ change.kind = "delete" /\ f \notin DOMAIN saved'
                   /\ f \notin DOMAIN index /\ unfollowed' = unfollowed \ {f}
                \/ /\ change.kind \in {"add", "recreate"}
                   /\ f \in DOMAIN index /\ index[f] = d /\ Puts(wal) = {}
                   /\ f \in DOMAIN saved' /\ (saved')[f] = d
                   /\ unfollowed' = unfollowed
                \/ /\ change.kind = "reindex"
                   /\ f \in DOMAIN saved /\ saved[f] = d
                   /\ f \in DOMAIN saved' /\ (saved')[f] = d
                   /\ unfollowed' = unfollowed
<1>1. /\ change.step = "save" /\ Types /\ Changing
      /\ change \in Changes /\ saved \in Tables /\ schema = saved
  BY DEF SaveSchema, FieldsInv, Rest, Types, NoChange
<1>2. PICK f \in Fields : f = change.field
  BY <1>1 DEF Changes
<1>3. PICK d \in Dims : d = change.dim
  BY <1>1 DEF Changes
<1>4. /\ change.kind = "add" <=> f \notin DOMAIN saved
      /\ change.kind = "reindex" => saved[f] = d
      /\ change.kind \in {"add", "recreate"} =>
             Puts(wal) = {} /\ f \in DOMAIN index /\ index[f] = d
      /\ change.kind = "delete" => f \notin DOMAIN index
  BY <1>1, <1>2, <1>3 DEF Changing, NewFieldSaves
<1>5. CASE change.kind = "delete"
  <2>1. saved' = Without(saved, f) /\ unfollowed' = unfollowed \ {f}
    BY <1>1, <1>2, <1>5 DEF SaveSchema
  <2>2. /\ Without(saved, f) \in Tables
        /\ DOMAIN Without(saved, f) = DOMAIN saved \ {f}
        /\ \A g \in DOMAIN saved : g # f => Without(saved, f)[g] = saved[g]
    BY <1>1, WithoutIs
  <2> QED BY <1>2, <1>3, <1>4, <1>5, <2>1, <2>2
<1>6. CASE change.kind # "delete"
  <2>1. saved' = With(saved, f, d) /\ unfollowed' = unfollowed
    BY <1>1, <1>2, <1>3, <1>6 DEF SaveSchema
  <2>2. /\ With(saved, f, d) \in Tables
        /\ DOMAIN With(saved, f, d) = DOMAIN saved \cup {f}
        /\ With(saved, f, d)[f] = d
        /\ \A g \in DOMAIN saved : g # f => With(saved, f, d)[g] = saved[g]
    BY <1>1, WithIs
  <2>3. change.kind \in {"add", "recreate", "reindex"}
    BY <1>1, <1>6 DEF Changes
  <2> QED BY <1>2, <1>3, <1>4, <2>1, <2>2, <2>3
<1> QED BY <1>5, <1>6

\* The fields that are declared now are those with an index.
LEMMA SaveSchemaSafe ==
    ASSUME FieldInv, FieldsInv, SaveSchema
    PROVE  FieldsInv'
<1>1. PICK f \in Fields, d \in Dims :
        /\ f = change.field /\ d = change.dim
        /\ saved' \in Tables
        /\ \A g : g # f =>
               /\ g \in DOMAIN saved' <=> g \in DOMAIN saved
               /\ g \in DOMAIN saved => (saved')[g] = saved[g]
        /\ \/ /\ change.kind = "delete" /\ f \notin DOMAIN saved'
              /\ f \notin DOMAIN index /\ unfollowed' = unfollowed \ {f}
           \/ /\ change.kind \in {"add", "recreate"}
              /\ f \in DOMAIN index /\ index[f] = d /\ Puts(wal) = {}
              /\ f \in DOMAIN saved' /\ (saved')[f] = d
              /\ unfollowed' = unfollowed
           \/ /\ change.kind = "reindex"
              /\ f \in DOMAIN saved /\ saved[f] = d
              /\ f \in DOMAIN saved' /\ (saved')[f] = d
              /\ unfollowed' = unfollowed
  BY SavedTable
<1>2. /\ change.step = "save" /\ change' = NoChange /\ schema' = saved'
      /\ UNCHANGED <<mode, stop, index, writer, buf, seal, marks, pend, files,
                     lexCkpt, wal, nextSeq, put, lpc, snap, history, start,
                     discarded, refused>>
  BY DEF SaveSchema, writerVars, fieldVars, logVars, ladderVars
<1>3. /\ Types /\ Numbers /\ Modes /\ Registered /\ Log /\ Mismatches
      /\ LastSeq' = LastSeq
      /\ DOMAIN index \subseteq Fields /\ DOMAIN saved \subseteq Fields
  BY <1>2, TableIs DEF FieldsInv, Rest, Types, LastSeq
<1>4. mode = "open" /\ ~stop /\ Settled /\ lpc["recovery"] = "idle"
  BY <1>2, <1>3 DEF Modes, FieldInv, StoppedIsQuiet, Settled
<1>5. \A g : PendingDelete(g) <=> change.kind = "delete" /\ g = f
  BY <1>1, <1>2 DEF PendingDelete
<1>6. NewFieldSaves => change.kind \in {"add", "recreate"}
  BY DEF NewFieldSaves
<1>7. \A g : ~PendingDelete(g)'
  BY <1>2 DEF PendingDelete, NoChange
<1>8. \A g : Given(g)' = Given(g)
  BY <1>2 DEF Given
<1>9. Types'
  <2>1. change' \in Changes \cup {NoChange}
    BY <1>2
  <2> QED BY <1>1, <1>2, <1>3, <2>1 DEF Types
<1>10. Numbers'
  BY <1>2, <1>3 DEF Numbers, RecordShape, IsPut
<1>11. Modes'
  BY <1>2, <1>3, <1>4 DEF Modes, NoChange
<1>12. Changing'
  BY <1>2 DEF Changing, NoChange
<1>13. Registered'
  <2>1. ASSUME NEW g \in DOMAIN index
        PROVE  /\ files[g].dim = index[g]
               /\ g \in DOMAIN saved' /\ index[g] = (saved')[g]
    <3>1. /\ files[g].dim = index[g]
          /\ \/ g \in DOMAIN saved /\ index[g] = saved[g]
             \/ NewFieldSaves /\ change.field = g
      BY <1>3 DEF Registered
    <3>2. CASE g = f
      BY <1>1, <1>6, <3>1, <3>2
    <3>3. CASE g # f
      BY <1>1, <3>1, <3>3
    <3> QED BY <3>1, <3>2, <3>3
  <2>2. ASSUME NEW g \in DOMAIN saved'
        PROVE  /\ files[g].docs # {} \/ buf[g] # {} => files[g].dim = (saved')[g]
               /\ g \in writer => g \in DOMAIN index
    <3>1. CASE g \in DOMAIN index
      BY <2>1, <3>1
    <3>2. CASE g \notin DOMAIN index
      <4>1. g \in DOMAIN saved /\ (saved')[g] = saved[g] /\ ~PendingDelete(g)
        BY <1>1, <1>5, <3>2
      <4> QED BY <1>3, <4>1 DEF Registered
    <3> QED BY <3>1, <3>2
  <2>3. ASSUME NEW g \in DOMAIN saved' \ DOMAIN index
        PROVE  /\ Given(g) # {} => stop
               /\ \A x \in Given(g), l \in Ladders : x > snap[l]
    <3>1. g \in DOMAIN saved \ DOMAIN index /\ ~PendingDelete(g)
      BY <1>1, <1>5
    <3> QED BY <1>3, <1>4, <3>1 DEF Registered
  <2> QED BY <1>2, <1>8, <2>1, <2>2, <2>3 DEF Registered
<1>14. Buffers'
  BY <1>2 DEF FieldsInv, Rest, Buffers, Settled
<1>15. Log'
  <2>1. ASSUME NEW r \in wal, IsPut(r), r.field \in DOMAIN saved'
        PROVE  r.into /\ r.seq > start[r.field]
    <3>1. r.field \in DOMAIN saved
      BY <1>1, <2>1 DEF Puts
    <3> QED BY <1>3, <2>1, <3>1 DEF Log
  <2>2. /\ \A r, s \in wal \cup history : r.seq = s.seq => r = s
        /\ \A r \in wal, s \in history : s.seq > r.seq => s \in wal
        /\ mode = "open" => wal \subseteq history
    BY <1>3 DEF Log
  <2> QED BY <1>2, <2>1, <2>2 DEF Log, IsPut
<1>16. Mismatches'
  <2>1. \A r \in wal : ~Mismatch(r) /\ r \in history
    BY <1>3, <1>4 DEF Mismatches, Log
  <2>2. ASSUME NEW r \in wal, IsPut(r), r.field \in DOMAIN saved',
               r.dim # (saved')[r.field]
        PROVE  FALSE
    <3>1. r.field \in DOMAIN saved /\ (saved')[r.field] = saved[r.field]
      BY <1>1, <2>2 DEF Puts
    <3> QED BY <2>1, <2>2, <3>1 DEF Mismatch
  <2>3. \A r \in wal : ~Mismatch(r)'
    BY <1>2, <2>2 DEF Mismatch, IsPut
  <2>4. mode' # "refused" /\ discarded' \subseteq refused'
    BY <1>2, <1>3, <1>4 DEF Mismatches
  <2> QED BY <1>2, <2>1, <2>3, <2>4 DEF Mismatches
<1>17. \A g \in DOMAIN saved' \cup DOMAIN index :
           g \in DOMAIN saved \cup DOMAIN index
  BY <1>1
<1>18. Contained'
  <2>1. Followed' \subseteq Followed
    BY <1>1, <1>2 DEF Followed
  <2> QED BY <1>2, <1>8, <1>17, <2>1 DEF FieldsInv, Rest, Contained
<1>19. Memory'
  <2>1. DOMAIN index \ unfollowed' \subseteq DOMAIN index \ unfollowed
    BY <1>1
  <2>2. \A g : Held(g)' = Held(g) /\ Owed(g)' = Owed(g)
    BY <1>2 DEF Held, Owed
  <2> QED BY <1>2, <2>1, <2>2 DEF FieldsInv, Rest, Memory
<1>20. ASSUME NEW g \in Followed'
       PROVE  g \in Followed /\ ~PendingDelete(g)
  BY <1>1, <1>2, <1>5, <1>17, <1>20 DEF Followed
<1>21. Disk'
  <2> SUFFICES ASSUME NEW g \in Followed'
               PROVE  HasDocs(g)' /\ HasMarks(g)' /\ HasLog(g)' /\ MarksRight(g)'
    BY DEF Disk
  <2>1. HasDocs(g) /\ HasMarks(g) /\ HasLog(g) /\ MarksRight(g)
    BY <1>20 DEF FieldsInv, Rest, Disk
  <2>2. HasDocs(g)' /\ HasLog(g)' /\ MarksRight(g)'
    BY <1>2, <1>8, <2>1 DEF HasDocs, HasLog, MarksRight
  <2>3. HasMarks(g)'
    BY <1>2, <1>4, <2>1 DEF HasMarks, IsPut
  <2> QED BY <2>2, <2>3
<1>22. Rebuffered'
  BY <1>2, <1>4 DEF Rebuffered
<1>23. Truncates'
  BY <1>2, <1>8, <1>20 DEF FieldsInv, Rest, Truncates, Reached
<1>24. PutChecked'
  <2>1. put.step # "embedded"
    BY <1>2 DEF FieldInv, LockHeld
  <2>2. put.step \in PutSteps
    BY DEF FieldsInv, PutChecked
  <2>3. put.step # "idle" =>
           /\ mode = "open" /\ nextSeq <= MaxSeq
           /\ put.field \in Fields /\ put.dim \in Dims
    BY DEF FieldsInv, PutChecked
  <2> QED BY <1>2, <2>1, <2>2, <2>3 DEF PutChecked
<1> QED
  BY <1>9, <1>10, <1>11, <1>12, <1>13, <1>14, <1>15, <1>16, <1>18, <1>19,
     <1>21, <1>22, <1>23, <1>24 DEF FieldsInv, Rest

-----------------------------------------------------------------------------
(* The end of a process, and the next open.                                *)

LEMMA EmptyTable == <<>> \in Tables /\ DOMAIN <<>> = {}
<1>1. DOMAIN <<>> = {} /\ <<>> \in [{} -> Dims]
  OBVIOUS
<1> QED BY <1>1, TableIs

\* What an ended process leaves is on disk and on the log.
LEMMA EndSafe ==
    ASSUME FieldInv, FieldsInv, End
    PROVE  FieldsInv'
<1>1. /\ mode' = "closed" /\ stop' = FALSE /\ index' = <<>>
      /\ schema' = saved /\ DropWriter
      /\ marks' = Each({}) /\ pend' = Each(0)
      /\ put' = NoPut /\ change' = NoChange
      /\ lpc' = [l \in Ladders |-> "idle"] /\ snap' = [l \in Ladders |-> 0]
      /\ UNCHANGED <<saved, files, wal, nextSeq, history, start, discarded,
                     refused, unfollowed>>
      /\ \/ lexCkpt' = lexCkpt
         \/ mode = "open" /\ ~stop /\ lexCkpt' = LastSeq
  BY DEF End, logVars, ghostVars
<1>2. /\ Types /\ Numbers /\ Modes /\ Registered /\ Log /\ Mismatches
      /\ LastSeq' = LastSeq /\ LastSeq \in Nat
      /\ DOMAIN index \subseteq Fields /\ DOMAIN saved \subseteq Fields
  BY <1>1, TableIs DEF FieldsInv, Rest, Types, LastSeq
<1>3. /\ writer' = {} /\ buf' \in [Fields -> SUBSET Nat]
      /\ seal' = Each("open")
      /\ seal' \in [Fields -> {"open", "sealed", "dirty"}]
      /\ \A g \in Fields : (buf')[g] = {} /\ (seal')[g] = "open"
  BY <1>1, DroppedFacts
<1>4. /\ marks' \in [Fields -> SUBSET Nat] /\ pend' \in [Fields -> Nat]
      /\ \A g \in Fields : (marks')[g] = {} /\ (pend')[g] = 0
  BY <1>1 DEF Each
<1>5. /\ lpc' \in [Ladders -> LadderSteps] /\ snap' \in [Ladders -> Nat]
      /\ \A l \in Ladders : (lpc')[l] = "idle" /\ (snap')[l] = 0
  BY <1>1
<1>6. index' \in Tables /\ DOMAIN index' = {}
  BY <1>1, EmptyTable
<1>7. lexCkpt' \in Nat /\ lexCkpt' <= LastSeq
      /\ (lexCkpt' = LastSeq \/ \E r \in wal : r.seq = LastSeq)
  BY <1>1, <1>2 DEF Types, Numbers
<1>8. put'.step = "idle" /\ change'.step = "idle"
  BY <1>1 DEF NoPut, NoChange
<1>9. \A g : Given(g)' = Given(g)
  BY <1>1 DEF Given
<1>10. Types'
  <2>1. change' \in Changes \cup {NoChange} /\ stop' \in BOOLEAN
    BY <1>1
  <2>2. schema' = saved' /\ saved' \in Tables
    BY <1>1, <1>2 DEF Types
  <2> QED BY <1>1, <1>2, <1>3, <1>4, <1>5, <1>6, <1>7, <2>1, <2>2 DEF Types
<1>11. Numbers'
  <2>1. \A g \in Fields :
            /\ (buf')[g] \subseteq 1..LastSeq /\ (marks')[g] \subseteq 1..LastSeq
            /\ files[g].docs \subseteq 1..LastSeq
            /\ files[g].marks \subseteq 1..LastSeq
            /\ files[g].ckpt <= LastSeq /\ (pend')[g] <= LastSeq
            /\ start[g] <= LastSeq
    BY <1>2, <1>3, <1>4 DEF Numbers
  <2>2. \A r \in wal \cup history : RecordShape(r)' /\ r.seq <= LastSeq
    BY <1>2 DEF Numbers, RecordShape, IsPut
  <2>3. \A l \in Ladders :
            /\ (snap')[l] <= LastSeq
            /\ (lpc')[l] \in {"vector", "truncate"} => (snap')[l] <= lexCkpt'
    BY <1>2, <1>5
  <2>4. LastSeq <= MaxSeq
    BY <1>2 DEF Numbers
  <2> QED BY <1>1, <1>2, <1>7, <2>1, <2>2, <2>3, <2>4 DEF Numbers
<1>12. Modes'
  BY <1>1, <1>3, <1>5, <1>8 DEF Modes
<1>13. Changing'
  BY <1>8 DEF Changing
<1>14. Registered'
  <2>1. \A g \in DOMAIN saved :
            files[g].docs # {} \/ (buf')[g] # {} => files[g].dim = saved[g]
    BY <1>2, <1>3 DEF Registered
  <2> QED BY <1>1, <1>3, <1>6, <2>1 DEF Registered
<1>15. Buffers'
  BY <1>3 DEF Buffers
<1>16. Log'
  BY <1>1, <1>2 DEF Log, IsPut
<1>17. Mismatches'
  <2>1. \A r : Mismatch(r)' <=> Mismatch(r)
    BY <1>1 DEF Mismatch, IsPut
  <2>2. ASSUME NEW r \in wal, Mismatch(r)
        PROVE  /\ r.seq \in refused
               /\ r.doc \notin files[r.field].docs
               /\ r.doc \notin (buf')[r.field]
               /\ r.seq \in discarded \/ Beyond(r.seq)'
    <3>1. /\ r.seq \in refused
          /\ r.doc \notin files[r.field].docs
          /\ r.seq \in discarded \/ Beyond(r.seq)
          /\ ~(mode = "open" /\ ~stop)
      BY <1>2, <2>2 DEF Mismatches
    <3>2. r.doc \notin (buf')[r.field]
      BY <1>2, <1>3, <2>2 DEF Mismatch
    <3>3. r.seq \in Nat /\ r.seq > 0
      BY <1>2 DEF Numbers, RecordShape
    <3>4. lexCkpt' = lexCkpt
      BY <1>1, <3>1
    <3>5. Beyond(r.seq) => Beyond(r.seq)'
      BY <1>1, <1>4, <1>5, <3>3, <3>4 DEF Beyond
    <3> QED BY <3>1, <3>2, <3>5
  <2>3. /\ \A r \in wal : r \notin history => Mismatch(r)
        /\ discarded \subseteq refused
    BY <1>2 DEF Mismatches
  <2> QED BY <1>1, <2>1, <2>2, <2>3 DEF Mismatches
<1>18. Contained'
  BY <1>1, <1>2, <1>3, <1>6, <1>9 DEF FieldsInv, Rest, Contained, Followed
<1>19. Memory'
  BY <1>1 DEF Memory
<1>20. Disk'
  <2> SUFFICES ASSUME NEW g \in Followed'
               PROVE  HasDocs(g)' /\ HasMarks(g)' /\ HasLog(g)' /\ MarksRight(g)'
    BY DEF Disk
  <2>1. g \in Followed
    BY <1>1, <1>6 DEF Followed
  <2>2. HasDocs(g) /\ HasMarks(g) /\ HasLog(g) /\ MarksRight(g)
    BY <2>1 DEF FieldsInv, Rest, Disk
  <2>3. HasDocs(g)' /\ HasLog(g)' /\ MarksRight(g)'
    BY <1>1, <1>9, <2>2 DEF HasDocs, HasLog, MarksRight
  <2>4. ~Settled'
    BY <1>1, <1>5 DEF Settled
  <2>5. \A x : Redone(x)' <=> Redone(x)
    BY <1>1 DEF Redone, LowestCkpt, IsPut
  <2>6. HasMarks(g)'
    BY <1>1, <2>2, <2>4, <2>5 DEF HasMarks, IsPut
  <2> QED BY <2>3, <2>6
<1>21. Rebuffered' /\ Truncates'
  BY <1>5 DEF Rebuffered, Truncates
<1>22. PutChecked'
  BY <1>8 DEF PutChecked, PutSteps
<1> QED
  BY <1>10, <1>11, <1>12, <1>13, <1>14, <1>15, <1>16, <1>17, <1>18, <1>19,
     <1>20, <1>21, <1>22 DEF FieldsInv, Rest

\* An open is refused only for a record that an earlier one discarded.
LEMMA OpenFailsSafe ==
    ASSUME FieldsInv, OpenFails
    PROVE  FieldsInv'
<1>1. /\ mode = "closed" /\ mode' = "refused"
      /\ UNCHANGED <<stop, schema, saved, index, writer, buf, seal, marks, pend,
                     files, lexCkpt, wal, nextSeq, put, change, lpc, snap,
                     history, start, discarded, refused, unfollowed>>
      /\ \/ \E f \in DOMAIN saved : Unreadable(f)
         \/ \E r \in Rejected : r.seq <= lexCkpt
  BY DEF OpenFails, schemaVars, writerVars, fieldVars, logVars, ladderVars,
         ghostVars
<1>2. Types /\ Numbers /\ Modes /\ Registered /\ Mismatches
  BY DEF FieldsInv, Rest
<1>3. PICK r \in Rejected : r.seq <= lexCkpt
  <2>1. \A f \in DOMAIN saved : ~Unreadable(f)
    BY <1>2 DEF Registered, Unreadable
  <2> QED BY <1>1, <2>1
<1>4. r.seq \in discarded
  <2>1. r \in wal /\ Mismatch(r)
    BY RejectedIs DEF Mismatch
  <2>2. r.seq \in Nat /\ lexCkpt \in Nat
    BY <1>2, <2>1 DEF Numbers, RecordShape, Types
  <2> QED BY <1>2, <1>3, <2>1, <2>2 DEF Mismatches, Beyond
<1>5. \A q : Mismatch(q)' <=> Mismatch(q)
  BY <1>1 DEF Mismatch, IsPut
<1>6. LowestCkpt(saved)' = LowestCkpt(saved)
  BY <1>1 DEF LowestCkpt
<1>7. r \in Rejected'
  BY <1>5, <1>6, RejectedIs
<1>8. Mismatches'
  BY <1>1, <1>2, <1>4, <1>5, <1>7 DEF Mismatches, Beyond
<1>9. Types' /\ Numbers'
  <2>1. Types'
    BY <1>1, <1>2 DEF Types
  <2>2. Numbers'
    BY <1>1, <1>2 DEF Numbers, RecordShape, IsPut, LastSeq
  <2> QED BY <2>1, <2>2
<1>10. Modes'
  BY <1>1, <1>2 DEF Modes
<1>11. Changing' /\ Registered'
  BY <1>1, <1>2 DEF FieldsInv, Rest, Changing, Registered, NewFieldSaves,
                    PendingDelete, Modes
<1>12. Settled' <=> Settled
  BY <1>1 DEF Settled
<1>13. Buffers' /\ Log'
  BY <1>1, <1>12 DEF FieldsInv, Rest, Buffers, Log, IsPut
<1>14. Contained' /\ Memory'
  BY <1>1 DEF FieldsInv, Rest, Contained, Followed, Memory, Given
<1>15. Disk'
  BY <1>1, <1>6, <1>12 DEF FieldsInv, Rest, Disk, HasDocs, HasMarks, HasLog,
        MarksRight, Followed, Given, Deleted, Redone, IsPut
<1>16. Rebuffered' /\ Truncates'
  BY <1>1, <1>5, <1>6 DEF FieldsInv, Rest, Rebuffered, Truncates, Followed,
        Reached, PendingDelete, Given
<1>17. PutChecked'
  BY <1>1 DEF FieldsInv, PutChecked
<1> QED
  BY <1>8, <1>9, <1>10, <1>11, <1>13, <1>14, <1>15, <1>16, <1>17
     DEF FieldsInv, Rest
\* The puts that a replay does again.
Again == Puts(Replayed) \ Rejected

LEMMA AgainIs ==
    \A r : r \in Again <=> /\ r \in wal /\ IsPut(r) /\ ~Mismatch(r)
                           /\ r.seq > LowestCkpt(saved)
BY RejectedIs DEF Again, Puts, Replayed

\* An open goes on from the last number given, with the declared fields.
LEMMA OpenIs ==
    ASSUME FieldInv, FieldsInv, Open
    PROVE  /\ mode = "closed" /\ stop = FALSE /\ change.step = "idle"
           /\ \A l \in Ladders : lpc[l] = "idle"
           /\ UNCHANGED <<stop, schema, saved, seal, pend, lexCkpt, wal, nextSeq,
                          put, change, start, refused, unfollowed>>
           /\ index' = saved /\ writer' \in {{}, DOMAIN saved}
           /\ Again # {} => writer' = DOMAIN saved
           /\ history' = history \ Rejected
           /\ discarded' = discarded \cup {r.seq : r \in Rejected}
           /\ \/ /\ mode' = "recovering"
                 /\ lpc' = [lpc EXCEPT !["recovery"] = "lexical"]
                 /\ snap' = [snap EXCEPT !["recovery"] = LastSeq]
              \/ /\ mode' = "open" /\ UNCHANGED <<lpc, snap>>
                 /\ \A r \in wal : ~IsPut(r)
<1>1. /\ mode = "closed" /\ history' = history \ Rejected
      /\ discarded' = discarded \cup {r.seq : r \in Rejected}
      /\ UNCHANGED <<stop, schema, saved, seal, pend, lexCkpt, wal,
                     put, change, start, refused, unfollowed>>
      /\ index' = saved
      /\ writer' = IF Again = {} THEN {} ELSE DOMAIN saved
  BY DEF Open, Again
<1>2. Types /\ Numbers /\ Modes
  BY DEF FieldsInv, Rest
<1>3. stop = FALSE /\ change.step = "idle" /\ \A l \in Ladders : lpc[l] = "idle"
  <2>1. change.step = "idle" /\ lpc["caller"] = "idle" /\ lpc["recovery"] = "idle"
    BY <1>1, <1>2 DEF Modes
  <2>2. lpc["changer"] = "idle"
    BY <2>1 DEF FieldInv, LadderOfChange
  <2>3. stop = FALSE
    BY <1>1, <1>2 DEF Modes, Types
  <2> QED BY <2>1, <2>2, <2>3
<1>4. nextSeq' = nextSeq
  <2>1. PICK top \in UsedNumbers :
            (\A n \in UsedNumbers : n <= top) /\ nextSeq' = top + 1
    BY DEF Open
  <2>2. LastSeq \in UsedNumbers
    BY <1>2 DEF Numbers, UsedNumbers
  <2>3. top <= LastSeq /\ top \in Nat
    <3>1. \A f \in DOMAIN saved : f \in Fields
      BY <1>2, TableIs DEF Types
    <3>2. \A f \in Fields : files[f].ckpt <= LastSeq /\ files[f].ckpt \in Nat
      BY <1>2 DEF Numbers, Types, Directory
    <3>3. \A r \in wal : r.seq <= LastSeq /\ r.seq \in Nat
      BY <1>2 DEF Numbers, RecordShape
    <3>4. lexCkpt <= LastSeq /\ lexCkpt \in Nat
      BY <1>2 DEF Numbers, Types
    <3> QED BY <2>1, <3>1, <3>2, <3>3, <3>4 DEF UsedNumbers
  <2>4. nextSeq \in Nat
    BY <1>2 DEF Types
  <2> QED BY <2>1, <2>2, <2>3, <2>4 DEF LastSeq
<1>5. \/ /\ mode' = "recovering"
         /\ lpc' = [lpc EXCEPT !["recovery"] = "lexical"]
         /\ snap' = [snap EXCEPT !["recovery"] = LastSeq]
      \/ /\ mode' = "open" /\ UNCHANGED <<lpc, snap>>
         /\ \A r \in wal : ~IsPut(r)
  <2>1. CASE \E r \in wal : IsPut(r) \/ r.seq > lexCkpt \/ r \in Replayed
    <3>1. /\ mode' = "recovering"
          /\ lpc' = [lpc EXCEPT !["recovery"] = "lexical"]
          /\ snap' = [snap EXCEPT !["recovery"] = nextSeq' - 1]
      BY <2>1 DEF Open
    <3> QED BY <1>4, <3>1 DEF LastSeq
  <2>2. CASE ~\E r \in wal : IsPut(r) \/ r.seq > lexCkpt \/ r \in Replayed
    <3>1. mode' = "open" /\ UNCHANGED <<lpc, snap>>
      BY <2>2 DEF Open
    <3> QED BY <2>2, <3>1
  <2> QED BY <2>1, <2>2
<1> QED BY <1>1, <1>3, <1>4, <1>5

\* What the replay puts into the fields.
LEMMA OpenWrites ==
    ASSUME FieldInv, FieldsInv, Open
    PROVE  /\ buf' \in [Fields -> SUBSET Nat]
           /\ \A f \in DOMAIN saved : \A d :
                  d \in (buf')[f] <=> \E r \in Again : r.field = f /\ r.doc = d
           /\ \A f \in Fields : f \notin DOMAIN saved => (buf')[f] = {}
           /\ marks' \in [Fields -> SUBSET Nat]
           /\ \A f \in DOMAIN saved : \A d :
                  d \in (marks')[f] <=>
                      \/ /\ d \in files[f].marks \/ \E r \in Again : r.doc = d
                         /\ d \notin (buf')[f]
                      \/ \E r \in Replayed : ~IsPut(r) /\ r.doc = d
           /\ \A f \in Fields : f \notin DOMAIN saved => (marks')[f] = {}
           /\ files' \in [Fields -> Directory]
           /\ \A f \in Fields :
                  /\ (files')[f].docs = files[f].docs
                  /\ (files')[f].marks = files[f].marks
                  /\ (files')[f].ckpt = files[f].ckpt
                  /\ f \in DOMAIN saved => (files')[f].dim = saved[f]
<1> DEFINE Into(f) == {r.doc : r \in {s \in Again : s.field = f}}
           Docs == {r.doc : r \in Again}
<1>1. Types /\ Numbers /\ DOMAIN saved \subseteq Fields
  BY TableIs DEF FieldsInv, Rest, Types
<1>2. /\ buf' = [f \in Fields |-> IF f \in DOMAIN saved THEN Into(f) ELSE {}]
      /\ marks' = [f \in Fields |->
             IF f \in DOMAIN saved
             THEN ((files[f].marks \cup Docs) \ Into(f)) \cup Deleted(Replayed)
             ELSE {}]
      /\ files' = [f \in Fields |->
             IF f \in DOMAIN saved
             THEN [files[f] EXCEPT !.dim = saved[f]] ELSE files[f]]
  BY DEF Open, Again
<1>3. \A f, d : d \in Into(f) <=> \E r \in Again : r.field = f /\ r.doc = d
  OBVIOUS
<1>4. \A d : d \in Docs <=> \E r \in Again : r.doc = d
  OBVIOUS
<1>5. \A r \in wal : r.doc \in Nat
  BY <1>1 DEF Numbers, RecordShape
<1>6. Docs \subseteq Nat /\ \A f : Into(f) \subseteq Nat
  BY <1>3, <1>4, <1>5, AgainIs
<1>7. Deleted(Replayed) \subseteq Nat
  BY <1>5, DeletedIs DEF Replayed
<1>8. \A f \in Fields : files[f] \in Directory
  BY <1>1 DEF Types
<1> HIDE DEF Into, Docs
<1>9. /\ buf' \in [Fields -> SUBSET Nat]
      /\ \A f \in DOMAIN saved : (buf')[f] = Into(f)
      /\ \A f \in Fields : f \notin DOMAIN saved => (buf')[f] = {}
  BY <1>1, <1>2, <1>6
<1>10. /\ marks' \in [Fields -> SUBSET Nat]
       /\ \A f \in DOMAIN saved :
              (marks')[f] = ((files[f].marks \cup Docs) \ Into(f))
                                \cup Deleted(Replayed)
       /\ \A f \in Fields : f \notin DOMAIN saved => (marks')[f] = {}
  <2>1. \A f \in Fields : files[f].marks \subseteq Nat
    BY <1>8 DEF Directory
  <2> QED BY <1>1, <1>2, <1>6, <1>7, <2>1
<1>11. ASSUME NEW f \in Fields
       PROVE  /\ (files')[f] \in Directory
              /\ (files')[f].docs = files[f].docs
              /\ (files')[f].marks = files[f].marks
              /\ (files')[f].ckpt = files[f].ckpt
              /\ f \in DOMAIN saved => (files')[f].dim = saved[f]
  <2>1. CASE f \in DOMAIN saved
    <3>1. (files')[f] = [files[f] EXCEPT !.dim = saved[f]]
      BY <1>2, <2>1
    <3>2. saved[f] \in Dims
      BY <1>1, <2>1, TableIs DEF Types
    <3> QED BY <1>8, <3>1, <3>2 DEF Directory
  <2>2. CASE f \notin DOMAIN saved
    BY <1>2, <1>8, <2>2
  <2> QED BY <2>1, <2>2
<1>12. files' = [f \in Fields |-> (files')[f]]
  BY <1>2
<1>13. \A f \in DOMAIN saved : \A d :
           d \in (buf')[f] <=> \E r \in Again : r.field = f /\ r.doc = d
  BY <1>3, <1>9
<1>14. ASSUME NEW f \in DOMAIN saved, NEW d
       PROVE  d \in (marks')[f] <=>
                  \/ /\ d \in files[f].marks \/ \E r \in Again : r.doc = d
                     /\ d \notin (buf')[f]
                  \/ \E r \in Replayed : ~IsPut(r) /\ r.doc = d
  <2>1. d \in (marks')[f] <=>
            \/ (d \in files[f].marks \/ d \in Docs) /\ d \notin Into(f)
            \/ d \in Deleted(Replayed)
    BY <1>10
  <2>2. d \in Deleted(Replayed) <=> \E r \in Replayed : ~IsPut(r) /\ r.doc = d
    BY DeletedIs
  <2>3. (buf')[f] = Into(f)
    BY <1>9
  <2> QED BY <1>4, <2>1, <2>2, <2>3
<1> QED BY <1>9, <1>10, <1>11, <1>12, <1>13, <1>14
\* What a replay discards no field holds, and what a field owes is on disk or
\* is put into it again; a delete of what is there is done again too.
LEMMA OpenMemory ==
    ASSUME FieldInv, FieldsInv, Open, NEW f \in DOMAIN saved
    PROVE  /\ \A d : d \in Given(f)' => d \in Given(f)
           /\ \A d : d \in Deleted(history') <=> d \in Deleted(history)
           /\ f \notin unfollowed => files[f].docs \subseteq Given(f)'
           /\ (buf')[f] \subseteq Given(f)'
           /\ f \notin unfollowed => \A d : d \in Held(f)' <=> d \in Owed(f)'
<1>1. /\ mode = "closed" /\ index' = saved
      /\ \A l \in Ladders : lpc[l] = "idle"
      /\ UNCHANGED <<saved, wal, start>> /\ history' = history \ Rejected
  BY OpenIs
<1>2. /\ Types /\ Numbers /\ Log /\ Mismatches
      /\ f \in Fields /\ saved \in Tables
  BY TableIs DEF FieldsInv, Rest, Types
<1>3. /\ LowestCkpt(saved) \in Nat /\ LowestCkpt(saved) <= files[f].ckpt
      /\ files[f].ckpt \in Nat
  BY <1>2, LowestIs DEF Types, Directory
<1>4. \A r \in wal \cup history :
          /\ r.seq \in Nat /\ r.doc \in Nat /\ r.doc <= r.seq
          /\ IsPut(r) => r.doc = r.seq
  BY <1>2 DEF Numbers, RecordShape, IsPut
<1>5. \A d : d \in Given(f)' <=>
          \E r \in history : /\ r \notin Rejected /\ IsPut(r) /\ r.doc = d /\ r.into
                             /\ r.field = f /\ r.seq > start[f]
  BY <1>1, GivenIsNext
<1>6. \A d : d \in Given(f)' => d \in Given(f)
  BY <1>5, GivenIs
<1>7. \A r \in Rejected : Mismatch(r) /\ r \in wal /\ IsPut(r)
  BY RejectedIs DEF Mismatch
<1>8. \A d : d \in Deleted(history') <=> d \in Deleted(history)
  BY <1>1, <1>7, DeletedIs
<1>9. f \notin unfollowed => files[f].docs \subseteq Given(f)'
  <2> SUFFICES ASSUME f \notin unfollowed, NEW d \in files[f].docs
               PROVE  d \in Given(f)'
    OBVIOUS
  <2>1. d \in Given(f)
    BY DEF FieldsInv, Rest, Contained, Followed
  <2>2. PICK r \in history : /\ IsPut(r) /\ r.doc = d /\ r.into
                             /\ r.field = f /\ r.seq > start[f]
    BY <2>1, GivenIs
  <2>3. r \notin Rejected
    BY <1>2, <1>7, <2>2 DEF Mismatches
  <2> QED BY <1>5, <2>2, <2>3
<1>10. \A d : d \in (buf')[f] <=> \E r \in Again : r.field = f /\ r.doc = d
  BY OpenWrites
<1>11. ASSUME NEW r \in Again
       PROVE  r \in history /\ r \notin Rejected /\ r \in wal /\ IsPut(r)
  <2>1. r \in wal /\ IsPut(r) /\ ~Mismatch(r)
    BY AgainIs
  <2>2. r \in history
    BY <1>2, <2>1 DEF Mismatches
  <2>3. r \notin Rejected
    BY <1>7, <2>1
  <2> QED BY <2>1, <2>2, <2>3
<1>12. (buf')[f] \subseteq Given(f)'
  <2> SUFFICES ASSUME NEW d \in (buf')[f] PROVE d \in Given(f)'
    OBVIOUS
  <2>1. PICK r \in Again : r.field = f /\ r.doc = d
    BY <1>10
  <2>2. r.into /\ r.seq > start[f]
    BY <1>2, <1>11, <2>1 DEF Log
  <2> QED BY <1>5, <1>11, <2>1, <2>2
<1>13. \A d : d \in (marks')[f] <=>
           \/ /\ d \in files[f].marks \/ \E r \in Again : r.doc = d
              /\ d \notin (buf')[f]
           \/ \E r \in Replayed : ~IsPut(r) /\ r.doc = d
  BY OpenWrites
<1>14. (files')[f].docs = files[f].docs
  BY <1>2, OpenWrites
<1>15. \A r : r \in Replayed <=> r \in wal /\ r.seq > LowestCkpt(saved)
  BY DEF Replayed
<1>16. ASSUME f \notin unfollowed, NEW d
       PROVE  d \in Held(f)' <=> d \in Owed(f)'
  <2>1. HasDocs(f) /\ HasMarks(f) /\ HasLog(f) /\ MarksRight(f)
    BY <1>16 DEF FieldsInv, Rest, Disk, Followed
  <2>2. ASSUME d \in Given(f)', d \notin Deleted(history)
        PROVE  /\ d \in files[f].docs \/ d \in (buf')[f]
               /\ d \notin (marks')[f]
    <3>1. PICK q \in history :
             /\ q \notin Rejected /\ IsPut(q) /\ q.doc = d /\ q.into
             /\ q.field = f /\ q.seq > start[f]
      BY <1>5, <2>2
    <3>2. d \in Given(f)
      BY <1>6, <2>2
    <3>3. ~\E r \in Replayed : ~IsPut(r) /\ r.doc = d
      <4>1. ASSUME NEW r \in Replayed, ~IsPut(r), r.doc = d PROVE FALSE
        <5>1. r \in history
          BY <1>2, <1>15, <4>1 DEF Mismatches, Mismatch
        <5> QED BY <2>2, <4>1, <5>1, DeletedIs
      <4> QED BY <4>1
    <3>4. d \in (buf')[f] => d \notin (marks')[f]
      BY <1>13, <3>3
    <3>5. ASSUME d \notin (buf')[f]
          PROVE  d \in files[f].docs /\ d \notin (marks')[f]
      <4>1. d \in files[f].docs
        <5>1. ASSUME d > files[f].ckpt PROVE FALSE
          <6>1. q.seq = d /\ q.seq \in Nat
            BY <1>4, <3>1
          <6>2. q \in wal
            BY <2>1, <3>1, <3>2, <5>1, <6>1 DEF HasLog
          <6>3. q.seq > LowestCkpt(saved)
            BY <1>3, <5>1, <6>1
          <6>4. q \in Again
            BY <1>15, <3>1, <6>2, <6>3 DEF Again, Puts
          <6> QED BY <1>10, <3>1, <3>5, <6>4
        <5> QED BY <2>1, <2>2, <3>2, <5>1 DEF HasDocs
      <4>2. d \notin files[f].marks
        BY <2>1, <2>2, <3>2 DEF MarksRight
      <4>3. ~\E r \in Again : r.doc = d
        <5>1. ASSUME NEW r \in Again, r.doc = d PROVE FALSE
          <6>1. r = q
            BY <1>2, <1>11, <3>1, <5>1 DEF Log, IsPut
          <6> QED BY <1>10, <3>1, <3>5, <5>1, <6>1
        <5> QED BY <5>1
      <4> QED BY <1>13, <3>3, <4>1, <4>2, <4>3
    <3> QED BY <3>4, <3>5
  <2>3. ASSUME d \in files[f].docs \/ d \in (buf')[f], d \notin (marks')[f]
        PROVE  d \in Given(f)' /\ d \notin Deleted(history)
    <3>1. d \in Given(f)' /\ d \in Given(f)
      BY <1>6, <1>9, <1>12, <1>16, <2>3
    <3>2. ASSUME d \in Deleted(history) PROVE FALSE
      <4>1. PICK r \in history : ~IsPut(r) /\ r.doc = d
        BY <3>2, DeletedIs
      <4>2. ~(r \in wal /\ r.seq > LowestCkpt(saved))
        BY <1>13, <1>15, <2>3, <4>1
      <4>3. r.seq \in Nat /\ r.doc <= r.seq /\ r.doc \in Nat /\ r.doc # r.seq
        BY <1>4, <4>1 DEF IsPut
      <4>4. r.seq <= files[f].ckpt
        <5>1. ASSUME r.seq > files[f].ckpt PROVE FALSE
          <6>1. r \in wal
            BY <2>1, <3>1, <4>1, <5>1 DEF HasLog
          <6>2. r.seq > LowestCkpt(saved)
            BY <1>3, <4>3, <5>1
          <6> QED BY <4>2, <6>1, <6>2
        <5> QED BY <1>3, <4>3, <5>1
      <4>5. ASSUME NEW q \in wal, IsPut(q), q.doc = d, d > LowestCkpt(saved)
            PROVE  FALSE
        <5>1. q.seq = d /\ r.seq > q.seq
          BY <1>4, <4>1, <4>3, <4>5
        <5>2. r \in wal
          BY <1>2, <5>1 DEF Log
        <5>3. r.seq > LowestCkpt(saved)
          BY <1>3, <4>1, <4>3, <4>5
        <5> QED BY <4>2, <5>2, <5>3
      <4>6. d \notin (buf')[f]
        <5>1. ASSUME d \in (buf')[f] PROVE FALSE
          <6>1. PICK q \in Again : q.doc = d
            BY <1>10, <5>1
          <6>2. q \in wal /\ IsPut(q) /\ q.seq > LowestCkpt(saved)
            BY <6>1, AgainIs
          <6>3. q.seq = d
            BY <1>4, <6>1, <6>2
          <6> QED BY <4>5, <6>1, <6>2, <6>3
        <5> QED BY <5>1
      <4>7. d \in files[f].marks \/ Redone(d)
        BY <2>1, <2>3, <4>1, <4>4, <4>6 DEF HasMarks
      <4>8. d \notin files[f].marks
        BY <1>13, <2>3, <4>6
      <4> QED BY <4>5, <4>7, <4>8 DEF Redone
    <3> QED BY <3>1, <3>2
  <2>4. d \in Held(f)' <=> (d \in files[f].docs \/ d \in (buf')[f])
                               /\ d \notin (marks')[f]
    BY <1>14, HeldIs
  <2>5. d \in Owed(f)' <=> d \in Given(f)' /\ d \notin Deleted(history)
    BY <1>8, OwedIs
  <2> QED BY <2>2, <2>3, <2>4, <2>5
<1> QED BY <1>6, <1>8, <1>9, <1>12, <1>16

LEMMA OpenSafe ==
    ASSUME FieldInv, FieldsInv, Open
    PROVE  FieldsInv'
<1>1. /\ mode = "closed" /\ stop = FALSE /\ change.step = "idle"
      /\ \A l \in Ladders : lpc[l] = "idle"
      /\ UNCHANGED <<stop, schema, saved, seal, pend, lexCkpt, wal, nextSeq,
                     put, change, start, refused, unfollowed>>
      /\ index' = saved /\ writer' \in {{}, DOMAIN saved}
      /\ Again # {} => writer' = DOMAIN saved
      /\ history' = history \ Rejected
      /\ discarded' = discarded \cup {r.seq : r \in Rejected}
      /\ \/ /\ mode' = "recovering"
            /\ lpc' = [lpc EXCEPT !["recovery"] = "lexical"]
            /\ snap' = [snap EXCEPT !["recovery"] = LastSeq]
         \/ /\ mode' = "open" /\ UNCHANGED <<lpc, snap>>
            /\ \A r \in wal : ~IsPut(r)
  BY OpenIs
<1>2. /\ Types /\ Numbers /\ Modes /\ Registered /\ Log /\ Mismatches /\ Buffers
      /\ LastSeq' = LastSeq /\ LastSeq \in Nat
      /\ DOMAIN saved \subseteq Fields /\ saved \in Tables
      /\ files \in [Fields -> Directory]
  BY <1>1, TableIs DEF FieldsInv, Rest, Types, LastSeq
<1>3. /\ buf' \in [Fields -> SUBSET Nat]
      /\ \A f \in DOMAIN saved : \A d :
             d \in (buf')[f] <=> \E r \in Again : r.field = f /\ r.doc = d
      /\ \A f \in Fields : f \notin DOMAIN saved => (buf')[f] = {}
      /\ marks' \in [Fields -> SUBSET Nat]
      /\ \A f \in DOMAIN saved : \A d :
             d \in (marks')[f] <=>
                 \/ /\ d \in files[f].marks \/ \E r \in Again : r.doc = d
                    /\ d \notin (buf')[f]
                 \/ \E r \in Replayed : ~IsPut(r) /\ r.doc = d
      /\ \A f \in Fields : f \notin DOMAIN saved => (marks')[f] = {}
      /\ files' \in [Fields -> Directory]
      /\ \A f \in Fields :
             /\ (files')[f].docs = files[f].docs
             /\ (files')[f].marks = files[f].marks
             /\ (files')[f].ckpt = files[f].ckpt
             /\ f \in DOMAIN saved => (files')[f].dim = saved[f]
  BY OpenWrites
<1>4. \A f \in DOMAIN saved :
          /\ \A d : d \in Given(f)' => d \in Given(f)
          /\ \A d : d \in Deleted(history') <=> d \in Deleted(history)
          /\ f \notin unfollowed => files[f].docs \subseteq Given(f)'
          /\ (buf')[f] \subseteq Given(f)'
          /\ f \notin unfollowed => \A d : d \in Held(f)' <=> d \in Owed(f)'
  BY OpenMemory
<1>5. /\ lpc' \in [Ladders -> LadderSteps] /\ snap' \in [Ladders -> Nat]
      /\ \A l \in Ladders : (lpc')[l] = "idle" \/ (lpc')[l] = "lexical"
      /\ \A l \in Ladders : l # "recovery" => (lpc')[l] = "idle"
      /\ mode' \in {"recovering", "open"}
      /\ (lpc')["recovery"] = "lexical" <=> mode' = "recovering"
      /\ mode' = "recovering" => (snap')["recovery"] = LastSeq
      /\ \A l \in Ladders : (snap')[l] <= LastSeq
      /\ mode' = "open" => \A r \in wal : ~IsPut(r)
  <2>1. \A l \in Ladders : snap[l] <= LastSeq /\ snap[l] \in Nat
    BY <1>2 DEF Numbers, Types
  <2>2. lpc \in [Ladders -> LadderSteps] /\ snap \in [Ladders -> Nat]
    BY <1>2 DEF Types
  <2>3. CASE /\ mode' = "recovering"
             /\ lpc' = [lpc EXCEPT !["recovery"] = "lexical"]
             /\ snap' = [snap EXCEPT !["recovery"] = LastSeq]
    BY <1>1, <1>2, <2>1, <2>2, <2>3
  <2>4. CASE /\ mode' = "open" /\ UNCHANGED <<lpc, snap>>
             /\ \A r \in wal : ~IsPut(r)
    BY <1>1, <2>1, <2>2, <2>4
  <2> QED BY <1>1, <2>3, <2>4
<1>6. \A f \in Fields : (seal')[f] = "open"
  BY <1>1, <1>2 DEF Modes, Each
<1>7. LowestCkpt(saved)' = LowestCkpt(saved)
  <2>1. PICK t : t = saved
    OBVIOUS
  <2>2. LowestCkpt(t)' = LowestCkpt(t)
    BY <1>2, <1>3, <2>1, SameLowest
  <2> QED BY <1>1, <2>1, <2>2 DEF LowestCkpt
<1>8. \A r : Mismatch(r)' <=> Mismatch(r)
  BY <1>1 DEF Mismatch, IsPut
<1>9. \A r : r \in Rejected <=> Mismatch(r) /\ r.seq > LowestCkpt(saved)
  BY RejectedIs
<1>10. Types'
  <2>1. writer' \in SUBSET Fields /\ stop' \in BOOLEAN
    BY <1>1, <1>2
  <2>2. schema' = saved' /\ saved' \in Tables /\ index' \in Tables
    BY <1>1, <1>2 DEF Types
  <2> QED BY <1>1, <1>2, <1>3, <1>5, <2>1, <2>2 DEF Types
<1>11. Numbers'
  <2>1. \A r \in wal : r.doc \in 1..LastSeq
    BY <1>2 DEF Numbers, RecordShape
  <2>2. ASSUME NEW f \in Fields
        PROVE  (buf')[f] \subseteq 1..LastSeq /\ (marks')[f] \subseteq 1..LastSeq
    <3>1. CASE f \notin DOMAIN saved
      BY <1>3, <3>1
    <3>2. CASE f \in DOMAIN saved
      <4>1. \A d \in (buf')[f] : d \in 1..LastSeq
        BY <1>3, <2>1, <3>2, AgainIs
      <4>2. \A d \in (marks')[f] : d \in 1..LastSeq
        <5>1. files[f].marks \subseteq 1..LastSeq
          BY <1>2 DEF Numbers
        <5>2. Replayed \subseteq wal
          BY DEF Replayed
        <5> QED BY <1>3, <2>1, <3>2, <5>1, <5>2, AgainIs
      <4> QED BY <4>1, <4>2
    <3> QED BY <3>1, <3>2
  <2>3. \A f \in Fields :
            /\ (files')[f].docs \subseteq 1..LastSeq
            /\ (files')[f].marks \subseteq 1..LastSeq
            /\ (files')[f].ckpt <= LastSeq /\ pend[f] <= LastSeq
            /\ start[f] <= LastSeq
    BY <1>2, <1>3 DEF Numbers
  <2>4. \A r \in wal \cup history' : RecordShape(r)' /\ r.seq <= LastSeq
    BY <1>1, <1>2 DEF Numbers, RecordShape, IsPut
  <2>5. \A l \in Ladders :
            /\ (snap')[l] <= LastSeq
            /\ (lpc')[l] \in {"vector", "truncate"} => (snap')[l] <= lexCkpt
    BY <1>5
  <2>6. /\ lexCkpt <= LastSeq /\ LastSeq <= MaxSeq
        /\ lexCkpt = LastSeq \/ \E r \in wal : r.seq = LastSeq
    BY <1>2 DEF Numbers
  <2> QED BY <1>1, <1>2, <2>2, <2>3, <2>4, <2>5, <2>6 DEF Numbers
<1>12. Modes'
  <2>1. seal' = Each("open")
    BY <1>1, <1>2 DEF Modes
  <2>2. (lpc')["recovery"] # "idle" <=> mode' = "recovering"
    BY <1>5
  <2> QED BY <1>1, <1>2, <1>5, <2>1, <2>2 DEF Modes, Each
<1>13. Changing'
  BY <1>1 DEF Changing
<1>14. Registered'
  <2>1. \A f \in DOMAIN saved : (files')[f].dim = saved[f] /\ f \in DOMAIN index'
    BY <1>1, <1>2, <1>3
  <2> QED BY <1>1, <2>1 DEF Registered
<1>15. mode' = "open" => Again = {}
  BY <1>5, AgainIs
<1>16. Buffers'
  <2>1. ASSUME NEW f \in Fields, f \notin writer' PROVE (buf')[f] = {}
    <3>1. CASE f \notin DOMAIN saved
      BY <1>3, <3>1
    <3>2. CASE f \in DOMAIN saved
      BY <1>1, <1>3, <2>1, <3>2
    <3> QED BY <3>1, <3>2
  <2>2. ASSUME Settled', NEW f \in Fields PROVE (buf')[f] = {}
    <3>1. mode' = "open"
      BY <1>5, <2>2 DEF Settled
    <3>2. CASE f \notin DOMAIN saved
      BY <1>3, <3>2
    <3>3. CASE f \in DOMAIN saved
      BY <1>3, <1>15, <3>1, <3>3
    <3> QED BY <3>2, <3>3
  <2> QED BY <1>6, <2>1, <2>2 DEF Buffers
<1>17. Log'
  <2>1. mode' = "open" => wal \subseteq history'
    <3> SUFFICES ASSUME mode' = "open", NEW r \in wal PROVE r \in history'
      OBVIOUS
    <3>1. ~IsPut(r)
      BY <1>5
    <3> QED BY <1>1, <1>2, <1>9, <3>1 DEF Mismatches, Mismatch
  <2>2. /\ \A r, s \in wal \cup history' : r.seq = s.seq => r = s
        /\ \A r \in wal, s \in history' : s.seq > r.seq => s \in wal
        /\ \A r \in wal :
               IsPut(r) /\ r.field \in DOMAIN saved =>
                   r.into /\ r.seq > start[r.field]
    BY <1>1, <1>2 DEF Log
  <2> QED BY <1>1, <2>1, <2>2 DEF Log, IsPut
<1>18. Mismatches'
  <2>1. \A r \in wal : r \notin history' => Mismatch(r)
    BY <1>1, <1>2, <1>9 DEF Mismatches
  <2>2. ASSUME NEW r \in wal, Mismatch(r)
        PROVE  /\ r.seq \in refused
               /\ r.doc \notin (files')[r.field].docs
               /\ r.doc \notin (buf')[r.field]
               /\ r.seq \in discarded'
               /\ mode' # "open"
    <3>1. /\ r.seq \in refused /\ r.doc \notin files[r.field].docs
          /\ r.seq \in discarded \/ Beyond(r.seq)
          /\ IsPut(r) /\ r.field \in DOMAIN saved /\ r.field \in Fields
      BY <1>2, <2>2 DEF Mismatches, Mismatch
    <3>2. r.doc \notin (buf')[r.field]
      <4>1. ASSUME NEW q \in Again, q.doc = r.doc PROVE FALSE
        <5>1. q \in wal /\ IsPut(q) /\ ~Mismatch(q)
          BY AgainIs
        <5>2. q = r
          BY <1>2, <3>1, <4>1, <5>1 DEF Log, IsPut
        <5> QED BY <2>2, <5>1, <5>2
      <4> QED BY <1>3, <3>1, <4>1
    <3>3. r.seq \in discarded'
      <4>1. CASE r.seq > LowestCkpt(saved)
        BY <1>1, <1>9, <2>2, <4>1
      <4>2. CASE ~(r.seq > LowestCkpt(saved))
        <5>1. LowestCkpt(saved) \in Nat /\ LowestCkpt(saved) <= files[r.field].ckpt
          BY <1>2, <3>1, LowestIs
        <5>2. r.seq \in Nat /\ files[r.field].ckpt \in Nat
          BY <1>2, <3>1 DEF Numbers, RecordShape, Directory
        <5>3. ~Beyond(r.seq)
          BY <3>1, <4>2, <5>1, <5>2 DEF Beyond
        <5> QED BY <1>1, <3>1, <5>3
      <4> QED BY <4>1, <4>2
    <3> QED BY <1>3, <1>5, <3>1, <3>2, <3>3
  <2>3. discarded' \subseteq refused
    <3>1. \A r \in Rejected : r.seq \in refused
      BY <1>2, <1>9 DEF Mismatches, Mismatch
    <3> QED BY <1>1, <1>2, <3>1 DEF Mismatches
  <2> QED BY <1>1, <1>5, <1>8, <2>1, <2>2, <2>3 DEF Mismatches
<1>19. Contained'
  BY <1>1, <1>2, <1>3, <1>4 DEF Contained, Followed
<1>20. Memory'
  BY <1>1, <1>4 DEF Memory, Held, Owed
<1>21. Disk'
  <2> SUFFICES ASSUME NEW f \in Followed'
               PROVE  HasDocs(f)' /\ HasMarks(f)' /\ HasLog(f)' /\ MarksRight(f)'
    BY DEF Disk
  <2>1. f \in DOMAIN saved /\ f \in Followed /\ f \in Fields
    BY <1>1, <1>2 DEF Followed
  <2>2. HasDocs(f) /\ HasMarks(f) /\ HasLog(f) /\ MarksRight(f)
    BY <2>1 DEF FieldsInv, Rest, Disk
  <2>3. /\ \A d : d \in Given(f)' => d \in Given(f)
        /\ \A d : d \in Deleted(history') <=> d \in Deleted(history)
    BY <1>4, <2>1
  <2>4. /\ (files')[f].docs = files[f].docs
        /\ (files')[f].marks = files[f].marks
        /\ (files')[f].ckpt = files[f].ckpt
    BY <1>3, <2>1
  <2>5. HasDocs(f)' /\ HasLog(f)' /\ MarksRight(f)'
    <3>1. HasDocs(f)'
      BY <2>2, <2>3, <2>4 DEF HasDocs
    <3>2. HasLog(f)'
      BY <1>1, <2>2, <2>3, <2>4 DEF HasLog
    <3>3. MarksRight(f)'
      BY <2>2, <2>3, <2>4 DEF MarksRight
    <3> QED BY <3>1, <3>2, <3>3
  <2>6. HasMarks(f)'
    <3> SUFFICES ASSUME NEW r \in history, ~IsPut(r),
                        r.doc \in files[f].docs, r.seq <= files[f].ckpt
                 PROVE  r.doc \in files[f].marks \/ (~Settled' /\ Redone(r.doc)')
      BY <1>1, <2>4 DEF HasMarks, IsPut
    <3>1. r.doc \in files[f].marks \/ Redone(r.doc)
      BY <2>2 DEF HasMarks
    <3>2. Redone(r.doc) => ~Settled'
      <4>1. Redone(r.doc) => mode' = "recovering"
        BY <1>5 DEF Redone
      <4> QED BY <1>5, <4>1 DEF Settled
    <3>3. Redone(r.doc)' <=> Redone(r.doc)
      BY <1>1, <1>7 DEF Redone, IsPut
    <3> QED BY <3>1, <3>2, <3>3
  <2> QED BY <2>5, <2>6
<1>22. Rebuffered'
  <2> SUFFICES ASSUME NEW f \in DOMAIN saved, NEW d \in Nat
               PROVE  d \in (buf')[f] <=>
                        /\ d > LowestCkpt(saved)
                        /\ \E r \in wal : /\ IsPut(r) /\ ~Mismatch(r)
                                          /\ r.doc = d /\ r.field = f
    BY <1>1, <1>7, <1>8 DEF Rebuffered, IsPut
  <2>1. \A r : IsPut(r) => r.seq = r.doc
    BY DEF IsPut
  <2> QED BY <1>3, <2>1, AgainIs
<1>23. Truncates'
  BY <1>5 DEF Truncates
<1>24. PutChecked'
  <2>1. put.step = "idle"
    BY <1>1 DEF FieldsInv, PutChecked, PutSteps
  <2> QED BY <1>1, <2>1 DEF PutChecked, PutSteps
<1> QED
  BY <1>10, <1>11, <1>12, <1>13, <1>14, <1>16, <1>17, <1>18, <1>19, <1>20,
     <1>21, <1>22, <1>23, <1>24 DEF FieldsInv, Rest

-----------------------------------------------------------------------------
(* The theorems.                                                           *)

\* A new index has declared fields that are registered and hold nothing.
LEMMA InitSafe == Init => FieldsInv
<1> SUFFICES ASSUME Init PROVE FieldsInv
  OBVIOUS
<1>1. /\ mode = "open" /\ stop = FALSE /\ writer = {}
      /\ buf = Each({}) /\ seal = Each("open") /\ marks = Each({})
      /\ pend = Each(0) /\ start = Each(0)
      /\ lexCkpt = 0 /\ wal = {} /\ nextSeq = 1 /\ history = {}
      /\ put.step = "idle" /\ change = NoChange /\ change.step = "idle"
      /\ lpc = [l \in Ladders |-> "idle"] /\ snap = [l \in Ladders |-> 0]
      /\ discarded = {} /\ refused = {} /\ unfollowed = {}
  BY DEF Init, NoPut, NoChange
<1>2. PICK declared \in SUBSET Fields :
          schema \in [declared -> Dims] /\ saved = schema /\ index = schema
  BY DEF Init
<1>3. /\ schema = saved /\ index = saved /\ saved \in Tables
      /\ DOMAIN saved \subseteq Fields
      /\ \A f \in DOMAIN saved : saved[f] \in Dims
  <2>1. DOMAIN saved = declared
    BY <1>2
  <2> QED BY <1>2, <2>1, TableIs
<1>4. /\ files \in [Fields -> Directory]
      /\ \A f \in Fields :
             /\ files[f].docs = {} /\ files[f].marks = {}
             /\ files[f].ckpt = 0
             /\ f \in DOMAIN saved => files[f].dim = saved[f]
  <2>1. files = [f \in Fields |->
            EmptyDirectory(IF f \in DOMAIN schema THEN schema[f] ELSE "none")]
    BY DEF Init
  <2>2. ASSUME NEW d \in Dims \cup {"none"}
        PROVE  /\ EmptyDirectory(d) \in Directory
               /\ EmptyDirectory(d).docs = {} /\ EmptyDirectory(d).marks = {}
               /\ EmptyDirectory(d).ckpt = 0 /\ EmptyDirectory(d).dim = d
    BY DEF EmptyDirectory, Directory
  <2>3. ASSUME NEW f \in Fields
        PROVE  (IF f \in DOMAIN schema THEN schema[f] ELSE "none")
                   \in Dims \cup {"none"}
    BY <1>3
  <2> HIDE DEF Directory, EmptyDirectory
  <2> QED BY <1>3, <2>1, <2>2, <2>3
<1>5. /\ buf \in [Fields -> SUBSET Nat] /\ marks \in [Fields -> SUBSET Nat]
      /\ seal \in [Fields -> {"open", "sealed", "dirty"}]
      /\ pend \in [Fields -> Nat] /\ start \in [Fields -> Nat]
      /\ \A f \in Fields : /\ buf[f] = {} /\ marks[f] = {} /\ seal[f] = "open"
                           /\ pend[f] = 0 /\ start[f] = 0
  BY <1>1 DEF Each
<1>6. /\ lpc \in [Ladders -> LadderSteps] /\ snap \in [Ladders -> Nat]
      /\ \A l \in Ladders : lpc[l] = "idle" /\ snap[l] = 0
  BY <1>1
<1>7. LastSeq = 0 /\ 0 <= MaxSeq
  BY <1>1, BoundsAssumption DEF LastSeq
<1>8. Types
  <2>1. /\ mode \in {"open", "recovering", "failed", "refused", "closed"}
        /\ writer \in SUBSET Fields
        /\ nextSeq \in Nat \ {0} /\ lexCkpt \in Nat
    BY <1>1
  <2>2. stop \in BOOLEAN
    BY <1>1
  <2>3. change \in Changes \cup {NoChange}
    BY <1>1
  <2> QED BY <1>3, <1>4, <1>5, <1>6, <2>1, <2>2, <2>3 DEF Types
<1>9. Numbers
  BY <1>1, <1>4, <1>5, <1>6, <1>7 DEF Numbers
<1>10. Modes
  BY <1>1, <1>6 DEF Modes
<1>11. Changing /\ ~NewFieldSaves
  BY <1>1 DEF Changing, NewFieldSaves
<1>12. \A f : ~PendingDelete(f)
  BY <1>1 DEF PendingDelete
<1>13. Registered
  BY <1>1, <1>3, <1>4, <1>5 DEF Registered
<1>14. Buffers
  BY <1>1, <1>5 DEF Buffers
<1>15. Log
  BY <1>1 DEF Log
<1>16. \A r : ~Mismatch(r) /\ r \notin Rejected
  BY <1>1, RejectedIs DEF Mismatch
<1>17. Mismatches
  BY <1>1 DEF Mismatches
<1>18. \A f, d : d \notin Given(f)
  BY <1>1, GivenIs
<1>19. Contained
  BY <1>3, <1>4, <1>5 DEF Contained, Followed
<1>20. Memory
  <2>1. ASSUME NEW f \in Fields PROVE Held(f) = Owed(f)
    <3>1. \A d : d \notin Held(f)
      BY <1>4, <1>5, HeldIs
    <3>2. \A d : d \notin Owed(f)
      BY <1>18, OwedIs
    <3> QED BY <3>1, <3>2
  <2> QED BY <1>3, <2>1 DEF Memory
<1>21. Disk
  <2>1. ASSUME NEW f \in Fields
        PROVE  HasDocs(f) /\ HasMarks(f) /\ HasLog(f) /\ MarksRight(f)
    BY <1>1, <1>4, <1>18 DEF HasDocs, HasMarks, HasLog, MarksRight
  <2> QED BY <1>3, <2>1 DEF Disk, Followed
<1>22. Rebuffered /\ Truncates
  BY <1>6 DEF Rebuffered, Truncates
<1>23. PutChecked
  BY <1>1 DEF PutChecked, PutSteps
<1> QED
  BY <1>8, <1>9, <1>10, <1>11, <1>13, <1>14, <1>15, <1>17, <1>19, <1>20,
     <1>21, <1>22, <1>23 DEF FieldsInv, Rest

\* One step of a put or a delete, of a ladder, of a schema change, and of the
\* process.
LEMMA CommitSafe ==
    ASSUME FieldInv, FieldsInv, Commit
    PROVE  FieldsInv'
<1>1. CASE StartCommit
  BY <1>1, StartCommitSafe
<1>2. CASE \E l \in Ladders :
               CommitLexical(l) \/ CommitVector(l) \/ TruncateLog(l)
  <2>1. PICK l \in Ladders :
            CommitLexical(l) \/ CommitVector(l) \/ TruncateLog(l)
    BY <1>2
  <2>2. CASE CommitLexical(l)
    BY <2>2, CommitLexicalSafe
  <2>3. CASE CommitVector(l)
    BY <2>3, CommitVectorSafe
  <2>4. CASE TruncateLog(l)
    BY <2>4, TruncateLogSafe
  <2> QED BY <2>1, <2>2, <2>3, <2>4
<1> QED BY <1>1, <1>2 DEF Commit

LEMMA ChangeSchemaSafe ==
    ASSUME FieldInv, FieldsInv, ChangeSchema
    PROVE  FieldsInv'
<1>1. schema = saved
  BY DEF FieldsInv, Rest, Types
<1>2. ASSUME NEW f \in Fields, NEW d \in Dims, AddField(f, d)
      PROVE  FieldsInv'
  <2>1. BeginAfterCommit("add", f, d) /\ f \notin DOMAIN saved
    BY <1>1, <1>2 DEF AddField
  <2>2. "add" = "add" <=> f \notin DOMAIN saved
    BY <2>1
  <2> QED BY <2>1, <2>2, BeginAfterCommitSafe
<1>3. ASSUME NEW f \in Fields, NEW d \in Dims, RecreateField(f, d)
      PROVE  FieldsInv'
  <2>1. BeginAfterCommit("recreate", f, d) /\ f \in DOMAIN saved
    BY <1>1, <1>3 DEF RecreateField
  <2>2. "recreate" = "add" <=> f \notin DOMAIN saved
    BY <2>1
  <2> QED BY <2>1, <2>2, BeginAfterCommitSafe
<1>4. ASSUME NEW f \in Fields, DeleteField(f) PROVE FieldsInv'
  BY <1>4, BeginAtOnceSafe DEF DeleteField
<1>5. ASSUME NEW f \in Fields, ReindexField(f) PROVE FieldsInv'
  BY <1>5, BeginAtOnceSafe DEF ReindexField
<1>6. CASE \E f \in Fields, d \in Dims : AddField(f, d) \/ RecreateField(f, d)
  BY <1>2, <1>3, <1>6
<1>7. CASE \E f \in Fields : DeleteField(f) \/ ReindexField(f)
  BY <1>4, <1>5, <1>7
<1>8. CASE CancelChange
  BY <1>8, CancelChangeSafe
<1>9. CASE ApplyChange
  BY <1>9, ApplyChangeSafe
<1>10. CASE SaveSchema
  BY <1>10, SaveSchemaSafe
<1> QED BY <1>6, <1>7, <1>8, <1>9, <1>10 DEF ChangeSchema

LEMMA NextSafe ==
    ASSUME FieldInv, FieldsInv, [Next]_vars
    PROVE  FieldsInv'
<1>1. CASE \E f \in Fields, d \in Dims : Coerce(f, d)
  BY <1>1, CoerceSafe
<1>2. CASE Embed
  BY <1>2, EmbedSafe
<1>3. CASE WritePut
  BY <1>3, WritePutSafe
<1>4. CASE CancelPut
  BY <1>4, CancelPutSafe
<1>5. CASE DeleteSome
  BY <1>5, DeleteSafe
<1>6. CASE Commit
  BY <1>6, CommitSafe
<1>7. CASE ChangeSchema
  BY <1>7, ChangeSchemaSafe
<1>8. CASE End
  BY <1>8, EndSafe
<1>9. CASE OpenFails
  BY <1>9, OpenFailsSafe
<1>10. CASE Open
  BY <1>10, OpenSafe
<1>11. CASE UNCHANGED vars
  BY <1>11, StutterSafe
<1> QED
  BY <1>1, <1>2, <1>3, <1>4, <1>5, <1>6, <1>7, <1>8, <1>9, <1>10, <1>11
     DEF Next

\* What puts, deletes, commits, schema changes, ends of the process and
\* replays keep between the fields' writers, their files, the log and the
\* schema that is saved (engine.rs; vector/store.rs; multi_field.rs).  What a
\* field's files and its memory hold is not kept for the fields in unfollowed:
\* those whose recreation failed and left files (remove_field and
\* purge_field_files), those that a replay and then a failed commit left
\* without a deletion mark, and those removed when the log was truncated.
THEOREM FieldsInvariant == Spec => []FieldsInv
<1>1. Spec => []FieldInv
  BY FieldInvariant
<1>2. Init => FieldsInv
  BY InitSafe
<1>3. FieldInv /\ FieldsInv /\ [Next]_vars => FieldsInv'
  BY NextSafe
<1> QED BY <1>1, <1>2, <1>3, PTL DEF Spec

\* Every table names only fields, a writer holds documents of its fields
\* only, and no document, checkpoint or watermark has a number above the
\* last one the log gave (next_seq of DocumentLog; pending_wal_seq of
\* multi_field.rs).
THEOREM FieldsTyped == Spec => []TypeOK
<1>1. FieldsInv => TypeOK
  <2> SUFFICES ASSUME FieldsInv PROVE TypeOK
    OBVIOUS
  <2>1. Types /\ Numbers /\ Modes /\ Buffers
    BY DEF FieldsInv, Rest
  <2>2. LastSeq \in Nat
    BY <2>1 DEF Types, LastSeq
  <2>3. {schema, saved, index} \subseteq Tables /\ writer \subseteq Fields
    BY <2>1 DEF Types
  <2>4. ASSUME NEW f \in Fields
        PROVE  /\ buf[f] \cup marks[f] \cup files[f].docs \subseteq 1..LastSeq
               /\ files[f].marks \subseteq 1..LastSeq
               /\ f \notin writer => buf[f] = {} /\ seal[f] = "open"
               /\ files[f].ckpt \in 0..LastSeq /\ pend[f] \in 0..LastSeq
    <3>1. files[f] \in Directory /\ pend[f] \in Nat
      BY <2>1 DEF Types
    <3>2. files[f].ckpt \in Nat
      BY <3>1 DEF Directory
    <3>3. /\ files[f].ckpt <= LastSeq /\ pend[f] <= LastSeq
          /\ buf[f] \subseteq 1..LastSeq /\ marks[f] \subseteq 1..LastSeq
          /\ files[f].docs \subseteq 1..LastSeq
          /\ files[f].marks \subseteq 1..LastSeq
      BY <2>1 DEF Numbers
    <3>4. f \notin writer => buf[f] = {} /\ seal[f] = "open"
      BY <2>1 DEF Buffers
    <3> QED BY <2>2, <3>1, <3>2, <3>3, <3>4
  <2>5. lexCkpt \in 0..LastSeq /\ LastSeq <= MaxSeq
    BY <2>1, <2>2 DEF Types, Numbers
  <2>6. change.step # "idle" => mode = "open"
    BY <2>1 DEF Modes
  <2>7. /\ mode \in {"open", "recovering", "failed", "refused", "closed"}
        /\ stop \in BOOLEAN
    BY <2>1 DEF Types
  <2> QED BY <2>3, <2>4, <2>5, <2>6, <2>7 DEF TypeOK
<1> QED BY <1>1, FieldsInvariant, PTL

\* A registered field that is not in unfollowed holds exactly the documents
\* put into it since it was added or recreated, and not deleted, whatever
\* schema changes, commits that reach only some fields, crashes and replays
\* came before (Issues #1492, #1527 and #1535; add_field, delete_field and
\* update_field of engine.rs, commit and add_field of multi_field.rs).  In
\* unfollowed, and excepted, are the fields with the three failures that
\* FieldsExact names: a deleted document replayed after its mark was merged
\* away and sealed by a commit that fails before the marks, a truncation
\* between a field's removal and the save of the schema, and a failed
\* recreation that leaves files.
THEOREM FieldsHoldWhatTheyOwe == Spec => []FieldsExact
<1>1. FieldsInv => FieldsExact
  BY DEF FieldsInv, Rest, Memory, FieldsExact
<1> QED BY <1>1, FieldsInvariant, PTL

\* A process may end anywhere and the index opens again, and a replay
\* discards only a record whose put reported the error; an open is refused
\* only where an earlier one discarded (recover of engine.rs).
THEOREM IndexReopens == Spec => []ReopensWhole
<1>1. FieldsInv => ReopensWhole
  BY DEF FieldsInv, Rest, Mismatches, ReopensWhole
<1> QED BY <1>1, FieldsInvariant, PTL

=============================================================================
