-------------------------- MODULE DocumentLogProofs --------------------------
(***************************************************************************)
(* Proofs about DocumentLog, for every choice of policies, crashes, faults *)
(* and bounds: its invariants, and that it implements DurableLog.          *)
(*                                                                         *)
(* IInv is inductive.  Its heart is Kept: what was reported durable is in  *)
(* the file and in everything a power failure may put in its place, beyond *)
(* what it may cut off.  The rest says when the log may report a record:   *)
(* what is appended since the open is in the file (Kept), a clean handle   *)
(* or none means it is out of reach of a crash (Kept), an open handle means*)
(* that no rename can be undone (Handle), no partial frame is in front of  *)
(* the next record (Handle), and a crash takes records from the end        *)
(* (Prefixes).                                                             *)
(***************************************************************************)
EXTENDS DocumentLog, TLAPS

\* The records in R that no checkpoint covers are out of reach of a crash.
Firm(R) ==
    \A r \in R : r > ckpt =>
        /\ r \in file.records /\ r \notin unsynced
        /\ \A s \in stale : r \in s.file.records /\ r \notin s.unsure

\* The records of U are the last ones of R.
Tail(U, R) == \A r \in R, q \in R : r \notin U /\ q \in U => r < q

Handle ==
    /\ mode = "closed" => ~handle /\ ~nameSynced /\ ~torn
    /\ dirty => handle
    /\ ~handle => buffered = {}
    /\ handle => nameSynced
    /\ nameSynced => \A s \in stale : s.by = "truncate"
    /\ mode = "open" /\ ~torn => ~file.partial

Numbers ==
    mode = "open" => ckpt < next /\ \A r \in file.records : r < next

\* What may come back in place of the file has no uncovered record that the
\* file has not, and none without those before it.
Bounded ==
    \A s \in stale : \A r \in s.file.records :
        /\ r <= ckpt \/ (s.by = "rename" /\ r \in file.records)
        /\ \A q \in file.records : ckpt < q /\ q < r => q \in s.file.records

Prefixes ==
    /\ Tail(buffered, file.records) /\ Tail(unsynced, file.records)
    /\ \A s \in stale : Tail(s.unsure, s.file.records)

Kept ==
    /\ Firm(promised)
    /\ ~dirty => Firm(fresh)
    /\ \A r \in fresh : r > ckpt => r \in file.records

IInv == TypeOK /\ Handle /\ Numbers /\ Bounded /\ Prefixes /\ Kept

-----------------------------------------------------------------------------
(* The sorts of the files and of what may replace them.                    *)

\* The fields of a file, and of the file with other records.
LEMMA FilesType ==
    ASSUME NEW f \in Files
    PROVE  /\ f.records \in SUBSET Nat /\ f.partial \in BOOLEAN /\ f.older \in BOOLEAN
           /\ \A R \in SUBSET Nat :
                  /\ [f EXCEPT !.records = R] \in Files
                  /\ [f EXCEPT !.records = R].records = R
                  /\ [f EXCEPT !.records = R].partial = f.partial
  BY DEF Files

\* A file that gained or lost a partial frame.
LEMMA PartialType ==
    ASSUME NEW f \in Files, NEW b \in BOOLEAN
    PROVE  /\ [f EXCEPT !.partial = b] \in Files
            /\ [f EXCEPT !.partial = b].records = f.records
            /\ [f EXCEPT !.partial = b].partial = b
  BY DEF Files

\* The empty file is a file.
LEMMA EmptyType == Empty \in Files /\ Empty.records = {} /\ ~Empty.partial
  BY DEF Empty, Files

\* A log that was never created.
LEMMA MissingType ==
    /\ Missing \in Stales
    /\ Missing.by = "rename" /\ Missing.file = Empty /\ Missing.unsure = {}
<1>1. Missing \in Stales
  BY EmptyType DEF Missing, Stales
<1> QED BY <1>1 DEF Missing

\* The file that rewrite_wal writes.
LEMMA RewrittenType ==
    ASSUME NEW R \in SUBSET Nat
    PROVE  Rewritten(R) \in Files /\ Rewritten(R).records = R /\ ~Rewritten(R).partial
  BY DEF Files, Rewritten

\* ensure_writer changes the framing of the file, not its records.
LEMMA EnsuredType ==
    ASSUME TypeOK
    PROVE  /\ Ensured \in Files /\ Ensured.records = file.records
           /\ Ensured.partial => file.partial
  BY RewrittenType, FilesType DEF TypeOK, Ensured, Rewritten

\* A record written to a log without a partial frame is read from it.
LEMMA WrittenType ==
    ASSUME TypeOK
    PROVE  /\ Written \in Files
           /\ Written.partial = Ensured.partial
           /\ ~file.partial => Written.records = file.records \cup {next}
<1>1. Ensured.records \cup {next} \in SUBSET Nat
  BY EnsuredType, FilesType DEF TypeOK
<1> QED BY <1>1, EnsuredType, FilesType DEF Written, Files

\* A crash leaves the records it cannot take, and a prefix of the others.
LEMMA RemainsType ==
    ASSUME NEW f \in Files, NEW U, NEW g \in Remains(f, U), Tail(U, f.records)
    PROVE  /\ g \in Files
           /\ g.records \subseteq f.records
           /\ \A r \in f.records : r \notin U => r \in g.records
           /\ \A r \in g.records, q \in f.records : q < r => q \in g.records
<1> DEFINE left(last, cut) ==
               [records |-> {r \in f.records : r \notin U \/ r <= last},
                partial |-> cut, older |-> f.older]
           cuts == IF f.partial \/ U # {} THEN BOOLEAN ELSE {FALSE}
<1>0. Remains(f, U) = {left(last, cut) : last \in 0..MaxSeq, cut \in cuts}
  BY DEF Remains
<1>00. cuts \subseteq BOOLEAN
  OBVIOUS
<1> HIDE DEF left, cuts
<1>01. PICK last \in 0..MaxSeq, cut \in BOOLEAN : g = left(last, cut)
  BY <1>0, <1>00
<1>1. g = [records |-> {r \in f.records : r \notin U \/ r <= last},
                partial |-> cut, older |-> f.older]
   BY <1>01 DEF left
<1>2. f.records \subseteq Nat /\ f.older \in BOOLEAN
  BY DEF Files
<1>3. g.records = {r \in f.records : r \notin U \/ r <= last}
  BY <1>1
<1>4. g \in Files
  BY <1>1, <1>2 DEF Files
<1>5. \A r \in g.records, q \in f.records : q < r => q \in g.records
  BY <1>2, <1>3, BoundsAssumption DEF Tail
<1> QED BY <1>3, <1>4, <1>5

-----------------------------------------------------------------------------
(* Every action preserves IInv.                                            *)

\* ensure_writer rewrote an older log and could not sync the rename.
LEMMA UpgradeUnsyncedStep == ASSUME IInv, UpgradeUnsynced PROVE IInv'
<1> USE DEF IInv, fileVars, handleVars, callVars, ghostVars, Files, Stales,
           UpgradeUnsynced, Rename, Rewritten, Upgrades, Replaced, Closed,
           ClosedStale, Current, Renames
<1>1. TypeOK'
  <2>1. (file \in Files)'
    BY SMTT(20) DEF TypeOK, Handle
  <2>2. (buffered \subseteq unsynced /\ unsynced \subseteq file.records)'
    BY SMTT(20) DEF TypeOK, Handle
  <2>3. (stale \subseteq Stales)'
    BY SMTT(20) DEF TypeOK, Handle
  <2>4. ({handle, dirty, torn, nameSynced} \subseteq BOOLEAN)'
    BY Zenon DEF TypeOK, Handle
  <2> QED
    BY SMTT(20), <2>1, <2>2, <2>3, <2>4, PoliciesAssumption, BoundsAssumption
    DEF TypeOK, Handle
<1>2. Handle'
  BY SMTT(20) DEF TypeOK, Handle, Numbers
<1>3. Numbers'
  BY SMTT(20) DEF TypeOK, Handle, Numbers
<1>4. Bounded'
  BY SMTT(20) DEF TypeOK, Handle, Numbers, Bounded
<1>5. Prefixes'
  BY SMTT(20) DEF TypeOK, Handle, Numbers, Bounded, Prefixes, Tail
<1>6. Kept'
  BY SMTT(20) DEF TypeOK, Handle, Numbers, Bounded, Kept, Firm
<1> QED BY <1>1, <1>2, <1>3, <1>4, <1>5, <1>6

\* append_put or append_delete with its fsync.
LEMMA AppendSyncedStep == ASSUME IInv, AppendSynced PROVE IInv'
<1>1. (file \in Files)'
  BY WrittenType DEF IInv, AppendSynced, WriteRecord
<1> USE DEF IInv, fileVars, handleVars, callVars, ghostVars, Files, Stales,
           AppendSynced, WriteRecord, Written, Ensured, EnsuredStale,
           Upgrades, Truncations, Rewritten
<1>2. TypeOK'
  <2>1. (file \in Files)'
    BY <1>1
  <2>2. (buffered \subseteq unsynced /\ unsynced \subseteq file.records)'
    BY SMTT(20) DEF TypeOK, Handle
  <2>3. (stale \subseteq Stales)'
    BY SMTT(20) DEF TypeOK, Handle
  <2>4. ({handle, dirty, torn, nameSynced} \subseteq BOOLEAN)'
    BY Zenon DEF TypeOK, Handle
  <2> QED
    BY SMTT(20), <2>1, <2>2, <2>3, <2>4, PoliciesAssumption, BoundsAssumption
    DEF TypeOK, Handle
<1>3. Handle'
  BY SMTT(20) DEF TypeOK, Handle, Numbers
<1>4. Numbers'
  BY SMTT(20) DEF TypeOK, Handle, Numbers
<1>5. Bounded'
  BY SMTT(20) DEF TypeOK, Handle, Numbers, Bounded
<1>6. Prefixes'
  BY SMTT(20) DEF TypeOK, Handle, Numbers, Bounded, Prefixes, Tail
<1>7. Kept'
  BY SMTT(20) DEF TypeOK, Handle, Numbers, Bounded, Kept, Firm
<1> QED BY <1>2, <1>3, <1>4, <1>5, <1>6, <1>7

\* append_put or append_delete whose fsync is left to a later call.
LEMMA AppendDeferredStep == ASSUME IInv, AppendDeferred PROVE IInv'
<1>1. (file \in Files)'
  BY WrittenType DEF IInv, AppendDeferred, WriteRecord
<1> USE DEF IInv, fileVars, handleVars, callVars, ghostVars, Files, Stales,
           AppendDeferred, WriteRecord, LeaveUnsynced, Written, Ensured,
           EnsuredStale, EnsuredUnsynced, Upgrades, Truncations, Rewritten
<1>2. TypeOK'
  <2>1. (file \in Files)'
    BY <1>1
  <2>2. (buffered \subseteq unsynced /\ unsynced \subseteq file.records)'
    BY SMTT(20) DEF TypeOK, Handle
  <2>3. (stale \subseteq Stales)'
    BY SMTT(20) DEF TypeOK, Handle
  <2>4. ({handle, dirty, torn, nameSynced} \subseteq BOOLEAN)'
    BY Zenon DEF TypeOK, Handle
  <2> QED
    BY SMTT(20), <2>1, <2>2, <2>3, <2>4, PoliciesAssumption, BoundsAssumption
    DEF TypeOK, Handle
<1>3. Handle'
  BY SMTT(20) DEF TypeOK, Handle, Numbers
<1>4. Numbers'
  BY SMTT(20) DEF TypeOK, Handle, Numbers
<1>5. Bounded'
  BY SMTT(20) DEF TypeOK, Handle, Numbers, Bounded
<1>6. Prefixes'
  BY SMTT(20) DEF TypeOK, Handle, Numbers, Bounded, Prefixes, Tail
<1>7. Kept'
  BY SMTT(20) DEF TypeOK, Handle, Numbers, Bounded, Kept, Firm
<1> QED BY <1>2, <1>3, <1>4, <1>5, <1>6, <1>7

\* A record is written and its fsync fails.
LEMMA AppendUnsyncedStep == ASSUME IInv, AppendUnsynced PROVE IInv'
<1>1. (file \in Files)'
  BY WrittenType DEF IInv, AppendUnsynced, WriteRecord
<1> USE DEF IInv, fileVars, handleVars, callVars, ghostVars, Files, Stales,
           AppendUnsynced, WriteRecord, LeaveUnsynced, Written, Ensured,
           EnsuredStale, EnsuredUnsynced, Upgrades, Truncations, Rewritten
<1>2. TypeOK'
  <2>1. (file \in Files)'
    BY <1>1
  <2>2. (buffered \subseteq unsynced /\ unsynced \subseteq file.records)'
    BY SMTT(20) DEF TypeOK, Handle
  <2>3. (stale \subseteq Stales)'
    BY SMTT(20) DEF TypeOK, Handle
  <2>4. ({handle, dirty, torn, nameSynced} \subseteq BOOLEAN)'
    BY Zenon DEF TypeOK, Handle
  <2> QED
    BY SMTT(20), <2>1, <2>2, <2>3, <2>4, PoliciesAssumption, BoundsAssumption
    DEF TypeOK, Handle
<1>3. Handle'
  BY SMTT(20) DEF TypeOK, Handle, Numbers
<1>4. Numbers'
  BY SMTT(20) DEF TypeOK, Handle, Numbers
<1>5. Bounded'
  BY SMTT(20) DEF TypeOK, Handle, Numbers, Bounded
<1>6. Prefixes'
  BY SMTT(20) DEF TypeOK, Handle, Numbers, Bounded, Prefixes, Tail
<1>7. Kept'
  BY SMTT(20) DEF TypeOK, Handle, Numbers, Bounded, Kept, Firm
<1> QED BY <1>2, <1>3, <1>4, <1>5, <1>6, <1>7

\* A frame is not, or not completely, written.
LEMMA AppendFailsStep == ASSUME IInv, AppendFails PROVE IInv'
<1>1. (file \in Files)'
  <2>1. PICK cut \in BOOLEAN : file' = [Ensured EXCEPT !.partial = @ \/ cut]
    BY DEF AppendFails
  <2>2. (Ensured.partial \/ cut) \in BOOLEAN
    OBVIOUS
  <2>3. file' = [Ensured EXCEPT !.partial = (Ensured.partial \/ cut)]
    BY <2>1
  <2> QED BY <2>2, <2>3, EnsuredType, PartialType DEF IInv
<1>2. Handle'
  <2>1. PICK cut \in BOOLEAN :
           torn' \in TornAfter(cut) /\ file' = [Ensured EXCEPT !.partial = @ \/ cut]
    BY DEF AppendFails
  <2>2. (Ensured.partial \/ cut) \in BOOLEAN
    OBVIOUS
  <2>3. file' = [Ensured EXCEPT !.partial = (Ensured.partial \/ cut)]
    BY <2>1
  <2>4. file'.partial = (Ensured.partial \/ cut)
    BY <2>2, <2>3, EnsuredType, PartialType DEF IInv
  <2>5. ~Ensured.partial
    BY EnsuredType DEF IInv, Handle, AppendFails
  <2>6. ~torn' => ~file'.partial
    BY <2>1, <2>4, <2>5 DEF TornAfter
  <2>7. \A s \in stale' : s.by = "truncate"
    BY DEF IInv, TypeOK, Stales, Handle, AppendFails, EnsuredStale, Upgrades,
           Truncations
  <2> QED BY <2>6, <2>7 DEF AppendFails, Handle, IInv, TypeOK, callVars
<1> USE DEF IInv, fileVars, handleVars, callVars, ghostVars, Files, Stales,
           AppendFails, TornAfter, Ensured, EnsuredStale, EnsuredUnsynced,
           Upgrades, Truncations, Rewritten
<1>3. TypeOK'
  <2>1. (file \in Files)'
    BY <1>1
  <2>2. (buffered \subseteq unsynced /\ unsynced \subseteq file.records)'
    BY SMTT(20) DEF TypeOK, Handle
  <2>3. (stale \subseteq Stales)'
    BY SMTT(20) DEF TypeOK, Handle
  <2>4. ({handle, dirty, torn, nameSynced} \subseteq BOOLEAN)'
    BY Zenon DEF TypeOK, Handle
  <2> QED
    BY SMTT(20), <2>1, <2>2, <2>3, <2>4, PoliciesAssumption, BoundsAssumption
    DEF TypeOK, Handle
<1>4. Numbers'
  BY SMTT(20) DEF TypeOK, Handle, Numbers
<1>5. Bounded'
  BY SMTT(20) DEF TypeOK, Handle, Numbers, Bounded
<1>6. Prefixes'
  BY SMTT(20) DEF TypeOK, Handle, Numbers, Bounded, Prefixes, Tail
<1>7. Kept'
  BY SMTT(20) DEF TypeOK, Handle, Numbers, Bounded, Kept, Firm
<1> QED BY <1>2, <1>3, <1>4, <1>5, <1>6, <1>7

\* flush_wal.
LEMMA FlushWalStep == ASSUME IInv, FlushWal PROVE IInv'
<1>1. (buffered \subseteq unsynced /\ unsynced \subseteq file.records)'
  <2>1. CASE dirty
    BY <2>1 DEF FlushWal, Synced, IInv, TypeOK
  <2>2. CASE ~dirty
    BY <2>2 DEF FlushWal, IInv, TypeOK
  <2> QED BY <2>1, <2>2
<1>2. Handle'
  <2>1. CASE dirty
    BY <2>1 DEF FlushWal, Synced, Renames, IInv, Handle, callVars
  <2>2. CASE ~dirty
    BY <2>2 DEF FlushWal, IInv, TypeOK, Handle, callVars
  <2> QED BY <2>1, <2>2
<1> USE DEF IInv, fileVars, handleVars, callVars, ghostVars, Files, Stales,
           FlushWal, Synced, Renames
<1>3. TypeOK'
  <2>1. (file \in Files)'
    BY SMTT(20) DEF TypeOK, Handle
  <2>2. (buffered \subseteq unsynced /\ unsynced \subseteq file.records)'
    BY <1>1
  <2>3. (stale \subseteq Stales)'
    BY SMTT(20) DEF TypeOK, Handle
  <2>4. ({handle, dirty, torn, nameSynced} \subseteq BOOLEAN)'
    BY Zenon DEF TypeOK, Handle
  <2> QED
    BY SMTT(20), <2>1, <2>2, <2>3, <2>4, PoliciesAssumption, BoundsAssumption
    DEF TypeOK, Handle
<1>4. Numbers'
  BY SMTT(20) DEF TypeOK, Handle, Numbers
<1>5. Bounded'
  BY SMTT(20) DEF TypeOK, Handle, Numbers, Bounded
<1>6. Prefixes'
  BY SMTT(20) DEF TypeOK, Handle, Numbers, Bounded, Prefixes, Tail
<1>7. Kept'
  BY SMTT(20) DEF TypeOK, Handle, Numbers, Bounded, Kept, Firm
<1> QED BY <1>2, <1>3, <1>4, <1>5, <1>6, <1>7

\* defer_sync.
LEMMA DeferSyncStep == ASSUME IInv, DeferSync PROVE IInv'
<1> USE DEF IInv, fileVars, handleVars, callVars, ghostVars, Files, Stales,
           DeferSync
<1>1. TypeOK'
  <2>1. (file \in Files)'
    BY SMTT(20) DEF TypeOK, Handle
  <2>2. (buffered \subseteq unsynced /\ unsynced \subseteq file.records)'
    BY SMTT(20) DEF TypeOK, Handle
  <2>3. (stale \subseteq Stales)'
    BY SMTT(20) DEF TypeOK, Handle
  <2>4. ({handle, dirty, torn, nameSynced} \subseteq BOOLEAN)'
    BY Zenon DEF TypeOK, Handle
  <2> QED
    BY SMTT(20), <2>1, <2>2, <2>3, <2>4, PoliciesAssumption, BoundsAssumption
    DEF TypeOK, Handle
<1>2. Handle'
  BY SMTT(20) DEF TypeOK, Handle, Numbers
<1>3. Numbers'
  BY SMTT(20) DEF TypeOK, Handle, Numbers
<1>4. Bounded'
  BY SMTT(20) DEF TypeOK, Handle, Numbers, Bounded
<1>5. Prefixes'
  BY SMTT(20) DEF TypeOK, Handle, Numbers, Bounded, Prefixes, Tail
<1>6. Kept'
  BY SMTT(20) DEF TypeOK, Handle, Numbers, Bounded, Kept, Firm
<1> QED BY <1>1, <1>2, <1>3, <1>4, <1>5, <1>6

\* A deferral scope is dropped.
LEMMA ResumeSyncStep == ASSUME IInv, ResumeSync PROVE IInv'
<1> USE DEF IInv, fileVars, handleVars, callVars, ghostVars, Files, Stales,
           ResumeSync
<1>1. TypeOK'
  <2>1. (file \in Files)'
    BY SMTT(20) DEF TypeOK, Handle
  <2>2. (buffered \subseteq unsynced /\ unsynced \subseteq file.records)'
    BY SMTT(20) DEF TypeOK, Handle
  <2>3. (stale \subseteq Stales)'
    BY SMTT(20) DEF TypeOK, Handle
  <2>4. ({handle, dirty, torn, nameSynced} \subseteq BOOLEAN)'
    BY Zenon DEF TypeOK, Handle
  <2> QED
    BY SMTT(20), <2>1, <2>2, <2>3, <2>4, PoliciesAssumption, BoundsAssumption
    DEF TypeOK, Handle
<1>2. Handle'
  BY SMTT(20) DEF TypeOK, Handle, Numbers
<1>3. Numbers'
  BY SMTT(20) DEF TypeOK, Handle, Numbers
<1>4. Bounded'
  BY SMTT(20) DEF TypeOK, Handle, Numbers, Bounded
<1>5. Prefixes'
  BY SMTT(20) DEF TypeOK, Handle, Numbers, Bounded, Prefixes, Tail
<1>6. Kept'
  BY SMTT(20) DEF TypeOK, Handle, Numbers, Bounded, Kept, Firm
<1> QED BY <1>1, <1>2, <1>3, <1>4, <1>5, <1>6

\* The stores' checkpoint advances.
LEMMA CheckpointStep == ASSUME IInv, Checkpoint PROVE IInv'
<1> USE DEF IInv, fileVars, handleVars, callVars, ghostVars, Files, Stales,
           Checkpoint
<1>1. TypeOK'
  <2>1. (file \in Files)'
    BY SMTT(20) DEF TypeOK, Handle
  <2>2. (buffered \subseteq unsynced /\ unsynced \subseteq file.records)'
    BY SMTT(20) DEF TypeOK, Handle
  <2>3. (stale \subseteq Stales)'
    BY SMTT(20) DEF TypeOK, Handle
  <2>4. ({handle, dirty, torn, nameSynced} \subseteq BOOLEAN)'
    BY Zenon DEF TypeOK, Handle
  <2> QED
    BY SMTT(20), <2>1, <2>2, <2>3, <2>4, PoliciesAssumption, BoundsAssumption
    DEF TypeOK, Handle
<1>2. Handle'
  BY SMTT(20) DEF TypeOK, Handle, Numbers
<1>3. Numbers'
  BY SMTT(20) DEF TypeOK, Handle, Numbers
<1>4. Bounded'
  BY SMTT(20) DEF TypeOK, Handle, Numbers, Bounded
<1>5. Prefixes'
  BY SMTT(20) DEF TypeOK, Handle, Numbers, Bounded, Prefixes, Tail
<1>6. Kept'
  BY SMTT(20) DEF TypeOK, Handle, Numbers, Bounded, Kept, Firm
<1> QED BY <1>1, <1>2, <1>3, <1>4, <1>5, <1>6

\* truncate_retaining_after on either path.
LEMMA TruncateStep == ASSUME IInv, Truncate PROVE IInv'
<1>1. (file \in Files)'
  <2>1. \A n : Retained(n) \in SUBSET Nat
    BY FilesType DEF Retained, IInv, TypeOK
  <2> QED BY <2>1, EmptyType, RewrittenType DEF Truncate, Wipe, Rename
<1> USE DEF IInv, fileVars, handleVars, callVars, ghostVars, Files, Stales,
           Truncate, CloseHandle, Wipe, LastSeq, Rename, Rewritten, Retained,
           Empty
<1>2. TypeOK'
  <2>1. (file \in Files)'
    BY <1>1
  <2>2. (buffered \subseteq unsynced /\ unsynced \subseteq file.records)'
    BY SMTT(20) DEF TypeOK, Handle
  <2>3. (stale \subseteq Stales)'
    BY SMTT(20) DEF TypeOK, Handle
  <2>4. ({handle, dirty, torn, nameSynced} \subseteq BOOLEAN)'
    BY Zenon DEF TypeOK, Handle
  <2> QED
    BY SMTT(20), <2>1, <2>2, <2>3, <2>4, PoliciesAssumption, BoundsAssumption
    DEF TypeOK, Handle
<1>3. Handle'
  BY SMTT(20) DEF TypeOK, Handle, Numbers
<1>4. Numbers'
  BY SMTT(20) DEF TypeOK, Handle, Numbers
<1>5. Bounded'
  BY SMTT(20) DEF TypeOK, Handle, Numbers, Bounded
<1>6. Prefixes'
  BY SMTT(20) DEF TypeOK, Handle, Numbers, Bounded, Prefixes, Tail
<1>7. Kept'
  BY SMTT(20) DEF TypeOK, Handle, Numbers, Bounded, Kept, Firm
<1> QED BY <1>2, <1>3, <1>4, <1>5, <1>6, <1>7

\* The closed log, as something a power failure may bring back.
LEMMA ClosedType ==
    ASSUME TypeOK
    PROVE  /\ Closed \in Stales /\ Closed.by = "rename" /\ Closed.file = file
           /\ handle => Closed.unsure = {}
           /\ ~handle => Closed.unsure = unsynced
<1>1. Closed = [by |-> "rename", file |-> file,
                unsure |-> IF handle THEN {} ELSE unsynced]
  BY DEF Closed, Current
<1>2. unsynced \subseteq Nat
  BY FilesType DEF TypeOK
<1> QED BY <1>1, <1>2 DEF TypeOK, Stales

\* The same content, now brought back by an undone truncation.
LEMMA TruncatedType ==
    ASSUME NEW s \in Stales
    PROVE  LET t == [s EXCEPT !.by = "truncate"] IN
           /\ t \in Stales
           /\ t.by = "truncate" /\ t.file = s.file /\ t.unsure = s.unsure
  BY DEF Stales

\* The fast path wiped the file and a sync failed.
LEMMA WipeUnsyncedStep == ASSUME IInv, WipeUnsynced PROVE IInv'
<1> DEFINE t == [Closed EXCEPT !.by = "truncate"]
<1>1. /\ t \in Stales /\ t.by = "truncate"
      /\ t.file = file /\ t.unsure \in {{}, unsynced}
  BY ClosedType, TruncatedType DEF IInv
<1>2. stale' \subseteq stale \cup {t}
  BY DEF WipeUnsynced, ClosedStale, Renames
<1> HIDE DEF t
<1>3. file' = Empty /\ buffered' = {} /\ unsynced' = {} /\ next <= ckpt + 1
  BY DEF WipeUnsynced, Wipe, LastSeq, IInv, TypeOK
<1>4. \A s \in stale' : nameSynced => s.by = "truncate"
  BY <1>1, <1>2 DEF IInv, Handle
<1>5. TypeOK'
  <2>1. (file \in Files)'
    BY <1>3, EmptyType
  <2>2. (stale \subseteq Stales)'
    BY <1>1, <1>2 DEF IInv, TypeOK
  <2>3. ({handle, dirty, torn, nameSynced} \subseteq BOOLEAN)'
    BY Zenon DEF IInv, TypeOK, WipeUnsynced, Wipe, CloseHandle
  <2> QED
    BY <1>3, <2>1, <2>2, <2>3 DEF IInv, TypeOK, WipeUnsynced, callVars, ghostVars
<1>6. Handle'
  BY <1>3, <1>4 DEF IInv, TypeOK, Handle, WipeUnsynced, Wipe, CloseHandle,
         callVars, Empty
<1>7. Numbers'
  BY <1>3 DEF IInv, Numbers, WipeUnsynced, callVars, Empty
<1>8. Bounded'
  <2> SUFFICES ASSUME NEW s \in stale', NEW r \in s.file.records
               PROVE  r <= ckpt
    BY <1>3 DEF Bounded, Empty, WipeUnsynced, callVars
  <2>1. CASE s = t
    BY <2>1, <1>1, <1>3 DEF IInv, TypeOK, Files, Numbers, WipeUnsynced
  <2>2. CASE s \in stale
    BY <2>2, <1>3 DEF IInv, TypeOK, Files, Numbers, WipeUnsynced, Bounded
  <2> QED BY <1>2, <2>1, <2>2
<1>9. Prefixes'
  BY <1>1, <1>2, <1>3 DEF IInv, Prefixes, Tail, Empty
<1>10. Kept'
  <2> SUFFICES ASSUME NEW r \in promised \cup fresh, r > ckpt PROVE FALSE
    BY DEF Kept, Firm, WipeUnsynced, callVars, ghostVars
  <2> QED BY <1>3 DEF IInv, TypeOK, Kept, Firm, Numbers, WipeUnsynced, Files
<1> QED BY <1>5, <1>6, <1>7, <1>8, <1>9, <1>10 DEF IInv

\* The slow path renamed its file and could not sync the rename.
LEMMA TruncateUnsyncedStep == ASSUME IInv, TruncateUnsynced PROVE IInv'
<1> USE DEF IInv, fileVars, handleVars, callVars, ghostVars, Files, Stales,
           TruncateUnsynced, CloseHandle, LastSeq, Rename, Rewritten,
           Retained, Replaced, Closed, ClosedStale, Current, Renames
<1>1. TypeOK'
  <2>1. (file \in Files)'
    BY SMTT(20) DEF TypeOK, Handle
  <2>2. (buffered \subseteq unsynced /\ unsynced \subseteq file.records)'
    BY SMTT(20) DEF TypeOK, Handle
  <2>3. (stale \subseteq Stales)'
    BY SMTT(20) DEF TypeOK, Handle
  <2>4. ({handle, dirty, torn, nameSynced} \subseteq BOOLEAN)'
    BY Zenon DEF TypeOK, Handle
  <2> QED
    BY SMTT(20), <2>1, <2>2, <2>3, <2>4, PoliciesAssumption, BoundsAssumption
    DEF TypeOK, Handle
<1>2. Handle'
  BY SMTT(20) DEF TypeOK, Handle, Numbers
<1>3. Numbers'
  BY SMTT(20) DEF TypeOK, Handle, Numbers
<1>4. Bounded'
  BY SMTT(20) DEF TypeOK, Handle, Numbers, Bounded
<1>5. Prefixes'
  BY SMTT(20) DEF TypeOK, Handle, Numbers, Bounded, Prefixes, Tail
<1>6. Kept'
  BY SMTT(20) DEF TypeOK, Handle, Numbers, Bounded, Kept, Firm
<1> QED BY <1>1, <1>2, <1>3, <1>4, <1>5, <1>6

\* truncate_retaining_after closed the handle and made no new file.
LEMMA TruncateFailsStep == ASSUME IInv, TruncateFails PROVE IInv'
<1> USE DEF IInv, fileVars, handleVars, callVars, ghostVars, Files, Stales,
           TruncateFails, CloseHandle, Renames
<1>1. TypeOK'
  <2>1. (file \in Files)'
    BY SMTT(20) DEF TypeOK, Handle
  <2>2. (buffered \subseteq unsynced /\ unsynced \subseteq file.records)'
    BY SMTT(20) DEF TypeOK, Handle
  <2>3. (stale \subseteq Stales)'
    BY SMTT(20) DEF TypeOK, Handle
  <2>4. ({handle, dirty, torn, nameSynced} \subseteq BOOLEAN)'
    BY Zenon DEF TypeOK, Handle
  <2> QED
    BY SMTT(20), <2>1, <2>2, <2>3, <2>4, PoliciesAssumption, BoundsAssumption
    DEF TypeOK, Handle
<1>2. Handle'
  BY SMTT(20) DEF TypeOK, Handle, Numbers
<1>3. Numbers'
  BY SMTT(20) DEF TypeOK, Handle, Numbers
<1>4. Bounded'
  BY SMTT(20) DEF TypeOK, Handle, Numbers, Bounded
<1>5. Prefixes'
  BY SMTT(20) DEF TypeOK, Handle, Numbers, Bounded, Prefixes, Tail
<1>6. Kept'
  BY SMTT(20) DEF TypeOK, Handle, Numbers, Bounded, Kept, Firm
<1> QED BY <1>1, <1>2, <1>3, <1>4, <1>5, <1>6

\* The log's own file, as something a power failure may leave.
LEMMA CurrentType ==
    ASSUME TypeOK
    PROVE  Current \in Stales /\ Current.file = file /\ Current.unsure = unsynced
  BY FilesType DEF TypeOK, Current, Stales

\* What a crash leaves, in the terms of the invariant.
LEMMA CrashLeaves ==
    ASSUME IInv, Crash
    PROVE  \/ /\ file' \in Files
              /\ file'.records \subseteq file.records
              /\ \A r \in file.records : r \notin buffered => r \in file'.records
              /\ \A r \in file'.records, q \in file.records :
                     q < r => q \in file'.records
              /\ unsynced' = unsynced \cap file'.records
              /\ stale' = stale
           \/ \E s \in {Current} \cup stale :
              /\ file' \in Files
              /\ file'.records \subseteq s.file.records
              /\ \A r \in s.file.records : r \notin s.unsure => r \in file'.records
              /\ \A r \in file'.records, q \in s.file.records :
                     q < r => q \in file'.records
              /\ unsynced' = {}
              /\ stale' \subseteq {Missing}
              /\ stale' # {} => file'.records = {}
<1>1. CASE /\ file' \in Remains(file, buffered)
           /\ unsynced' = unsynced \cap file'.records
           /\ stale' = stale
  BY <1>1, RemainsType DEF IInv, TypeOK, Prefixes
<1>2. ASSUME NEW s \in {Current} \cup stale,
             file' \in Remains(s.file, s.unsure),
             stale' = IF s = Missing THEN {Missing} ELSE {},
             unsynced' = {}
      PROVE  \E t \in {Current} \cup stale :
              /\ file' \in Files
              /\ file'.records \subseteq t.file.records
              /\ \A r \in t.file.records : r \notin t.unsure => r \in file'.records
              /\ \A r \in file'.records, q \in t.file.records :
                     q < r => q \in file'.records
              /\ unsynced' = {}
              /\ stale' \subseteq {Missing}
              /\ stale' # {} => file'.records = {}
  <2>1. s.file \in Files /\ Tail(s.unsure, s.file.records)
    BY CurrentType DEF IInv, TypeOK, Prefixes, Stales
  <2>2. s = Missing => s.file.records = {}
    BY DEF Missing, Empty
  <2>3. /\ file' \in Files
        /\ file'.records \subseteq s.file.records
        /\ \A r \in s.file.records : r \notin s.unsure => r \in file'.records
        /\ \A r \in file'.records, q \in s.file.records :
               q < r => q \in file'.records
    BY <1>2, <2>1, RemainsType
  <2> QED BY <1>2, <2>2, <2>3
<1> QED BY <1>1, <1>2 DEF Crash

\* A crash, of the process or the machine.
LEMMA CrashStep == ASSUME IInv, Crash PROVE IInv'
<1>0. file \in Files /\ file.records \subseteq Nat /\ ckpt \in Nat
  BY FilesType DEF IInv, TypeOK
<1>1. /\ mode' = "closed" /\ buffered' = {}
      /\ ~handle' /\ ~dirty' /\ ~torn' /\ ~nameSynced'
      /\ fresh' = {} /\ promised' = promised /\ ckpt' = ckpt
  BY DEF Crash, CloseHandle
<1>2. /\ file' \in Files
      /\ unsynced' \subseteq unsynced \cap file'.records
      /\ stale' \subseteq stale \cup {Missing}
  BY CrashLeaves DEF IInv, TypeOK
<1>3. \A r \in file'.records : r > ckpt =>
          /\ r \in file.records
          /\ \A q \in file.records : ckpt < q /\ q < r => q \in file'.records
  BY CrashLeaves, CurrentType, <1>0 DEF IInv, TypeOK, Bounded, Stales, Files
<1>4. \A r \in promised : r > ckpt =>
          /\ r \in file'.records
          /\ stale' \subseteq stale
  BY CrashLeaves, CurrentType, <1>0 DEF IInv, TypeOK, Kept, Firm, Prefixes
<1>5. \A s \in stale' :
          \/ s = Missing
          \/ /\ s \in stale
             /\ s.by = "rename" => file'.records = file.records
             /\ file'.records \subseteq file.records
  <2>1. (\E s \in stale : s.by = "rename") => buffered = {}
    BY DEF IInv, Handle, TypeOK, Stales
  <2> QED BY <2>1, CrashLeaves DEF IInv
<1>6. TypeOK'
  <2>1. (stale \subseteq Stales)'
    BY <1>2, MissingType DEF IInv, TypeOK
  <2>2. ({handle, dirty, torn, nameSynced} \subseteq BOOLEAN)'
    BY Zenon DEF Crash, CloseHandle
  <2> QED BY <1>1, <1>2, <2>1, <2>2, BoundsAssumption DEF IInv, TypeOK, Crash
<1>7. Handle'
  BY <1>1 DEF Handle
<1>8. Numbers'
  BY <1>1 DEF Numbers
<1>9. Bounded'
  BY <1>1, <1>5 DEF IInv, Bounded, Missing, Empty
<1>10. Prefixes'
  <2>1. Tail(unsynced', file'.records)
    BY CrashLeaves DEF IInv, Prefixes, Tail
  <2>2. \A s \in stale' : Tail(s.unsure, s.file.records)
    BY <1>5 DEF IInv, Prefixes, Tail, Missing, Empty
  <2> QED BY <1>1, <2>1, <2>2 DEF Prefixes, Tail
<1>11. Kept'
  BY <1>1, <1>2, <1>4 DEF IInv, Kept, Firm
<1> QED BY <1>6, <1>7, <1>8, <1>9, <1>10, <1>11 DEF IInv

\* The engine's open.
LEMMA OpenStep == ASSUME IInv, Open PROVE IInv'
<1>1. (file \in Files)'
  <2>1. CASE file.partial
    BY <2>1, PartialType DEF Open, IInv, TypeOK
  <2>2. CASE ~file.partial
    BY <2>2 DEF Open, IInv, TypeOK, fileVars
  <2> QED BY <2>1, <2>2
<1> USE DEF IInv, fileVars, handleVars, callVars, ghostVars, Files, Stales,
           Open, IsTop, NextAfter, Larger
<1>2. TypeOK'
  <2>1. (file \in Files)'
    BY <1>1
  <2>2. (buffered \subseteq unsynced /\ unsynced \subseteq file.records)'
    BY SMTT(20) DEF TypeOK, Handle
  <2>3. (stale \subseteq Stales)'
    BY SMTT(20) DEF TypeOK, Handle
  <2>4. ({handle, dirty, torn, nameSynced} \subseteq BOOLEAN)'
    BY Zenon DEF TypeOK, Handle
  <2> QED
    BY SMTT(20), <2>1, <2>2, <2>3, <2>4, PoliciesAssumption, BoundsAssumption
    DEF TypeOK, Handle
<1>3. Handle'
  BY SMTT(20) DEF TypeOK, Handle, Numbers
<1>4. Numbers'
  BY SMTT(20) DEF TypeOK, Handle, Numbers
<1>5. Bounded'
  BY SMTT(20) DEF TypeOK, Handle, Numbers, Bounded
<1>6. Prefixes'
  BY SMTT(20) DEF TypeOK, Handle, Numbers, Bounded, Prefixes, Tail
<1>7. Kept'
  BY SMTT(20) DEF TypeOK, Handle, Numbers, Bounded, Kept, Firm
<1> QED BY <1>2, <1>3, <1>4, <1>5, <1>6, <1>7

\* cut_wal could not sync its rename.
LEMMA OpenFailsStep == ASSUME IInv, OpenFails PROVE IInv'
<1>1. (file \in Files)'
  BY PartialType DEF OpenFails, IInv, TypeOK
<1> USE DEF IInv, fileVars, handleVars, callVars, ghostVars, Files, Stales,
           OpenFails, Replaced, Closed, ClosedStale, Current, Renames
<1>2. TypeOK'
  <2>1. (file \in Files)'
    BY <1>1
  <2>2. (buffered \subseteq unsynced /\ unsynced \subseteq file.records)'
    BY SMTT(20) DEF TypeOK, Handle
  <2>3. (stale \subseteq Stales)'
    BY SMTT(20) DEF TypeOK, Handle
  <2>4. ({handle, dirty, torn, nameSynced} \subseteq BOOLEAN)'
    BY Zenon DEF TypeOK, Handle
  <2> QED
    BY SMTT(20), <2>1, <2>2, <2>3, <2>4, PoliciesAssumption, BoundsAssumption
    DEF TypeOK, Handle
<1>3. Handle'
  BY SMTT(20) DEF TypeOK, Handle, Numbers
<1>4. Numbers'
  BY SMTT(20) DEF TypeOK, Handle, Numbers
<1>5. Bounded'
  BY SMTT(20) DEF TypeOK, Handle, Numbers, Bounded
<1>6. Prefixes'
  BY SMTT(20) DEF TypeOK, Handle, Numbers, Bounded, Prefixes, Tail
<1>7. Kept'
  BY SMTT(20) DEF TypeOK, Handle, Numbers, Bounded, Kept, Firm
<1> QED BY <1>2, <1>3, <1>4, <1>5, <1>6, <1>7

-----------------------------------------------------------------------------
(* The invariants.                                                         *)

\* A new log, and one that an older build left, satisfy IInv.
LEMMA InitIInv == Init => IInv
<1> SUFFICES ASSUME Init PROVE IInv
  OBVIOUS
<1> USE DEF Init
<1>1. TypeOK
  <2>1. file \in Files
    <3>1. 1..Inherited \in SUBSET Nat
      BY BoundsAssumption
    <3>2. [records |-> 1..Inherited, partial |-> FALSE, older |-> TRUE] \in Files
      BY <3>1 DEF Files
    <3> QED BY <3>2, EmptyType
  <2>2. stale \subseteq Stales
    BY MissingType
  <2>3. {handle, dirty, torn, nameSynced} \subseteq BOOLEAN
    OBVIOUS
  <2> QED BY <2>1, <2>2, <2>3, PoliciesAssumption, BoundsAssumption DEF TypeOK
<1>2. Handle
  BY DEF Handle
<1>3. Numbers /\ Bounded /\ Prefixes /\ Kept
  BY DEF Numbers, Bounded, Prefixes, Tail, Kept, Firm, Missing, Empty
<1> QED BY <1>1, <1>2, <1>3 DEF IInv

\* Every step preserves IInv.
LEMMA StepIInv == IInv /\ [Next]_vars => IInv'
<1> SUFFICES ASSUME IInv, [Next]_vars PROVE IInv'
  OBVIOUS
<1>1. CASE UNCHANGED vars
  BY <1>1 DEF vars, fileVars, handleVars, callVars, ghostVars, IInv, TypeOK,
         Handle, Numbers, Bounded, Prefixes, Kept, Firm, Tail
<1> QED
  BY <1>1, UpgradeUnsyncedStep, AppendSyncedStep, AppendDeferredStep,
     AppendUnsyncedStep, AppendFailsStep, FlushWalStep, DeferSyncStep,
     ResumeSyncStep, CheckpointStep, TruncateStep, WipeUnsyncedStep,
     TruncateUnsyncedStep, TruncateFailsStep, CrashStep, OpenStep,
     OpenFailsStep
  DEF Next

\* IInv holds in every reachable state: the file, the handle's buffer and
\* flags, and whatever a power failure may bring back (DocumentLog, FileStorage).
THEOREM Invariant == Spec => []IInv
  BY InitIInv, StepIInv, PTL DEF Spec

\* The log's state keeps its types: the buffered records are among the
\* unsynced ones and those among the file's (DocumentLog, store/log.rs).
THEOREM TypeCorrect == Spec => []TypeOK
<1>1. IInv => TypeOK
  BY DEF IInv
<1> QED BY <1>1, Invariant, PTL

\* No crash, at any point of any operation's failure, loses a record that the
\* log reported durable and no checkpoint covers (write_record, ensure_writer and
\* truncate_retaining_after of store/log.rs).
THEOREM DurableRecordsSurvive == Spec => []OwedSurvives
<1>1. ASSUME IInv, NEW f \in AfterCrash PROVE Owed \subseteq f.records
  <2>1. CASE f \in Remains(file, buffered)
    BY <1>1, <2>1, RemainsType DEF IInv, TypeOK, Prefixes, Kept, Firm, Owed
  <2>2. ASSUME NEW s \in {Current} \cup stale, f \in Remains(s.file, s.unsure)
        PROVE  Owed \subseteq f.records
    <3>1. s.file \in Files /\ Tail(s.unsure, s.file.records)
      BY <1>1, CurrentType DEF IInv, TypeOK, Prefixes, Stales
    <3>2. \A r \in Owed : r \in s.file.records /\ r \notin s.unsure
      BY <1>1, CurrentType DEF IInv, Kept, Firm, Owed
    <3> QED BY <2>2, <3>1, <3>2, RemainsType
  <2> QED BY <1>1, <2>1, <2>2 DEF AfterCrash
<1>2. IInv => OwedSurvives
  BY <1>1 DEF OwedSurvives
<1> QED BY <1>2, Invariant, PTL

\* Whatever a crash leaves, next_seq is above it: no two records ever get the
\* same number (read_wal and advance_seq_past of store/log.rs).
THEOREM NumbersNotReused == Spec => []NumbersUnused
<1>1. ASSUME IInv, mode = "open", NEW f \in AfterCrash, NEW r \in f.records
      PROVE  r < next
  <2>1. CASE f \in Remains(file, buffered)
    BY <1>1, <2>1, RemainsType DEF IInv, TypeOK, Prefixes, Numbers
  <2>2. ASSUME NEW s \in {Current} \cup stale, f \in Remains(s.file, s.unsure)
        PROVE  r < next
    <3>1. s.file \in Files /\ Tail(s.unsure, s.file.records)
      BY <1>1, CurrentType DEF IInv, TypeOK, Prefixes, Stales
    <3>2. r \in s.file.records /\ r \in Nat
      BY <2>2, <3>1, RemainsType, FilesType
    <3> QED BY <1>1, <3>2, CurrentType DEF IInv, TypeOK, Numbers, Bounded
  <2> QED BY <1>1, <2>1, <2>2 DEF AfterCrash
<1>2. IInv => NumbersUnused
  BY <1>1 DEF NumbersUnused
<1> QED BY <1>2, Invariant, PTL

\* An append is numbered above the stores' checkpoint, so that no recovery
\* skips it (advance_seq_past of store/log.rs).
THEOREM AppendsAbove == Spec => AppendsAboveCheckpoint
<1>1. IInv /\ [Next]_vars => [\A r \in fresh' \ fresh : r > ckpt]_vars
  <2> SUFFICES ASSUME IInv, Next, NEW r \in fresh' \ fresh PROVE r > ckpt
    OBVIOUS
  <2>1. r = next /\ mode = "open"
    BY DEF Next, UpgradeUnsynced, AppendSynced, AppendDeferred, AppendUnsynced,
           WriteRecord, AppendFails, FlushWal, DeferSync, ResumeSync, Checkpoint,
           Truncate, WipeUnsynced, TruncateUnsynced, TruncateFails, Crash, Open,
           OpenFails, ghostVars
  <2> QED BY <2>1 DEF IInv, TypeOK, Numbers
<1> QED BY <1>1, Invariant, PTL DEF Spec, AppendsAboveCheckpoint

-----------------------------------------------------------------------------
(* The refinement.                                                         *)

\* A log that nothing was appended to owes nothing.
LEMMA InitDurable == Init => Durable!Init
<1> SUFFICES ASSUME Init PROVE Durable!Init
  OBVIOUS
<1>1. file.records \in SUBSET Nat
  BY InitIInv, FilesType DEF IInv, TypeOK
<1> QED BY <1>1 DEF Init, Owed, Durable!Init

\* An append, synced or not.
LEMMA WriteDurable ==
    ASSUME IInv, IInv', ckpt' = ckpt, mode = "open",
           file'.records = file.records \cup {next},
           promised \subseteq promised'
    PROVE  Durable!Write
<1>1. next > ckpt /\ \A r \in file.records : r < next
  BY DEF IInv, Numbers, TypeOK
<1>2. {r \in file'.records : r > ckpt'} = {r \in file.records : r > ckpt} \cup {next}
  BY <1>1
<1>3. Owed \subseteq Owed' /\ Owed' \subseteq {r \in file'.records : r > ckpt'}
  BY DEF Owed, IInv, Kept, Firm
<1> QED BY <1>1, <1>2, <1>3 DEF Durable!Write

\* A step that changes no record above the checkpoint.
LEMMA PromiseDurable ==
    ASSUME IInv, IInv', ckpt' = ckpt, promised \subseteq promised',
           \A r \in Nat : r > ckpt => (r \in file'.records <=> r \in file.records)
    PROVE  Durable!Promise
<1>1. {r \in file'.records : r > ckpt'} = {r \in file.records : r > ckpt}
  BY FilesType DEF IInv, TypeOK
<1>2. Owed \subseteq Owed' /\ Owed' \subseteq {r \in file.records : r > ckpt}
  BY <1>1 DEF Owed, IInv, Kept, Firm
<1> QED BY <1>1, <1>2 DEF Durable!Promise

\* The checkpoint advances.
LEMMA ReleaseDurable == ASSUME IInv, Checkpoint PROVE Durable!Release
<1>1. ckpt' > ckpt /\ ckpt' \in Nat /\ file' = file /\ promised' = promised
  BY DEF Checkpoint, IInv, TypeOK, fileVars, ghostVars
<1>2. file.records \subseteq Nat /\ promised \subseteq Nat /\ ckpt \in Nat
  BY FilesType DEF IInv, TypeOK
<1>3. {r \in file'.records : r > ckpt'} = {r \in {q \in file.records : q > ckpt} : r > ckpt'}
  BY <1>1, <1>2
<1>4. Owed' = {r \in Owed : r > ckpt'}
  <2>1. Owed' = {r \in promised : r > ckpt'}
    BY <1>1 DEF Owed
  <2>2. Owed = {r \in promised : r > ckpt}
    BY DEF Owed
  <2>3. \A r \in promised : r > ckpt' => r > ckpt
    <3>1. ckpt' > ckpt /\ ckpt' \in Nat
      BY <1>1
    <3> QED BY <1>2, <3>1
  <2> QED BY <2>1, <2>2, <2>3
<1> QED BY <1>1, <1>3, <1>4 DEF Durable!Release

\* A crash loses a suffix of what is not owed.
LEMMA LoseDurable == ASSUME IInv, IInv', Crash PROVE Durable!Lose
<1>0. file \in Files /\ file.records \subseteq Nat /\ ckpt \in Nat
  BY FilesType DEF IInv, TypeOK
<1>1. promised' = promised /\ ckpt' = ckpt
  BY DEF Crash
<1>2. \A r \in file'.records : r > ckpt =>
          /\ r \in file.records
          /\ \A q \in file.records : ckpt < q /\ q < r => q \in file'.records
  BY CrashLeaves, CurrentType, <1>0 DEF IInv, TypeOK, Bounded, Stales, Files
<1>3. Owed' = Owed /\ Owed \subseteq {r \in file'.records : r > ckpt'}
  BY <1>1 DEF Owed, IInv, Kept, Firm
<1> QED BY <1>1, <1>2, <1>3 DEF Durable!Lose

\* Every step of the log is a step of DurableLog or changes nothing of it.
LEMMA StepDurable ==
    IInv /\ IInv' /\ [Next]_vars => [Durable!Next]_(Durable!logVars)
<1> SUFFICES ASSUME IInv, IInv', [Next]_vars
             PROVE  Durable!Next \/ UNCHANGED Durable!logVars
  OBVIOUS
<1> USE DEF fileVars, handleVars, callVars, ghostVars
<1>0. file \in Files /\ file.records \subseteq Nat /\ ckpt \in Nat /\ next \in Nat
  BY FilesType DEF IInv, TypeOK
<1>1. ASSUME AppendSynced \/ AppendDeferred \/ AppendUnsynced PROVE Durable!Write
  <2>1. ~file.partial /\ file' = Written /\ mode = "open" /\ ckpt' = ckpt
    BY <1>1 DEF AppendSynced, AppendDeferred, AppendUnsynced, WriteRecord, IInv, Handle
  <2>2. promised \subseteq promised'
    BY <1>1 DEF AppendSynced, AppendDeferred, AppendUnsynced
  <2> QED BY <2>1, <2>2, WrittenType, WriteDurable DEF IInv
<1>2. CASE FlushWal
  BY <1>2, PromiseDurable DEF FlushWal, Durable!Next
<1>3. CASE Checkpoint
  BY <1>3, ReleaseDurable DEF Durable!Next
<1>4. CASE Crash
  BY <1>4, LoseDurable DEF Durable!Next
<1>5. ASSUME ckpt' = ckpt, promised' = promised,
             \A r \in Nat : r > ckpt => (r \in file'.records <=> r \in file.records)
      PROVE  Durable!Next
  BY <1>5, PromiseDurable DEF Durable!Next
<1>6. CASE DeferSync \/ ResumeSync \/ TruncateFails \/ UNCHANGED vars
  BY <1>5, <1>6 DEF DeferSync, ResumeSync, TruncateFails, vars
<1>7. CASE UpgradeUnsynced
  BY <1>5, <1>7 DEF UpgradeUnsynced, Rename, Rewritten
<1>8. CASE AppendFails
  <2>1. file'.records = Ensured.records
    BY <1>8, EnsuredType DEF AppendFails, IInv, Files
  <2> QED BY <1>5, <1>8, <2>1, EnsuredType DEF AppendFails, IInv
<1>9. CASE Truncate \/ WipeUnsynced \/ TruncateUnsynced
  BY <1>0, <1>5, <1>9 DEF Truncate, WipeUnsynced, TruncateUnsynced, Wipe, Rename,
         Rewritten, Retained, Empty, LastSeq, IInv, Numbers
<1>10. CASE Open \/ OpenFails
  BY <1>0, <1>5, <1>10 DEF Open, OpenFails, Files
<1> QED
  BY <1>1, <1>2, <1>3, <1>4, <1>6, <1>7, <1>8, <1>9, <1>10 DEF Next, Durable!Next

\* With its files, buffers and faults the log is the one its callers rely on:
\* what is owed survives, and a crash loses a suffix (store/log.rs).
THEOREM LogImplementsDurableLog == Spec => IsDurable
<1>1. IInv /\ IInv' /\ [Next]_vars => [Durable!Next]_(Durable!logVars)
  BY StepDurable
<1> QED BY <1>1, InitDurable, Invariant, PTL DEF Spec, IsDurable, Durable!Spec

=============================================================================
