-------------------------- MODULE CommitGeneration --------------------------
(***************************************************************************)
(* The commit generation of laurus: a counter in a file of its own that    *)
(* tells another process whether a commit changed the index since it last  *)
(* looked (CommitGenerationTracker in engine.rs, peek_commit_generation in *)
(* index_dir.rs).  Every ladder reads the progress of the applied numbers  *)
(* first and, once the stores are committed and the log truncated,         *)
(* advances and saves the counter if there was any since the last commit   *)
(* that did.                                                               *)
(*                                                                         *)
(* Mutations, stores and log are reduced to what that decision depends on: *)
(* a mutation is its sequence number, each index a set of them, and every  *)
(* appended record survives a crash.                                       *)
(***************************************************************************)
EXTENDS AppliedSeqs, FiniteSets

CONSTANTS
    Ladders,    \* the tasks that commit: callers and the commit timer
    MaxSeq,     \* bound on the sequence numbers
    MaxFaults,  \* bound on the steps of ladders that fail
    MaxCrashes  \* bound on the crashes and closes

ASSUME BoundsAssumption ==
    MaxSeq \in Nat /\ MaxFaults \in Nat /\ MaxCrashes \in Nat

VARIABLES
    mode,          \* "closed", "recovering" (its commit runs) or "open"
    nextSeq,       \* DocumentLog::next_seq
    wal,           \* the records in the log
    applying,      \* mutations appended and not finished
    mem,           \* mutations in both stores' memory or files
    lexDisk, lexCkpt,
    vecDisk, vecCkpt,
    progress,      \* AppliedSeqs::progress
    generation,    \* CommitGenerationTracker::generation
    lastProgress,  \* CommitGenerationTracker::last_progress
    savedGen,      \* commit_generation.json
    lpc,           \* a ladder's step
    snap,          \* a ladder's applied_before
    before,        \* a ladder's progress_before
    newGen,        \* a ladder's new_generation
    peeked,        \* the other process: the generation it is reloading for,
    readGen,       \* the generation of its copy,
    lexRead,       \* its copy of the lexical index
    vecRead,       \* and of the vector index
    recent,        \* (ghost) it has reloaded since the index was last closed
    crashes, faults

storeVars == <<nextSeq, wal, applying, mem, lexDisk, lexCkpt, vecDisk, vecCkpt>>
trackerVars == <<generation, lastProgress, savedGen>>
ladderVars == <<lpc, snap, before, newGen>>
readerVars == <<peeked, readGen, lexRead, vecRead, recent>>
countVars == <<crashes, faults>>
vars == <<appliedVars, mode, progress, storeVars, trackerVars, ladderVars,
          readerVars, countVars>>

Larger(m, n) == IF m > n THEN m ELSE n

Idle == \A l \in Ladders : lpc[l] = "idle"

-----------------------------------------------------------------------------
(* Mutations.  A commit may store one before it finishes.                  *)

\* The record is appended and applied to both stores.
AppendAndApply ==
    /\ mode = "open" /\ nextSeq <= MaxSeq
    /\ nextSeq' = nextSeq + 1
    /\ wal' = wal \cup {nextSeq}
    /\ applying' = applying \cup {nextSeq}
    /\ mem' = mem \cup {nextSeq}
    /\ UNCHANGED <<appliedVars, mode, progress, lexDisk, lexCkpt, vecDisk,
                   vecCkpt, trackerVars, ladderVars, readerVars, countVars>>

\* A finish above a gap does not move the watermark: no progress.
ProgressWithWatermark == progress + (IF watermark' > watermark THEN 1 ELSE 0)
\* Every finish is progress.
ProgressAfterFinish == progress + 1

FinishMutation ==
    /\ mode = "open"
    /\ \E n \in applying :
           Finish(n) /\ applying' = applying \ {n}
    /\ progress' = ProgressAfterFinish
    /\ UNCHANGED <<mode, nextSeq, wal, mem, lexDisk, lexCkpt, vecDisk,
                   vecCkpt, trackerVars, ladderVars, readerVars, countVars>>

-----------------------------------------------------------------------------
(* The commit ladder.                                                      *)

\* The ladder of l moves on from one step to another.
From(l, step) == mode # "closed" /\ lpc[l] = step
To(l, step) == lpc' = [lpc EXCEPT ![l] = step]

\* A ladder's return ends the recovery that waits for it.
Return(l, opens) ==
    /\ To(l, "idle")
    /\ snap' = [snap EXCEPT ![l] = 0]
    /\ before' = [before EXCEPT ![l] = 0]
    /\ newGen' = [newGen EXCEPT ![l] = 0]
    /\ mode' = IF mode = "open" THEN "open"
               ELSE IF opens THEN "open" ELSE "closed"

\* The watermark is read before the progress.  A finish between the two
\* reads is like one above a gap: it counts, and the snapshot is below it.
Start(l) ==
    /\ mode = "open" /\ lpc[l] = "idle"
    /\ snap' = [snap EXCEPT ![l] = watermark]
    /\ before' = [before EXCEPT ![l] = progress]
    /\ To(l, "lexical")
    /\ UNCHANGED <<appliedVars, mode, progress, storeVars, trackerVars,
                   newGen, readerVars, countVars>>

CommitLexical(l) ==
    /\ From(l, "lexical")
    /\ lexDisk' = mem
    /\ lexCkpt' = Larger(lexCkpt, snap[l])
    /\ To(l, "vector")
    /\ UNCHANGED <<appliedVars, mode, progress, nextSeq, wal, applying, mem,
                   vecDisk, vecCkpt, trackerVars, snap, before, newGen,
                   readerVars, countVars>>

CommitVector(l) ==
    /\ From(l, "vector")
    /\ vecDisk' = mem
    /\ vecCkpt' = Larger(vecCkpt, snap[l])
    /\ To(l, "truncate")
    /\ UNCHANGED <<appliedVars, mode, progress, nextSeq, wal, applying, mem,
                   lexDisk, lexCkpt, trackerVars, snap, before, newGen,
                   readerVars, countVars>>

\* After the document store's commit.
Truncate(l) ==
    /\ From(l, "truncate")
    /\ wal' = {n \in wal : n > snap[l]}
    /\ To(l, "advance")
    /\ UNCHANGED <<appliedVars, mode, progress, nextSeq, applying, mem,
                   lexDisk, lexCkpt, vecDisk, vecCkpt, trackerVars, snap,
                   before, newGen, readerVars, countVars>>

\* Progress made since the snapshot counts as announced.
AnnouncedNow(l) == progress
\* What the advance covers: advance_if_changed(progress_before).
Announced(l) == before[l]

\* advance_if_changed: the check and the increment, then the save, then the
\* new baseline, without a lock around them.
Advance(l) ==
    /\ From(l, "advance")
    /\ IF before[l] > lastProgress
       THEN /\ generation' = generation + 1
            /\ newGen' = [newGen EXCEPT ![l] = generation + 1]
            /\ To(l, "save")
            /\ UNCHANGED <<mode, snap, before>>
       ELSE Return(l, TRUE) /\ UNCHANGED generation
    /\ UNCHANGED <<appliedVars, progress, storeVars, lastProgress, savedGen,
                   readerVars, countVars>>

Save(l) ==
    /\ From(l, "save")
    /\ savedGen' = newGen[l]
    /\ To(l, "baseline")
    /\ UNCHANGED <<appliedVars, mode, progress, storeVars, generation,
                   lastProgress, snap, before, newGen, readerVars, countVars>>

SetBaseline(l) ==
    /\ From(l, "baseline")
    /\ lastProgress' = Larger(lastProgress, Announced(l))
    /\ Return(l, TRUE)
    /\ UNCHANGED <<appliedVars, progress, storeVars, generation, savedGen,
                   readerVars, countVars>>

\* A store's commit, the truncation or the save fails.  A failed recovery
\* drops the engine.
Fail(l) ==
    /\ mode # "closed"
    /\ lpc[l] \in {"lexical", "vector", "truncate", "save"}
    /\ faults < MaxFaults
    /\ faults' = faults + 1
    /\ Return(l, FALSE)
    /\ recent' = (recent /\ mode' = "open")
    /\ UNCHANGED <<appliedVars, progress, storeVars, trackerVars, peeked,
                   readGen, lexRead, vecRead, crashes>>

Ladder(l) ==
    \/ Start(l) \/ CommitLexical(l) \/ CommitVector(l) \/ Truncate(l)
    \/ Advance(l) \/ Save(l) \/ SetBaseline(l)

-----------------------------------------------------------------------------
(* The other process: it polls the file and, when the number is not the    *)
(* one its copy was made for, makes a new copy.                            *)

News == savedGen # readGen

Peek ==
    /\ peeked = readGen /\ News
    /\ peeked' = savedGen
    /\ UNCHANGED <<appliedVars, mode, progress, storeVars, trackerVars,
                   ladderVars, readGen, lexRead, vecRead, recent, countVars>>

Reload ==
    /\ peeked # readGen
    /\ readGen' = peeked
    /\ lexRead' = lexDisk /\ vecRead' = vecDisk
    /\ recent' = TRUE
    /\ UNCHANGED <<appliedVars, mode, progress, storeVars, trackerVars,
                   ladderVars, peeked, countVars>>

-----------------------------------------------------------------------------
(* Crashes, closes and opens.                                              *)

NoNumbers == [l \in Ladders |-> 0]

\* What the process held is gone; so is a copy begun before.
Stop ==
    /\ mode # "closed"
    /\ crashes < MaxCrashes
    /\ crashes' = crashes + 1
    /\ mode' = "closed"
    /\ applying' = {}
    /\ lpc' = [l \in Ladders |-> "idle"]
    /\ snap' = NoNumbers /\ before' = NoNumbers /\ newGen' = NoNumbers
    /\ recent' = FALSE
    /\ peeked' = readGen
    /\ UNCHANGED <<appliedVars, progress, nextSeq, wal, mem, vecDisk, vecCkpt,
                   trackerVars, readGen, lexRead, vecRead, faults>>

Crash == Stop /\ UNCHANGED <<lexDisk, lexCkpt>>

\* Dropping the engine commits the cached lexical writer, and no more.
Close ==
    /\ Stop
    /\ mode = "open" /\ Idle /\ applying = {}
    /\ lexDisk' = mem
    /\ lexCkpt' = Larger(lexCkpt, watermark)

IsTop(n, S) == n \in S \cup {0} /\ \A m \in S : m <= n

\* Numbers start again with each open.
FloorNone == 0
\* advance_seq_past and raise_to, with the highest checkpoint.
Floor == Larger(lexCkpt, vecCkpt)

\* The log is empty: the stores' state is marked committed (mark_committed).
OpenEmpty ==
    /\ mode = "closed" /\ wal = {}
    /\ watermark' = Floor /\ finishedAbove' = {}
    /\ nextSeq' = Floor + 1
    /\ progress' = IF Floor > 0 THEN 1 ELSE 0
    /\ mem' = lexDisk \cup vecDisk
    /\ mode' = "open"
    /\ generation' = savedGen
    /\ lastProgress' = progress'
    /\ UNCHANGED <<wal, applying, lexDisk, lexCkpt, vecDisk, vecCkpt, savedGen,
                   ladderVars, readerVars, countVars>>

\* The log is replayed; unless it held only deletes that both indexes
\* cover, recovery commits.
Open ==
    /\ mode = "closed" /\ wal # {}
    /\ \E last \in wal \cup {lexCkpt, vecCkpt} :
           /\ IsTop(last, wal \cup {lexCkpt, vecCkpt})
           /\ watermark' = last /\ finishedAbove' = {}
           /\ nextSeq' = last + 1
    /\ progress' = 1
    /\ mem' = lexDisk \cup vecDisk \cup wal
    /\ \/ /\ mode' = "recovering"
          /\ \E l \in Ladders :
                 /\ snap' = [snap EXCEPT ![l] = watermark']
                 /\ before' = [before EXCEPT ![l] = progress']
                 /\ To(l, "lexical")
       \/ /\ \A n \in wal : n <= lexCkpt /\ n <= vecCkpt
          /\ mode' = "open"
          /\ UNCHANGED <<lpc, snap, before>>
    /\ generation' = savedGen /\ lastProgress' = 0
    /\ UNCHANGED <<wal, applying, lexDisk, lexCkpt, vecDisk, vecCkpt, savedGen,
                   newGen, readerVars, countVars>>

Init ==
    /\ AppliedInit
    /\ mode = "closed" /\ nextSeq = 1 /\ wal = {} /\ applying = {}
    /\ mem = {}
    /\ lexDisk = {} /\ lexCkpt = 0 /\ vecDisk = {} /\ vecCkpt = 0
    /\ progress = 0 /\ generation = 0 /\ lastProgress = 0 /\ savedGen = 0
    /\ lpc = [l \in Ladders |-> "idle"]
    /\ snap = NoNumbers /\ before = NoNumbers /\ newGen = NoNumbers
    /\ peeked = 0 /\ readGen = 0 /\ lexRead = {} /\ vecRead = {}
    /\ recent = TRUE
    /\ crashes = 0 /\ faults = 0

Next ==
    \/ AppendAndApply \/ FinishMutation
    \/ \E l \in Ladders : Ladder(l) \/ Fail(l)
    \/ Peek \/ Reload
    \/ Crash \/ Close \/ OpenEmpty \/ Open

Spec == Init /\ [][Next]_vars

\* The commit timer ticks for ever, the other process polls, and a closed
\* index is opened again.
FairSpec ==
    /\ Spec
    /\ \A l \in Ladders : WF_vars(Ladder(l))
    /\ WF_vars(Peek) /\ WF_vars(Reload)
    /\ WF_vars(OpenEmpty \/ Open)

-----------------------------------------------------------------------------
(* Properties.                                                             *)

LadderSteps ==
    {"idle", "lexical", "vector", "truncate", "advance", "save", "baseline"}

TypeOK ==
    /\ mode \in {"closed", "recovering", "open"}
    /\ nextSeq \in Nat /\ watermark \in 0 .. nextSeq - 1
    /\ finishedAbove \cup applying \cup mem \cup wal \subseteq 1 .. nextSeq - 1
    /\ lexDisk \cup vecDisk \subseteq mem
    /\ lexCkpt \in 0 .. nextSeq - 1 /\ vecCkpt \in 0 .. nextSeq - 1
    /\ {progress, generation, lastProgress, savedGen} \subseteq Nat
    /\ lpc \in [Ladders -> LadderSteps]
    /\ {snap, before, newGen} \subseteq [Ladders -> Nat]

\* Nothing is under way and the next commit would announce nothing.
Settled ==
    /\ mode = "open" /\ Idle /\ applying = {}
    /\ progress <= lastProgress
    /\ peeked = readGen

UpToDate == lexRead = lexDisk /\ vecRead = vecDisk

\* A process that finds the number it knows has what the indexes hold, if it
\* reloaded since the index was last closed: although ladders overlap, fail at any step
\* and save their numbers in either order, no number is ever written for two
\* states of the index (advance_if_changed, engine.rs).
UnchangedMeansCurrent == Settled /\ recent /\ ~News => UpToDate

\* A finished mutation reaches a process that keeps polling, unless the
\* index is closed first: no interleaving of ladders takes a change for
\* announced (last_progress, engine.rs).
ChangesReachReader ==
    \A n \in 1..MaxSeq :
        (mode = "open" /\ recent /\ n \in mem /\ n \notin applying)
            ~> (n \in lexRead \cap vecRead \/ mode = "closed")

=============================================================================
