----------------------- MODULE CommitGenerationProofs -----------------------
(***************************************************************************)
(* Theorems about CommitGeneration: a process that finds the commit        *)
(* generation it knows has what the indexes hold, for any number of        *)
(* ladders, mutations, failures and crashes.                               *)
(***************************************************************************)
EXTENDS CommitGeneration, TLAPS

-----------------------------------------------------------------------------
(* The inductive invariant.                                                *)

\* What the reading process has are numbers and states of the index.
ReaderTypeOK ==
    /\ peeked \in Nat /\ readGen \in Nat /\ recent \in BOOLEAN
    /\ lexRead \subseteq lexDisk /\ vecRead \subseteq vecDisk

\* No ladder runs while the index is closed, and recovery runs but one; one
\* that does not run has read nothing.
Phases ==
    /\ \A l \in Ladders : lpc[l] = "idle" => snap[l] = 0 /\ before[l] = 0
    /\ mode = "closed" => Idle
    /\ mode # "open" => applying = {}
    /\ mode = "recovering" =>
           \A l, k \in Ladders : lpc[l] # "idle" /\ lpc[k] # "idle" => l = k

\* The steps of a ladder that has committed the index.
LexicalDone(l) == lpc[l] \in {"vector", "truncate", "advance", "save", "baseline"}
VectorDone(l) == lpc[l] \in {"truncate", "advance", "save", "baseline"}

\* What the log lacks both indexes have, and their checkpoints cover it; a
\* ladder that committed an index put all of its snapshot into it.
LogCovers ==
    /\ \A n \in mem \ wal :
           n \in lexDisk \cap vecDisk /\ n <= lexCkpt /\ n <= vecCkpt
    /\ \A l \in Ladders :
           /\ snap[l] < nextSeq
           /\ LexicalDone(l) =>
                  /\ snap[l] <= lexCkpt
                  /\ \A n \in mem : n <= snap[l] => n \in lexDisk
           /\ VectorDone(l) =>
                  /\ snap[l] <= vecCkpt
                  /\ \A n \in mem : n <= snap[l] => n \in vecDisk

\* A ladder that read the latest progress, with nothing being applied since,
\* has committed everything; and everything is committed once the latest
\* progress is announced.
ProgressCovers ==
    /\ lastProgress <= progress
    /\ \A l \in Ladders :
           /\ before[l] <= progress
           /\ before[l] = progress /\ applying = {} =>
                  /\ LexicalDone(l) => mem \subseteq lexDisk
                  /\ VectorDone(l) => mem \subseteq vecDisk
    /\ mode # "closed" /\ lastProgress = progress /\ applying = {} =>
           mem \subseteq lexDisk \cap vecDisk

\* No number was saved since the index was last closed or opened.
NoneSaved ==
    \/ mode = "closed"
    \/ mode = "recovering" /\ \A l \in Ladders : lpc[l] # "baseline"

\* Of the numbers that ladders are about to save, no two are equal and none
\* was saved, or seen by the reader, since the index was opened.
NumbersFresh ==
    /\ mode # "closed" =>
           /\ savedGen <= generation
           /\ peeked # readGen => peeked <= generation
           /\ recent => readGen <= generation
           /\ \A l \in Ladders : lpc[l] = "save" =>
                  /\ newGen[l] <= generation /\ newGen[l] # savedGen
                  /\ peeked # readGen => newGen[l] # peeked
                  /\ recent => newGen[l] # readGen
                  /\ \A k \in Ladders :
                         lpc[k] = "save" /\ newGen[k] = newGen[l] => k = l
    /\ NoneSaved /\ peeked # readGen => peeked = savedGen
    /\ mode = "closed" /\ recent => readGen = savedGen /\ UpToDate

\* The latest progress is announced, or its number saved.
AnnouncedAll ==
    \/ lastProgress = progress
    \/ \E l \in Ladders : lpc[l] = "baseline" /\ before[l] = progress

\* With the latest progress announced, a reader that has the number has
\* everything.
ReaderHasAll ==
    mode # "closed" /\ recent /\ ~News /\ AnnouncedAll /\ applying = {} =>
        mem \subseteq lexRead \cap vecRead

GenInv ==
    /\ TypeOK /\ ReaderTypeOK /\ Phases /\ LogCovers /\ ProgressCovers
    /\ NumbersFresh /\ ReaderHasAll

-----------------------------------------------------------------------------
(* Its parts, step by step.                                                *)

\* The types, one by one.
LEMMA Types ==
    ASSUME GenInv
    PROVE  /\ mode \in {"closed", "recovering", "open"}
           /\ nextSeq \in Nat /\ nextSeq > 0
           /\ watermark \in Nat /\ watermark < nextSeq
           /\ lexCkpt \in Nat /\ lexCkpt < nextSeq
           /\ vecCkpt \in Nat /\ vecCkpt < nextSeq
           /\ \A n \in finishedAbove \cup applying \cup mem \cup wal :
                  n \in Nat /\ n > 0 /\ n < nextSeq
           /\ lexDisk \subseteq mem /\ vecDisk \subseteq mem
           /\ progress \in Nat /\ generation \in Nat
           /\ lastProgress \in Nat /\ savedGen \in Nat
           /\ lpc \in [Ladders -> LadderSteps] /\ snap \in [Ladders -> Nat]
           /\ before \in [Ladders -> Nat] /\ newGen \in [Ladders -> Nat]
           /\ peeked \in Nat /\ readGen \in Nat /\ recent \in BOOLEAN
           /\ lexRead \subseteq lexDisk /\ vecRead \subseteq vecDisk
BY DEF GenInv, TypeOK, ReaderTypeOK

\* A finished number is assigned, and so is all the watermark reaches.
LEMMA FinishBelow ==
    ASSUME NEW bound \in Nat, watermark \in Nat, watermark < bound,
           \A n \in finishedAbove : n \in Nat /\ n > 0 /\ n < bound,
           NEW seq \in Nat, seq > 0, seq < bound, Finish(seq)
    PROVE  /\ watermark' \in Nat /\ watermark' < bound
           /\ \A n \in finishedAbove' : n \in Nat /\ n > 0 /\ n < bound
BY DEF Finish, AbsorbContiguous, appliedVars

\* What an append changes.
LEMMA AppendGen ==
    ASSUME GenInv, AppendAndApply
    PROVE  GenInv'
<1> USE DEF storeVars, trackerVars, ladderVars, readerVars, countVars,
            appliedVars
<1>1. /\ mode = "open" /\ nextSeq' = nextSeq + 1
      /\ wal' = wal \cup {nextSeq} /\ applying' = applying \cup {nextSeq}
      /\ mem' = mem \cup {nextSeq}
      /\ UNCHANGED <<watermark, finishedAbove, mode, progress, lexDisk, lexCkpt,
                     vecDisk, vecCkpt, generation, lastProgress, savedGen, lpc,
                     snap, before, newGen, peeked, readGen, lexRead, vecRead,
                     recent>>
    BY DEF AppendAndApply
<1>2. TypeOK'
    <2>1. \A n \in finishedAbove \cup applying' \cup mem' \cup wal' :
              n \in Nat /\ n > 0 /\ n < nextSeq'
        BY <1>1, Types
    <2> QED
        BY <1>1, <2>1, Types DEF TypeOK
<1>3. ReaderTypeOK' /\ Phases'
    BY <1>1 DEF GenInv, ReaderTypeOK, Phases, Idle
<1>4. LogCovers'
    BY <1>1, Types DEF GenInv, LogCovers, LexicalDone, VectorDone
<1>5. ProgressCovers' /\ ReaderHasAll'
    BY <1>1, Types DEF GenInv, ProgressCovers, ReaderHasAll
<1>6. NumbersFresh'
    BY <1>1 DEF GenInv, NumbersFresh, NoneSaved
<1> QED
    BY <1>2, <1>3, <1>4, <1>5, <1>6 DEF GenInv

\* A finish is progress that nobody has announced.
LEMMA FinishGen ==
    ASSUME GenInv, FinishMutation
    PROVE  GenInv'
<1> USE DEF storeVars, trackerVars, ladderVars, readerVars, countVars,
            appliedVars
<1>1. PICK n \in applying : Finish(n) /\ applying' = applying \ {n}
    BY DEF FinishMutation
<1>2. /\ mode = "open" /\ progress' = progress + 1
      /\ UNCHANGED <<mode, nextSeq, wal, mem, lexDisk, lexCkpt,
                     vecDisk, vecCkpt, generation, lastProgress, savedGen, lpc,
                     snap, before, newGen, peeked, readGen, lexRead, vecRead,
                     recent>>
    BY DEF FinishMutation, ProgressAfterFinish
<1>3. TypeOK'
    <2>1. /\ watermark' \in Nat /\ watermark' < nextSeq
          /\ \A m \in finishedAbove' : m \in Nat /\ m > 0 /\ m < nextSeq
        BY <1>1, Types, FinishBelow
    <2> QED
        BY <1>1, <1>2, <2>1, Types DEF TypeOK
<1>4. ReaderTypeOK' /\ Phases'
    BY <1>2 DEF GenInv, ReaderTypeOK, Phases, Idle
<1>5. LogCovers'
    BY <1>2 DEF GenInv, LogCovers, LexicalDone, VectorDone
<1>6. ProgressCovers'
    BY <1>2, Types DEF GenInv, ProgressCovers
<1>7. ~AnnouncedAll'
    BY <1>2, Types DEF GenInv, ProgressCovers, AnnouncedAll
<1>8. NumbersFresh' /\ ReaderHasAll'
    BY <1>2, <1>7 DEF GenInv, NumbersFresh, NoneSaved, ReaderHasAll
<1> QED
    BY <1>3, <1>4, <1>5, <1>6, <1>8 DEF GenInv

\* A ladder that starts takes what is there.
LEMMA StartGen ==
    ASSUME GenInv, NEW l \in Ladders, Start(l)
    PROVE  GenInv'
<1> USE DEF storeVars, trackerVars, ladderVars, readerVars, countVars,
            appliedVars
<1>1. /\ mode = "open" /\ lpc[l] = "idle"
      /\ snap' = [snap EXCEPT ![l] = watermark]
      /\ before' = [before EXCEPT ![l] = progress]
      /\ lpc' = [lpc EXCEPT ![l] = "lexical"]
      /\ UNCHANGED <<watermark, finishedAbove, mode, progress, nextSeq, wal,
                     applying, mem, lexDisk, lexCkpt, vecDisk, vecCkpt,
                     generation, lastProgress, savedGen, newGen, peeked,
                     readGen, lexRead, vecRead, recent>>
    BY DEF Start, To
<1>2. TypeOK'
    BY <1>1, Types DEF TypeOK, LadderSteps
<1>3. ReaderTypeOK' /\ Phases'
    BY <1>1, Types DEF GenInv, ReaderTypeOK, Phases
<1>4. LogCovers'
    BY <1>1, Types DEF GenInv, LogCovers, LexicalDone, VectorDone
<1>5. ProgressCovers'
    BY <1>1, Types DEF GenInv, ProgressCovers, LexicalDone, VectorDone
<1>6. NumbersFresh'
    BY <1>1, Types DEF GenInv, NumbersFresh, NoneSaved
<1>7. AnnouncedAll' => AnnouncedAll
    BY <1>1, Types DEF AnnouncedAll
<1>8. ReaderHasAll'
    BY <1>1, <1>7 DEF GenInv, ReaderHasAll, News
<1> QED
    BY <1>2, <1>3, <1>4, <1>5, <1>6, <1>8 DEF GenInv

\* What a ladder commits to an index is all that is in memory.
LEMMA CommitGen ==
    ASSUME GenInv, NEW l \in Ladders, CommitLexical(l) \/ CommitVector(l)
    PROVE  GenInv'
<1> USE DEF storeVars, trackerVars, ladderVars, readerVars, countVars,
            appliedVars, From, To
<1>1. /\ mode # "closed" /\ lpc[l] \in {"lexical", "vector"}
      /\ lpc' = [lpc EXCEPT ![l] = IF lpc[l] = "lexical" THEN "vector"
                                   ELSE "truncate"]
      /\ UNCHANGED <<watermark, finishedAbove, mode, progress, nextSeq, wal,
                     applying, mem, generation, lastProgress, savedGen, snap,
                     before, newGen, peeked, readGen, lexRead, vecRead,
                     recent>>
      /\ lexDisk' = (IF lpc[l] = "lexical" THEN mem ELSE lexDisk)
      /\ lexCkpt' = (IF lpc[l] = "lexical" THEN Larger(lexCkpt, snap[l])
                     ELSE lexCkpt)
      /\ vecDisk' = (IF lpc[l] = "vector" THEN mem ELSE vecDisk)
      /\ vecCkpt' = (IF lpc[l] = "vector" THEN Larger(vecCkpt, snap[l])
                     ELSE vecCkpt)
    BY DEF CommitLexical, CommitVector
<1>2. snap[l] < nextSeq /\ snap[l] \in Nat
    BY Types DEF GenInv, LogCovers
<1>3. /\ lexCkpt' \in Nat /\ lexCkpt' < nextSeq /\ lexCkpt <= lexCkpt'
      /\ vecCkpt' \in Nat /\ vecCkpt' < nextSeq /\ vecCkpt <= vecCkpt'
      /\ lpc[l] = "lexical" => snap[l] <= lexCkpt'
      /\ lpc[l] = "vector" => snap[l] <= vecCkpt'
    BY <1>1, <1>2, Types DEF Larger
<1>4. /\ lexDisk \subseteq lexDisk' /\ lexDisk' \subseteq mem
      /\ vecDisk \subseteq vecDisk' /\ vecDisk' \subseteq mem
    BY <1>1, Types
<1>5. TypeOK'
    BY <1>1, <1>3, <1>4, Types DEF TypeOK, LadderSteps
<1>6. ReaderTypeOK' /\ Phases'
    BY <1>1, <1>4, Types DEF GenInv, ReaderTypeOK, Phases, Idle
<1>7. LogCovers'
    BY <1>1, <1>2, <1>3, <1>4, Types
       DEF GenInv, LogCovers, LexicalDone, VectorDone
<1>8. ProgressCovers'
    BY <1>1, <1>4, Types DEF GenInv, ProgressCovers, LexicalDone, VectorDone
<1>9. NumbersFresh'
    BY <1>1, Types DEF GenInv, NumbersFresh, NoneSaved
<1>10. AnnouncedAll' => AnnouncedAll
    BY <1>1, Types DEF AnnouncedAll
<1>11. ReaderHasAll'
    BY <1>1, <1>10 DEF GenInv, ReaderHasAll, News
<1> QED
    BY <1>5, <1>6, <1>7, <1>8, <1>9, <1>11 DEF GenInv

\* The truncation drops what both indexes have.
LEMMA TruncateGen ==
    ASSUME GenInv, NEW l \in Ladders, Truncate(l)
    PROVE  GenInv'
<1> USE DEF storeVars, trackerVars, ladderVars, readerVars, countVars,
            appliedVars, From, To
<1>1. /\ mode # "closed" /\ lpc[l] = "truncate"
      /\ wal' = {n \in wal : n > snap[l]}
      /\ lpc' = [lpc EXCEPT ![l] = "advance"]
      /\ UNCHANGED <<watermark, finishedAbove, mode, progress, nextSeq,
                     applying, mem, lexDisk, lexCkpt, vecDisk, vecCkpt,
                     generation, lastProgress, savedGen, snap, before, newGen,
                     peeked, readGen, lexRead, vecRead, recent>>
    BY DEF Truncate
<1>2. TypeOK'
    BY <1>1, Types DEF TypeOK, LadderSteps
<1>3. ReaderTypeOK' /\ Phases'
    BY <1>1, Types DEF GenInv, ReaderTypeOK, Phases, Idle
<1>4. LogCovers'
    <2>1. ASSUME NEW n \in mem, n \notin wal'
          PROVE  n \in lexDisk \cap vecDisk /\ n <= lexCkpt /\ n <= vecCkpt
        <3>1. CASE n \notin wal
            BY <3>1 DEF GenInv, LogCovers
        <3>2. CASE n \in wal
            <4>1. n <= snap[l] /\ n \in Nat
                BY <1>1, <2>1, <3>2, Types
            <4>2. snap[l] <= lexCkpt /\ snap[l] <= vecCkpt /\ snap[l] \in Nat
                  /\ n \in lexDisk /\ n \in vecDisk
                BY <1>1, <4>1, Types
                   DEF GenInv, LogCovers, LexicalDone, VectorDone
            <4> QED
                BY <4>1, <4>2, Types
        <3> QED
            BY <3>1, <3>2
    <2>2. \A k \in Ladders : /\ LexicalDone(k)' <=> LexicalDone(k)
                             /\ VectorDone(k)' <=> VectorDone(k)
        BY <1>1, Types DEF LexicalDone, VectorDone
    <2> QED
        BY <1>1, <2>1, <2>2 DEF GenInv, LogCovers
<1>5. ProgressCovers'
    BY <1>1, Types DEF GenInv, ProgressCovers, LexicalDone, VectorDone
<1>6. NumbersFresh'
    BY <1>1, Types DEF GenInv, NumbersFresh, NoneSaved
<1>7. AnnouncedAll' => AnnouncedAll
    BY <1>1, Types DEF AnnouncedAll
<1>8. ReaderHasAll'
    BY <1>1, <1>7 DEF GenInv, ReaderHasAll, News
<1> QED
    BY <1>2, <1>3, <1>4, <1>5, <1>6, <1>8 DEF GenInv

\* A ladder that returns, or fails, disturbs nothing that the others or the
\* reader rely on, unless it was about to make the announced progress final.
LEMMA ReturnGen ==
    ASSUME GenInv, NEW l \in Ladders, NEW opens \in BOOLEAN, mode # "closed",
           Return(l, opens), lpc[l] # "idle", lpc[l] # "baseline",
           UNCHANGED <<appliedVars, progress, storeVars, trackerVars, peeked,
                       readGen, lexRead, vecRead>>,
           recent' \in BOOLEAN, recent' => recent,
           mode' = "closed" => ~recent'
    PROVE  GenInv'
<1> USE DEF storeVars, trackerVars, ladderVars, readerVars, countVars,
            appliedVars, To
<1>1. /\ lpc' = [lpc EXCEPT ![l] = "idle"] /\ snap' = [snap EXCEPT ![l] = 0]
      /\ before' = [before EXCEPT ![l] = 0]
      /\ newGen' = [newGen EXCEPT ![l] = 0]
      /\ mode' \in {"open", "closed"}
      /\ mode' = "closed" => mode = "recovering"
    BY Types DEF Return
<1>2. TypeOK'
    BY <1>1, Types DEF TypeOK, LadderSteps
<1>3. ReaderTypeOK'
    BY DEF GenInv, ReaderTypeOK
<1>4. Phases'
    BY <1>1, Types DEF GenInv, Phases, Idle
<1>5. LogCovers' /\ ProgressCovers'
    BY <1>1, Types
       DEF GenInv, LogCovers, ProgressCovers, LexicalDone, VectorDone
<1>6. NumbersFresh'
    <2>1. NoneSaved' => NoneSaved
        BY <1>1, Types DEF NoneSaved, GenInv, Phases
    <2>2. \A k \in Ladders : lpc'[k] = "save" =>
              lpc[k] = "save" /\ newGen'[k] = newGen[k]
        BY <1>1, Types
    <2> QED
        BY <1>1, <2>1, <2>2 DEF GenInv, NumbersFresh
<1>7. AnnouncedAll' => AnnouncedAll
    BY <1>1, Types DEF AnnouncedAll
<1>8. ReaderHasAll'
    BY <1>1, <1>7 DEF GenInv, ReaderHasAll, News
<1> QED
    BY <1>2, <1>3, <1>4, <1>5, <1>6, <1>8 DEF GenInv

\* The number a ladder takes is above all others.
LEMMA AdvanceGen ==
    ASSUME GenInv, NEW l \in Ladders, Advance(l)
    PROVE  GenInv'
<1> USE DEF storeVars, trackerVars, ladderVars, readerVars, countVars,
            appliedVars, From, To
<1>1. CASE before[l] > lastProgress
    <2>1. /\ mode # "closed" /\ lpc[l] = "advance"
          /\ generation' = generation + 1
          /\ newGen' = [newGen EXCEPT ![l] = generation + 1]
          /\ lpc' = [lpc EXCEPT ![l] = "save"]
          /\ UNCHANGED <<watermark, finishedAbove, mode, progress, nextSeq,
                         wal, applying, mem, lexDisk, lexCkpt, vecDisk,
                         vecCkpt, lastProgress, savedGen, snap, before,
                         peeked, readGen, lexRead, vecRead, recent>>
        BY <1>1 DEF Advance
    <2>2. TypeOK'
        BY <2>1, Types DEF TypeOK, LadderSteps
    <2>3. ReaderTypeOK' /\ Phases'
        BY <2>1, Types DEF GenInv, ReaderTypeOK, Phases, Idle
    <2>4. LogCovers' /\ ProgressCovers'
        BY <2>1, Types
           DEF GenInv, LogCovers, ProgressCovers, LexicalDone, VectorDone
    <2>5. NumbersFresh'
        <3>1. NoneSaved' => NoneSaved
            BY <2>1, Types DEF NoneSaved
        <3> QED
            BY <2>1, <3>1, Types DEF GenInv, NumbersFresh
    <2>6. AnnouncedAll' => AnnouncedAll
        BY <2>1, Types DEF AnnouncedAll
    <2>7. ReaderHasAll'
        BY <2>1, <2>6 DEF GenInv, ReaderHasAll, News
    <2> QED
        BY <2>2, <2>3, <2>4, <2>5, <2>7 DEF GenInv
<1>2. CASE ~(before[l] > lastProgress)
    <2>1. /\ Return(l, TRUE) /\ mode # "closed" /\ lpc[l] = "advance"
          /\ UNCHANGED <<appliedVars, progress, storeVars, trackerVars,
                         peeked, readGen, lexRead, vecRead, recent>>
        BY <1>2 DEF Advance
    <2>2. mode' = "open"
        BY <2>1 DEF Return
    <2> QED
        BY <2>1, <2>2, Types, ReturnGen
<1> QED
    BY <1>1, <1>2

\* A failed step leaves nothing to announce.
LEMMA FailGen ==
    ASSUME GenInv, NEW l \in Ladders, Fail(l)
    PROVE  GenInv'
<1>1. /\ Return(l, FALSE) /\ mode # "closed"
      /\ lpc[l] # "idle" /\ lpc[l] # "baseline"
      /\ recent' = (recent /\ mode' = "open")
      /\ UNCHANGED <<appliedVars, progress, storeVars, trackerVars, peeked,
                     readGen, lexRead, vecRead>>
    BY DEF Fail
<1> QED
    BY <1>1, Types, ReturnGen

\* A number is saved that no reader has.
LEMMA SaveGen ==
    ASSUME GenInv, NEW l \in Ladders, Save(l)
    PROVE  GenInv'
<1> USE DEF storeVars, trackerVars, ladderVars, readerVars, countVars,
            appliedVars, From, To
<1>1. /\ mode # "closed" /\ lpc[l] = "save" /\ savedGen' = newGen[l]
      /\ lpc' = [lpc EXCEPT ![l] = "baseline"]
      /\ UNCHANGED <<watermark, finishedAbove, mode, progress, nextSeq, wal,
                     applying, mem, lexDisk, lexCkpt, vecDisk, vecCkpt,
                     generation, lastProgress, snap, before, newGen, peeked,
                     readGen, lexRead, vecRead, recent>>
    BY DEF Save
<1>2. TypeOK'
    BY <1>1, Types DEF TypeOK, LadderSteps
<1>3. ReaderTypeOK' /\ Phases'
    BY <1>1, Types DEF GenInv, ReaderTypeOK, Phases, Idle
<1>4. LogCovers' /\ ProgressCovers'
    BY <1>1, Types
       DEF GenInv, LogCovers, ProgressCovers, LexicalDone, VectorDone
<1>5. NumbersFresh'
    <2>1. ~NoneSaved'
        BY <1>1, Types DEF NoneSaved
    <2> QED
        BY <1>1, <2>1, Types DEF GenInv, NumbersFresh
<1>6. recent' => News'
    BY <1>1 DEF GenInv, NumbersFresh, News
<1>7. ReaderHasAll'
    BY <1>6 DEF ReaderHasAll
<1> QED
    BY <1>2, <1>3, <1>4, <1>5, <1>7 DEF GenInv

\* What becomes the baseline was already announced.
LEMMA BaselineGen ==
    ASSUME GenInv, NEW l \in Ladders, SetBaseline(l)
    PROVE  GenInv'
<1> USE DEF storeVars, trackerVars, ladderVars, readerVars, countVars,
            appliedVars, From, To
<1>1. /\ mode # "closed" /\ lpc[l] = "baseline" /\ mode' = "open"
      /\ lastProgress' = Larger(lastProgress, before[l])
      /\ lpc' = [lpc EXCEPT ![l] = "idle"] /\ snap' = [snap EXCEPT ![l] = 0]
      /\ before' = [before EXCEPT ![l] = 0]
      /\ newGen' = [newGen EXCEPT ![l] = 0]
      /\ UNCHANGED <<watermark, finishedAbove, progress, nextSeq, wal,
                     applying, mem, lexDisk, lexCkpt, vecDisk, vecCkpt,
                     generation, savedGen, peeked, readGen, lexRead, vecRead,
                     recent>>
    BY DEF SetBaseline, Announced, Return
<1>2. /\ lastProgress' \in Nat /\ before[l] <= progress /\ before[l] \in Nat
      /\ lastProgress' <= progress
      /\ lastProgress' = progress =>
             lastProgress = progress \/ before[l] = progress
    BY <1>1, Types DEF GenInv, ProgressCovers, Larger
<1>3. TypeOK'
    BY <1>1, <1>2, Types DEF TypeOK, LadderSteps
<1>4. ReaderTypeOK' /\ Phases'
    BY <1>1, Types DEF GenInv, ReaderTypeOK, Phases, Idle
<1>5. LogCovers'
    BY <1>1, Types DEF GenInv, LogCovers, LexicalDone, VectorDone
<1>6. ProgressCovers'
    BY <1>1, <1>2, Types DEF GenInv, ProgressCovers, LexicalDone, VectorDone
<1>7. NumbersFresh'
    <2>1. ~NoneSaved'
        BY <1>1 DEF NoneSaved
    <2>2. \A k \in Ladders : lpc'[k] = "save" =>
              lpc[k] = "save" /\ newGen'[k] = newGen[k]
        BY <1>1, Types
    <2> QED
        BY <1>1, <2>1, <2>2 DEF GenInv, NumbersFresh
<1>8. AnnouncedAll' => AnnouncedAll
    BY <1>1, <1>2, Types DEF AnnouncedAll
<1>9. ReaderHasAll'
    BY <1>1, <1>8 DEF GenInv, ReaderHasAll, News
<1> QED
    BY <1>3, <1>4, <1>5, <1>6, <1>7, <1>9 DEF GenInv

\* The reader sees the number that was saved last.
LEMMA PeekGen ==
    ASSUME GenInv, Peek
    PROVE  GenInv'
<1> USE DEF storeVars, trackerVars, ladderVars, readerVars, countVars,
            appliedVars
<1>1. /\ peeked' = savedGen
      /\ UNCHANGED <<watermark, finishedAbove, mode, progress, nextSeq, wal,
                     applying, mem, lexDisk, lexCkpt, vecDisk, vecCkpt,
                     generation, lastProgress, savedGen, lpc, snap, before,
                     newGen, readGen, lexRead, vecRead, recent>>
    BY DEF Peek
<1>2. TypeOK'
    BY <1>1 DEF GenInv, TypeOK
<1>3. ReaderTypeOK' /\ Phases'
    BY <1>1, Types DEF GenInv, ReaderTypeOK, Phases, Idle
<1>4. LogCovers' /\ ProgressCovers'
    BY <1>1 DEF GenInv, LogCovers, ProgressCovers, LexicalDone, VectorDone
<1>5. NumbersFresh'
    BY <1>1 DEF GenInv, NumbersFresh, NoneSaved, UpToDate
<1>6. ReaderHasAll'
    BY <1>1 DEF GenInv, ReaderHasAll, News, AnnouncedAll
<1> QED
    BY <1>2, <1>3, <1>4, <1>5, <1>6 DEF GenInv

\* A reload that finds all progress announced finds everything committed.
LEMMA ReloadGen ==
    ASSUME GenInv, Reload
    PROVE  GenInv'
<1> USE DEF storeVars, trackerVars, ladderVars, readerVars, countVars,
            appliedVars
<1>1. /\ peeked # readGen /\ readGen' = peeked /\ recent' = TRUE
      /\ lexRead' = lexDisk /\ vecRead' = vecDisk
      /\ UNCHANGED <<watermark, finishedAbove, mode, progress, nextSeq, wal,
                     applying, mem, lexDisk, lexCkpt, vecDisk, vecCkpt,
                     generation, lastProgress, savedGen, lpc, snap, before,
                     newGen, peeked>>
    BY DEF Reload
<1>2. TypeOK'
    BY <1>1 DEF GenInv, TypeOK
<1>3. ReaderTypeOK' /\ Phases'
    BY <1>1, Types DEF GenInv, ReaderTypeOK, Phases, Idle
<1>4. LogCovers' /\ ProgressCovers'
    BY <1>1 DEF GenInv, LogCovers, ProgressCovers, LexicalDone, VectorDone
<1>5. NumbersFresh'
    BY <1>1 DEF GenInv, NumbersFresh, NoneSaved, UpToDate
<1>6. ReaderHasAll'
    <2> SUFFICES ASSUME mode # "closed", AnnouncedAll, applying = {}
                 PROVE  mem \subseteq lexDisk \cap vecDisk
        BY <1>1 DEF ReaderHasAll, AnnouncedAll
    <2>1. CASE lastProgress = progress
        BY <2>1 DEF GenInv, ProgressCovers
    <2>2. CASE \E l \in Ladders : lpc[l] = "baseline" /\ before[l] = progress
        BY <2>2 DEF GenInv, ProgressCovers, LexicalDone, VectorDone
    <2> QED
        BY <2>1, <2>2 DEF AnnouncedAll
<1> QED
    BY <1>2, <1>3, <1>4, <1>5, <1>6 DEF GenInv

\* The end of the process leaves its files, and a reader that is not recent.
LEMMA StopGen ==
    ASSUME GenInv, Stop, lexDisk \subseteq lexDisk', lexDisk' \subseteq mem,
           lexCkpt' \in Nat, lexCkpt <= lexCkpt', lexCkpt' < nextSeq
    PROVE  GenInv'
<1> USE DEF storeVars, trackerVars, ladderVars, readerVars, countVars,
            appliedVars
<1>1. /\ mode' = "closed" /\ applying' = {} /\ recent' = FALSE
      /\ peeked' = readGen
      /\ lpc' = [l \in Ladders |-> "idle"] /\ snap' = [l \in Ladders |-> 0]
      /\ before' = [l \in Ladders |-> 0] /\ newGen' = [l \in Ladders |-> 0]
      /\ UNCHANGED <<watermark, finishedAbove, progress, nextSeq, wal, mem,
                     vecDisk, vecCkpt, generation, lastProgress, savedGen,
                     readGen, lexRead, vecRead>>
    BY DEF Stop, NoNumbers
<1>2. TypeOK'
    BY <1>1, Types DEF TypeOK, LadderSteps
<1>3. ReaderTypeOK' /\ Phases'
    BY <1>1, Types DEF GenInv, ReaderTypeOK, Phases, Idle
<1>4. LogCovers'
    BY <1>1, Types DEF GenInv, LogCovers, LexicalDone, VectorDone
<1>5. ProgressCovers'
    BY <1>1, Types DEF GenInv, ProgressCovers, LexicalDone, VectorDone
<1>6. NumbersFresh' /\ ReaderHasAll'
    BY <1>1 DEF GenInv, NumbersFresh, ReaderHasAll
<1> QED
    BY <1>2, <1>3, <1>4, <1>5, <1>6 DEF GenInv

\* A crash is one; and so is a close, which commits what is in memory.
LEMMA EndGen ==
    ASSUME GenInv, Crash \/ Close
    PROVE  GenInv'
<1>1. CASE Crash
    BY <1>1, Types, StopGen DEF Crash
<1>2. CASE Close
    BY <1>2, Types, StopGen DEF Close, Larger
<1> QED
    BY <1>1, <1>2

\* With an empty log both indexes hold the same, and nobody is behind.
LEMMA OpenEmptyGen ==
    ASSUME GenInv, OpenEmpty
    PROVE  GenInv'
<1> USE DEF storeVars, trackerVars, ladderVars, readerVars, countVars,
            appliedVars
<1>1. /\ mode = "closed" /\ mode' = "open" /\ wal = {}
      /\ watermark' = Floor /\ finishedAbove' = {} /\ nextSeq' = Floor + 1
      /\ progress' \in {0, 1} /\ lastProgress' = progress'
      /\ mem' = lexDisk \cup vecDisk /\ generation' = savedGen
      /\ UNCHANGED <<wal, applying, lexDisk, lexCkpt, vecDisk, vecCkpt,
                     savedGen, lpc, snap, before, newGen, peeked, readGen,
                     lexRead, vecRead, recent>>
    BY DEF OpenEmpty
<1>2. Floor \in Nat /\ lexCkpt <= Floor /\ vecCkpt <= Floor
    BY Types DEF Floor, Larger
<1>3. /\ applying = {} /\ \A l \in Ladders : lpc[l] = "idle"
    BY <1>1 DEF GenInv, Phases, Idle
<1>4. \A n \in mem : n \in lexDisk \cap vecDisk /\ n <= Floor
    BY <1>1, <1>2, Types DEF GenInv, LogCovers
<1>5. mem' = mem /\ lexDisk = mem /\ vecDisk = mem
    BY <1>1, <1>4, Types
<1>6. \A l \in Ladders : snap[l] = 0 /\ before[l] = 0
    BY <1>3 DEF GenInv, Phases
<1>7. TypeOK'
    BY <1>1, <1>2, <1>3, <1>4, <1>5, Types DEF TypeOK
<1>8. ReaderTypeOK' /\ Phases'
    BY <1>1, <1>3, Types DEF GenInv, ReaderTypeOK, Phases, Idle
<1>9. LogCovers'
    BY <1>1, <1>2, <1>3, <1>4, <1>5, <1>6, Types
       DEF GenInv, LogCovers, LexicalDone, VectorDone
<1>10. ProgressCovers'
    BY <1>1, <1>3, <1>5, <1>6 DEF ProgressCovers, LexicalDone, VectorDone
<1>11. NumbersFresh'
    <2>1. peeked # readGen => peeked = savedGen
        BY <1>1 DEF GenInv, NumbersFresh, NoneSaved
    <2>2. recent => readGen = savedGen
        BY <1>1 DEF GenInv, NumbersFresh
    <2> QED
        BY <1>1, <1>3, <2>1, <2>2, Types DEF NumbersFresh, NoneSaved
<1>12. ReaderHasAll'
    BY <1>1, <1>5 DEF GenInv, NumbersFresh, UpToDate, ReaderHasAll
<1> QED
    BY <1>7, <1>8, <1>9, <1>10, <1>11, <1>12 DEF GenInv

\* A replay is progress that nobody has announced.
LEMMA OpenGen ==
    ASSUME GenInv, Open
    PROVE  GenInv'
<1> USE DEF storeVars, trackerVars, ladderVars, readerVars, countVars,
            appliedVars, To
<1>0. PICK last \in wal \cup {lexCkpt, vecCkpt} :
          /\ IsTop(last, wal \cup {lexCkpt, vecCkpt})
          /\ watermark' = last /\ nextSeq' = last + 1
    BY DEF Open
<1>1. /\ mode = "closed" /\ wal # {} /\ finishedAbove' = {}
      /\ progress' = 1 /\ lastProgress' = 0 /\ generation' = savedGen
      /\ mem' = lexDisk \cup vecDisk \cup wal
      /\ mode' \in {"recovering", "open"}
      /\ UNCHANGED <<wal, applying, lexDisk, lexCkpt, vecDisk, vecCkpt,
                     savedGen, newGen, peeked, readGen, lexRead, vecRead,
                     recent>>
    BY DEF Open
<1>2. \/ UNCHANGED <<lpc, snap, before>>
      \/ \E l \in Ladders :
             /\ snap' = [snap EXCEPT ![l] = last]
             /\ before' = [before EXCEPT ![l] = progress']
             /\ lpc' = [lpc EXCEPT ![l] = "lexical"]
    BY <1>0 DEF Open
<1>3. /\ last \in Nat /\ \A n \in wal : n <= last
      /\ lexCkpt <= last /\ vecCkpt <= last
    BY <1>0, Types DEF IsTop
<1>4. /\ applying = {} /\ \A l \in Ladders : lpc[l] = "idle"
      /\ \A l \in Ladders : snap[l] = 0 /\ before[l] = 0
    BY <1>1 DEF GenInv, Phases, Idle
<1> DEFINE OneBegins ==
          /\ lpc' \in [Ladders -> LadderSteps]
          /\ snap' \in [Ladders -> Nat] /\ before' \in [Ladders -> Nat]
          /\ \A l \in Ladders :
                 /\ lpc'[l] \in {"idle", "lexical"}
                 /\ lpc'[l] = "idle" => snap'[l] = 0 /\ before'[l] = 0
                 /\ snap'[l] <= last /\ before'[l] <= 1
          /\ \A l, k \in Ladders :
                 lpc'[l] # "idle" /\ lpc'[k] # "idle" => l = k
<1>5. OneBegins
    <2>1. CASE UNCHANGED <<lpc, snap, before>>
        BY <1>3, <1>4, <2>1, Types
    <2>2. ASSUME NEW l \in Ladders,
                 snap' = [snap EXCEPT ![l] = last],
                 before' = [before EXCEPT ![l] = progress'],
                 lpc' = [lpc EXCEPT ![l] = "lexical"]
          PROVE  OneBegins
        BY <1>1, <1>3, <1>4, <2>2, Types DEF LadderSteps
    <2> QED
        BY <1>2, <2>1, <2>2
<1>6. /\ \A n \in mem' : n \in Nat /\ n > 0 /\ n <= last
      /\ \A n \in mem' \ wal : n \in mem
    BY <1>1, <1>3, Types DEF GenInv, LogCovers
<1>7. TypeOK'
    <2>1. /\ nextSeq' \in Nat /\ watermark' \in 0 .. nextSeq' - 1
          /\ lexCkpt' \in 0 .. nextSeq' - 1 /\ vecCkpt' \in 0 .. nextSeq' - 1
        BY <1>0, <1>1, <1>3, Types
    <2>2. finishedAbove' \cup applying' \cup mem' \cup wal'
              \subseteq 1 .. nextSeq' - 1
        BY <1>0, <1>1, <1>3, <1>4, <1>6
    <2>3. {progress', generation', lastProgress', savedGen'} \subseteq Nat
        BY <1>1, Types
    <2>4. {snap', before', newGen'} \subseteq [Ladders -> Nat]
        BY <1>1, <1>5, Types
    <2>5. lexDisk' \cup vecDisk' \subseteq mem'
        BY <1>1
    <2> QED
        BY <1>1, <1>5, <2>1, <2>2, <2>3, <2>4, <2>5 DEF TypeOK
<1>8. ReaderTypeOK' /\ Phases'
    BY <1>1, <1>4, <1>5, Types DEF GenInv, ReaderTypeOK, Phases, Idle
<1>9. \A l \in Ladders : ~LexicalDone(l)' /\ ~VectorDone(l)'
    BY <1>5 DEF LexicalDone, VectorDone
<1>10. LogCovers'
    <2>1. \A l \in Ladders : snap'[l] < nextSeq'
        BY <1>0, <1>3, <1>5
    <2> QED
        BY <1>1, <1>6, <1>9, <2>1 DEF GenInv, LogCovers
<1>11. ProgressCovers'
    BY <1>1, <1>5, <1>9 DEF ProgressCovers
<1>12. NumbersFresh'
    <2>1. peeked # readGen => peeked = savedGen
        BY <1>1 DEF GenInv, NumbersFresh, NoneSaved
    <2>2. recent => readGen = savedGen
        BY <1>1 DEF GenInv, NumbersFresh
    <2>3. \A l \in Ladders : lpc'[l] # "save"
        BY <1>5
    <2> QED
        BY <1>1, <2>1, <2>2, <2>3, Types DEF NumbersFresh
<1>13. ~AnnouncedAll'
    BY <1>1, <1>5 DEF AnnouncedAll
<1>14. ReaderHasAll'
    BY <1>13 DEF ReaderHasAll
<1> QED
    BY <1>7, <1>8, <1>10, <1>11, <1>12, <1>14 DEF GenInv

\* Every step keeps the invariant.
LEMMA NextGen == GenInv /\ [Next]_vars => GenInv'
<1> SUFFICES ASSUME GenInv, [Next]_vars PROVE GenInv'
    OBVIOUS
<1>1. ASSUME NEW l \in Ladders, Ladder(l) \/ Fail(l) PROVE GenInv'
    BY <1>1, StartGen, CommitGen, TruncateGen, AdvanceGen, SaveGen,
       BaselineGen, FailGen DEF Ladder
<1>2. CASE UNCHANGED vars
    BY <1>2 DEF vars, appliedVars, storeVars, trackerVars, ladderVars,
                readerVars, countVars, GenInv, TypeOK, ReaderTypeOK, Phases,
                Idle, LogCovers, LexicalDone, VectorDone, ProgressCovers,
                NumbersFresh, NoneSaved, UpToDate, AnnouncedAll,
                ReaderHasAll, News
<1> QED
    BY <1>1, <1>2, AppendGen, FinishGen, PeekGen, ReloadGen, EndGen,
       OpenEmptyGen, OpenGen DEF Next

\* It holds of an empty index.
LEMMA InitGen == Init => GenInv
<1> SUFFICES ASSUME Init PROVE GenInv
    OBVIOUS
<1>1. TypeOK
    <2>1. watermark = 0 /\ finishedAbove = {}
        BY DEF Init, AppliedInit
    <2>2. 0 \in 0 .. nextSeq - 1
        BY DEF Init
    <2> QED
        BY <2>1, <2>2 DEF Init, NoNumbers, TypeOK, LadderSteps
<1>2. ReaderTypeOK /\ Phases /\ LogCovers /\ ProgressCovers
    BY DEF Init, AppliedInit, NoNumbers, ReaderTypeOK, Phases, Idle,
           LogCovers, LexicalDone, VectorDone, ProgressCovers
<1>3. NumbersFresh /\ ReaderHasAll
    BY DEF Init, NumbersFresh, NoneSaved, UpToDate, ReaderHasAll
<1> QED
    BY <1>1, <1>2, <1>3 DEF GenInv

\* What ladders, the counter and the reader rely on holds throughout
\* (CommitGenerationTracker, engine.rs).
THEOREM GenerationInvariant == Spec => []GenInv
BY InitGen, NextGen, PTL DEF Spec

\* Every variable has its type; in particular no index ever holds a mutation
\* that was not applied, and no checkpoint a number that was not assigned,
\* through every crash and reopening (engine.rs).
THEOREM TypeCorrect == Spec => []TypeOK
<1>1. GenInv => TypeOK
    BY DEF GenInv
<1> QED
    BY <1>1, GenerationInvariant, PTL

\* A process that finds the number it knows, once nothing is under way and
\* all progress is announced, has what both indexes hold: ladders that
\* overlap, fail or save their numbers out of order never write one number
\* for two states (advance_if_changed, engine.rs; peek_commit_generation).
THEOREM SameNumberSameIndex == Spec => []UnchangedMeansCurrent
<1>1. GenInv => UnchangedMeansCurrent
    <2> SUFFICES ASSUME GenInv, Settled, recent, ~News PROVE UpToDate
        BY DEF UnchangedMeansCurrent
    <2>1. mode # "closed" /\ applying = {} /\ lastProgress = progress
        BY Types DEF Settled, GenInv, ProgressCovers
    <2>2. mem \subseteq lexRead \cap vecRead
        BY <2>1 DEF GenInv, ReaderHasAll, AnnouncedAll
    <2> QED
        BY <2>2, Types DEF UpToDate
<1> QED
    BY <1>1, GenerationInvariant, PTL

=============================================================================
