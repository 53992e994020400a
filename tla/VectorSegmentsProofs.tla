------------------------ MODULE VectorSegmentsProofs ------------------------
(***************************************************************************)
(* Theorems about VectorSegments, for any number of records, merges,       *)
(* failures and crashes: the running index holds the documents that were   *)
(* put and not deleted, and so does what an open would find after a crash  *)
(* at any step; searches find what commits have covered, whatever builds   *)
(* readers; and if only searches build them, they hide what was deleted,   *)
(* but for what a replaced segment holds whose file has stayed.            *)
(***************************************************************************)
EXTENDS VectorSegments, TLAPS

-----------------------------------------------------------------------------
(* The inductive invariant.                                                *)

\* A document's number is its put's, and its delete comes later.
Shape(records) ==
    \A n \in 1..Len(records) :
        /\ records[n].op = "put" => records[n].doc = n
        /\ records[n].op = "delete" =>
               /\ records[n].doc \in 1 .. n - 1
               /\ records[records[n].doc].op = "put"

\* What the records up to n put and delete: PutsIn and DeletesIn of a prefix.
PutsTo(records, n) ==
    {records[m].doc : m \in {k \in 1..n : records[k].op = "put"}}
DeletesTo(records, n) ==
    {records[m].doc : m \in {k \in 1..n : records[k].op = "delete"}}

\* The documents of the segments that memory, or the manifest, names.
MemoryDocs == UNION {files[s] : s \in segs}
DiskDocs == UNION {files[s] : s \in manifest.segs}

\* The deletes that have reached the bitmap.
Applied == Deletes \ appended

\* The types that TypeOK leaves to the other parts.
MoreTypes ==
    /\ bitmaps \in [1..MaxBitmaps -> SUBSET Deletes]
    /\ slot \in Nat /\ epoch \in Nat /\ nextId \in Nat \ {0}
    /\ manifest.nextId \in Nat \ {0}
    /\ merges \in 0..MaxMerges
    /\ up => DOMAIN files \subseteq 1 .. nextId - 1
    /\ DOMAIN files \subseteq Nat
    /\ sources \subseteq Nat

\* A merge moves the epoch twice at most: when its marks are forgotten, and
\* when the next mark creates a bitmap.
EpochBound ==
    epoch + (IF slot = 0 THEN 1 ELSE 0)
          + (IF holder \in {"merge", "forget"} THEN 2 ELSE 0) <= 1 + 2 * merges

\* A closed index remembers nothing.
Closed ==
    ~up =>
        /\ appended = {} /\ clearing = {} /\ buffer = {} /\ writer = 0
        /\ slot = 0 /\ epoch = 0 /\ holder = "free" /\ pending = 0
        /\ sources = {} /\ bpc = AllIdle

\* The steps at which the writer has nothing that is not in a segment.
Flushing == {"persist", "publish", "choose", "merge", "forget", "done"}

\* What the steps of a commit or merge have done and hold.
Phases ==
    /\ holder \in Flushing => buffer = {}
    /\ holder = "sealed" => writer \in segs /\ files[writer] = buffer
    /\ holder = "merge" =>
           /\ sources \subseteq segs
           /\ full => sources = segs
           /\ ~hasFrozen => frozen = {}
    /\ holder = "forget" =>
           manifest.segs = segs /\ MemoryDocs \cap frozen = {}

\* The checkpoints, the bitmaps and a merge's copy know of no delete that
\* has yet to be applied.
AppliedOnly ==
    /\ (WrittenMarks \cup delmap \cup frozen) \cap appended = {}
    /\ (DeletesTo(log, ckpt) \cup DeletesTo(log, pending)) \cap appended = {}

\* The running index has every document it should hold, in the writer or a
\* segment, and its bitmap, loaded or not, hides the deleted ones.
MemoryExact ==
    up =>
        /\ Puts \ Applied \subseteq buffer \cup MemoryDocs
        /\ Applied \cap (buffer \cup MemoryDocs) \subseteq WrittenMarks

\* The writer's documents come after the checkpoint, and a segment that it
\* has written before holds no others.
WriterAbove ==
    /\ \A d \in buffer : d > ckpt
    /\ writer \in DOMAIN files => files[writer] \subseteq buffer

\* The checkpoint that memory publishes next: storage marks what it covers,
\* and the bitmap that is written next still marks what the published one
\* covers.
MarksSaved ==
    up =>
        /\ manifest.ckpt <= ckpt
        /\ DeletesTo(log, ckpt) \cap MemoryDocs \subseteq delmap
        /\ holder = "publish" =>
               DeletesTo(log, pending) \cap MemoryDocs \subseteq delmap
        /\ DeletesTo(log, manifest.ckpt) \cap DiskDocs \subseteq WrittenMarks

\* The published checkpoint: its segments have what it covers, and storage
\* marks what was deleted of it.
DiskCovers ==
    /\ manifest.segs \subseteq DOMAIN files
    /\ PutsTo(log, manifest.ckpt) \ Deletes \subseteq DiskDocs
    /\ DeletesTo(log, manifest.ckpt) \cap DiskDocs \subseteq delmap

IndexInv ==
    /\ TypeOK /\ Shape(log) /\ MoreTypes /\ EpochBound /\ Closed /\ Phases
    /\ AppliedOnly /\ MemoryExact /\ WriterAbove /\ MarksSaved /\ DiskCovers

-----------------------------------------------------------------------------
(* The log.                                                                *)

\* The module's sets of documents are those of the whole log.
LEMMA WholeLog ==
    /\ Puts = PutsTo(log, Last) /\ Deletes = DeletesTo(log, Last)
    /\ Puts' = PutsTo(log', Last') /\ Deletes' = DeletesTo(log', Last')
BY DEF Puts, Deletes, PutsIn, DeletesIn, PutsTo, DeletesTo

\* A prefix puts the documents with its puts' numbers, and deletes only such;
\* a longer one has what it has.
LEMMA Prefixes ==
    ASSUME NEW records \in Seq(Record), Shape(records),
           NEW n \in 0..Len(records)
    PROVE  /\ \A d : d \in PutsTo(records, n) <=>
                         d \in 1..n /\ records[d].op = "put"
           /\ DeletesTo(records, n) \subseteq PutsTo(records, n)
           /\ \A k \in 0..n :
                  /\ PutsTo(records, k) \subseteq PutsTo(records, n)
                  /\ DeletesTo(records, k) \subseteq DeletesTo(records, n)
<1>1. \A d : d \in PutsTo(records, n) <=> d \in 1..n /\ records[d].op = "put"
    BY DEF PutsTo, Shape
<1>2. DeletesTo(records, n) \subseteq PutsTo(records, n)
    BY <1>1 DEF DeletesTo, Shape
<1>3. ASSUME NEW k \in 0..n
      PROVE  /\ PutsTo(records, k) \subseteq PutsTo(records, n)
             /\ DeletesTo(records, k) \subseteq DeletesTo(records, n)
    BY DEF PutsTo, DeletesTo
<1> QED
    BY <1>1, <1>2, <1>3

\* One more record, of the next document or of the end of one there is.
LEMMA Appended ==
    ASSUME NEW records \in Seq(Record), Shape(records), NEW r \in Record,
           r.op = "put" => r.doc = Len(records) + 1,
           r.op = "delete" => r.doc \in PutsTo(records, Len(records)),
           NEW longer \in {Append(records, r)}
    PROVE  /\ longer \in Seq(Record) /\ Shape(longer)
           /\ Len(longer) = Len(records) + 1
           /\ \A n \in 0..Len(records) :
                  /\ PutsTo(longer, n) = PutsTo(records, n)
                  /\ DeletesTo(longer, n) = DeletesTo(records, n)
           /\ PutsTo(longer, Len(longer)) =
                  PutsTo(records, Len(records))
                      \cup IF r.op = "put" THEN {r.doc} ELSE {}
           /\ DeletesTo(longer, Len(longer)) =
                  DeletesTo(records, Len(records))
                      \cup IF r.op = "delete" THEN {r.doc} ELSE {}
<1>1. /\ longer \in Seq(Record) /\ Len(longer) = Len(records) + 1
      /\ Len(records) \in Nat
      /\ longer[Len(records) + 1] = r
      /\ \A n \in 1..Len(records) : longer[n] = records[n]
    OBVIOUS
<1>2. Shape(longer)
    <2>1. r.op = "delete" =>
              r.doc \in 1..Len(records) /\ records[r.doc].op = "put"
        BY Prefixes
    <2> QED
        BY <1>1, <2>1 DEF Shape
<1>3. ASSUME NEW n \in 0..Len(records)
      PROVE  /\ PutsTo(longer, n) = PutsTo(records, n)
             /\ DeletesTo(longer, n) = DeletesTo(records, n)
    BY <1>1 DEF PutsTo, DeletesTo
<1>4. PutsTo(longer, Len(longer)) =
          PutsTo(longer, Len(records)) \cup IF r.op = "put" THEN {r.doc} ELSE {}
    BY <1>1 DEF PutsTo
<1>5. DeletesTo(longer, Len(longer)) =
          DeletesTo(longer, Len(records))
              \cup IF r.op = "delete" THEN {r.doc} ELSE {}
    BY <1>1 DEF DeletesTo
<1> QED
    BY <1>1, <1>2, <1>3, <1>4, <1>5

\* The records after a prefix put the documents with higher numbers.
LEMMA Suffixes ==
    ASSUME log \in Seq(Record), Shape(log), NEW n \in 0..Last
    PROVE  /\ PutsIn(n + 1 .. Last) = {d \in Puts : d > n}
           /\ Puts \ PutsIn(n + 1 .. Last) = PutsTo(log, n)
           /\ Deletes = DeletesTo(log, n) \cup DeletesIn(n + 1 .. Last)
<1>1. Last \in Nat
    BY DEF Last
<1>2. \A d : d \in Puts <=> d \in 1..Last /\ log[d].op = "put"
    BY <1>1, Prefixes, WholeLog DEF Last
<1>3. PutsIn(n + 1 .. Last) = {d \in Puts : d > n}
    BY <1>1, <1>2 DEF PutsIn, Shape, Last
<1>4. Puts \ PutsIn(n + 1 .. Last) = PutsTo(log, n)
    BY <1>1, <1>2, <1>3, Prefixes DEF Last
<1>5. Deletes = DeletesTo(log, n) \cup DeletesIn(n + 1 .. Last)
    BY <1>1, WholeLog DEF DeletesTo, DeletesIn
<1> QED
    BY <1>3, <1>4, <1>5

-----------------------------------------------------------------------------
(* The bitmap.                                                             *)

\* The bitmap that there will be is of documents of D, and its epoch is
\* higher by one at most, if there was none.
BitmapOf(D) ==
    /\ bitmaps' \in [1..MaxBitmaps -> SUBSET D]
    /\ \E e \in Nat, t \in Nat :
           /\ epoch' = e /\ slot' = t
           /\ t \in {0, e + 1} /\ e + 1 <= MaxBitmaps
           /\ e + (IF t = 0 THEN 1 ELSE 0) <= epoch + (IF slot = 0 THEN 1 ELSE 0)
           /\ t = 0 => slot = 0

\* The numbers of bitmaps, and room for one more where there is none.
LEMMA BitmapNumbers ==
    ASSUME IndexInv
    PROVE  /\ epoch \in Nat /\ slot \in Nat /\ MaxBitmaps \in Nat
           /\ slot \in {0, epoch + 1} /\ epoch + 1 <= MaxBitmaps
           /\ slot = 0 => epoch + 2 <= MaxBitmaps
           /\ holder \in {"merge", "forget"} /\ slot # 0 =>
                  epoch + 3 <= MaxBitmaps
           /\ bitmaps \in [1..MaxBitmaps -> SUBSET Deletes]
           /\ delmap \subseteq Deletes
<1>1. MaxMerges \in Nat /\ merges \in 0..MaxMerges
    BY BoundsAssumption DEF IndexInv, MoreTypes
<1> QED
    BY <1>1 DEF IndexInv, TypeOK, MoreTypes, EpochBound, MaxBitmaps

\* change_bitmap loads or creates the bitmap and changes what it marks.
LEMMA ChangedBitmap ==
    ASSUME IndexInv, NEW gained, NEW lost, NEW D, Deletes \cup gained \subseteq D,
           ChangeBitmap(gained, lost)
    PROVE  /\ BitmapOf(D) /\ slot' # 0
           /\ bitmaps'[slot'] = (WrittenMarks \ lost) \cup gained
<1>1. CASE slot # 0
    BY <1>1, BitmapNumbers DEF ChangeBitmap, BitmapOf, WrittenMarks, Marks
<1>2. CASE slot = 0 /\ delmap # {}
    BY <1>2, BitmapNumbers DEF ChangeBitmap, BitmapOf, WrittenMarks, Marks
<1>3. CASE slot = 0 /\ delmap = {}
    BY <1>3, BitmapNumbers
       DEF ChangeBitmap, Create, Install, BitmapOf, WrittenMarks, Marks
<1> QED
    BY <1>1, <1>2, <1>3

\* Loading the bitmap changes nothing that it marks.
LEMMA LoadedBitmap ==
    ASSUME IndexInv, LoadBitmap
    PROVE  /\ BitmapOf(Deletes)
           /\ WrittenMarks = IF slot' # 0 THEN bitmaps'[slot'] ELSE delmap
<1>1. CASE slot = 0 /\ delmap # {}
    BY <1>1, BitmapNumbers DEF LoadBitmap, BitmapOf, WrittenMarks, Marks
<1>2. CASE ~(slot = 0 /\ delmap # {})
    BY <1>2, BitmapNumbers
       DEF LoadBitmap, BitmapOf, WrittenMarks, Marks, bitmapVars
<1> QED
    BY <1>1, <1>2

\* A bitmap that is left as it is.
LEMMA SameBitmap ==
    ASSUME IndexInv, UNCHANGED bitmapVars
    PROVE  /\ BitmapOf(Deletes)
           /\ WrittenMarks = IF slot' # 0 THEN bitmaps'[slot'] ELSE delmap
BY BitmapNumbers DEF BitmapOf, WrittenMarks, Marks, bitmapVars

-----------------------------------------------------------------------------
(* Steps beside the index.                                                 *)

\* A step that changes nothing of the index, but may load its bitmap.
LEMMA QuietStep ==
    ASSUME IndexInv, BitmapOf(Deletes),
           WrittenMarks = (IF slot' # 0 THEN bitmaps'[slot'] ELSE delmap),
           UNCHANGED <<up, log, appended, buffer, writer, segs, ckpt, nextId,
                       pending, manifest, files, delmap, holder, call, full,
                       frozen, hasFrozen, sources, merges>>,
           clearing' \subseteq clearing,
           acked' \cup UNION returning' \subseteq Puts,
           hasSearcher' \in BOOLEAN,
           ~up => bpc' = bpc /\ UNCHANGED <<slot, epoch>>
    PROVE  IndexInv'
<1>1. Puts' = Puts /\ Deletes' = Deletes /\ Last' = Last
    BY WholeLog DEF Last
<1> PICK e \in Nat, t \in Nat :
        /\ epoch' = e /\ slot' = t
        /\ t \in {0, e + 1} /\ e + 1 <= MaxBitmaps
        /\ e + (IF t = 0 THEN 1 ELSE 0) <= epoch + (IF slot = 0 THEN 1 ELSE 0)
        /\ t = 0 => slot = 0
    BY DEF BitmapOf
<1>2. TypeOK'
    BY <1>1 DEF IndexInv, TypeOK, BitmapOf
<1>3. MoreTypes'
    BY <1>1 DEF IndexInv, MoreTypes, BitmapOf
<1>4. EpochBound'
    BY BoundsAssumption DEF IndexInv, EpochBound, MoreTypes
<1>5. Closed' /\ Phases'
    BY DEF IndexInv, Closed, Phases, MemoryDocs, AllIdle
<1>6. WrittenMarks' = WrittenMarks
    BY DEF WrittenMarks, Marks
<1>7. AppliedOnly' /\ MemoryExact'
    BY <1>1, <1>6 DEF IndexInv, AppliedOnly, MemoryExact, Applied, MemoryDocs
<1>8. WriterAbove' /\ MarksSaved' /\ DiskCovers'
    BY <1>1, <1>6 DEF IndexInv, WriterAbove, MarksSaved, DiskCovers, MemoryDocs,
                DiskDocs
<1> QED
    BY <1>2, <1>3, <1>4, <1>5, <1>7, <1>8 DEF IndexInv

\* A build changes nothing of the index, but may load its bitmap.
LEMMA BuildStep ==
    ASSUME IndexInv, NEW b \in Builds, Build(b)
    PROVE  IndexInv'
<1> USE DEF elsewhere, logVars, writerVars, managerVars, diskVars, holderVars,
            returnVars, countVars, cacheVars, searcherVars
<1>1. UNCHANGED <<up, log, appended, buffer, writer, segs, ckpt, nextId,
                  pending, manifest, files, delmap, holder, call, full, frozen,
                  hasFrozen, sources, merges, clearing, acked, returning>>
    BY DEF Build, StartBuild, ReadEpoch, CompareEpoch, MoveEpoch, ReadBitmap,
           LoadReader, LoadFails, CheckEpoch
<1>2. /\ BitmapOf(Deletes)
      /\ WrittenMarks = IF slot' # 0 THEN bitmaps'[slot'] ELSE delmap
    <2>1. LoadBitmap \/ UNCHANGED bitmapVars
        BY DEF Build, StartBuild, ReadEpoch, CompareEpoch, MoveEpoch,
               ReadBitmap, LoadReader, LoadFails, CheckEpoch
    <2> QED
        BY <2>1, LoadedBitmap, SameBitmap
<1>3. up
    <2>1. bpc[b] # "idle" \/ up
        BY DEF Build, StartBuild, ReadEpoch, CompareEpoch, MoveEpoch,
               ReadBitmap, LoadReader, LoadFails, CheckEpoch, Turn, EndBuild
    <2> QED
        BY <2>1 DEF IndexInv, Closed, AllIdle
<1>4. hasSearcher' \in BOOLEAN
    <2>1. hasSearcher' = hasSearcher \/ hasSearcher' = TRUE
        BY DEF Build, StartBuild, ReadEpoch, CompareEpoch, MoveEpoch,
               ReadBitmap, LoadReader, LoadFails, CheckEpoch
    <2> QED
        BY <2>1 DEF IndexInv, TypeOK
<1>5. clearing' \subseteq clearing /\ acked' \cup UNION returning' \subseteq Puts
    BY <1>1 DEF IndexInv, TypeOK
<1> QED
    BY <1>1, <1>2, <1>3, <1>4, <1>5, QuietStep

-----------------------------------------------------------------------------
(* Mutations.                                                              *)

\* What every step may use of the log and the checkpoints.
LEMMA LogFacts ==
    ASSUME IndexInv
    PROVE  /\ log \in Seq(Record) /\ Shape(log) /\ Last \in Nat
           /\ Last = Len(log)
           /\ ckpt \in 0..Last /\ pending \in 0..Last
           /\ manifest.ckpt \in 0..Last
           /\ \A d \in Puts : d \in 1..Last
           /\ Deletes \subseteq Puts
           /\ \A n \in 0..Last :
                  /\ PutsTo(log, n) \subseteq Puts /\ DeletesTo(log, n) \subseteq Deletes
                  /\ \A d \in PutsTo(log, n) : d \in 1..n
                  /\ DeletesTo(log, n) \subseteq PutsTo(log, n)
                  /\ \A d \in Puts : d \in 1..n => d \in PutsTo(log, n)
<1>1. /\ log \in Seq(Record) /\ Shape(log) /\ Last \in Nat /\ Last = Len(log)
      /\ ckpt \in 0..Last /\ pending \in 0..Last
      /\ manifest.ckpt \in 0..Last
    BY DEF IndexInv, TypeOK, Last
<1> QED
    BY <1>1, Prefixes, WholeLog

\* The segments' numbers.
LEMMA SegmentNumbers ==
    ASSUME IndexInv
    PROVE  /\ nextId \in Nat \ {0} /\ writer \in Nat /\ writer < nextId
           /\ segs \subseteq 0 .. nextId - 1
           /\ manifest.nextId \in Nat \ {0}
           /\ manifest.segs \subseteq 1 .. manifest.nextId - 1
           /\ up => /\ manifest.nextId <= nextId /\ segs \subseteq DOMAIN files
                    /\ DOMAIN files \subseteq 1 .. nextId - 1
<1>1. /\ nextId \in Nat \ {0} /\ manifest.nextId \in Nat \ {0}
      /\ up => DOMAIN files \subseteq 1 .. nextId - 1
    BY DEF IndexInv, MoreTypes
<1>2. /\ segs \cup {writer} \subseteq 0 .. nextId - 1
      /\ manifest.segs \subseteq 1 .. manifest.nextId - 1
      /\ up => manifest.nextId <= nextId /\ segs \subseteq DOMAIN files
    BY DEF IndexInv, TypeOK
<1> QED
    BY <1>1, <1>2

\* A put.
LEMMA PutStep ==
    ASSUME IndexInv, Put
    PROVE  IndexInv'
<1> USE DEF diskVars, holderVars, buildVars, searcherVars, returnVars,
            countVars
<1>1. /\ up /\ holder = "free"
      /\ buffer' = buffer \cup {Last + 1}
      /\ UNCHANGED <<up, appended, clearing, segs, ckpt, pending, manifest,
                     files, delmap, holder, call, full, frozen, hasFrozen,
                     sources, bpc, hasSearcher, acked, returning, merges>>
    BY DEF Put
<1>2. /\ BitmapOf(Deletes) /\ slot' # 0
      /\ bitmaps'[slot'] = WrittenMarks
    <2>1. ChangeBitmap({}, {})
        BY DEF Put
    <2> QED
        BY <2>1, ChangedBitmap
<1> PICK e \in Nat, t \in Nat :
        /\ epoch' = e /\ slot' = t
        /\ t \in {0, e + 1} /\ e + 1 <= MaxBitmaps
        /\ e + (IF t = 0 THEN 1 ELSE 0) <= epoch + (IF slot = 0 THEN 1 ELSE 0)
        /\ t = 0 => slot = 0
    BY <1>2 DEF BitmapOf
<1>3. /\ log' \in Seq(Record) /\ Shape(log') /\ Last' = Last + 1
      /\ Last + 1 <= MaxSeq
      /\ Puts' = Puts \cup {Last + 1} /\ Deletes' = Deletes
      /\ \A n \in 0..Last : /\ PutsTo(log', n) = PutsTo(log, n)
                            /\ DeletesTo(log', n) = DeletesTo(log, n)
    <2> DEFINE r == [op |-> "put", doc |-> Last + 1]
    <2>1. r \in Record /\ Last < MaxSeq
        BY LogFacts, BoundsAssumption DEF Put, Record, Docs
    <2>2. log' = Append(log, r)
        BY DEF Put
    <2>3. r.op = "put" /\ r.doc = Len(log) + 1
        BY LogFacts
    <2> HIDE DEF r
    <2>4. /\ log' \in Seq(Record) /\ Shape(log')
          /\ Len(log') = Len(log) + 1
          /\ \A n \in 0..Len(log) : /\ PutsTo(log', n) = PutsTo(log, n)
                                    /\ DeletesTo(log', n) = DeletesTo(log, n)
          /\ PutsTo(log', Len(log')) = PutsTo(log, Len(log))
                 \cup IF r.op = "put" THEN {r.doc} ELSE {}
          /\ DeletesTo(log', Len(log')) = DeletesTo(log, Len(log))
                 \cup IF r.op = "delete" THEN {r.doc} ELSE {}
        <3>1. log \in Seq(Record) /\ Shape(log)
            BY LogFacts
        <3>2. /\ log' \in {Append(log, r)}
              /\ r.op = "put" => r.doc = Len(log) + 1
              /\ r.op = "delete" => r.doc \in PutsTo(log, Len(log))
            BY <2>2, <2>3
        <3> QED
            BY <2>1, <3>1, <3>2, Appended, Zenon
    <2> QED
        BY <2>1, <2>3, <2>4, LogFacts, WholeLog, BoundsAssumption DEF Last
<1>4. nextId \in Nat \ {0} /\ writer \in Nat /\ writer < nextId
    BY SegmentNumbers
<1> PICK k \in Nat, w \in Nat :
        /\ nextId' = k /\ writer' = w
        /\ nextId <= k /\ w # 0 /\ w < k
        /\ w = writer \/ w = nextId
    <2>1. CASE writer = 0
        BY <1>4, <2>1 DEF Put
    <2>2. CASE writer # 0
        BY <1>4, <2>2 DEF Put
    <2> QED
        BY <2>1, <2>2
<1>5. Last + 1 \notin Puts /\ Last + 1 > ckpt
    BY LogFacts
<1> HIDE DEF Last
<1>6. TypeOK'
    <2>1. /\ {up, full, hasFrozen, hasSearcher}' \subseteq BOOLEAN
          /\ (log \in Seq(Record))' /\ Last' <= MaxSeq
          /\ (appended \cup clearing \subseteq Deletes)'
          /\ (buffer \cup acked \cup UNION returning \subseteq Puts)'
          /\ (\A s \in DOMAIN files : files[s] \subseteq Puts)'
          /\ (delmap \subseteq Deletes)'
        BY <1>1, <1>3 DEF IndexInv, TypeOK
    <2>2. /\ (segs \cup {writer} \subseteq 0 .. nextId - 1)'
          /\ (manifest.segs \subseteq 1 .. manifest.nextId - 1)'
          /\ (up => manifest.nextId <= nextId /\ segs \subseteq DOMAIN files)'
        BY <1>1, <1>4, SegmentNumbers
    <2>3. /\ (ckpt \in 0..Last /\ pending \in 0..Last)'
          /\ (manifest.ckpt \in 0..Last)'
        BY <1>1, <1>3, LogFacts
    <2>4. /\ (epoch + 1 <= MaxBitmaps /\ slot \in {0, epoch + 1})'
          /\ (\A b \in DOMAIN bitmaps : bitmaps[b] \subseteq Deletes)'
        BY <1>2, <1>3 DEF BitmapOf
    <2>5. /\ (holder \in Steps /\ call \in {"commit", "optimize"})'
          /\ (sources \subseteq segs \/ holder = "forget")'
          /\ (frozen \subseteq Deletes)'
        BY <1>1, <1>3 DEF IndexInv, TypeOK
    <2> QED
        BY <1>4, <2>1, <2>2, <2>3, <2>4, <2>5 DEF TypeOK
<1>7. MoreTypes'
    BY <1>1, <1>2, <1>3, <1>4 DEF IndexInv, MoreTypes, BitmapOf
<1>8. EpochBound'
    BY <1>1, BoundsAssumption DEF IndexInv, EpochBound, MoreTypes
<1>9. Closed' /\ Phases'
    BY <1>1 DEF Closed, Phases, Flushing
<1>10. WrittenMarks' = WrittenMarks
    BY <1>2 DEF WrittenMarks, Marks
<1>11. AppliedOnly'
    BY <1>1, <1>3, <1>10, LogFacts DEF IndexInv, AppliedOnly
<1>12. MemoryExact'
    BY <1>1, <1>3, <1>5, <1>10, LogFacts
       DEF IndexInv, MemoryExact, Applied, MemoryDocs
<1>13. WriterAbove'
    BY <1>1, <1>4, <1>5 DEF IndexInv, WriterAbove, MoreTypes
<1>14. MarksSaved' /\ DiskCovers'
    <2>1. MemoryDocs' = MemoryDocs /\ DiskDocs' = DiskDocs
        BY <1>1 DEF MemoryDocs, DiskDocs
    <2>2. \A n \in {ckpt, pending, manifest.ckpt} :
              /\ PutsTo(log', n) = PutsTo(log, n)
              /\ DeletesTo(log', n) = DeletesTo(log, n)
        BY <1>3, LogFacts
    <2>3. MarksSaved'
        BY <1>1, <1>10, <2>1, <2>2 DEF IndexInv, MarksSaved
    <2> QED
        BY <1>1, <1>3, <2>1, <2>2, <2>3 DEF IndexInv, DiskCovers
<1> QED
    BY <1>3, <1>6, <1>7, <1>8, <1>9, <1>11, <1>12, <1>13, <1>14 DEF IndexInv

\* A delete's append.
LEMMA AppendDeleteStep ==
    ASSUME IndexInv, NEW d \in Docs, AppendDelete(d)
    PROVE  IndexInv'
<1> USE DEF writerVars, managerVars, diskVars, bitmapVars, holderVars,
            buildVars, searcherVars, returnVars, countVars
<1>1. /\ up /\ d \in Puts /\ d \notin Deletes
      /\ appended' = appended \cup {d}
      /\ UNCHANGED <<up, clearing, buffer, writer, segs, ckpt, nextId, pending,
                     manifest, files, delmap, slot, bitmaps, epoch, holder,
                     call, full, frozen, hasFrozen, sources, bpc, hasSearcher,
                     acked, returning, merges>>
    BY DEF AppendDelete
<1>2. /\ log' \in Seq(Record) /\ Shape(log') /\ Last' = Last + 1
      /\ Last + 1 <= MaxSeq
      /\ Puts' = Puts /\ Deletes' = Deletes \cup {d}
      /\ \A n \in 0..Last : /\ PutsTo(log', n) = PutsTo(log, n)
                            /\ DeletesTo(log', n) = DeletesTo(log, n)
    <2> DEFINE r == [op |-> "delete", doc |-> d]
    <2>1. r \in Record /\ Last < MaxSeq
        BY LogFacts DEF AppendDelete, Record
    <2>2. log' = Append(log, r)
        BY DEF AppendDelete
    <2>3. r.op = "delete" /\ r.doc = d /\ d \in PutsTo(log, Len(log))
        BY <1>1, LogFacts, WholeLog
    <2> HIDE DEF r
    <2>4. /\ log' \in Seq(Record) /\ Shape(log')
          /\ Len(log') = Len(log) + 1
          /\ \A n \in 0..Len(log) : /\ PutsTo(log', n) = PutsTo(log, n)
                                    /\ DeletesTo(log', n) = DeletesTo(log, n)
          /\ PutsTo(log', Len(log')) = PutsTo(log, Len(log))
                 \cup IF r.op = "put" THEN {r.doc} ELSE {}
          /\ DeletesTo(log', Len(log')) = DeletesTo(log, Len(log))
                 \cup IF r.op = "delete" THEN {r.doc} ELSE {}
        <3>1. log \in Seq(Record) /\ Shape(log)
            BY LogFacts
        <3>2. /\ log' \in {Append(log, r)}
              /\ r.op = "put" => r.doc = Len(log) + 1
              /\ r.op = "delete" => r.doc \in PutsTo(log, Len(log))
            BY <2>2, <2>3
        <3> QED
            BY <2>1, <3>1, <3>2, Appended, Zenon
    <2> QED
        BY <2>1, <2>3, <2>4, LogFacts, WholeLog, BoundsAssumption DEF Last
<1> HIDE DEF Last
<1>3. TypeOK'
    <2>1. /\ (ckpt \in 0..Last /\ pending \in 0..Last)'
          /\ (manifest.ckpt \in 0..Last)'
        BY <1>1, <1>2, LogFacts
    <2> QED
        BY <1>1, <1>2, <2>1 DEF IndexInv, TypeOK
<1>4. MoreTypes' /\ EpochBound' /\ Closed' /\ Phases'
    BY <1>1, <1>2
       DEF IndexInv, MoreTypes, EpochBound, Closed, Phases, MemoryDocs
<1>5. WrittenMarks' = WrittenMarks /\ WrittenMarks \subseteq Deletes
    BY <1>1, BitmapNumbers DEF WrittenMarks, Marks
<1>6. AppliedOnly'
    BY <1>1, <1>2, <1>5, LogFacts DEF IndexInv, AppliedOnly, TypeOK
<1>7. MemoryExact'
    BY <1>1, <1>2, <1>5 DEF IndexInv, MemoryExact, Applied, MemoryDocs
<1>8. WriterAbove'
    BY <1>1 DEF IndexInv, WriterAbove
<1>9. MarksSaved' /\ DiskCovers'
    BY <1>1, <1>2, <1>5, LogFacts
       DEF IndexInv, MarksSaved, DiskCovers, MemoryDocs, DiskDocs
<1> QED
    BY <1>2, <1>3, <1>4, <1>6, <1>7, <1>8, <1>9 DEF IndexInv

\* A delete reaches the bitmap.
LEMMA MarkDeletedStep ==
    ASSUME IndexInv, NEW d \in Docs, MarkDeleted(d)
    PROVE  IndexInv'
<1> USE DEF writerVars, managerVars, diskVars, holderVars, buildVars,
            searcherVars, returnVars, countVars
<1>1. /\ d \in appended
      /\ appended' = appended \ {d} /\ clearing' = clearing \cup {d}
      /\ UNCHANGED <<up, log, buffer, writer, segs, ckpt, nextId, pending,
                     manifest, files, delmap, holder, call, full, frozen,
                     hasFrozen, sources, bpc, hasSearcher, acked,
                     returning, merges>>
    BY DEF MarkDeleted
<1>2. up /\ d \in Deletes
    BY <1>1 DEF IndexInv, Closed, TypeOK
<1>3. /\ BitmapOf(Deletes) /\ slot' # 0
      /\ bitmaps'[slot'] = WrittenMarks \cup {d}
    BY <1>2, ChangedBitmap DEF MarkDeleted
<1> PICK e \in Nat, t \in Nat :
        /\ epoch' = e /\ slot' = t
        /\ t \in {0, e + 1} /\ e + 1 <= MaxBitmaps
        /\ e + (IF t = 0 THEN 1 ELSE 0) <= epoch + (IF slot = 0 THEN 1 ELSE 0)
        /\ t = 0 => slot = 0
    BY <1>3 DEF BitmapOf
<1>4. Puts' = Puts /\ Deletes' = Deletes /\ Last' = Last
    BY <1>1, WholeLog DEF Last
<1>5. TypeOK'
    BY <1>1, <1>2, <1>3, <1>4 DEF IndexInv, TypeOK, BitmapOf
<1>6. MoreTypes'
    BY <1>1, <1>3, <1>4 DEF IndexInv, MoreTypes, BitmapOf
<1>7. EpochBound'
    BY <1>1, BoundsAssumption DEF IndexInv, EpochBound, MoreTypes
<1>8. Closed' /\ Phases'
    BY <1>1, <1>2 DEF IndexInv, Closed, Phases, MemoryDocs
<1>9. WrittenMarks' = WrittenMarks \cup {d}
    BY <1>3 DEF WrittenMarks, Marks
<1>10. AppliedOnly'
    BY <1>1, <1>4, <1>9 DEF IndexInv, AppliedOnly
<1>11. MemoryExact'
    BY <1>1, <1>2, <1>4, <1>9 DEF IndexInv, MemoryExact, Applied, MemoryDocs
<1>12. WriterAbove' /\ MarksSaved' /\ DiskCovers'
    BY <1>1, <1>4, <1>9
       DEF IndexInv, WriterAbove, MarksSaved, DiskCovers, MemoryDocs, DiskDocs
<1> QED
    BY <1>1, <1>5, <1>6, <1>7, <1>8, <1>10, <1>11, <1>12 DEF IndexInv

\* A delete's return.
LEMMA FinishDeleteStep ==
    ASSUME IndexInv, NEW d \in Docs, FinishDelete(d)
    PROVE  IndexInv'
<1> USE DEF writerVars, managerVars, diskVars, bitmapVars, holderVars,
            buildVars, returnVars, countVars
<1>1. /\ UNCHANGED <<up, log, appended, buffer, writer, segs, ckpt, nextId,
                     pending, manifest, files, delmap, holder, call, full,
                     frozen, hasFrozen, sources, merges>>
      /\ bpc' = bpc /\ UNCHANGED <<slot, epoch>>
      /\ clearing' \subseteq clearing /\ UNCHANGED <<acked, returning>>
      /\ hasSearcher' = FALSE
      /\ UNCHANGED bitmapVars
    BY DEF FinishDelete, DropSearcher
<1>2. acked' \cup UNION returning' \subseteq Puts
    BY <1>1 DEF IndexInv, TypeOK
<1> QED
    BY <1>1, <1>2, SameBitmap, QuietStep

\* The return of a commit or of another call.
LEMMA ReturnStep ==
    ASSUME IndexInv, Refresh \/ \E covered \in returning : Return(covered)
    PROVE  IndexInv'
<1> USE DEF logVars, writerVars, managerVars, diskVars, bitmapVars, holderVars,
            returnVars, buildVars, countVars
<1>1. /\ UNCHANGED <<up, log, appended, buffer, writer, segs, ckpt, nextId,
                     pending, manifest, files, delmap, holder, call, full,
                     frozen, hasFrozen, sources, merges>>
      /\ bpc' = bpc /\ UNCHANGED <<slot, epoch>>
      /\ clearing' = clearing
      /\ hasSearcher' = FALSE
      /\ UNCHANGED bitmapVars
    BY DEF Return, Refresh, DropSearcher
<1>2. acked' \cup UNION returning' \subseteq acked \cup UNION returning
    BY DEF Return, Refresh
<1>3. acked \cup UNION returning \subseteq Puts
    BY DEF IndexInv, TypeOK
<1>4. /\ BitmapOf(Deletes)
      /\ WrittenMarks = IF slot' # 0 THEN bitmaps'[slot'] ELSE delmap
    BY <1>1, SameBitmap
<1> QED
    BY <1>1, <1>2, <1>3, <1>4, QuietStep

-----------------------------------------------------------------------------
(* Commits and optimizations.                                              *)

\* A commit or optimization runs in an open index only.
LEMMA HolderOpen ==
    ASSUME IndexInv, holder # "free"
    PROVE  up
BY DEF IndexInv, Closed

\* A step that writes nothing: it may drop the writer once its documents are
\* in a segment, take a number for the next checkpoint, or end a merge.
LEMMA HolderStep ==
    ASSUME IndexInv, up,
           UNCHANGED <<up, log, appended, clearing, segs, ckpt, nextId,
                       manifest, files, delmap, slot, bitmaps, epoch, merges>>,
           holder' \in {"free", "flush", "persist", "choose", "done", "failed"},
           call' \in {"commit", "optimize"},
           pending' \in 0..Last, DeletesTo(log, pending') \cap appended = {},
           \/ buffer' = buffer /\ writer' = writer
           \/ buffer' = {} /\ writer' = 0 /\ buffer \subseteq MemoryDocs,
           holder' \in Flushing => buffer' = {},
           \/ UNCHANGED <<full, frozen, hasFrozen, sources>> /\ holder # "forget"
           \/ EndMerge,
           acked' \cup UNION returning' \subseteq Puts, hasSearcher' \in BOOLEAN
    PROVE  IndexInv'
<1>1. Puts' = Puts /\ Deletes' = Deletes /\ Last' = Last
    BY WholeLog DEF Last
<1>2. /\ {full', hasFrozen'} \subseteq BOOLEAN
      /\ frozen' \subseteq Deletes /\ frozen' \cap appended = {}
      /\ sources' \subseteq segs
    BY DEF EndMerge, IndexInv, TypeOK, AppliedOnly
<1>3. /\ buffer' \subseteq buffer /\ writer' \in {0, writer}
      /\ buffer' # {} => writer' # 0
      /\ buffer \cup MemoryDocs = buffer' \cup MemoryDocs
    BY DEF IndexInv, TypeOK
<1>4. 0 \notin DOMAIN files
    BY SegmentNumbers
<1>5. TypeOK'
    <2>1. (segs \cup {writer} \subseteq 0 .. nextId - 1)'
        BY <1>3, SegmentNumbers
    <2> QED
        BY <1>1, <1>2, <1>3, <2>1 DEF IndexInv, TypeOK, Steps
<1>6. MoreTypes'
    BY <1>1, <1>2, SegmentNumbers DEF IndexInv, MoreTypes, TypeOK
<1>7. EpochBound'
    BY BoundsAssumption DEF IndexInv, EpochBound, MoreTypes
<1>8. Closed' /\ Phases'
    BY DEF Closed, Phases
<1>9. WrittenMarks' = WrittenMarks /\ MemoryDocs' = MemoryDocs
    BY DEF WrittenMarks, Marks, MemoryDocs
<1>10. AppliedOnly'
    BY <1>2, <1>9 DEF IndexInv, AppliedOnly
<1>11. MemoryExact'
    BY <1>1, <1>3, <1>9 DEF IndexInv, MemoryExact, Applied
<1>12. WriterAbove'
    BY <1>4 DEF IndexInv, WriterAbove
<1>13. MarksSaved' /\ DiskCovers'
    BY <1>1, <1>9 DEF IndexInv, MarksSaved, DiskCovers, DiskDocs
<1> QED
    BY <1>5, <1>6, <1>7, <1>8, <1>10, <1>11, <1>12, <1>13 DEF IndexInv

\* The steps of that kind.
LEMMA HolderSteps ==
    ASSUME IndexInv,
           \/ StartCommit \/ StartOptimize \/ FlushNothing \/ InvalidateSealed
           \/ PersistFails \/ ChooseNothing \/ ForgetFails \/ Release
    PROVE  IndexInv'
<1> USE DEF logVars, writerVars, managerVars, diskVars, bitmapVars, holderVars,
            cacheVars, buildVars, searcherVars, returnVars, countVars, Step
<1>1. /\ UNCHANGED <<up, log, appended, clearing, segs, ckpt, nextId, manifest,
                     files, delmap, slot, bitmaps, epoch, merges>>
    BY DEF StartCommit, StartOptimize, FlushNothing, InvalidateSealed,
           PersistFails, ChooseNothing, ForgetFails, Release
<1>2. up
    BY HolderOpen DEF StartCommit, StartOptimize, FlushNothing,
                      InvalidateSealed, PersistFails, ChooseNothing,
                      ForgetFails, Release
<1>3. /\ holder' \in {"free", "flush", "persist", "choose", "done", "failed"}
      /\ call' \in {"commit", "optimize"}
    BY DEF StartCommit, StartOptimize, FlushNothing, InvalidateSealed,
           PersistFails, ChooseNothing, ForgetFails, Release, Flushed,
           MergeFailed, IndexInv, TypeOK
<1>4. pending' \in 0..Last /\ DeletesTo(log, pending') \cap appended = {}
    <2>1. CASE StartCommit
        <3>1. PICK n \in 0..Last : IsWatermark(n) /\ pending' = Larger(pending, n)
            BY <2>1 DEF StartCommit
        <3>2. DeletesTo(log, n) \cap appended = {}
            BY <3>1 DEF IsWatermark, DeletesIn, DeletesTo
        <3> QED
            BY <3>1, <3>2, LogFacts DEF Larger, IndexInv, AppliedOnly
    <2>2. CASE ~StartCommit
        <3>1. pending' = pending
            BY <2>2 DEF StartOptimize, FlushNothing, InvalidateSealed,
                        PersistFails, ChooseNothing, ForgetFails, Release
        <3> QED
            BY <3>1, LogFacts DEF IndexInv, AppliedOnly
    <2> QED
        BY <2>1, <2>2
<1>5. holder = "sealed" => buffer \subseteq MemoryDocs
    BY DEF IndexInv, Phases, MemoryDocs
<1>6. /\ \/ buffer' = buffer /\ writer' = writer
         \/ buffer' = {} /\ writer' = 0 /\ buffer \subseteq MemoryDocs
      /\ holder' \in Flushing => buffer' = {}
    BY <1>5 DEF StartCommit, StartOptimize, FlushNothing, InvalidateSealed,
                PersistFails, ChooseNothing, ForgetFails, Release, DropWriter,
                IndexInv, Phases, Flushing
<1>7. \/ UNCHANGED <<full, frozen, hasFrozen, sources>> /\ holder # "forget"
      \/ EndMerge
    BY DEF StartCommit, StartOptimize, FlushNothing, InvalidateSealed,
           PersistFails, ChooseNothing, ForgetFails, Release
<1>8. acked' \cup UNION returning' \subseteq Puts /\ hasSearcher' \in BOOLEAN
    BY DEF StartCommit, StartOptimize, FlushNothing, InvalidateSealed,
           PersistFails, ChooseNothing, ForgetFails, Release, IndexInv, TypeOK
<1> QED
    BY <1>1, <1>2, <1>3, <1>4, <1>6, <1>7, <1>8, HolderStep

\* The writer's documents go to its segment, which the manifest is told of,
\* or not.
LEMMA SealedDocs ==
    ASSUME IndexInv, Seal \/ SealUnsaved
    PROVE  /\ up /\ writer # 0
           /\ DOMAIN files' = DOMAIN files \cup {writer}
           /\ files'[writer] = buffer
           /\ \A s \in DOMAIN files : s # writer => files'[s] = files[s]
           /\ writer \in DOMAIN files => files[writer] \subseteq buffer
           /\ MemoryDocs' = MemoryDocs \cup buffer
           /\ \/ /\ manifest' = manifest
                 /\ DiskDocs \subseteq DiskDocs'
                 /\ DiskDocs' \subseteq DiskDocs \cup buffer
              \/ /\ manifest' =
                        [segs |-> segs', ckpt |-> ckpt, nextId |-> nextId]
                 /\ DiskDocs' = MemoryDocs'
<1> USE DEF diskVars, Step
<1>1. /\ holder = "flush" /\ buffer # {} /\ segs' = segs \cup {writer}
      /\ WriteSegment
      /\ UNCHANGED <<ckpt, nextId>>
      /\ \/ manifest' = manifest
         \/ manifest' = [segs |-> segs', ckpt |-> ckpt, nextId |-> nextId]
    BY DEF Seal, SealUnsaved, Saved, SaveFails, NewManifest
<1>2. up /\ writer # 0
    BY <1>1, HolderOpen DEF IndexInv, TypeOK
<1>3. /\ DOMAIN files' = DOMAIN files \cup {writer} /\ files'[writer] = buffer
      /\ \A s \in DOMAIN files : s # writer => files'[s] = files[s]
      /\ writer \in DOMAIN files => files[writer] \subseteq buffer
    BY <1>1 DEF WriteSegment, IndexInv, WriterAbove
<1>4. MemoryDocs' = MemoryDocs \cup buffer
    BY <1>1, <1>2, <1>3, SegmentNumbers DEF MemoryDocs
<1>5. CASE manifest' = manifest
    <2>1. manifest.segs \subseteq DOMAIN files
        BY DEF IndexInv, DiskCovers
    <2>2. DiskDocs \subseteq DiskDocs' /\ DiskDocs' \subseteq DiskDocs \cup buffer
        BY <1>3, <1>5, <2>1 DEF DiskDocs
    <2> QED
        BY <1>2, <1>3, <1>4, <1>5, <2>2
<1>6. CASE manifest' = [segs |-> segs', ckpt |-> ckpt, nextId |-> nextId]
    <2>1. DiskDocs' = MemoryDocs'
        BY <1>6 DEF DiskDocs, MemoryDocs
    <2> QED
        BY <1>2, <1>3, <1>4, <1>6, <2>1
<1> QED
    BY <1>1, <1>5, <1>6

\* A seal keeps the invariant.
LEMMA SealStep ==
    ASSUME IndexInv, Seal \/ SealUnsaved
    PROVE  IndexInv'
<1> USE DEF logVars, writerVars, managerVars, diskVars, bitmapVars, holderVars,
            cacheVars, buildVars, searcherVars, returnVars, countVars, Step
<1>1. /\ holder = "flush" /\ buffer # {} /\ segs' = segs \cup {writer}
      /\ holder' \in {"sealed", "failed"}
      /\ UNCHANGED <<up, log, appended, clearing, buffer, writer, ckpt, nextId,
                     pending, delmap, slot, bitmaps, epoch, call, full, frozen,
                     hasFrozen, sources, bpc, hasSearcher, acked,
                     returning, merges>>
    BY DEF Seal, SealUnsaved
<1>2. up /\ writer # 0
    BY SealedDocs
<1>3. /\ DOMAIN files' = DOMAIN files \cup {writer} /\ files'[writer] = buffer
      /\ \A s \in DOMAIN files : s # writer => files'[s] = files[s]
      /\ writer \in DOMAIN files => files[writer] \subseteq buffer
    BY SealedDocs
<1>4. MemoryDocs' = MemoryDocs \cup buffer
    BY SealedDocs
<1>5. \/ manifest' = manifest /\ DiskDocs \subseteq DiskDocs'
             /\ DiskDocs' \subseteq DiskDocs \cup buffer
      \/ /\ manifest' = [segs |-> segs', ckpt |-> ckpt, nextId |-> nextId]
         /\ DiskDocs' = MemoryDocs'
    BY SealedDocs
<1>6. Puts' = Puts /\ Deletes' = Deletes /\ Last' = Last
    BY <1>1, WholeLog DEF Last
<1>7. \A n \in 0..ckpt : DeletesTo(log, n) \cap buffer = {}
    BY LogFacts DEF IndexInv, WriterAbove
<1>8. /\ \A s \in DOMAIN files' : files'[s] \subseteq Puts
      /\ buffer \subseteq Puts
    BY <1>3 DEF IndexInv, TypeOK
<1>9. /\ segs' \cup {writer} \subseteq 0 .. nextId - 1
      /\ DOMAIN files' \subseteq 1 .. nextId - 1
      /\ segs' \subseteq DOMAIN files'
      /\ nextId \in Nat \ {0}
    BY <1>1, <1>2, <1>3, SegmentNumbers
<1>10. /\ manifest'.segs \subseteq 1 .. manifest'.nextId - 1
       /\ manifest'.nextId \in Nat \ {0} /\ manifest'.nextId <= nextId
       /\ manifest'.ckpt \in 0..Last /\ manifest'.ckpt <= ckpt
       /\ manifest'.segs \subseteq DOMAIN files'
    <2>1. CASE manifest' = manifest
        BY <1>2, <1>3, <2>1, SegmentNumbers, LogFacts
           DEF IndexInv, DiskCovers, MarksSaved
    <2>2. CASE manifest' = [segs |-> segs', ckpt |-> ckpt, nextId |-> nextId]
        BY <1>9, <2>2, LogFacts
    <2> QED
        BY <1>5, <2>1, <2>2
<1>11. TypeOK'
    <2>1. (sources \subseteq segs)'
        BY <1>1 DEF IndexInv, TypeOK
    <2> QED
        BY <1>1, <1>2, <1>6, <1>8, <1>9, <1>10, <2>1
           DEF IndexInv, TypeOK, Steps
<1>12. MoreTypes'
    BY <1>1, <1>6, <1>9, <1>10 DEF IndexInv, MoreTypes
<1>13. EpochBound'
    BY <1>1, BoundsAssumption DEF IndexInv, EpochBound, MoreTypes
<1>14. Closed' /\ Phases'
    BY <1>1, <1>2, <1>3 DEF Closed, Phases, Flushing, Seal, SealUnsaved
<1>15. WrittenMarks' = WrittenMarks
    BY <1>1 DEF WrittenMarks, Marks
<1>16. AppliedOnly'
    BY <1>1, <1>15 DEF IndexInv, AppliedOnly
<1>17. MemoryExact'
    BY <1>1, <1>4, <1>6, <1>15 DEF IndexInv, MemoryExact, Applied
<1>18. WriterAbove'
    BY <1>1, <1>3 DEF IndexInv, WriterAbove
<1>19. MarksSaved'
    <2>1. DeletesTo(log, ckpt) \cap MemoryDocs' \subseteq delmap
        BY <1>2, <1>4, <1>7, LogFacts DEF IndexInv, MarksSaved
    <2>2. DeletesTo(log, manifest'.ckpt) \cap DiskDocs' \subseteq WrittenMarks
        <3>1. CASE manifest' = manifest /\ DiskDocs' \subseteq DiskDocs \cup buffer
            <4>1. manifest.ckpt \in 0..ckpt
                BY <1>2, LogFacts DEF IndexInv, MarksSaved
            <4> QED
                BY <1>2, <1>7, <3>1, <4>1 DEF IndexInv, MarksSaved
        <3>2. CASE /\ manifest' = [segs |-> segs', ckpt |-> ckpt, nextId |-> nextId]
                   /\ DiskDocs' = MemoryDocs'
            <4>1. DeletesTo(log, ckpt) \subseteq Applied
                BY LogFacts DEF IndexInv, AppliedOnly, Applied
            <4> QED
                BY <1>2, <1>4, <3>2, <4>1 DEF IndexInv, MemoryExact
        <3> QED
            BY <1>5, <3>1, <3>2
    <2> QED
        BY <1>1, <1>10, <1>15, <2>1, <2>2 DEF MarksSaved
<1>20. DiskCovers'
    <2>1. CASE /\ manifest' = manifest /\ DiskDocs \subseteq DiskDocs'
               /\ DiskDocs' \subseteq DiskDocs \cup buffer
        <3>1. manifest.ckpt \in 0..ckpt
            BY <1>2, LogFacts DEF IndexInv, MarksSaved
        <3> QED
            BY <1>1, <1>6, <1>7, <1>10, <2>1, <3>1 DEF IndexInv, DiskCovers
    <2>2. CASE /\ manifest' = [segs |-> segs', ckpt |-> ckpt, nextId |-> nextId]
               /\ DiskDocs' = MemoryDocs'
        <3>1. PutsTo(log, ckpt) \ Deletes \subseteq MemoryDocs'
            BY <1>2, <1>4, LogFacts DEF IndexInv, MemoryExact, Applied
        <3>2. DeletesTo(log, ckpt) \cap MemoryDocs' \subseteq delmap
            BY <1>2, <1>4, <1>7, LogFacts DEF IndexInv, MarksSaved
        <3> QED
            BY <1>1, <1>6, <1>10, <2>2, <3>1, <3>2 DEF DiskCovers
    <2> QED
        BY <1>5, <2>1, <2>2
<1> QED
    BY <1>1, <1>11, <1>12, <1>13, <1>14, <1>16, <1>17, <1>18, <1>19, <1>20
       DEF IndexInv

\* The bitmap is written: what the next checkpoint covers is marked there.
LEMMA PersistStep ==
    ASSUME IndexInv, PersistMarks
    PROVE  IndexInv'
<1> USE DEF logVars, writerVars, managerVars, bitmapVars, holderVars,
            cacheVars, buildVars, searcherVars, returnVars, countVars, Step
<1>1. /\ holder = "persist" /\ holder' = "publish" /\ delmap' = WrittenMarks
      /\ UNCHANGED <<up, log, appended, clearing, buffer, writer, segs, ckpt,
                     nextId, pending, manifest, files, slot, bitmaps, epoch,
                     call, full, frozen, hasFrozen, sources, bpc, hasSearcher,
                     acked, returning, merges>>
    BY DEF PersistMarks
<1>2. up /\ buffer = {}
    BY <1>1, HolderOpen DEF IndexInv, Phases, Flushing
<1>3. Puts' = Puts /\ Deletes' = Deletes /\ Last' = Last
    BY <1>1, WholeLog DEF Last
<1>4. WrittenMarks' = WrittenMarks /\ WrittenMarks \subseteq Deletes
    BY <1>1, BitmapNumbers DEF WrittenMarks, Marks
<1>5. TypeOK'
    BY <1>1, <1>3, <1>4 DEF IndexInv, TypeOK, Steps
<1>6. MoreTypes' /\ EpochBound' /\ Closed' /\ Phases'
    BY <1>1, <1>2, <1>3
       DEF IndexInv, MoreTypes, EpochBound, Closed, Phases
<1>7. AppliedOnly' /\ MemoryExact' /\ WriterAbove'
    BY <1>1, <1>3, <1>4
       DEF IndexInv, AppliedOnly, MemoryExact, Applied, MemoryDocs, WriterAbove
<1>8. MemoryDocs' = MemoryDocs /\ DiskDocs' = DiskDocs
    BY <1>1 DEF MemoryDocs, DiskDocs
<1>9. /\ DeletesTo(log, ckpt) \subseteq Applied
      /\ DeletesTo(log, pending) \subseteq Applied
      /\ Applied \cap MemoryDocs \subseteq WrittenMarks
    BY <1>2, LogFacts DEF IndexInv, AppliedOnly, Applied, MemoryExact
<1>10. MarksSaved' /\ DiskCovers'
    BY <1>1, <1>2, <1>3, <1>4, <1>8, <1>9
       DEF IndexInv, MarksSaved, DiskCovers
<1> QED
    BY <1>1, <1>5, <1>6, <1>7, <1>10 DEF IndexInv

\* The checkpoint is published, or raised in memory only.
LEMMA PublishStep ==
    ASSUME IndexInv, Publish \/ PublishFails
    PROVE  IndexInv'
<1> USE DEF logVars, writerVars, managerVars, diskVars, bitmapVars, holderVars,
            cacheVars, buildVars, searcherVars, returnVars, countVars, Step
<1>1. /\ holder = "publish" /\ holder' \in {"choose", "failed"}
      /\ UNCHANGED <<up, log, appended, clearing, segs, nextId, pending,
                     files, delmap, slot, bitmaps, epoch, call, full, frozen,
                     hasFrozen, sources, bpc, hasSearcher, acked,
                     returning, merges>>
      /\ \/ buffer' = buffer /\ writer' = writer
         \/ buffer' = {} /\ writer' = 0
      /\ \/ ckpt' = ckpt /\ manifest' = manifest
         \/ ckpt' = pending /\ pending > ckpt /\ manifest' = manifest
         \/ /\ ckpt' = pending /\ pending > ckpt
            /\ manifest' = [segs |-> segs, ckpt |-> pending, nextId |-> nextId]
    BY DEF Publish, PublishFails, Saved, SaveFails, NewManifest, DropWriter
<1>2. /\ up /\ buffer = {} /\ buffer' = {}
      /\ writer' \in 0 .. nextId - 1
      /\ writer' \in DOMAIN files => writer' = writer
    BY <1>1, HolderOpen, SegmentNumbers DEF IndexInv, Phases, Flushing
<1>3. Puts' = Puts /\ Deletes' = Deletes /\ Last' = Last
    BY <1>1, WholeLog DEF Last
<1>4. WrittenMarks' = WrittenMarks /\ MemoryDocs' = MemoryDocs
    BY <1>1 DEF WrittenMarks, Marks, MemoryDocs
<1>5. /\ DeletesTo(log, pending) \cap MemoryDocs \subseteq delmap
      /\ DeletesTo(log, ckpt) \cap MemoryDocs \subseteq delmap
      /\ Puts \ Deletes \subseteq MemoryDocs
      /\ DeletesTo(log, pending) \cap MemoryDocs \subseteq WrittenMarks
    BY <1>1, <1>2, LogFacts
       DEF IndexInv, MarksSaved, MemoryExact, Applied, AppliedOnly
<1>6. ckpt' \in {ckpt, pending} /\ manifest.ckpt <= ckpt'
    BY <1>1, <1>2, LogFacts DEF IndexInv, MarksSaved
<1>7. \/ manifest' = manifest /\ DiskDocs' = DiskDocs
      \/ /\ manifest' = [segs |-> segs, ckpt |-> pending, nextId |-> nextId]
         /\ DiskDocs' = MemoryDocs /\ ckpt' = pending
    BY <1>1 DEF DiskDocs, MemoryDocs
<1>8. /\ manifest'.segs \subseteq 1 .. manifest'.nextId - 1
      /\ manifest'.nextId \in Nat \ {0} /\ manifest'.nextId <= nextId
      /\ manifest'.ckpt \in 0..Last /\ manifest'.ckpt <= ckpt'
      /\ manifest'.segs \subseteq DOMAIN files
    <2>1. CASE manifest' = manifest
        BY <1>2, <1>6, <2>1, SegmentNumbers, LogFacts DEF IndexInv, DiskCovers
    <2>2. CASE /\ manifest' = [segs |-> segs, ckpt |-> pending, nextId |-> nextId]
               /\ ckpt' = pending
        BY <1>2, <2>2, SegmentNumbers, LogFacts
    <2> QED
        BY <1>7, <2>1, <2>2
<1>9. TypeOK'
    <2>1. (segs \cup {writer} \subseteq 0 .. nextId - 1)'
        BY <1>1, <1>2, SegmentNumbers
    <2>2. (ckpt \in 0..Last)'
        BY <1>1, <1>3, LogFacts
    <2>3. (sources \subseteq segs)'
        BY <1>1 DEF IndexInv, TypeOK
    <2> QED
        BY <1>1, <1>2, <1>3, <1>8, <2>1, <2>2, <2>3
           DEF IndexInv, TypeOK, Steps
<1>10. MoreTypes' /\ Closed' /\ Phases'
    BY <1>1, <1>2, <1>3, <1>8 DEF IndexInv, MoreTypes, Closed, Phases
<1>11. EpochBound'
    BY <1>1, BoundsAssumption DEF IndexInv, EpochBound, MoreTypes
<1>12. AppliedOnly'
    BY <1>1, <1>4, <1>6 DEF IndexInv, AppliedOnly
<1>13. MemoryExact' /\ WriterAbove'
    BY <1>1, <1>2, <1>3, <1>4
       DEF IndexInv, MemoryExact, Applied, WriterAbove
<1>14. MarksSaved'
    BY <1>1, <1>2, <1>4, <1>5, <1>6, <1>7, <1>8 DEF IndexInv, MarksSaved
<1>15. DiskCovers'
    BY <1>1, <1>3, <1>5, <1>7, <1>8, LogFacts DEF IndexInv, DiskCovers
<1> QED
    BY <1>1, <1>9, <1>10, <1>11, <1>12, <1>13, <1>14, <1>15 DEF IndexInv

\* A merge takes its window and a copy of the bitmap.
LEMMA ChooseStep ==
    ASSUME IndexInv, ChooseMerge
    PROVE  IndexInv'
<1> USE DEF logVars, writerVars, managerVars, diskVars, cacheVars, buildVars,
            searcherVars, returnVars, Step
<1>1. /\ holder = "choose" /\ holder' = "merge" /\ merges' = merges + 1
      /\ merges < MaxMerges
      /\ UNCHANGED <<up, log, appended, clearing, buffer, writer, segs, ckpt,
                     nextId, pending, manifest, files, delmap, call, bpc,
                     hasSearcher, acked, returning>>
      /\ full' \in BOOLEAN /\ hasFrozen' \in BOOLEAN
      /\ hasFrozen' = (slot' # 0)
      /\ frozen' = IF slot' = 0 THEN {} ELSE bitmaps'[slot']
      /\ sources' \in Windows(full')
    BY DEF ChooseMerge
<1>2. up /\ buffer = {}
    BY <1>1, HolderOpen DEF IndexInv, Phases, Flushing
<1>3. /\ BitmapOf(Deletes)
      /\ WrittenMarks = IF slot' # 0 THEN bitmaps'[slot'] ELSE delmap
    BY LoadedBitmap DEF ChooseMerge
<1> PICK e \in Nat, t \in Nat :
        /\ epoch' = e /\ slot' = t
        /\ t \in {0, e + 1} /\ e + 1 <= MaxBitmaps
        /\ e + (IF t = 0 THEN 1 ELSE 0) <= epoch + (IF slot = 0 THEN 1 ELSE 0)
        /\ t = 0 => slot = 0
    BY <1>3 DEF BitmapOf
<1>4. Puts' = Puts /\ Deletes' = Deletes /\ Last' = Last
    BY <1>1, WholeLog DEF Last
<1>5. /\ sources' \subseteq segs /\ (full' => sources' = segs)
      /\ ~hasFrozen' => frozen' = {}
    BY <1>1 DEF Windows
<1>6. frozen' \subseteq WrittenMarks /\ WrittenMarks \subseteq Deletes
    BY <1>1, <1>3, BitmapNumbers DEF WrittenMarks, Marks
<1>7. WrittenMarks' = WrittenMarks
    BY <1>1, <1>3 DEF WrittenMarks, Marks
<1>8. TypeOK'
    BY <1>1, <1>3, <1>4, <1>5, <1>6
       DEF IndexInv, TypeOK, Steps, BitmapOf
<1>9. MoreTypes'
    <2>1. (merges \in 0..MaxMerges)'
        BY <1>1, BoundsAssumption DEF IndexInv, MoreTypes
    <2> QED
        BY <1>1, <1>3, <1>4, <1>5, <2>1, SegmentNumbers
           DEF IndexInv, MoreTypes, BitmapOf
<1>10. EpochBound'
    BY <1>1, BoundsAssumption DEF IndexInv, EpochBound, MoreTypes
<1>11. Closed' /\ Phases'
    BY <1>1, <1>2, <1>5 DEF Closed, Phases
<1>12. AppliedOnly'
    BY <1>1, <1>6, <1>7 DEF IndexInv, AppliedOnly
<1>13. MemoryExact' /\ WriterAbove'
    BY <1>1, <1>4, <1>7
       DEF IndexInv, MemoryExact, Applied, MemoryDocs, WriterAbove
<1>14. MarksSaved' /\ DiskCovers'
    BY <1>1, <1>4, <1>7
       DEF IndexInv, MarksSaved, DiskCovers, MemoryDocs, DiskDocs
<1> QED
    BY <1>1, <1>8, <1>9, <1>10, <1>11, <1>12, <1>13, <1>14 DEF IndexInv

\* A merged segment in place of its sources loses what the copy of the bitmap
\* marks, and nothing that is to be held.
LEMMA MergedDocs ==
    ASSUME IndexInv, holder = "merge",
           segs' = (segs \ sources) \cup {nextId},
           files'[nextId] = Merged,
           \A s \in segs \ sources : files'[s] = files[s]
    PROVE  /\ MemoryDocs' \subseteq MemoryDocs
           /\ MemoryDocs \ frozen \subseteq MemoryDocs'
           /\ full => MemoryDocs' \cap frozen = {}
           /\ Merged \subseteq Puts
           /\ up /\ buffer = {}
           /\ Puts \ Applied \subseteq MemoryDocs'
           /\ Applied \cap MemoryDocs' \subseteq WrittenMarks
           /\ DeletesTo(log, ckpt) \subseteq Applied
           /\ PutsTo(log, ckpt) \ Deletes \subseteq MemoryDocs'
           /\ DeletesTo(log, ckpt) \cap MemoryDocs' \subseteq delmap
<1>1. /\ up /\ buffer = {} /\ sources \subseteq segs
      /\ full => sources = segs
    BY HolderOpen DEF IndexInv, Phases, Flushing
<1>2. nextId \notin segs
    BY SegmentNumbers
<1>3. MemoryDocs' = (UNION {files[s] : s \in segs \ sources}) \cup Merged
    BY DEF MemoryDocs
<1>4. /\ MemoryDocs' \subseteq MemoryDocs
      /\ MemoryDocs \ frozen \subseteq MemoryDocs'
      /\ full => MemoryDocs' \cap frozen = {}
    BY <1>1, <1>3 DEF MemoryDocs, Merged
<1>5. Merged \subseteq Puts
    BY <1>1, SegmentNumbers DEF IndexInv, TypeOK, Merged
<1>6. frozen \subseteq Applied /\ DeletesTo(log, ckpt) \subseteq Applied
    BY LogFacts DEF IndexInv, TypeOK, AppliedOnly, Applied
<1>7. /\ Puts \ Applied \subseteq MemoryDocs'
      /\ Applied \cap MemoryDocs' \subseteq WrittenMarks
    BY <1>1, <1>4, <1>6 DEF IndexInv, MemoryExact
<1>8. PutsTo(log, ckpt) \ Deletes \subseteq MemoryDocs'
    BY <1>7, LogFacts DEF Applied
<1>9. DeletesTo(log, ckpt) \cap MemoryDocs' \subseteq delmap
    BY <1>1, <1>4 DEF IndexInv, MarksSaved
<1> QED
    BY <1>1, <1>4, <1>5, <1>6, <1>7, <1>8, <1>9

\* A merge writes its segment and the manifest that names it.
LEMMA MergeStep ==
    ASSUME IndexInv, Merge
    PROVE  IndexInv'
<1> USE DEF logVars, writerVars, managerVars, diskVars, bitmapVars, holderVars,
            cacheVars, buildVars, searcherVars, returnVars, countVars, Step
<1> PICK deleted \in SUBSET sources : Replace(deleted)
    BY DEF Merge
<1>1. /\ holder = "merge" /\ segs' = (segs \ sources) \cup {nextId}
      /\ nextId' = nextId + 1
      /\ manifest' = [segs |-> segs', ckpt |-> ckpt, nextId |-> nextId + 1]
      /\ files' = [s \in (DOMAIN files \ deleted) \cup {nextId} |->
                       IF s = nextId THEN Merged ELSE files[s]]
      /\ UNCHANGED <<up, log, appended, clearing, buffer, writer, ckpt, pending,
                     delmap, slot, bitmaps, epoch, call, bpc, hasSearcher,
                     acked, returning, merges>>
    BY DEF Merge, Replace, Saved, NewManifest
<1>2. \/ /\ full /\ holder' = "forget"
         /\ UNCHANGED <<full, frozen, hasFrozen, sources>>
      \/ holder' = "done" /\ EndMerge
    BY DEF Merge
<1>3. /\ nextId \notin DOMAIN files /\ writer # nextId
      /\ segs \subseteq DOMAIN files /\ 0 \notin DOMAIN files
      /\ nextId \in Nat \ {0}
    BY <1>1, HolderOpen, SegmentNumbers
<1>4. /\ DOMAIN files' = (DOMAIN files \ deleted) \cup {nextId}
      /\ files'[nextId] = Merged
      /\ \A s \in DOMAIN files \ deleted : files'[s] = files[s]
      /\ deleted \subseteq sources
    BY <1>1, <1>3
<1>5. /\ MemoryDocs' \subseteq MemoryDocs
      /\ MemoryDocs \ frozen \subseteq MemoryDocs'
      /\ full => MemoryDocs' \cap frozen = {}
      /\ Merged \subseteq Puts
      /\ up /\ buffer = {}
      /\ Puts \ Applied \subseteq MemoryDocs'
      /\ Applied \cap MemoryDocs' \subseteq WrittenMarks
      /\ DeletesTo(log, ckpt) \subseteq Applied
      /\ PutsTo(log, ckpt) \ Deletes \subseteq MemoryDocs'
      /\ DeletesTo(log, ckpt) \cap MemoryDocs' \subseteq delmap
    <2>1. /\ holder = "merge" /\ segs' = (segs \ sources) \cup {nextId}
          /\ files'[nextId] = Merged
          /\ \A s \in segs \ sources : files'[s] = files[s]
        BY <1>1, <1>3, <1>4
    <2> QED
        BY <2>1, MergedDocs, Zenon
<1>6. DiskDocs' = MemoryDocs'
    BY <1>1 DEF DiskDocs, MemoryDocs
<1>7. Puts' = Puts /\ Deletes' = Deletes /\ Last' = Last
    BY <1>1, WholeLog DEF Last
<1>8. /\ (\A s \in DOMAIN files : files[s] \subseteq Puts)'
      /\ segs' \subseteq 1 .. nextId /\ segs' \subseteq DOMAIN files'
      /\ DOMAIN files' \subseteq 1 .. nextId
      /\ segs' \cup {writer} \subseteq 0 .. nextId
    <2>1. \A s \in DOMAIN files' : files'[s] \subseteq Puts
        BY <1>4, <1>5 DEF IndexInv, TypeOK
    <2>2. segs' \subseteq DOMAIN files'
        BY <1>1, <1>3, <1>4
    <2>3. DOMAIN files' \subseteq 1 .. nextId
        BY <1>3, <1>4, <1>5, SegmentNumbers
    <2> QED
        BY <1>3, <1>7, <2>1, <2>2, <2>3, SegmentNumbers
<1>9. /\ {full', hasFrozen'} \subseteq BOOLEAN /\ frozen' \in {frozen, {}}
      /\ sources' \in {sources, {}} /\ (holder' = "forget" \/ sources' = {})
      /\ holder' \in {"forget", "done"}
      /\ holder' = "forget" => full /\ frozen' = frozen
    BY <1>2 DEF EndMerge, IndexInv, TypeOK
<1>10. TypeOK'
    <2>1. /\ (segs \cup {writer} \subseteq 0 .. nextId - 1)'
          /\ (manifest.segs \subseteq 1 .. manifest.nextId - 1)'
          /\ (up => manifest.nextId <= nextId /\ segs \subseteq DOMAIN files)'
        BY <1>1, <1>3, <1>8
    <2>2. (manifest.ckpt \in 0..Last)'
        BY <1>1, <1>7, LogFacts
    <2> QED
        BY <1>1, <1>7, <1>8, <1>9, <2>1, <2>2 DEF IndexInv, TypeOK, Steps
<1>11. MoreTypes'
    <2>1. /\ (nextId \in Nat \ {0} /\ manifest.nextId \in Nat \ {0})'
          /\ (up => DOMAIN files \subseteq 1 .. nextId - 1)'
          /\ (DOMAIN files \subseteq Nat)'
        BY <1>1, <1>3, <1>8
    <2> QED
        BY <1>1, <1>7, <1>9, <2>1 DEF IndexInv, MoreTypes
<1>12. EpochBound'
    BY <1>1, <1>9, BoundsAssumption DEF IndexInv, EpochBound, MoreTypes
<1>13. Closed' /\ Phases'
    BY <1>1, <1>5, <1>9 DEF Closed, Phases
<1>14. WrittenMarks' = WrittenMarks
    BY <1>1 DEF WrittenMarks, Marks
<1>15. AppliedOnly'
    BY <1>1, <1>9, <1>14 DEF IndexInv, AppliedOnly
<1>16. MemoryExact'
    BY <1>1, <1>5, <1>7, <1>14 DEF MemoryExact, Applied
<1>17. WriterAbove'
    BY <1>1, <1>3, <1>4 DEF IndexInv, WriterAbove
<1>18. MarksSaved'
    BY <1>1, <1>5, <1>6, <1>9, <1>14, LogFacts DEF MarksSaved
<1>19. DiskCovers'
    BY <1>1, <1>5, <1>6, <1>7, <1>8 DEF DiskCovers
<1> QED
    BY <1>1, <1>10, <1>11, <1>12, <1>13, <1>15, <1>16, <1>17, <1>18, <1>19
       DEF IndexInv

\* A merge fails before its segment is written, or after it is registered in
\* memory.
LEMMA MergeFailsStep ==
    ASSUME IndexInv, MergeFails
    PROVE  IndexInv'
<1> USE DEF logVars, writerVars, managerVars, diskVars, bitmapVars, holderVars,
            cacheVars, buildVars, searcherVars, returnVars, countVars, Step
<1>1. /\ holder = "merge" /\ holder' \in {"done", "failed"}
      /\ nextId' = nextId + 1 /\ EndMerge
      /\ UNCHANGED <<up, log, appended, clearing, buffer, writer, ckpt, pending,
                     delmap, slot, bitmaps, epoch, call, bpc,
                     hasSearcher, acked, returning, merges>>
    BY DEF MergeFails, MergeFailed
<1>2. \/ UNCHANGED <<segs, files, manifest>>
      \/ /\ manifest' \in {manifest, [segs |-> segs', ckpt |-> ckpt,
                                      nextId |-> nextId + 1]}
         /\ segs' = (segs \ sources) \cup {nextId}
         /\ files' = [s \in DOMAIN files \cup {nextId} |->
                          IF s = nextId THEN Merged ELSE files[s]]
    BY <1>1 DEF MergeFails, Replace, SaveFails, NewManifest
<1>3. /\ up /\ buffer = {} /\ nextId \notin DOMAIN files /\ writer # nextId
      /\ segs \subseteq DOMAIN files /\ nextId \in Nat \ {0}
      /\ manifest.segs \subseteq DOMAIN files
    BY <1>1, HolderOpen, SegmentNumbers
       DEF IndexInv, Phases, Flushing, DiskCovers
<1>4. /\ DOMAIN files' \subseteq DOMAIN files \cup {nextId}
      /\ DOMAIN files \subseteq DOMAIN files'
      /\ \A s \in DOMAIN files : files'[s] = files[s]
    BY <1>2, <1>3
<1>5. /\ MemoryDocs' \subseteq MemoryDocs
      /\ Puts \ Applied \subseteq MemoryDocs'
      /\ Applied \cap MemoryDocs' \subseteq WrittenMarks
      /\ \A s \in DOMAIN files' : files'[s] \subseteq Puts
      /\ segs' \subseteq DOMAIN files' /\ segs' \subseteq 1 .. nextId
      /\ DeletesTo(log, ckpt) \subseteq Applied
      /\ PutsTo(log, ckpt) \ Deletes \subseteq MemoryDocs'
      /\ DeletesTo(log, ckpt) \cap MemoryDocs' \subseteq delmap
    <2>1. CASE UNCHANGED <<segs, files, manifest>>
        <3>1. MemoryDocs' = MemoryDocs
            BY <2>1 DEF MemoryDocs
        <3>2. segs \subseteq 1 .. nextId
            BY <1>3, SegmentNumbers
        <3>3. /\ Puts \ Applied \subseteq MemoryDocs
              /\ Applied \cap MemoryDocs \subseteq WrittenMarks
            BY <1>3 DEF IndexInv, MemoryExact
        <3>4. DeletesTo(log, ckpt) \subseteq Applied
            BY LogFacts DEF IndexInv, AppliedOnly, Applied
        <3>5. PutsTo(log, ckpt) \ Deletes \subseteq MemoryDocs
            BY <3>3, LogFacts DEF Applied
        <3>6. DeletesTo(log, ckpt) \cap MemoryDocs \subseteq delmap
            BY <1>3 DEF IndexInv, MarksSaved
        <3>7. \A s \in DOMAIN files' : files'[s] \subseteq Puts
            BY <2>1 DEF IndexInv, TypeOK
        <3> QED
            BY <1>3, <2>1, <3>1, <3>2, <3>3, <3>4, <3>5, <3>6, <3>7
    <2>2. CASE /\ segs' = (segs \ sources) \cup {nextId}
               /\ files' = [s \in DOMAIN files \cup {nextId} |->
                                IF s = nextId THEN Merged ELSE files[s]]
        <3>1. /\ segs' = (segs \ sources) \cup {nextId}
              /\ files'[nextId] = Merged
              /\ \A s \in segs \ sources : files'[s] = files[s]
            BY <1>3, <1>4, <2>2
        <3>2. /\ MemoryDocs' \subseteq MemoryDocs
              /\ Merged \subseteq Puts
              /\ Puts \ Applied \subseteq MemoryDocs'
              /\ Applied \cap MemoryDocs' \subseteq WrittenMarks
              /\ DeletesTo(log, ckpt) \subseteq Applied
              /\ PutsTo(log, ckpt) \ Deletes \subseteq MemoryDocs'
              /\ DeletesTo(log, ckpt) \cap MemoryDocs' \subseteq delmap
            BY <1>1, <3>1, MergedDocs
        <3>3. \A s \in DOMAIN files' : files'[s] \subseteq Puts
            BY <1>4, <2>2, <3>1, <3>2 DEF IndexInv, TypeOK
        <3>4. segs' \subseteq DOMAIN files' /\ segs' \subseteq 1 .. nextId
            BY <1>3, <2>2, SegmentNumbers
        <3> QED
            BY <3>2, <3>3, <3>4
    <2> QED
        BY <1>2, <2>1, <2>2
<1>6. \/ manifest' = manifest /\ DiskDocs' = DiskDocs
      \/ /\ manifest' = [segs |-> segs', ckpt |-> ckpt, nextId |-> nextId + 1]
         /\ DiskDocs' = MemoryDocs'
    <2>1. CASE manifest' = manifest
        BY <1>3, <1>4, <2>1 DEF DiskDocs
    <2>2. CASE manifest' =
                   [segs |-> segs', ckpt |-> ckpt, nextId |-> nextId + 1]
        BY <2>2 DEF DiskDocs, MemoryDocs
    <2> QED
        BY <1>2, <2>1, <2>2
<1>7. /\ manifest'.segs \subseteq 1 .. manifest'.nextId - 1
       /\ manifest'.nextId \in Nat \ {0} /\ manifest'.nextId <= nextId'
       /\ manifest'.ckpt \in 0..Last /\ manifest'.ckpt <= ckpt
       /\ manifest'.segs \subseteq DOMAIN files'
    <2>1. CASE manifest' = manifest
        BY <1>1, <1>3, <1>4, <2>1, SegmentNumbers, LogFacts
           DEF IndexInv, MarksSaved
    <2>2. CASE manifest' =
                   [segs |-> segs', ckpt |-> ckpt, nextId |-> nextId + 1]
        BY <1>1, <1>3, <1>5, <2>2, LogFacts
    <2> QED
        BY <1>6, <2>1, <2>2
<1>8. Puts' = Puts /\ Deletes' = Deletes /\ Last' = Last
    BY <1>1, WholeLog DEF Last
<1>9. TypeOK'
    <2>1. /\ (segs \cup {writer} \subseteq 0 .. nextId - 1)'
          /\ (up => manifest.nextId <= nextId /\ segs \subseteq DOMAIN files)'
        BY <1>1, <1>3, <1>5, <1>7, SegmentNumbers
    <2> QED
        BY <1>1, <1>5, <1>8, <1>7, <2>1
           DEF IndexInv, TypeOK, Steps, EndMerge
<1>10. MoreTypes'
    <2>1. /\ (nextId \in Nat \ {0})' /\ (DOMAIN files \subseteq Nat)'
          /\ (up => DOMAIN files \subseteq 1 .. nextId - 1)'
        BY <1>1, <1>3, <1>4, SegmentNumbers
    <2> QED
        BY <1>1, <1>8, <1>7, <2>1 DEF IndexInv, MoreTypes, EndMerge
<1>11. EpochBound'
    BY <1>1, BoundsAssumption DEF IndexInv, EpochBound, MoreTypes
<1>12. Closed' /\ Phases'
    BY <1>1, <1>3 DEF Closed, Phases
<1>13. WrittenMarks' = WrittenMarks
    BY <1>1 DEF WrittenMarks, Marks
<1>14. AppliedOnly'
    BY <1>1, <1>13 DEF IndexInv, AppliedOnly, EndMerge
<1>15. MemoryExact'
    BY <1>1, <1>3, <1>5, <1>8, <1>13 DEF IndexInv, MemoryExact, Applied
<1>16. WriterAbove'
    BY <1>1, <1>3, <1>4 DEF IndexInv, WriterAbove
<1>17. MarksSaved' /\ DiskCovers'
    <2>1. CASE manifest' = manifest /\ DiskDocs' = DiskDocs
        BY <1>1, <1>3, <1>4, <1>5, <1>8, <1>13, <2>1
           DEF IndexInv, MarksSaved, DiskCovers
    <2>2. CASE /\ manifest' =
                      [segs |-> segs', ckpt |-> ckpt, nextId |-> nextId + 1]
               /\ DiskDocs' = MemoryDocs'
        <3>1. MarksSaved'
            BY <1>1, <1>3, <1>5, <1>13, <1>7, <2>2 DEF IndexInv, MarksSaved
        <3>2. DiskCovers'
            BY <1>1, <1>5, <1>8, <1>7, <2>2 DEF DiskCovers
        <3> QED
            BY <3>1, <3>2
    <2> QED
        BY <1>6, <2>1, <2>2
<1> QED
    BY <1>1, <1>9, <1>10, <1>11, <1>12, <1>14, <1>15, <1>16, <1>17 DEF IndexInv

\* A merge of everything forgets the marks it filtered with: no segment has
\* the documents, in memory or in the manifest.
LEMMA ForgetStep ==
    ASSUME IndexInv, ForgetDeletions
    PROVE  IndexInv'
<1> USE DEF logVars, writerVars, managerVars, diskVars, holderVars, cacheVars,
            buildVars, searcherVars, returnVars, countVars, Step
<1>1. /\ holder = "forget" /\ holder' = "done" /\ EndMerge
      /\ UNCHANGED <<up, log, appended, clearing, buffer, writer, segs, ckpt,
                     nextId, pending, manifest, files, call, bpc, hasSearcher,
                     acked, returning, merges>>
    BY DEF ForgetDeletions
<1>2. /\ up /\ buffer = {} /\ manifest.segs = segs
      /\ MemoryDocs \cap frozen = {}
    BY <1>1, HolderOpen DEF IndexInv, Phases, Flushing
<1>3. CASE ~(hasFrozen /\ slot # 0)
    <2>1. UNCHANGED <<delmap, slot, bitmaps, epoch>>
        BY <1>3 DEF ForgetDeletions, bitmapVars
    <2>2. /\ pending' \in 0..Last /\ DeletesTo(log, pending') \cap appended = {}
          /\ call' \in {"commit", "optimize"}
          /\ acked' \cup UNION returning' \subseteq Puts
          /\ hasSearcher' \in BOOLEAN
        BY <1>1, LogFacts DEF IndexInv, AppliedOnly, TypeOK
    <2> QED
        BY <1>1, <1>2, <2>1, <2>2, HolderStep
<1>4. CASE hasFrozen /\ slot # 0
    <2>1. /\ delmap' = Remaining
          /\ \/ /\ Remaining = {} /\ slot' = 0 /\ epoch' = epoch + 1
                /\ bitmaps' = bitmaps
             \/ Install(Remaining)
        BY <1>4 DEF ForgetDeletions
    <2>2. /\ WrittenMarks = Marks(slot) /\ Remaining \subseteq Deletes
          /\ Remaining \subseteq WrittenMarks /\ epoch + 3 <= MaxBitmaps
          /\ epoch \in Nat /\ MaxBitmaps \in Nat
        BY <1>1, <1>4, BitmapNumbers DEF WrittenMarks, Remaining, Marks
    <2> PICK e \in Nat, t \in Nat :
            /\ e = epoch + 1 /\ epoch' = e /\ slot' = t /\ t \in {0, e + 1}
            /\ t = 0 => bitmaps' = bitmaps /\ Remaining = {}
            /\ t # 0 => bitmaps' = [bitmaps EXCEPT ![t] = Remaining]
        BY <2>1, <2>2 DEF Install
    <2>3. /\ bitmaps' \in [1..MaxBitmaps -> SUBSET Deletes]
          /\ t # 0 => bitmaps'[t] = Remaining
        BY <2>2, BitmapNumbers
    <2>4. WrittenMarks' = Remaining
        BY <2>1, <2>3 DEF WrittenMarks, Marks
    <2>5. Puts' = Puts /\ Deletes' = Deletes /\ Last' = Last
        BY <1>1, WholeLog DEF Last
    <2>6. TypeOK'
        <3>1. (epoch + 1 <= MaxBitmaps /\ slot \in {0, epoch + 1})'
            BY <2>2
        <3>2. /\ (delmap \subseteq Deletes)'
              /\ (\A b \in DOMAIN bitmaps : bitmaps[b] \subseteq Deletes)'
            BY <2>1, <2>2, <2>3, <2>5
        <3> QED
            BY <1>1, <2>5, <3>1, <3>2 DEF IndexInv, TypeOK, Steps, EndMerge
    <2>7. MoreTypes'
        BY <1>1, <2>3, <2>5 DEF IndexInv, MoreTypes, EndMerge
    <2>8. EpochBound'
        BY <1>1, <1>4, BoundsAssumption DEF IndexInv, EpochBound, MoreTypes
    <2>9. Closed' /\ Phases'
        BY <1>1, <1>2 DEF Closed, Phases
    <2>10. AppliedOnly'
        BY <1>1, <2>1, <2>2, <2>4 DEF IndexInv, AppliedOnly, EndMerge
    <2>11. MemoryDocs' = MemoryDocs /\ DiskDocs' = DiskDocs
           /\ DiskDocs = MemoryDocs
        BY <1>1, <1>2 DEF MemoryDocs, DiskDocs
    <2>12. Applied \cap MemoryDocs \subseteq Remaining
        BY <1>2, <2>2 DEF IndexInv, MemoryExact, Remaining
    <2>13. MemoryExact'
        BY <1>1, <1>2, <2>4, <2>5, <2>11, <2>12
           DEF IndexInv, MemoryExact, Applied
    <2>14. WriterAbove'
        BY <1>1 DEF IndexInv, WriterAbove
    <2>15. /\ DeletesTo(log, ckpt) \subseteq Applied
           /\ DeletesTo(log, manifest.ckpt) \subseteq DeletesTo(log, ckpt)
        BY <1>2, LogFacts, Prefixes
           DEF IndexInv, AppliedOnly, Applied, MarksSaved
    <2>16. MarksSaved' /\ DiskCovers'
        BY <1>1, <1>2, <2>1, <2>4, <2>5, <2>11, <2>12, <2>15
           DEF IndexInv, MarksSaved, DiskCovers
    <2> QED
        BY <1>1, <2>6, <2>7, <2>8, <2>9, <2>10, <2>13, <2>14, <2>16
           DEF IndexInv
<1> QED
    BY <1>3, <1>4

-----------------------------------------------------------------------------
(* Crashes and opens.                                                      *)

\* A crash leaves the log and storage.
LEMMA CrashStep ==
    ASSUME IndexInv, Crash
    PROVE  IndexInv'
<1> USE DEF diskVars
<1>1. /\ up /\ up' = FALSE /\ appended' = {} /\ clearing' = {}
      /\ buffer' = {} /\ writer' = 0 /\ pending' = 0
      /\ slot' = 0 /\ bitmaps' = [b \in 1..MaxBitmaps |-> {}] /\ epoch' = 0
      /\ holder' = "free" /\ call' = "commit" /\ EndMerge
      /\ bpc' = AllIdle /\ hasSearcher' = FALSE
      /\ segs' = {} /\ ckpt' = 0 /\ nextId' = 1
      /\ returning' = {}
      /\ UNCHANGED <<log, manifest, files, delmap, acked, merges>>
    BY DEF Crash, Forgotten
<1>2. Puts' = Puts /\ Deletes' = Deletes /\ Last' = Last
    BY <1>1, WholeLog DEF Last
<1>3. MaxBitmaps \in Nat /\ 1 <= MaxBitmaps
    BY BoundsAssumption DEF MaxBitmaps
<1>4. TypeOK'
    <2>1. /\ (segs \cup {writer} \subseteq 0 .. nextId - 1)'
          /\ (ckpt \in 0..Last /\ pending \in 0..Last)'
          /\ (epoch + 1 <= MaxBitmaps /\ slot \in {0, epoch + 1})'
        BY <1>1, <1>2, <1>3, LogFacts
    <2> QED
        BY <1>1, <1>2, <2>1 DEF IndexInv, TypeOK, Steps, EndMerge
<1>5. MoreTypes'
    BY <1>1, <1>2, <1>3 DEF IndexInv, MoreTypes, EndMerge
<1>6. EpochBound'
    BY <1>1, BoundsAssumption DEF IndexInv, EpochBound, MoreTypes
<1>7. Closed' /\ Phases' /\ AppliedOnly' /\ MemoryExact' /\ MarksSaved'
    BY <1>1
       DEF Closed, Phases, Flushing, AppliedOnly, MemoryExact, MarksSaved,
           EndMerge
<1>8. WriterAbove'
    BY <1>1, SegmentNumbers DEF WriterAbove
<1>9. DiskCovers'
    BY <1>1, <1>2 DEF IndexInv, DiskCovers, DiskDocs
<1> QED
    BY <1>1, <1>4, <1>5, <1>6, <1>7, <1>8, <1>9 DEF IndexInv

\* An open loads what storage has and replays the records above the published
\* checkpoint.
LEMMA OpenStep ==
    ASSUME IndexInv, Open
    PROVE  IndexInv'
<1> USE DEF logVars, holderVars, cacheVars, buildVars, searcherVars,
            returnVars, countVars
<1>1. /\ ~up /\ up' = TRUE /\ segs' = manifest.segs
      /\ ckpt' = manifest.ckpt /\ pending' = 0
      /\ files' = [s \in DOMAIN files \cap manifest.segs |-> files[s]]
      /\ UNCHANGED <<log, appended, clearing, manifest, delmap, holder, call,
                     full, frozen, hasFrozen, sources, bpc, hasSearcher,
                     acked, returning, merges>>
    BY DEF Open
<1>2. /\ appended = {} /\ clearing = {} /\ buffer = {} /\ writer = 0
      /\ slot = 0 /\ epoch = 0 /\ holder = "free"
    BY <1>1 DEF IndexInv, Closed
<1>3. manifest.segs \subseteq DOMAIN files
    BY DEF IndexInv, DiskCovers
<1>4. /\ DOMAIN files' = manifest.segs
      /\ \A s \in manifest.segs : files'[s] = files[s]
    BY <1>1, <1>3
<1>5. MemoryDocs' = DiskDocs /\ DiskDocs' = DiskDocs
    BY <1>1, <1>4 DEF MemoryDocs, DiskDocs
<1> DEFINE P == PutsIn(Replayed)
           D == DeletesIn(Replayed)
<1>6. /\ P = {d \in Puts : d > manifest.ckpt}
      /\ Puts \ P = PutsTo(log, manifest.ckpt)
      /\ Deletes = DeletesTo(log, manifest.ckpt) \cup D
    BY LogFacts, Suffixes DEF Replayed
<1>7. /\ buffer' = P
      /\ BitmapOf(Deletes)
      /\ (IF slot' # 0 THEN bitmaps'[slot'] ELSE delmap) = (delmap \ P) \cup D
    <2>1. CASE Replayed = {}
        <3>1. UNCHANGED bitmapVars /\ buffer' = buffer
            BY <2>1 DEF Open, writerVars
        <3>2. P = {} /\ D = {}
            BY <2>1 DEF PutsIn, DeletesIn
        <3>3. /\ BitmapOf(Deletes)
              /\ WrittenMarks = IF slot' # 0 THEN bitmaps'[slot'] ELSE delmap
            BY <3>1, SameBitmap
        <3> QED
            BY <1>2, <3>1, <3>2, <3>3 DEF WrittenMarks
    <2>2. CASE Replayed # {}
        <3>1. ChangeBitmap(D, P) /\ buffer' = P
            BY <2>2 DEF Open
        <3>2. Deletes \cup D \subseteq Deletes
            BY <1>6
        <3>3. /\ BitmapOf(Deletes) /\ slot' # 0
              /\ bitmaps'[slot'] = (WrittenMarks \ P) \cup D
            BY <3>1, <3>2, ChangedBitmap
        <3> QED
            BY <1>2, <3>1, <3>3 DEF WrittenMarks
    <2> QED
        BY <2>1, <2>2
<1>8. PICK k \in Nat, w \in Nat :
          /\ nextId' = k /\ writer' = w /\ w < k
          /\ w \in {0, manifest.nextId} /\ manifest.nextId <= k
          /\ P # {} => w # 0
    <2>1. CASE Replayed = {}
        BY <1>2, <2>1, SegmentNumbers
           DEF Open, LoadedNextId, writerVars, PutsIn
    <2>2. CASE Replayed # {}
        BY <2>2, SegmentNumbers DEF Open, LoadedNextId
    <2> QED
        BY <2>1, <2>2
<1>9. w \notin manifest.segs
    BY <1>8, SegmentNumbers
<1> PICK e \in Nat, t \in Nat :
        /\ epoch' = e /\ slot' = t
        /\ t \in {0, e + 1} /\ e + 1 <= MaxBitmaps
        /\ e + (IF t = 0 THEN 1 ELSE 0) <= epoch + (IF slot = 0 THEN 1 ELSE 0)
        /\ t = 0 => slot = 0
    BY <1>7 DEF BitmapOf
<1>10. WrittenMarks' = (delmap \ P) \cup D
    BY <1>1, <1>7 DEF WrittenMarks, Marks
<1>11. Puts' = Puts /\ Deletes' = Deletes /\ Last' = Last
    BY <1>1, WholeLog DEF Last
<1>12. DeletesTo(log, manifest.ckpt) \cap P = {}
    BY <1>6, LogFacts
<1> HIDE DEF P, D
<1>13. TypeOK'
    <2>1. /\ (segs \cup {writer} \subseteq 0 .. nextId - 1)'
          /\ (up => manifest.nextId <= nextId /\ segs \subseteq DOMAIN files)'
        BY <1>1, <1>4, <1>8, SegmentNumbers
    <2>2. /\ (ckpt \in 0..Last /\ pending \in 0..Last)'
          /\ (manifest.ckpt \in 0..Last)'
        BY <1>1, <1>11, LogFacts
    <2>3. /\ (buffer \cup acked \cup UNION returning \subseteq Puts)'
          /\ (buffer # {} => writer # 0)'
        BY <1>1, <1>6, <1>7, <1>8, <1>11 DEF IndexInv, TypeOK
    <2>4. /\ (epoch + 1 <= MaxBitmaps /\ slot \in {0, epoch + 1})'
          /\ (\A b \in DOMAIN bitmaps : bitmaps[b] \subseteq Deletes)'
        BY <1>7, <1>11 DEF BitmapOf
    <2>5. (sources \subseteq segs)'
        BY <1>1 DEF IndexInv, Closed
    <2> QED
        BY <1>1, <1>3, <1>4, <1>11, <2>1, <2>2, <2>3, <2>4, <2>5
           DEF IndexInv, TypeOK, Steps
<1>14. MoreTypes'
    <2>1. /\ (nextId \in Nat \ {0})' /\ (DOMAIN files \subseteq Nat)'
          /\ (up => DOMAIN files \subseteq 1 .. nextId - 1)'
        BY <1>4, <1>8, SegmentNumbers
    <2> QED
        BY <1>1, <1>7, <1>11, <2>1 DEF IndexInv, MoreTypes, BitmapOf
<1>15. EpochBound'
    BY <1>1, <1>2, BoundsAssumption DEF IndexInv, EpochBound, MoreTypes
<1>16. Closed' /\ Phases'
    BY <1>1, <1>2 DEF Closed, Phases, Flushing
<1>17. AppliedOnly'
    BY <1>1, <1>2 DEF AppliedOnly
<1>18. MemoryExact'
    BY <1>1, <1>2, <1>5, <1>6, <1>7, <1>10, <1>11, <1>12
       DEF IndexInv, DiskCovers, MemoryExact, Applied
<1>19. WriterAbove'
    BY <1>1, <1>4, <1>6, <1>7, <1>8, <1>9 DEF WriterAbove
<1>20. MarksSaved'
    BY <1>1, <1>2, <1>5, <1>10, <1>12, LogFacts
       DEF IndexInv, DiskCovers, MarksSaved
<1>21. DiskCovers'
    BY <1>1, <1>4, <1>5, <1>11 DEF IndexInv, DiskCovers
<1> QED
    BY <1>1, <1>13, <1>14, <1>15, <1>16, <1>17, <1>18, <1>19, <1>20, <1>21
       DEF IndexInv

-----------------------------------------------------------------------------
(* The theorems.                                                           *)

\* An empty index satisfies the invariant.
LEMMA InitIndex == Init => IndexInv
<1> SUFFICES ASSUME Init PROVE IndexInv
    OBVIOUS
<1> USE DEF Init
<1>1. /\ log \in Seq(Record) /\ Last = 0 /\ Puts = {} /\ Deletes = {}
      /\ \A n \in 0..0 : PutsTo(log, n) = {} /\ DeletesTo(log, n) = {}
    BY DEF Last, Puts, Deletes, PutsIn, DeletesIn, PutsTo, DeletesTo
<1>2. MaxBitmaps \in Nat /\ 1 <= MaxBitmaps
    BY BoundsAssumption DEF MaxBitmaps
<1>3. DOMAIN files = {} /\ MemoryDocs = {} /\ DiskDocs = {}
    BY DEF MemoryDocs, DiskDocs
<1>4. TypeOK
    <2>1. /\ {up, full, hasFrozen, hasSearcher} \subseteq BOOLEAN
          /\ holder \in Steps /\ call \in {"commit", "optimize"}
        BY DEF Steps
    <2>2. /\ segs \cup {writer} \subseteq 0 .. nextId - 1
          /\ ckpt \in 0..Last /\ pending \in 0..Last
          /\ manifest.segs \subseteq 1 .. manifest.nextId - 1
          /\ manifest.ckpt \in 0..Last /\ manifest.nextId <= nextId
          /\ Last <= MaxSeq /\ epoch + 1 <= MaxBitmaps
        BY <1>1, <1>2, BoundsAssumption
    <2>3. /\ \A s \in DOMAIN files : files[s] \subseteq Puts
          /\ \A b \in DOMAIN bitmaps : bitmaps[b] \subseteq Deletes
          /\ segs \subseteq DOMAIN files
        BY <1>3
    <2> QED
        BY <1>1, <2>1, <2>2, <2>3 DEF TypeOK
<1>5. Shape(log) /\ MoreTypes /\ EpochBound /\ Closed
    BY <1>2, <1>3, BoundsAssumption DEF Shape, MoreTypes, EpochBound, Closed
<1>6. Phases /\ AppliedOnly /\ MemoryExact /\ WriterAbove
    BY <1>1, <1>3
       DEF Phases, Flushing, AppliedOnly, MemoryExact, WriterAbove, Applied
<1>7. MarksSaved /\ DiskCovers
    BY <1>1, <1>3 DEF MarksSaved, DiskCovers
<1> QED
    BY <1>4, <1>5, <1>6, <1>7 DEF IndexInv

\* Every step keeps it.
LEMMA NextIndex == IndexInv /\ [Next]_vars => IndexInv'
<1> SUFFICES ASSUME IndexInv, [Next]_vars PROVE IndexInv'
    OBVIOUS
<1>1. CASE Put
    BY <1>1, PutStep
<1>2. ASSUME NEW d \in Docs, AppendDelete(d) \/ MarkDeleted(d) \/ FinishDelete(d)
      PROVE  IndexInv'
    BY <1>2, AppendDeleteStep, MarkDeletedStep, FinishDeleteStep
<1>3. CASE \/ StartCommit \/ StartOptimize \/ FlushNothing \/ InvalidateSealed
           \/ PersistFails \/ ChooseNothing \/ ForgetFails \/ Release
    BY <1>3, HolderSteps
<1>4. CASE Seal \/ SealUnsaved
    BY <1>4, SealStep
<1>5. CASE PersistMarks
    BY <1>5, PersistStep
<1>6. CASE Publish \/ PublishFails
    BY <1>6, PublishStep
<1>7. CASE ChooseMerge
    BY <1>7, ChooseStep
<1>8. CASE Merge \/ MergeFails
    BY <1>8, MergeStep, MergeFailsStep
<1>9. CASE ForgetDeletions
    BY <1>9, ForgetStep
<1>10. ASSUME NEW b \in Builds, Build(b)
       PROVE  IndexInv'
    BY <1>10, BuildStep
<1>11. CASE Crash \/ Open
    BY <1>11, CrashStep, OpenStep
<1>12. CASE Refresh \/ \E covered \in returning : Return(covered)
    BY <1>12, ReturnStep
<1>13. CASE UNCHANGED vars
    <2>1. /\ UNCHANGED <<up, log, appended, buffer, writer, segs, ckpt, nextId,
                         pending, manifest, files, delmap, holder, call, full,
                         frozen, hasFrozen, sources, merges>>
          /\ UNCHANGED <<clearing, acked, returning, hasSearcher>>
          /\ UNCHANGED <<bpc, slot, epoch>>
          /\ UNCHANGED bitmapVars
        BY <1>13 DEF vars, logVars, writerVars, managerVars, diskVars,
                     bitmapVars, holderVars, cacheVars, buildVars,
                     searcherVars, returnVars, countVars
    <2>2. acked' \cup UNION returning' \subseteq Puts /\ hasSearcher' \in BOOLEAN
        BY <2>1 DEF IndexInv, TypeOK
    <2> QED
        BY <2>1, <2>2, SameBitmap, QuietStep
<1> QED
    BY <1>1, <1>2, <1>3, <1>4, <1>5, <1>6, <1>7, <1>8, <1>9, <1>10, <1>11,
       <1>12, <1>13 DEF Next

\* The invariant holds of every reachable state.
THEOREM IndexInvariant == Spec => []IndexInv
<1>1. Init => IndexInv
    BY InitIndex
<1>2. IndexInv /\ [Next]_vars => IndexInv'
    BY NextIndex
<1> QED
    BY <1>1, <1>2, PTL DEF Spec

\* The types: a delete names a document of an earlier put, segments have
\* files, and the bitmaps never run out (segmented_core.rs, manager.rs).
THEOREM TypeCorrect == Spec => []TypeOK
<1>1. IndexInv => TypeOK
    BY DEF IndexInv
<1> QED
    BY <1>1, IndexInvariant, PTL

\* The running index holds the documents that were put and not deleted,
\* whatever merges, fails or is deleted while it merges (forget_deletions,
\* segmented_core.rs).
THEOREM HoldsTheLive == Spec => []HoldsLive
<1>1. IndexInv => HoldsLive
    <2> SUFFICES ASSUME IndexInv, up, slot # 0 \/ delmap = {}
                 PROVE  Held = Puts \ (Deletes \ appended)
        BY DEF HoldsLive
    <2>1. WrittenMarks = Marks(slot)
        BY DEF WrittenMarks, Marks
    <2>2. WrittenMarks \subseteq Applied
        BY BitmapNumbers DEF WrittenMarks, Marks, IndexInv, AppliedOnly, Applied
    <2>3. buffer \cup MemoryDocs \subseteq Puts
        <3>1. \A s \in segs : files[s] \subseteq Puts
            BY SegmentNumbers DEF IndexInv, TypeOK
        <3> QED
            BY <3>1 DEF IndexInv, TypeOK, MemoryDocs
    <2>4. /\ Puts \ Applied \subseteq buffer \cup MemoryDocs
          /\ Applied \cap (buffer \cup MemoryDocs) \subseteq WrittenMarks
        BY DEF IndexInv, MemoryExact
    <2>5. Held = (buffer \cup MemoryDocs) \ WrittenMarks
        BY <2>1 DEF Held, MemoryDocs
    <2> QED
        BY <2>2, <2>3, <2>4, <2>5 DEF Applied
<1> QED
    BY <1>1, IndexInvariant, PTL

\* A crash at any step of a commit, merge or optimization loses nothing: an
\* open would hold the documents that were put and not deleted
\* (persist_deletions, segmented_core.rs; apply_merge).
THEOREM ReopensTheLive == Spec => []ReopensLive
<1>1. IndexInv => ReopensLive
    <2> SUFFICES ASSUME IndexInv PROVE ReopensLive
        OBVIOUS
    <2>1. /\ PutsIn(Replayed) = {d \in Puts : d > manifest.ckpt}
          /\ Puts \ PutsIn(Replayed) = PutsTo(log, manifest.ckpt)
          /\ Deletes = DeletesTo(log, manifest.ckpt) \cup DeletesIn(Replayed)
        BY LogFacts, Suffixes DEF Replayed
    <2>2. /\ manifest.segs \subseteq DOMAIN files
          /\ PutsTo(log, manifest.ckpt) \ Deletes \subseteq DiskDocs
          /\ DeletesTo(log, manifest.ckpt) \cap DiskDocs \subseteq delmap
        BY DEF IndexInv, DiskCovers
    <2>3. DiskDocs \subseteq Puts /\ delmap \subseteq Deletes
        BY <2>2 DEF IndexInv, TypeOK, DiskDocs
    <2>4. DeletesTo(log, manifest.ckpt) \cap PutsIn(Replayed) = {}
        BY <2>1, LogFacts
    <2>5. Reopened = (DiskDocs \cup PutsIn(Replayed))
              \ ((delmap \ PutsIn(Replayed)) \cup DeletesIn(Replayed))
        BY DEF Reopened, DiskDocs
    <2>6. ASSUME NEW d \in Puts \ Deletes
          PROVE  d \in Reopened
        BY <2>1, <2>2, <2>3, <2>5
    <2>7. ASSUME NEW d \in Reopened
          PROVE  d \in Puts \ Deletes
        BY <2>1, <2>2, <2>3, <2>4, <2>5
    <2> QED
        BY <2>2, <2>6, <2>7 DEF ReopensLive
<1> QED
    BY <1>1, IndexInvariant, PTL

-----------------------------------------------------------------------------
(* Searches: what they find.                                               *)

\* What builds readers, here and in AllIdle.
Builders == Builds \cup {"search"}

\* The types of builds, caches and readers.  A closed index has no readers.
ReadTypes ==
    /\ DOMAIN bpc = Builders /\ DOMAIN bsegs = Builders
    /\ DOMAIN bepoch = Builders /\ DOMAIN bbitmap = Builders
    /\ DOMAIN breaders = Builders
    /\ \A b \in Builders : bbitmap[b] \in 0..MaxBitmaps
    /\ \A b \in Builders : \A s \in DOMAIN breaders[b] :
           breaders[b][s].bitmap \in 0..MaxBitmaps
    /\ \A s \in DOMAIN cache : cache[s].bitmap \in 0..MaxBitmaps
    /\ \A s \in DOMAIN searcher : searcher[s].bitmap \in 0..MaxBitmaps
    /\ DOMAIN cache \subseteq DOMAIN files
    /\ hasSearcher \in BOOLEAN
    /\ ~up => /\ DOMAIN cache = {} /\ DOMAIN searcher = {}
              /\ hasSearcher = FALSE

\* What the commits have covered that returned or are about to.
Covered == acked \cup UNION returning

\* What a commit has covered is in segments, and what memory's segments have
\* is in those that the manifest names, or still in the writer.
AckedHeld ==
    /\ Covered \ Deletes \subseteq DiskDocs
    /\ up => /\ Covered \ Deletes \subseteq MemoryDocs
             /\ MemoryDocs \ Deletes \subseteq DiskDocs \cup buffer
    /\ holder = "sealed" => MemoryDocs \ Deletes \subseteq DiskDocs
    /\ writer \in DOMAIN files => Covered \cap buffer \subseteq files[writer]

\* A cached reader has its file's documents; of the writer's own segment, of
\* which a seal failed, those that a commit has covered.
CacheHolds ==
    \A s \in DOMAIN cache \cap DOMAIN files :
        IF s = writer THEN Covered \cap files[s] \subseteq cache[s].docs
        ELSE files[s] \subseteq cache[s].docs

\* The search that builds finds the document in the segment: in the reader
\* that it has, or in the one that it loads from the cache or the file.
Kept(d, s) ==
    /\ s \in 1 .. nextId - 1
    /\ s = writer => s \in DOMAIN files
    /\ s \in DOMAIN files => d \in files[s]
    /\ s \in DOMAIN cache => d \in cache[s].docs
    /\ bpc["search"] = "load" /\ s \in DOMAIN breaders["search"] =>
           d \in breaders["search"][s].docs

\* A build and the searcher have what a commit has covered that returned: its
\* return waits for the build, and drops the searcher.
SearchHolds ==
    \A d \in acked \ Deletes :
        /\ bpc["search"] # "idle" => \E s \in bsegs["search"] : Kept(d, s)
        /\ hasSearcher => \E s \in DOMAIN searcher : d \in searcher[s].docs

FoundInv == IndexInv /\ ReadTypes /\ AckedHeld /\ CacheHolds /\ SearchHolds

\* A search's build keeps a document while the segment's file and cached
\* reader keep it, whatever else there will be.
LEMMA KeptStep ==
    ASSUME FoundInv, IndexInv', NEW d, NEW s, Kept(d, s),
           nextId <= nextId', UNCHANGED <<bpc, breaders>>,
           writer' \in {writer, 0, nextId},
           s = writer' => s \in DOMAIN files',
           s \in DOMAIN files' =>
               s \in DOMAIN files /\ files[s] \subseteq files'[s],
           s \in DOMAIN cache' => s \in DOMAIN cache /\ cache'[s] = cache[s]
    PROVE  Kept(d, s)'
<1>1. nextId \in Nat /\ nextId' \in Nat
    BY DEF FoundInv, IndexInv, MoreTypes
<1>2. bpc' = bpc /\ breaders' = breaders
    OBVIOUS
<1>3. s \in 1 .. nextId' - 1
    <2>1. PICK m, n : m = nextId /\ n = nextId'
        OBVIOUS
    <2>2. m \in Nat /\ n \in Nat /\ m <= n /\ s \in 1 .. m - 1
        BY <1>1, <2>1 DEF Kept
    <2>3. s \in 1 .. n - 1
        BY <2>2
    <2> QED
        BY <2>1, <2>3
<1>4. s = writer' => s \in DOMAIN files'
    OBVIOUS
<1>5. s \in DOMAIN files' => d \in files'[s]
    BY DEF Kept
<1>6. s \in DOMAIN cache' => d \in cache'[s].docs
    BY DEF Kept
<1>7. bpc'["search"] = "load" /\ s \in DOMAIN breaders'["search"] =>
          d \in breaders'["search"][s].docs
    BY <1>2 DEF Kept
<1> QED
    BY <1>3, <1>4, <1>5, <1>6, <1>7 DEF Kept

\* A step that changes no segment and no build: it may drop cached readers,
\* the searcher and a writer whose documents are in a segment, or add to the
\* writer what no commit has covered.
LEMMA FoundStep ==
    ASSUME FoundInv, IndexInv', up,
           UNCHANGED <<up, segs, files, buildVars>>,
           UNCHANGED <<acked, returning>>,
           DOMAIN cache' \subseteq DOMAIN cache,
           \A s \in DOMAIN cache' : cache'[s] = cache[s],
           Deletes \subseteq Deletes',
           DiskDocs' \in {DiskDocs, MemoryDocs},
           nextId <= nextId',
           \/ /\ writer' = writer /\ buffer \subseteq buffer'
              /\ Covered \cap buffer' \subseteq buffer
           \/ /\ writer' = 0 /\ buffer' = {}
              /\ buffer # {} =>
                     holder = "sealed" /\ writer \notin DOMAIN cache'
           \/ /\ writer = 0 /\ writer' = nextId
              /\ buffer \subseteq buffer',
           holder' = "sealed" => holder = "sealed" /\ DiskDocs' = DiskDocs,
           \/ searcher' = searcher /\ hasSearcher' = hasSearcher
           \/ searcher' = <<>> /\ hasSearcher' = FALSE
    PROVE  FoundInv'
<1> USE DEF buildVars
<1>1. MemoryDocs' = MemoryDocs
    BY DEF MemoryDocs
<1>2. /\ 0 \notin DOMAIN files /\ nextId \notin DOMAIN files
      /\ Covered' = Covered
    BY SegmentNumbers DEF FoundInv, Covered
<1>3. ReadTypes'
    <2>1. DOMAIN <<>> = {}
        OBVIOUS
    <2> QED
        BY <2>1 DEF FoundInv, ReadTypes
<1>4. AckedHeld'
    <2>1. MemoryDocs \ Deletes \subseteq DiskDocs' \cup buffer'
        BY DEF FoundInv, AckedHeld
    <2>2. writer' \in DOMAIN files =>
              Covered \cap buffer' \subseteq files[writer']
        BY <1>2 DEF FoundInv, AckedHeld
    <2>3. /\ Covered \ Deletes \subseteq DiskDocs
          /\ Covered \ Deletes \subseteq MemoryDocs
        BY DEF FoundInv, AckedHeld
    <2> QED
        BY <1>1, <1>2, <2>1, <2>2, <2>3 DEF FoundInv, AckedHeld
<1>5. CacheHolds'
    <2> SUFFICES ASSUME NEW s \in DOMAIN cache' \cap DOMAIN files
                 PROVE  IF s = writer'
                        THEN Covered \cap files[s] \subseteq cache[s].docs
                        ELSE files[s] \subseteq cache[s].docs
        BY <1>2 DEF CacheHolds
    <2>1. IF s = writer THEN Covered \cap files[s] \subseteq cache[s].docs
          ELSE files[s] \subseteq cache[s].docs
        BY DEF FoundInv, CacheHolds
    <2>2. CASE writer' = writer
        BY <2>1, <2>2
    <2>3. CASE /\ writer' = 0 /\ buffer' = {}
               /\ buffer # {} =>
                      holder = "sealed" /\ writer \notin DOMAIN cache'
        <3>1. s = writer /\ buffer = {} => files[s] = {}
            BY DEF FoundInv, IndexInv, WriterAbove
        <3> QED
            BY <1>2, <2>1, <2>3, <3>1
    <2>4. CASE writer = 0 /\ writer' \notin DOMAIN files
        BY <1>2, <2>1, <2>4
    <2> QED
        BY <1>2, <2>2, <2>3, <2>4
<1>6. SearchHolds'
    <2>1. ASSUME NEW d, NEW s, Kept(d, s)
          PROVE  Kept(d, s)'
        <3>1. s \in 1 .. nextId - 1 /\ nextId \in Nat
            BY <2>1 DEF Kept, FoundInv, IndexInv, MoreTypes
        <3>2. writer' \in {writer, 0, nextId}
            OBVIOUS
        <3>3. s = writer' => s \in DOMAIN files'
            BY <2>1, <3>1 DEF Kept
        <3> QED
            BY <2>1, <3>2, <3>3, KeptStep
    <2>2. acked' \ Deletes' \subseteq acked \ Deletes
        OBVIOUS
    <2> QED
        BY <2>1, <2>2 DEF FoundInv, SearchHolds
<1> QED
    BY <1>3, <1>4, <1>5, <1>6 DEF FoundInv

\* Mutations.
LEMMA MutationFound ==
    ASSUME FoundInv, IndexInv',
           \/ Put
           \/ \E d \in Docs : AppendDelete(d) \/ MarkDeleted(d) \/ FinishDelete(d)
    PROVE  FoundInv'
<1> USE DEF writerVars, managerVars, diskVars, bitmapVars, holderVars,
            cacheVars, searcherVars, returnVars, countVars
<1>1. /\ UNCHANGED <<up, segs, files, acked, returning, buildVars, cache,
                     manifest, holder>>
      /\ \/ searcher' = searcher /\ hasSearcher' = hasSearcher
         \/ searcher' = <<>> /\ hasSearcher' = FALSE
    BY DEF Put, AppendDelete, MarkDeleted, FinishDelete, DropSearcher
<1>2. up
    BY DEF Put, AppendDelete, MarkDeleted, FinishDelete, FoundInv, IndexInv,
           Closed
<1>3. Deletes \subseteq Deletes'
    <2>1. CASE Put
        BY <2>1, LogFacts DEF FoundInv, Put, Deletes, DeletesIn, Last
    <2>2. CASE \E d \in Docs : AppendDelete(d)
        BY <2>2, LogFacts DEF FoundInv, AppendDelete, Deletes, DeletesIn, Last
    <2>3. CASE \E d \in Docs : MarkDeleted(d) \/ FinishDelete(d)
        BY <2>3, WholeLog DEF MarkDeleted, FinishDelete, Last
    <2> QED
        BY <2>1, <2>2, <2>3
<1>4. DiskDocs' = DiskDocs
    BY <1>1 DEF DiskDocs
<1>5. /\ \/ /\ writer' = writer /\ buffer \subseteq buffer'
            /\ Covered \cap buffer' \subseteq buffer
         \/ /\ writer = 0 /\ writer' = nextId
            /\ buffer \subseteq buffer'
      /\ nextId <= nextId'
    <2>1. nextId \in Nat
        BY SegmentNumbers DEF FoundInv
    <2>2. CASE Put
        <3>1. Last + 1 \notin Covered
            BY LogFacts DEF FoundInv, IndexInv, TypeOK, Covered
        <3> QED
            BY <2>1, <2>2, <3>1 DEF Put
    <2>3. CASE ~Put
        <3>1. UNCHANGED <<writer, buffer, nextId>>
            BY <2>3 DEF AppendDelete, MarkDeleted, FinishDelete
        <3> QED
            BY <2>1, <3>1
    <2> QED
        BY <2>2, <2>3
<1>6. /\ DiskDocs' \in {DiskDocs, MemoryDocs}
      /\ DOMAIN cache' \subseteq DOMAIN cache
      /\ \A s \in DOMAIN cache' : cache'[s] = cache[s]
      /\ holder' = "sealed" => holder = "sealed" /\ DiskDocs' = DiskDocs
    BY <1>1, <1>4
<1> QED
    BY <1>1, <1>2, <1>3, <1>5, <1>6, FoundStep

\* The steps of a commit or optimization that change no segment.
LEMMA HolderFound ==
    ASSUME FoundInv, IndexInv',
           \/ StartCommit \/ StartOptimize \/ FlushNothing \/ InvalidateSealed
           \/ PersistMarks \/ PersistFails \/ Publish \/ PublishFails
           \/ ChooseMerge \/ ChooseNothing \/ ForgetDeletions \/ ForgetFails
    PROVE  FoundInv'
<1> USE DEF writerVars, managerVars, diskVars, holderVars, cacheVars,
            searcherVars, returnVars, countVars, logVars, Step
<1>1. /\ UNCHANGED <<up, log, segs, files, acked, returning, buildVars,
                     searcher, hasSearcher, nextId>>
      /\ holder' # "sealed"
    BY DEF StartCommit, StartOptimize, FlushNothing, InvalidateSealed,
           PersistMarks, PersistFails, Publish, PublishFails, ChooseMerge,
           ChooseNothing, ForgetDeletions, ForgetFails, Flushed, MergeFailed
<1>2. up
    BY HolderOpen DEF StartCommit, StartOptimize, FlushNothing, FoundInv,
           InvalidateSealed, PersistMarks, PersistFails, Publish, PublishFails,
           ChooseMerge, ChooseNothing, ForgetDeletions, ForgetFails
<1>3. Deletes' = Deletes
    BY <1>1, WholeLog DEF Last
<1>4. DiskDocs' \in {DiskDocs, MemoryDocs}
    <2>1. manifest' = manifest \/ manifest'.segs = segs
        <3>1. CASE Publish \/ PublishFails
            BY <3>1 DEF Publish, PublishFails, Saved, SaveFails, NewManifest
        <3>2. CASE ~(Publish \/ PublishFails)
            BY <3>2
               DEF StartCommit, StartOptimize, FlushNothing, InvalidateSealed,
                   PersistMarks, PersistFails, ChooseMerge, ChooseNothing,
                   ForgetDeletions, ForgetFails
        <3> QED
            BY <3>1, <3>2
    <2> QED
        BY <1>1, <2>1 DEF DiskDocs, MemoryDocs
<1>5. /\ DOMAIN cache' \subseteq DOMAIN cache
      /\ \A s \in DOMAIN cache' : cache'[s] = cache[s]
      /\ InvalidateSealed => writer \notin DOMAIN cache'
    BY DEF StartCommit, StartOptimize, FlushNothing, InvalidateSealed,
           PersistMarks, PersistFails, Publish, PublishFails, ChooseMerge,
           ChooseNothing, ForgetDeletions, ForgetFails, Invalidate, Without
<1>6. \/ writer' = writer /\ buffer' = buffer
      \/ /\ writer' = 0 /\ buffer' = {}
         /\ buffer # {} =>
                holder = "sealed" /\ writer \notin DOMAIN cache'
    <2>1. CASE InvalidateSealed
        BY <1>5, <2>1 DEF InvalidateSealed, DropWriter
    <2>2. CASE FlushNothing
        BY <2>2 DEF FlushNothing, DropWriter
    <2>3. CASE PersistFails \/ PublishFails
        BY <2>3 DEF PersistFails, PublishFails, DropWriter, FoundInv, IndexInv,
                    Phases, Flushing
    <2>4. CASE ~(InvalidateSealed \/ FlushNothing \/ PersistFails
                     \/ PublishFails)
        BY <2>4 DEF StartCommit, StartOptimize, PersistMarks, Publish,
                    ChooseMerge, ChooseNothing, ForgetDeletions, ForgetFails
    <2> QED
        BY <2>1, <2>2, <2>3, <2>4
<1>7. nextId <= nextId'
    BY <1>1, SegmentNumbers DEF FoundInv
<1> QED
    BY <1>1, <1>2, <1>3, <1>4, <1>5, <1>6, <1>7, FoundStep

\* A seal: the segment's reader that an earlier, failed seal left in the cache
\* lacks nothing that a commit has covered.
LEMMA SealFound ==
    ASSUME FoundInv, IndexInv', Seal \/ SealUnsaved
    PROVE  FoundInv'
<1> USE DEF logVars, writerVars, managerVars, diskVars, cacheVars, buildVars,
            searcherVars, returnVars, Step
<1>1. /\ UNCHANGED <<up, log, buffer, writer, nextId, bpc, bsegs, bepoch,
                     bbitmap, breaders, cache, searcher, hasSearcher, acked,
                     returning>>
      /\ \/ holder' = "failed"
         \/ /\ holder' = "sealed"
            /\ manifest' = [segs |-> segs', ckpt |-> ckpt, nextId |-> nextId]
    BY DEF Seal, SealUnsaved, Saved, NewManifest
<1>2. /\ up /\ writer # 0
      /\ DOMAIN files' = DOMAIN files \cup {writer}
      /\ files'[writer] = buffer
      /\ \A s \in DOMAIN files : s # writer => files'[s] = files[s]
      /\ writer \in DOMAIN files => files[writer] \subseteq buffer
      /\ MemoryDocs' = MemoryDocs \cup buffer
      /\ \/ /\ DiskDocs \subseteq DiskDocs'
            /\ DiskDocs' \subseteq DiskDocs \cup buffer
         \/ DiskDocs' = MemoryDocs'
    BY SealedDocs DEF FoundInv
<1>3. Deletes' = Deletes
    BY <1>1, WholeLog DEF Last
<1>4. ReadTypes'
    BY <1>1, <1>2 DEF FoundInv, ReadTypes
<1>5. AckedHeld'
    <2>1. DiskDocs' = MemoryDocs' \/ holder' # "sealed"
        BY <1>1 DEF DiskDocs, MemoryDocs
    <2> QED
        BY <1>1, <1>2, <1>3, <2>1 DEF FoundInv, AckedHeld, Covered
<1>6. CacheHolds'
    <2> SUFFICES ASSUME NEW s \in DOMAIN cache \cap DOMAIN files'
                 PROVE  IF s = writer
                        THEN Covered \cap files'[s] \subseteq cache[s].docs
                        ELSE files'[s] \subseteq cache[s].docs
        BY <1>1 DEF CacheHolds, Covered
    <2>1. s \in DOMAIN files
        BY DEF FoundInv, ReadTypes
    <2> QED
        BY <1>2, <2>1 DEF FoundInv, CacheHolds, AckedHeld
<1>7. SearchHolds'
    <2>1. ASSUME NEW d, NEW s, Kept(d, s)
          PROVE  Kept(d, s)'
        <3>1. /\ s = writer => s \in DOMAIN files
              /\ s \in DOMAIN files => files[s] \subseteq files'[s]
            BY <1>2, <2>1 DEF Kept
        <3>2. /\ nextId <= nextId' /\ writer' \in {writer, 0, nextId}
              /\ s = writer' => s \in DOMAIN files'
              /\ s \in DOMAIN files' => s \in DOMAIN files
              /\ s \in DOMAIN cache' => s \in DOMAIN cache /\ cache'[s] = cache[s]
            BY <1>1, <1>2, <3>1, SegmentNumbers DEF FoundInv
        <3> QED
            BY <1>1, <2>1, <3>1, <3>2, KeptStep
    <2> QED
        BY <1>1, <1>3, <2>1 DEF FoundInv, SearchHolds
<1> QED
    BY <1>4, <1>5, <1>6, <1>7 DEF FoundInv

\* A merge: its sources are dropped from the cache with their files.
LEMMA MergeFound ==
    ASSUME FoundInv, IndexInv', Merge \/ MergeFails
    PROVE  FoundInv'
<1> USE DEF logVars, writerVars, managerVars, diskVars, cacheVars, buildVars,
            searcherVars, returnVars, Step
<1>1. /\ UNCHANGED <<up, log, buffer, writer, bpc, bsegs, bepoch, bbitmap,
                     breaders, searcher, hasSearcher, acked, returning>>
      /\ holder = "merge" /\ holder' # "sealed" /\ nextId' = nextId + 1
    BY DEF Merge, MergeFails, MergeFailed
<1>2. /\ up /\ buffer = {} /\ nextId \notin DOMAIN files /\ writer # nextId
      /\ segs \subseteq DOMAIN files
      /\ manifest.segs \subseteq DOMAIN files /\ nextId \in Nat
    BY <1>1, HolderOpen, SegmentNumbers
       DEF FoundInv, IndexInv, Phases, Flushing, DiskCovers
<1>3. PICK deleted \in SUBSET sources :
          \/ /\ deleted = {} /\ cache' = cache
             /\ UNCHANGED <<segs, files, manifest>>
          \/ /\ \/ cache' = cache /\ deleted = {}
                \/ cache' = Without(sources)
             /\ segs' = (segs \ sources) \cup {nextId}
             /\ files' = [s \in (DOMAIN files \ deleted) \cup {nextId} |->
                              IF s = nextId THEN Merged ELSE files[s]]
             /\ \/ manifest' = manifest /\ deleted = {}
                \/ manifest'.segs = segs'
    <2>1. CASE Merge
        BY <2>1 DEF Merge, Replace, Saved, NewManifest
    <2>2. CASE MergeFails
        <3>1. {} \in SUBSET sources /\ cache' = cache
            BY <2>2 DEF MergeFails
        <3>2. CASE UNCHANGED <<segs, files, manifest>>
            BY <3>1, <3>2
        <3>3. CASE Replace({}) /\ SaveFails
            <4>1. /\ segs' = (segs \ sources) \cup {nextId}
                  /\ files' = [s \in (DOMAIN files \ {}) \cup {nextId} |->
                                   IF s = nextId THEN Merged ELSE files[s]]
                BY <3>3 DEF Replace
            <4>2. manifest' = manifest \/ manifest'.segs = segs'
                BY <3>3 DEF SaveFails, NewManifest
            <4> QED
                BY <3>1, <4>1, <4>2
        <3> QED
            BY <2>2, <3>2, <3>3 DEF MergeFails
    <2> QED
        BY <2>1, <2>2
<1>4. /\ DOMAIN cache' \subseteq DOMAIN cache \cap DOMAIN files'
      /\ \A s \in DOMAIN cache' : cache'[s] = cache[s]
      /\ \A s \in DOMAIN files' : s = nextId \/ files'[s] = files[s]
      /\ \A s \in DOMAIN files' : s = nextId \/ s \in DOMAIN files
    BY <1>2, <1>3 DEF Without, FoundInv, ReadTypes
<1>5. Deletes' = Deletes
    BY <1>1, WholeLog DEF Last
<1>6. /\ MemoryDocs' \subseteq MemoryDocs
      /\ MemoryDocs \ Deletes \subseteq MemoryDocs'
    <2>1. CASE UNCHANGED <<segs, files>>
        BY <2>1 DEF MemoryDocs
    <2>2. CASE /\ segs' = (segs \ sources) \cup {nextId}
               /\ files'[nextId] = Merged
               /\ \A s \in segs \ sources : files'[s] = files[s]
        <3>1. /\ MemoryDocs' \subseteq MemoryDocs
              /\ MemoryDocs \ frozen \subseteq MemoryDocs'
            BY <1>1, <2>2, MergedDocs DEF FoundInv
        <3> QED
            BY <3>1 DEF FoundInv, IndexInv, TypeOK
    <2>3. \/ UNCHANGED <<segs, files>>
          \/ /\ segs' = (segs \ sources) \cup {nextId}
             /\ files'[nextId] = Merged
             /\ \A s \in segs \ sources : files'[s] = files[s]
        BY <1>2, <1>3
    <2> QED
        BY <2>1, <2>2, <2>3
<1>7. DiskDocs' = DiskDocs \/ DiskDocs' = MemoryDocs'
    <2>1. CASE manifest' = manifest
        <3>1. \A s \in DOMAIN files : s \in DOMAIN files' /\ files'[s] = files[s]
            BY <1>2, <1>3, <2>1
        <3> QED
            BY <1>2, <2>1, <3>1 DEF DiskDocs
    <2>2. CASE manifest'.segs = segs'
        BY <2>2 DEF DiskDocs, MemoryDocs
    <2> QED
        BY <1>3, <2>1, <2>2
<1>8. ReadTypes'
    BY <1>1, <1>2, <1>4 DEF FoundInv, ReadTypes
<1>9. AckedHeld'
    <2>1. writer \in DOMAIN files' =>
              writer \in DOMAIN files /\ files'[writer] = files[writer]
        BY <1>2, <1>4
    <2> QED
        BY <1>1, <1>2, <1>5, <1>6, <1>7, <2>1 DEF FoundInv, AckedHeld, Covered
<1>10. CacheHolds'
    <2> SUFFICES ASSUME NEW s \in DOMAIN cache' \cap DOMAIN files'
                 PROVE  IF s = writer
                        THEN Covered \cap files'[s] \subseteq cache'[s].docs
                        ELSE files'[s] \subseteq cache'[s].docs
        BY <1>1 DEF CacheHolds, Covered
    <2>1. s \in DOMAIN cache /\ s \in DOMAIN files
        BY <1>4 DEF FoundInv, ReadTypes
    <2> QED
        BY <1>2, <1>4, <2>1 DEF FoundInv, CacheHolds
<1>11. SearchHolds'
    <2>1. ASSUME NEW d, NEW s, Kept(d, s)
          PROVE  Kept(d, s)'
        <3>1. s # nextId /\ nextId <= nextId'
            BY <1>1, <1>2, <2>1 DEF Kept
        <3>2. /\ s \in DOMAIN files' =>
                     s \in DOMAIN files /\ files[s] \subseteq files'[s]
              /\ s \in DOMAIN cache' => s \in DOMAIN cache /\ cache'[s] = cache[s]
            BY <1>4, <3>1
        <3>3. s # writer
            <4>1. writer \in DOMAIN files => files[writer] = {}
                BY <1>2 DEF FoundInv, IndexInv, WriterAbove
            <4> QED
                BY <2>1, <4>1 DEF Kept
        <3>4. writer' = writer
            BY <1>1
        <3> QED
            BY <1>1, <2>1, <3>1, <3>2, <3>3, <3>4, KeptStep
    <2> QED
        BY <1>1, <1>5, <2>1 DEF FoundInv, SearchHolds
<1> QED
    BY <1>8, <1>9, <1>10, <1>11 DEF FoundInv

\* A commit that releases the writer lock has covered all that was put.
LEMMA ReleaseFound ==
    ASSUME FoundInv, IndexInv', Release
    PROVE  FoundInv'
<1> USE DEF logVars, writerVars, managerVars, diskVars, cacheVars, buildVars,
            searcherVars
<1>1. /\ UNCHANGED <<up, log, segs, nextId, manifest, files, cache, bpc, bsegs,
                     bepoch, bbitmap, breaders, searcher, hasSearcher, acked>>
      /\ holder \in {"done", "failed"} /\ holder' = "free"
      /\ \/ /\ holder = "failed" /\ returning' = returning
            /\ UNCHANGED <<buffer, writer>>
         \/ /\ holder = "done" /\ buffer' = {} /\ writer' = 0
            /\ UNION returning' \subseteq Puts \cup UNION returning
    BY DEF Release, DropWriter
<1>2. up /\ 0 \notin DOMAIN files
    BY <1>1, HolderOpen, SegmentNumbers DEF FoundInv
<1>3. /\ Deletes' = Deletes /\ MemoryDocs' = MemoryDocs
      /\ DiskDocs' = DiskDocs
    BY <1>1, WholeLog DEF Last, MemoryDocs, DiskDocs
<1>4. ReadTypes'
    BY <1>1 DEF FoundInv, ReadTypes
<1>5. AckedHeld' /\ CacheHolds'
    <2>1. CASE holder = "failed"
        <3>1. Covered' = Covered
            BY <1>1, <2>1 DEF Covered
        <3> QED
            BY <1>1, <1>3, <2>1, <3>1 DEF FoundInv, AckedHeld, CacheHolds
    <2>2. CASE holder = "done"
        <3>1. buffer = {} /\ buffer' = {} /\ writer' = 0
            BY <1>1, <2>2 DEF FoundInv, IndexInv, Phases, Flushing
        <3>2. Puts \ Deletes \subseteq MemoryDocs
            BY <1>2, <3>1 DEF FoundInv, IndexInv, MemoryExact, Applied
        <3>3. Covered' \subseteq Puts \cup Covered
            BY <1>1, <2>2 DEF Covered
        <3>4. AckedHeld'
            BY <1>1, <1>2, <1>3, <3>1, <3>2, <3>3 DEF FoundInv, AckedHeld
        <3>5. writer \in DOMAIN files => files[writer] = {}
            BY <3>1 DEF FoundInv, IndexInv, WriterAbove
        <3>6. CacheHolds'
            BY <1>1, <1>2, <3>1, <3>5 DEF FoundInv, CacheHolds
        <3> QED
            BY <3>4, <3>6
    <2> QED
        BY <1>1, <2>1, <2>2
<1>6. SearchHolds'
    <2>1. ASSUME NEW d, NEW s, Kept(d, s)
          PROVE  Kept(d, s)'
        <3>1. s \in 1 .. nextId - 1 /\ nextId \in Nat
            BY <2>1 DEF Kept, FoundInv, IndexInv, MoreTypes
        <3>2. /\ nextId <= nextId' /\ writer' \in {writer, 0, nextId}
              /\ s = writer' => s \in DOMAIN files'
            BY <1>1, <2>1, <3>1 DEF Kept
        <3> QED
            BY <1>1, <2>1, <3>2, KeptStep
    <2> QED
        BY <1>1, <1>3, <2>1 DEF FoundInv, SearchHolds
<1> QED
    BY <1>4, <1>5, <1>6 DEF FoundInv

\* A return finds no search building, and drops the searcher.
LEMMA ReturnFound ==
    ASSUME FoundInv, IndexInv',
           Refresh \/ \E covered \in returning : Return(covered)
    PROVE  FoundInv'
<1> USE DEF logVars, writerVars, managerVars, diskVars, holderVars, cacheVars,
            buildVars, returnVars
<1>1. /\ UNCHANGED <<up, log, buffer, writer, segs, nextId, manifest, files,
                     holder, cache, bpc, bsegs, bepoch, bbitmap, breaders>>
      /\ bpc["search"] = "idle" /\ searcher' = <<>> /\ hasSearcher' = FALSE
    BY DEF Refresh, Return, DropSearcher, SearcherFree
<1>2. Covered' \subseteq Covered
    BY DEF Refresh, Return, Covered
<1>3. /\ Deletes' = Deletes /\ MemoryDocs' = MemoryDocs
      /\ DiskDocs' = DiskDocs
    BY <1>1, WholeLog DEF Last, MemoryDocs, DiskDocs
<1>4. DOMAIN <<>> = {}
    OBVIOUS
<1>5. ReadTypes'
    BY <1>1, <1>4 DEF FoundInv, ReadTypes
<1>6. AckedHeld' /\ CacheHolds'
    BY <1>1, <1>2, <1>3 DEF FoundInv, AckedHeld, CacheHolds
<1>7. SearchHolds'
    BY <1>1 DEF SearchHolds
<1> QED
    BY <1>5, <1>6, <1>7 DEF FoundInv

\* What a build leaves of the index, and the types of what it reads.
LEMMA BuildTypes ==
    ASSUME FoundInv, NEW b \in Builds, Build(b)
    PROVE  ReadTypes' /\ AckedHeld' /\ b \in Builders
<1> USE DEF elsewhere, logVars, writerVars, managerVars, diskVars, holderVars,
            returnVars, countVars, cacheVars, searcherVars
<1>1. UNCHANGED <<up, log, appended, clearing, buffer, writer, segs, nextId,
                  manifest, files, delmap, holder, acked, returning>>
    BY DEF Build, StartBuild, ReadEpoch, CompareEpoch, MoveEpoch, ReadBitmap,
           LoadReader, LoadFails, CheckEpoch
<1>2. AckedHeld'
    <2>1. /\ Deletes' = Deletes /\ MemoryDocs' = MemoryDocs
          /\ DiskDocs' = DiskDocs
        BY <1>1, WholeLog DEF Last, MemoryDocs, DiskDocs
    <2> QED
        BY <1>1, <2>1 DEF FoundInv, AckedHeld, Covered
<1>3. up /\ b \in Builders
    <2>1. bpc[b] # "idle" \/ up
        BY DEF Build, StartBuild, ReadEpoch, CompareEpoch, MoveEpoch,
               ReadBitmap, LoadReader, LoadFails, CheckEpoch, Turn, EndBuild
    <2> QED
        BY <2>1 DEF FoundInv, IndexInv, Closed, AllIdle, Builders
<1> SUFFICES ReadTypes'
    BY <1>2, <1>3
<1>4. MaxBitmaps \in Nat
    BY BitmapNumbers DEF FoundInv
<1> USE DEF FoundInv, ReadTypes
<1>5. CASE StartBuild(b) \/ ReadEpoch(b) \/ MoveEpoch(b)
    BY <1>1, <1>3, <1>5 DEF StartBuild, ReadEpoch, MoveEpoch, Turn
<1>6. CASE CompareEpoch(b)
    BY <1>1, <1>3, <1>6 DEF CompareEpoch, Turn
<1>7. CASE ReadBitmap(b)
    <2>1. slot' \in 0..MaxBitmaps
        <3>1. LoadBitmap
            BY <1>7 DEF ReadBitmap
        <3> QED
            BY <1>4, <3>1, LoadedBitmap DEF BitmapOf
    <2> QED
        BY <1>1, <1>3, <1>7, <2>1 DEF ReadBitmap, Turn
<1>8. CASE LoadReader(b)
    <2> PICK s \in ToLoad(b) :
            LET loaded == [docs |-> files[s], bitmap |-> bbitmap[b]] IN
            IF s \in DOMAIN cache
            THEN /\ breaders' = [breaders EXCEPT ![b] = With(@, s, cache[s])]
                 /\ UNCHANGED cache
            ELSE /\ s \in DOMAIN files
                 /\ breaders' = [breaders EXCEPT ![b] = With(@, s, loaded)]
                 /\ cache' = With(cache, s, loaded)
        BY <1>8 DEF LoadReader
    <2>1. UNCHANGED <<bpc, bsegs, bepoch, bbitmap, searcher, hasSearcher>>
        BY <1>8 DEF LoadReader
    <2>2. CASE s \in DOMAIN cache
        BY <1>1, <1>3, <2>1, <2>2 DEF With
    <2>3. CASE s \notin DOMAIN cache
        BY <1>1, <1>3, <2>1, <2>3 DEF With
    <2> QED
        BY <2>2, <2>3
<1>9. CASE LoadFails(b)
    BY <1>1, <1>3, <1>4, <1>9 DEF LoadFails, EndBuild, Turn
<1>10. CASE CheckEpoch(b)
    <2>1. CASE epoch = bepoch[b] /\ b = "search"
        BY <1>1, <1>3, <1>4, <1>10, <2>1 DEF CheckEpoch, EndBuild, Turn
    <2>2. CASE epoch = bepoch[b] /\ b # "search"
        BY <1>1, <1>3, <1>4, <1>10, <2>2 DEF CheckEpoch, EndBuild, Turn
    <2>3. CASE epoch # bepoch[b]
        BY <1>1, <1>3, <1>4, <1>10, <2>3 DEF CheckEpoch, Turn
    <2> QED
        BY <2>1, <2>2, <2>3
<1> QED
    BY <1>5, <1>6, <1>7, <1>8, <1>9, <1>10 DEF Build

\* A build reads every segment once, from the cache or its file.
LEMMA BuildFound ==
    ASSUME FoundInv, IndexInv', NEW b \in Builds, Build(b)
    PROVE  FoundInv'
<1> USE DEF elsewhere, logVars, writerVars, managerVars, diskVars, holderVars,
            returnVars, countVars, cacheVars, searcherVars
<1>1. UNCHANGED <<log, writer, segs, nextId, files, holder, acked, returning>>
    BY DEF Build, StartBuild, ReadEpoch, CompareEpoch, MoveEpoch, ReadBitmap,
           LoadReader, LoadFails, CheckEpoch
<1>2. /\ DOMAIN bpc = Builders /\ DOMAIN bsegs = Builders
      /\ DOMAIN breaders = Builders
      /\ b \in Builders /\ "search" \in Builders
      /\ DOMAIN <<>> = {}
    BY BuildTypes DEF FoundInv, ReadTypes, Builders
<1>3. Covered' = Covered /\ acked' = acked /\ Deletes' = Deletes
    BY <1>1, WholeLog DEF Covered, Last
<1>4. /\ bpc'["search"] # "load" \/ bpc["search"] = "load"
      /\ breaders' = breaders
      /\ DOMAIN cache' = {} \/ cache' = cache
      => \A d, s : Kept(d, s) => Kept(d, s)'
    BY <1>1 DEF Kept
<1>5. CASE StartBuild(b)
    <2>1. CacheHolds'
        BY <1>1, <1>3, <1>5 DEF StartBuild, FoundInv, CacheHolds
    <2>2. SearchHolds'
        <3>1. CASE b = "search"
            <4>1. /\ bpc'["search"] = "epoch" /\ bsegs'["search"] = segs /\ up
                  /\ UNCHANGED <<cache, searcher, hasSearcher>>
                BY <1>2, <1>5, <3>1 DEF StartBuild, Turn
            <4>2. ASSUME NEW d \in acked \ Deletes
                  PROVE  \E s \in segs : Kept(d, s)'
                <5>1. d \in Covered /\ d \in MemoryDocs
                    BY <4>1, <4>2 DEF FoundInv, AckedHeld, Covered
                <5>2. PICK s \in segs : d \in files[s]
                    BY <5>1 DEF MemoryDocs
                <5>3. s \in DOMAIN files /\ s \in 1 .. nextId - 1
                    BY <4>1, SegmentNumbers DEF FoundInv
                <5>4. s \in DOMAIN cache => d \in cache[s].docs
                    BY <5>1, <5>2, <5>3 DEF FoundInv, CacheHolds
                <5>5. Kept(d, s)'
                    BY <1>1, <4>1, <5>2, <5>3, <5>4 DEF Kept
                <5> QED
                    BY <5>5
            <4> QED
                BY <1>3, <4>1, <4>2 DEF FoundInv, SearchHolds
        <3>2. CASE b # "search"
            <4>1. /\ UNCHANGED <<breaders, cache, searcher, hasSearcher>>
                  /\ bpc'["search"] = bpc["search"]
                  /\ bsegs'["search"] = bsegs["search"]
                BY <1>2, <1>5, <3>2 DEF StartBuild, Turn
            <4> QED
                BY <1>3, <1>4, <4>1 DEF FoundInv, SearchHolds
        <3> QED
            BY <3>1, <3>2
    <2> QED
        BY <2>1, <2>2, BuildTypes DEF FoundInv
<1>6. CASE ReadEpoch(b) \/ MoveEpoch(b) \/ CompareEpoch(b)
    <2>1. /\ UNCHANGED <<breaders, bsegs, searcher, hasSearcher>>
          /\ DOMAIN cache' = {} \/ cache' = cache
          /\ bpc'["search"] # "load" \/ bpc'["search"] = bpc["search"]
          /\ bpc'["search"] # "idle" => bpc["search"] # "idle"
        BY <1>2, <1>6 DEF ReadEpoch, MoveEpoch, CompareEpoch, Turn
    <2>2. CacheHolds'
        BY <1>1, <1>3, <2>1 DEF FoundInv, CacheHolds
    <2>3. SearchHolds'
        BY <1>3, <1>4, <2>1 DEF FoundInv, SearchHolds
    <2> QED
        BY <2>2, <2>3, BuildTypes DEF FoundInv
<1>7. CASE ReadBitmap(b)
    <2>1. /\ UNCHANGED <<cache, bsegs, searcher, hasSearcher>>
          /\ bpc'["search"] # "idle" => bpc["search"] # "idle"
          /\ \/ breaders'["search"] = <<>>
             \/ /\ breaders'["search"] = breaders["search"]
                /\ bpc'["search"] = bpc["search"]
        BY <1>2, <1>7 DEF ReadBitmap, Turn
    <2>2. CacheHolds'
        BY <1>1, <1>3, <2>1 DEF FoundInv, CacheHolds
    <2>3. \A d, s : Kept(d, s) => Kept(d, s)'
        BY <1>1, <1>2, <2>1 DEF Kept
    <2>4. SearchHolds'
        BY <1>3, <2>1, <2>3 DEF FoundInv, SearchHolds
    <2> QED
        BY <2>2, <2>4, BuildTypes DEF FoundInv
<1>8. CASE LoadReader(b)
    <2>1. PICK s \in ToLoad(b) :
            LET loaded == [docs |-> files[s], bitmap |-> bbitmap[b]] IN
            IF s \in DOMAIN cache
            THEN /\ breaders' = [breaders EXCEPT ![b] = With(@, s, cache[s])]
                 /\ UNCHANGED cache
            ELSE /\ s \in DOMAIN files
                 /\ breaders' = [breaders EXCEPT ![b] = With(@, s, loaded)]
                 /\ cache' = With(cache, s, loaded)
        BY <1>8 DEF LoadReader
    <2>2. UNCHANGED <<bpc, bsegs, searcher, hasSearcher>>
        BY <1>8 DEF LoadReader
    <2>3. PICK r :
              /\ breaders' = [breaders EXCEPT ![b] = With(@, s, r)]
              /\ IF s \in DOMAIN cache
                 THEN r = cache[s] /\ cache' = cache
                 ELSE /\ s \in DOMAIN files
                      /\ r = [docs |-> files[s], bitmap |-> bbitmap[b]]
                      /\ cache' = With(cache, s, r)
        <3>1. CASE s \in DOMAIN cache
            BY <2>1, <3>1
        <3>2. CASE s \notin DOMAIN cache
            BY <2>1, <3>2
        <3> QED
            BY <3>1, <3>2
    <2>4. CacheHolds'
        <3>1. s \in DOMAIN cache => cache' = cache
            BY <2>3
        <3>2. s \notin DOMAIN cache =>
                  cache' = With(cache, s, r) /\ r.docs = files[s]
            BY <2>3
        <3> QED
            BY <1>1, <1>3, <3>1, <3>2 DEF FoundInv, CacheHolds, With
    <2>5. ASSUME NEW d, NEW t, Kept(d, t)
          PROVE  Kept(d, t)'
        <3>1. t = s => d \in r.docs
            BY <2>3, <2>5 DEF Kept
        <3>2. /\ t \in DOMAIN cache' => t = s \/ t \in DOMAIN cache
              /\ t \in DOMAIN cache' =>
                     \/ t = s /\ cache'[t] = r
                     \/ t \in DOMAIN cache /\ cache'[t] = cache[t]
            BY <2>3 DEF With
        <3>3. t \in DOMAIN cache' => d \in cache'[t].docs
            BY <2>5, <3>1, <3>2 DEF Kept
        <3>4. PICK f : f = breaders'["search"]
            OBVIOUS
        <3>5. \/ f = breaders["search"]
              \/ f = With(breaders["search"], s, r)
            BY <1>2, <2>3, <3>4
        <3>6. /\ t \in DOMAIN f => t = s \/ t \in DOMAIN breaders["search"]
              /\ t \in DOMAIN f =>
                     \/ t = s /\ f[t] = r
                     \/ /\ t \in DOMAIN breaders["search"]
                        /\ f[t] = breaders["search"][t]
            BY <3>5 DEF With
        <3>7. bpc["search"] = "load" /\ t \in DOMAIN f => d \in f[t].docs
            BY <2>5, <3>1, <3>6 DEF Kept
        <3> QED
            BY <1>1, <2>2, <2>5, <3>3, <3>4, <3>7 DEF Kept
    <2>6. SearchHolds'
        BY <1>3, <2>2, <2>5 DEF FoundInv, SearchHolds
    <2> QED
        BY <2>4, <2>6, BuildTypes DEF FoundInv
<1>9. CASE LoadFails(b)
    <2>1. CacheHolds'
        BY <1>1, <1>3, <1>9 DEF LoadFails, FoundInv, CacheHolds
    <2>2. /\ UNCHANGED <<cache, searcher, hasSearcher>>
          /\ \/ bpc'["search"] = "idle"
             \/ /\ bpc'["search"] = bpc["search"]
                /\ bsegs'["search"] = bsegs["search"]
                /\ breaders'["search"] = breaders["search"]
        BY <1>2, <1>9 DEF LoadFails, EndBuild, Turn
    <2>3. bpc'["search"] # "idle" => \A d, s : Kept(d, s) => Kept(d, s)'
        BY <1>1, <2>2 DEF Kept
    <2>4. SearchHolds'
        BY <1>3, <2>2, <2>3 DEF FoundInv, SearchHolds
    <2> QED
        BY <2>1, <2>4, BuildTypes DEF FoundInv
<1>10. CASE CheckEpoch(b)
    <2>1. DOMAIN cache' = {} \/ cache' = cache
        BY <1>2, <1>10 DEF CheckEpoch
    <2>2. CacheHolds'
        BY <1>1, <1>3, <2>1 DEF FoundInv, CacheHolds
    <2>3. CASE epoch = bepoch[b] /\ b = "search"
        <3>1. /\ searcher' = breaders["search"]
              /\ bsegs["search"] \subseteq DOMAIN breaders["search"]
              /\ bpc["search"] = "load" /\ bpc'["search"] = "idle"
            BY <1>2, <1>10, <2>3 DEF CheckEpoch, EndBuild, Turn, ToLoad
        <3>2. ASSUME NEW d \in acked \ Deletes
              PROVE  \E s \in DOMAIN searcher' : d \in searcher'[s].docs
            <4>1. PICK s \in bsegs["search"] : Kept(d, s)
                BY <3>1 DEF FoundInv, SearchHolds
            <4>2. s \in DOMAIN searcher' /\ d \in searcher'[s].docs
                BY <3>1, <4>1 DEF Kept
            <4> QED
                BY <4>2
        <3>3. SearchHolds'
            BY <1>3, <3>1, <3>2 DEF SearchHolds
        <3> QED
            BY <2>2, <3>3, BuildTypes DEF FoundInv
    <2>4. CASE ~(epoch = bepoch[b] /\ b = "search")
        <3>1. /\ UNCHANGED <<searcher, hasSearcher>>
              /\ bsegs'["search"] = bsegs["search"]
              /\ bpc'["search"] # "idle" => bpc["search"] # "idle"
              /\ \/ bpc'["search"] # "load"
                 \/ /\ bpc'["search"] = bpc["search"]
                    /\ breaders'["search"] = breaders["search"]
            BY <1>2, <1>10, <2>4 DEF CheckEpoch, EndBuild, Turn
        <3>2. \A d, s : Kept(d, s) => Kept(d, s)'
            BY <1>1, <2>1, <3>1 DEF Kept
        <3>3. SearchHolds'
            BY <1>3, <3>1, <3>2 DEF FoundInv, SearchHolds
        <3> QED
            BY <2>2, <3>3, BuildTypes DEF FoundInv
    <2> QED
        BY <2>3, <2>4
<1> QED
    BY <1>5, <1>6, <1>7, <1>8, <1>9, <1>10 DEF Build

\* Where there are no builds.
LEMMA NothingBuilt ==
    /\ \A x : /\ DOMAIN NoBuilds(x) = Builders
              /\ \A b \in Builders : NoBuilds(x)[b] = x
    /\ \A b \in Builders : DOMAIN NoBuilds(<<>>)[b] = {}
    /\ DOMAIN AllIdle = Builders
BY DEF NoBuilds, AllIdle, Builders

\* A crash drops every reader.
LEMMA CrashFound ==
    ASSUME FoundInv, IndexInv', Crash
    PROVE  FoundInv'
<1> USE DEF diskVars
<1>1. /\ up' = FALSE /\ writer' = 0 /\ holder' = "free"
      /\ cache' = <<>> /\ bpc' = AllIdle /\ bsegs' = NoBuilds({})
      /\ bepoch' = NoBuilds(0) /\ bbitmap' = NoBuilds(0)
      /\ breaders' = NoBuilds(<<>>)
      /\ searcher' = <<>> /\ hasSearcher' = FALSE /\ returning' = {}
      /\ UNCHANGED <<log, manifest, files, acked>>
    BY DEF Crash, Forgotten
<1>2. /\ DOMAIN cache' = {} /\ DOMAIN searcher' = {}
      /\ MaxBitmaps \in Nat
    BY <1>1, BitmapNumbers DEF FoundInv
<1>3. ReadTypes'
    <2>1. /\ DOMAIN bpc' = Builders /\ DOMAIN bsegs' = Builders
          /\ DOMAIN bepoch' = Builders /\ DOMAIN bbitmap' = Builders
          /\ DOMAIN breaders' = Builders
        BY <1>1, NothingBuilt
    <2>2. /\ \A b \in Builders : bbitmap'[b] \in 0..MaxBitmaps
          /\ \A b \in Builders : DOMAIN breaders'[b] = {}
        BY <1>1, <1>2, NothingBuilt
    <2> QED
        BY <1>1, <1>2, <2>1, <2>2 DEF ReadTypes
<1>4. AckedHeld'
    <2>1. Deletes' = Deletes /\ DiskDocs' = DiskDocs
        BY <1>1, WholeLog DEF Last, DiskDocs
    <2>2. 0 \notin DOMAIN files
        BY SegmentNumbers DEF FoundInv, Crash
    <2>3. Covered' \subseteq Covered
        BY <1>1 DEF Covered
    <2> QED
        BY <1>1, <2>1, <2>2, <2>3 DEF FoundInv, AckedHeld
<1>5. CacheHolds'
    BY <1>2 DEF CacheHolds
<1>6. SearchHolds'
    BY <1>1 DEF SearchHolds, AllIdle
<1> QED
    BY <1>3, <1>4, <1>5, <1>6 DEF FoundInv

\* An open has what the manifest names.
LEMMA OpenFound ==
    ASSUME FoundInv, IndexInv', Open
    PROVE  FoundInv'
<1> USE DEF logVars, holderVars, cacheVars, buildVars, searcherVars,
            returnVars
<1>1. /\ ~up /\ segs' = manifest.segs
      /\ files' = [s \in DOMAIN files \cap manifest.segs |-> files[s]]
      /\ UNCHANGED <<log, manifest, acked, returning, holder, cache, bpc, bsegs,
                     bepoch, bbitmap, breaders, searcher, hasSearcher>>
      /\ writer' \in {writer, manifest.nextId}
    BY DEF Open, writerVars, LoadedNextId
<1>2. /\ DOMAIN cache = {} /\ DOMAIN searcher = {} /\ hasSearcher = FALSE
      /\ bpc = AllIdle /\ writer = 0 /\ holder = "free"
    BY <1>1 DEF FoundInv, ReadTypes, IndexInv, Closed
<1>3. /\ manifest.segs \subseteq DOMAIN files
      /\ manifest.segs \subseteq 1 .. manifest.nextId - 1
      /\ manifest.nextId \in Nat
    BY SegmentNumbers DEF FoundInv, IndexInv, DiskCovers
<1>4. DiskDocs' = DiskDocs /\ MemoryDocs' = DiskDocs /\ Deletes' = Deletes
    <2>1. Deletes' = Deletes
        BY <1>1, WholeLog DEF Last
    <2> QED
        BY <1>1, <1>3, <2>1 DEF DiskDocs, MemoryDocs
<1>5. ReadTypes'
    <2>1. ReadTypes
        BY DEF FoundInv
    <2> QED
        BY <1>1, <1>2, <2>1 DEF ReadTypes
<1>6. AckedHeld'
    <2>1. writer' \notin DOMAIN files'
        BY <1>1, <1>2, <1>3
    <2> QED
        BY <1>1, <1>2, <1>4, <2>1 DEF FoundInv, AckedHeld, Covered
<1>7. CacheHolds'
    BY <1>1, <1>2 DEF CacheHolds
<1>8. SearchHolds'
    BY <1>1, <1>2 DEF SearchHolds, AllIdle
<1> QED
    BY <1>5, <1>6, <1>7, <1>8 DEF FoundInv

\* An empty index satisfies the invariant.
LEMMA InitFound == Init => FoundInv
<1> SUFFICES ASSUME Init PROVE FoundInv
    OBVIOUS
<1>1. IndexInv
    BY InitIndex
<1>2. /\ DOMAIN cache = {} /\ DOMAIN files = {} /\ segs = {} /\ acked = {}
      /\ Covered = {} /\ DOMAIN searcher = {}
    BY DEF Init, Covered
<1>3. MemoryDocs = {}
    BY <1>2 DEF MemoryDocs
<1>4. ReadTypes
    <2>1. MaxBitmaps \in Nat
        BY <1>1, BitmapNumbers
    <2>2. /\ up /\ hasSearcher = FALSE
          /\ bpc = AllIdle /\ bsegs = NoBuilds({}) /\ bepoch = NoBuilds(0)
          /\ bbitmap = NoBuilds(0) /\ breaders = NoBuilds(<<>>)
        BY DEF Init
    <2>3. /\ DOMAIN bpc = Builders /\ DOMAIN bsegs = Builders
          /\ DOMAIN bepoch = Builders /\ DOMAIN bbitmap = Builders
          /\ DOMAIN breaders = Builders
        BY <2>2, NothingBuilt
    <2>4. /\ \A b \in Builders : bbitmap[b] \in 0..MaxBitmaps
          /\ \A b \in Builders : DOMAIN breaders[b] = {}
        BY <2>1, <2>2, NothingBuilt
    <2> QED
        BY <1>2, <2>2, <2>3, <2>4 DEF ReadTypes
<1>5. AckedHeld /\ CacheHolds
    BY <1>2, <1>3 DEF Init, AckedHeld, CacheHolds
<1>6. SearchHolds
    BY <1>2 DEF Init, SearchHolds, AllIdle
<1> QED
    BY <1>1, <1>4, <1>5, <1>6 DEF FoundInv

\* Every step keeps it.
LEMMA NextFound == FoundInv /\ [Next]_vars => FoundInv'
<1> SUFFICES ASSUME FoundInv, [Next]_vars PROVE FoundInv'
    OBVIOUS
<1>1. IndexInv'
    BY NextIndex DEF FoundInv
<1>2. CASE Put
    BY <1>1, <1>2, MutationFound
<1>3. CASE \E d \in Docs : AppendDelete(d) \/ MarkDeleted(d) \/ FinishDelete(d)
    BY <1>1, <1>3, MutationFound
<1>4. CASE \/ StartCommit \/ StartOptimize \/ FlushNothing \/ InvalidateSealed
           \/ PersistMarks \/ PersistFails \/ Publish \/ PublishFails
           \/ ChooseMerge \/ ChooseNothing \/ ForgetDeletions \/ ForgetFails
    BY <1>1, <1>4, HolderFound
<1>5. CASE Seal \/ SealUnsaved
    BY <1>1, <1>5, SealFound
<1>6. CASE Merge \/ MergeFails
    BY <1>1, <1>6, MergeFound
<1>7. CASE Release
    BY <1>1, <1>7, ReleaseFound
<1>8. ASSUME NEW b \in Builds, Build(b)
      PROVE  FoundInv'
    BY <1>1, <1>8, BuildFound
<1>9. CASE Crash \/ Open
    BY <1>1, <1>9, CrashFound, OpenFound
<1>10. CASE Refresh \/ \E covered \in returning : Return(covered)
    BY <1>1, <1>10, ReturnFound
<1>11. CASE UNCHANGED vars
    <2>1. UNCHANGED <<up, log, buffer, writer, segs, manifest, files, holder,
                      cache, bpc, bsegs, bepoch, bbitmap, breaders, searcher,
                      hasSearcher, acked, returning, nextId>>
        BY <1>11 DEF vars, logVars, writerVars, managerVars, diskVars,
                     holderVars, cacheVars, buildVars, searcherVars,
                     returnVars
    <2>2. /\ Deletes' = Deletes /\ MemoryDocs' = MemoryDocs
          /\ DiskDocs' = DiskDocs /\ Covered' = Covered
        BY <2>1, WholeLog DEF Last, MemoryDocs, DiskDocs, Covered
    <2>3. ReadTypes' /\ AckedHeld'
        BY <2>1, <2>2 DEF FoundInv, ReadTypes, AckedHeld
    <2>4. CacheHolds' /\ SearchHolds'
        BY <2>1, <2>2 DEF FoundInv, CacheHolds, SearchHolds, Kept
    <2> QED
        BY <1>1, <2>3, <2>4 DEF FoundInv
<1> QED
    BY <1>2, <1>3, <1>4, <1>5, <1>6, <1>7, <1>8, <1>9, <1>10, <1>11 DEF Next

\* Every search finds what a commit that returned has covered, whatever
\* builds readers and whatever merges, fails or is retried meanwhile
\* (SegmentedWriter::commit, segmented_index.rs).
THEOREM CommitsAreFound == Spec => []CommittedIsFound
<1>1. FoundInv => CommittedIsFound
    <2> SUFFICES ASSUME FoundInv, hasSearcher, NEW d \in acked, d \notin Deletes
                 PROVE  d \in Found
        BY DEF CommittedIsFound
    <2>1. PICK s \in DOMAIN searcher : d \in searcher[s].docs
        BY DEF FoundInv, SearchHolds
    <2>2. Marks(searcher[s].bitmap) \subseteq Deletes
        BY BitmapNumbers DEF Marks, FoundInv, ReadTypes
    <2> QED
        BY <2>1, <2>2 DEF Found, FoundIn
<1> QED
    BY <1>1, InitFound, NextFound, PTL DEF Spec

-----------------------------------------------------------------------------
(* Searches: what they hide.                                               *)

\* Only searches build readers: stats may put a reader of an older bitmap into
\* the cache after a search has cleared it.
SearchOnly == Builds \subseteq {"search"}

\* A reader that hides every deleted document, now and until the epoch moves.
Current(r) ==
    /\ r.bitmap = slot
    /\ slot = 0 => delmap = {}
    /\ r.docs \cap Applied \subseteq Marks(slot)

\* The steps of a search's build.
BuildPhases ==
    /\ cacheEpoch \in 0..epoch /\ bepoch["search"] \in 0..epoch
    /\ bpc["search"] = "idle" => bsegs["search"] = {}
    /\ bpc["search"] = "move" => DOMAIN cache = {}
    /\ bpc["search"] \in {"bitmap", "load"} => cacheEpoch = bepoch["search"]

\* While the epoch is the one they were built in, the cached readers and those
\* of a build hide every deleted document, but for those of a replaced segment
\* whose file has stayed.
CurrentReaders ==
    /\ cacheEpoch = epoch =>
           \A s \in DOMAIN cache \ LeftOver : Current(cache[s])
    /\ bpc["search"] = "load" /\ bepoch["search"] = epoch =>
           /\ bbitmap["search"] = slot
           /\ slot = 0 => delmap = {}
           /\ \A s \in DOMAIN breaders["search"] \ LeftOver :
                  Current(breaders["search"][s])

\* The writer's file is there only between a seal and the end of its commit,
\* or after a failed one, and the segment is then registered.
WriterListed ==
    up /\ writer \in DOMAIN files => writer \in segs /\ buffer # {}

\* The numbers of the bitmaps there have been.
InUse == 0 .. epoch + (IF slot = 0 THEN 0 ELSE 1)

\* The searcher hides what was deleted before it was built.
SearcherHides ==
    \A s \in DOMAIN searcher \ LeftOver :
        /\ searcher[s].bitmap \in InUse
        /\ searcher[s].docs \cap Gone \subseteq Marks(searcher[s].bitmap)

HiddenInv ==
    FoundInv /\ BuildPhases /\ CurrentReaders /\ WriterListed /\ SearcherHides

\* A change of the bitmap: bitmaps lose no marks, and either the epoch moves,
\* or a bitmap that was not loaded is loaded, which no reader is current with,
\* or the bitmap stays and marks what is newly deleted.
KeepsMarks ==
    /\ \/ epoch' = epoch + 1
       \/ epoch' = epoch /\ slot = 0 /\ delmap # {}
       \/ /\ epoch' = epoch /\ slot' = slot
          /\ slot = 0 /\ delmap = {} => delmap' = {}
          /\ Applied' \subseteq Applied \cup Marks(slot)'
    /\ \A b \in InUse : b \in InUse' /\ Marks(b) \subseteq Marks(b)'

\* A mark.
LEMMA ChangeKeeps ==
    ASSUME IndexInv, NEW gained, ChangeBitmap(gained, {}), delmap' = delmap,
           Applied' \subseteq Applied \cup gained
    PROVE  KeepsMarks /\ WrittenMarks \cup gained \subseteq WrittenMarks'
<1>1. /\ epoch \in Nat /\ slot \in {0, epoch + 1} /\ epoch + 1 <= MaxBitmaps
      /\ slot = 0 => epoch + 2 <= MaxBitmaps
      /\ DOMAIN bitmaps = 1..MaxBitmaps /\ MaxBitmaps \in Nat
    BY BitmapNumbers
<1>2. CASE slot # 0
    <2>1. /\ slot' = slot /\ epoch' = epoch
          /\ \A b \in 1..MaxBitmaps : bitmaps[b] \subseteq bitmaps'[b]
          /\ gained \subseteq bitmaps'[slot]
        BY <1>1, <1>2 DEF ChangeBitmap
    <2> QED
        BY <1>1, <1>2, <2>1 DEF KeepsMarks, InUse, Marks, WrittenMarks
<1>3. CASE slot = 0 /\ delmap # {}
    <2>1. /\ slot' = epoch + 1 /\ epoch' = epoch
          /\ \A b \in 1..MaxBitmaps : b # epoch + 1 => bitmaps'[b] = bitmaps[b]
          /\ bitmaps'[epoch + 1] = delmap \cup gained
        BY <1>1, <1>3 DEF ChangeBitmap
    <2> QED
        BY <1>1, <1>3, <2>1 DEF KeepsMarks, InUse, Marks, WrittenMarks
<1>4. CASE slot = 0 /\ delmap = {}
    <2>1. /\ slot' = epoch + 2 /\ epoch' = epoch + 1
          /\ \A b \in 1..MaxBitmaps : b # epoch + 2 => bitmaps'[b] = bitmaps[b]
          /\ bitmaps'[epoch + 2] = gained
        BY <1>1, <1>4 DEF ChangeBitmap, Create, Install
    <2> QED
        BY <1>1, <1>4, <2>1 DEF KeepsMarks, InUse, Marks, WrittenMarks
<1> QED
    BY <1>2, <1>3, <1>4

\* A load.
LEMMA LoadKeeps ==
    ASSUME IndexInv, LoadBitmap, delmap' = delmap, Applied' = Applied
    PROVE  KeepsMarks /\ WrittenMarks' = WrittenMarks
<1>1. /\ epoch \in Nat /\ slot \in {0, epoch + 1} /\ epoch + 1 <= MaxBitmaps
      /\ DOMAIN bitmaps = 1..MaxBitmaps /\ MaxBitmaps \in Nat
    BY BitmapNumbers
<1>2. CASE slot = 0 /\ delmap # {}
    <2>1. /\ slot' = epoch + 1 /\ epoch' = epoch
          /\ \A b \in 1..MaxBitmaps : b # epoch + 1 => bitmaps'[b] = bitmaps[b]
          /\ bitmaps'[epoch + 1] = delmap
        BY <1>1, <1>2 DEF LoadBitmap
    <2> QED
        BY <1>1, <1>2, <2>1 DEF KeepsMarks, InUse, Marks, WrittenMarks
<1>3. CASE ~(slot = 0 /\ delmap # {})
    <2>1. UNCHANGED <<slot, bitmaps, epoch>>
        BY <1>3 DEF LoadBitmap, bitmapVars
    <2> QED
        BY <2>1 DEF KeepsMarks, InUse, Marks, WrittenMarks
<1> QED
    BY <1>2, <1>3

\* None.
LEMMA SameKeeps ==
    ASSUME UNCHANGED <<slot, bitmaps, epoch>>, Applied' \subseteq Applied,
           slot = 0 /\ delmap = {} => delmap' = {}
    PROVE  KeepsMarks
BY DEF KeepsMarks, InUse, Marks

\* A current reader stays current while the epoch stands.
LEMMA CurrentStays ==
    ASSUME epoch \in Nat, slot \in {0, epoch + 1}, KeepsMarks, epoch' = epoch,
           NEW r, Current(r)
    PROVE  Current(r)'
<1>1. /\ slot' = slot
      /\ slot = 0 /\ delmap = {} => delmap' = {}
      /\ Applied' \subseteq Applied \cup Marks(slot)'
    BY DEF KeepsMarks, Current
<1>2. Marks(slot) \subseteq Marks(slot)'
    <2>1. PICK t : t = slot
        OBVIOUS
    <2>2. t \in InUse
        BY <2>1 DEF InUse
    <2>3. Marks(t) \subseteq Marks(t)'
        BY <2>2 DEF KeepsMarks
    <2> QED
        BY <1>1, <2>1, <2>3 DEF Marks
<1> QED
    BY <1>1, <1>2 DEF Current

\* A step that builds nothing: it may drop cached readers and the searcher.
LEMMA HiddenStep ==
    ASSUME HiddenInv, FoundInv', KeepsMarks, WriterListed',
           LeftOver \subseteq LeftOver',
           UNCHANGED <<bpc, bsegs, bepoch, bbitmap, breaders, cacheEpoch>>,
           DOMAIN cache' \subseteq DOMAIN cache,
           \A s \in DOMAIN cache' : cache'[s] = cache[s],
           \/ searcher' = <<>>
           \/ searcher' = searcher /\ Gone' \subseteq Gone
    PROVE  HiddenInv'
<1>1. /\ epoch \in Nat /\ slot \in {0, epoch + 1}
      /\ cacheEpoch \in 0..epoch /\ bepoch["search"] \in 0..epoch
    BY BitmapNumbers DEF HiddenInv, FoundInv, BuildPhases
<1>2. /\ epoch' \in {epoch, epoch + 1}
      /\ epoch' = epoch => \A r : Current(r) => Current(r)'
    <2>1. epoch' \in {epoch, epoch + 1}
        BY DEF KeepsMarks
    <2>2. ASSUME epoch' = epoch, NEW r, Current(r)
          PROVE  Current(r)'
        BY <1>1, <2>2, CurrentStays
    <2> QED
        BY <2>1, <2>2
<1>3. BuildPhases'
    <2>1. (cacheEpoch \in 0..epoch /\ bepoch["search"] \in 0..epoch)'
        BY <1>1, <1>2
    <2> QED
        BY <2>1 DEF HiddenInv, BuildPhases
<1>4. CurrentReaders'
    <2>1. CASE epoch' = epoch + 1
        BY <1>1, <2>1 DEF CurrentReaders
    <2>2. CASE epoch' = epoch
        <3>1. bpc["search"] = "load" /\ bepoch["search"] = epoch =>
                  slot' = slot /\ (slot = 0 => delmap' = {})
            BY <1>1, <2>2 DEF HiddenInv, CurrentReaders, KeepsMarks
        <3>2. cacheEpoch = epoch =>
                  \A s \in DOMAIN cache' \ LeftOver' : Current(cache[s])'
            BY <1>2, <2>2 DEF HiddenInv, CurrentReaders
        <3>3. bpc["search"] = "load" /\ bepoch["search"] = epoch =>
                  \A s \in DOMAIN breaders'["search"] \ LeftOver' :
                      Current(breaders["search"][s])'
            BY <1>2, <2>2 DEF HiddenInv, CurrentReaders
        <3> QED
            BY <1>2, <2>2, <3>1, <3>2, <3>3 DEF HiddenInv, CurrentReaders
    <2> QED
        BY <1>2, <2>1, <2>2
<1>5. SearcherHides'
    <2>1. CASE searcher' = <<>>
        <3>1. DOMAIN searcher' = {}
            BY <2>1
        <3> QED
            BY <3>1 DEF SearcherHides
    <2>2. CASE searcher' = searcher /\ Gone' \subseteq Gone
        BY <2>2 DEF HiddenInv, SearcherHides, KeepsMarks
    <2> QED
        BY <2>1, <2>2
<1> QED
    BY <1>3, <1>4, <1>5 DEF HiddenInv

\* Mutations.
LEMMA MutationHidden ==
    ASSUME HiddenInv, FoundInv',
           \/ Put
           \/ \E d \in Docs : AppendDelete(d) \/ MarkDeleted(d) \/ FinishDelete(d)
    PROVE  HiddenInv'
<1> USE DEF writerVars, managerVars, diskVars, holderVars, cacheVars, buildVars,
            searcherVars, countVars
<1>1. UNCHANGED <<bpc, bsegs, bepoch, bbitmap, breaders, cache, cacheEpoch,
                  up, segs, files, delmap, holder>>
    BY DEF Put, AppendDelete, MarkDeleted, FinishDelete
<1>2. IndexInv /\ LeftOver' = LeftOver
    BY <1>1 DEF HiddenInv, FoundInv, LeftOver
<1>3. CASE Put
    <2>1. /\ ChangeBitmap({}, {}) /\ searcher' = searcher
          /\ UNCHANGED <<appended, clearing>>
        BY <1>3 DEF Put
    <2>2. Deletes' = Deletes
        <3>1. log' = Append(log, [op |-> "put", doc |-> Last + 1])
            BY <1>3 DEF Put
        <3> QED
            BY <1>2, <3>1, LogFacts DEF Deletes, DeletesIn, Last
    <2>3. Applied' = Applied /\ Gone' = Gone
        BY <2>1, <2>2 DEF Applied, Gone
    <2>4. KeepsMarks
        <3>1. Applied' \subseteq Applied \cup {}
            BY <2>3
        <3> QED
            BY <1>1, <1>2, <2>1, <3>1, ChangeKeeps
    <2>5. WriterListed'
        <3>1. nextId \notin DOMAIN files
            BY <1>2, <1>3, SegmentNumbers DEF Put
        <3>2. /\ writer' \in {writer, nextId}
              /\ writer' = writer => buffer \subseteq buffer'
            BY <1>3 DEF Put
        <3> QED
            BY <1>1, <3>1, <3>2 DEF HiddenInv, WriterListed
    <2> QED
        BY <1>1, <1>2, <2>1, <2>3, <2>4, <2>5, HiddenStep
<1>4. ASSUME NEW d \in Docs, AppendDelete(d)
      PROVE  HiddenInv'
    <2>1. /\ UNCHANGED <<slot, bitmaps, epoch, clearing, searcher>>
          /\ appended' = appended \cup {d}
        BY <1>4 DEF AppendDelete, bitmapVars
    <2>2. Deletes' = Deletes \cup {d}
        <3>1. log' = Append(log, [op |-> "delete", doc |-> d])
            BY <1>4 DEF AppendDelete
        <3> QED
            BY <1>2, <3>1, LogFacts DEF Deletes, DeletesIn, Last
    <2>3. Applied' \subseteq Applied /\ Gone' \subseteq Gone
        BY <2>1, <2>2 DEF Applied, Gone
    <2>4. KeepsMarks
        BY <1>1, <2>1, <2>3, SameKeeps
    <2>5. WriterListed'
        BY <1>1, <1>4 DEF AppendDelete, HiddenInv, WriterListed
    <2> QED
        BY <1>1, <1>2, <2>1, <2>3, <2>4, <2>5, HiddenStep
<1>5. ASSUME NEW d \in Docs, MarkDeleted(d)
      PROVE  HiddenInv'
    <2>1. /\ ChangeBitmap({d}, {}) /\ searcher' = searcher
          /\ appended' = appended \ {d} /\ clearing' = clearing \cup {d}
          /\ log' = log
        BY <1>5 DEF MarkDeleted
    <2>2. Deletes' = Deletes
        BY <2>1, WholeLog DEF Last
    <2>3. Applied' \subseteq Applied \cup {d} /\ Gone' \subseteq Gone
        BY <2>1, <2>2 DEF Applied, Gone
    <2>4. KeepsMarks
        BY <1>1, <1>2, <2>1, <2>3, ChangeKeeps
    <2>5. WriterListed'
        BY <1>1, <1>5 DEF MarkDeleted, HiddenInv, WriterListed
    <2> QED
        BY <1>1, <1>2, <2>1, <2>3, <2>4, <2>5, HiddenStep
<1>6. ASSUME NEW d \in Docs, FinishDelete(d)
      PROVE  HiddenInv'
    <2>1. /\ UNCHANGED <<slot, bitmaps, epoch, appended, log>>
          /\ searcher' = <<>>
        BY <1>6 DEF FinishDelete, DropSearcher, bitmapVars
    <2>2. Deletes' = Deletes
        BY <2>1, WholeLog DEF Last
    <2>3. Applied' = Applied
        BY <2>1, <2>2 DEF Applied
    <2>4. KeepsMarks
        BY <1>1, <2>1, <2>3, SameKeeps
    <2>5. WriterListed'
        BY <1>1, <1>6 DEF FinishDelete, HiddenInv, WriterListed
    <2> QED
        BY <1>1, <1>2, <2>1, <2>4, <2>5, HiddenStep
<1> QED
    BY <1>3, <1>4, <1>5, <1>6

\* Commits and optimizations: a merge that leaves the file of a segment it
\* has replaced leaves it over, and what it forgets moves the epoch.
LEMMA HolderHidden ==
    ASSUME HiddenInv, FoundInv',
           \/ StartCommit \/ StartOptimize \/ FlushNothing \/ Seal
           \/ SealUnsaved \/ InvalidateSealed \/ PersistMarks \/ PersistFails
           \/ Publish \/ PublishFails \/ ChooseMerge \/ ChooseNothing \/ Merge
           \/ MergeFails \/ ForgetDeletions \/ ForgetFails \/ Release
    PROVE  HiddenInv'
<1> USE DEF logVars, writerVars, managerVars, diskVars, bitmapVars, holderVars,
            cacheVars, buildVars, searcherVars, countVars, Step
<1>1. IndexInv
    BY DEF HiddenInv, FoundInv
<1>2. /\ UNCHANGED <<log, appended, clearing, bpc, bsegs, bepoch, bbitmap,
                     breaders, cacheEpoch>>
      /\ searcher' = searcher
    BY DEF StartCommit, StartOptimize, FlushNothing, Seal, SealUnsaved,
           InvalidateSealed, PersistMarks, PersistFails, Publish, PublishFails,
           ChooseMerge, ChooseNothing, Merge, MergeFails, ForgetDeletions,
           ForgetFails, Release
<1>3. Deletes' = Deletes /\ Applied' = Applied /\ Gone' = Gone
    <2>1. Deletes' = Deletes
        BY <1>2, WholeLog DEF Last
    <2> QED
        BY <1>2, <2>1 DEF Applied, Gone
<1>4. /\ DOMAIN cache' \subseteq DOMAIN cache
      /\ \A s \in DOMAIN cache' : cache'[s] = cache[s]
    BY DEF StartCommit, StartOptimize, FlushNothing, Seal, SealUnsaved,
           InvalidateSealed, PersistMarks, PersistFails, Publish, PublishFails,
           ChooseMerge, ChooseNothing, Merge, MergeFails, ForgetDeletions,
           ForgetFails, Release, Invalidate, Without
<1>5. KeepsMarks
    <2>1. CASE ChooseMerge
        BY <1>1, <1>3, <2>1, LoadKeeps DEF ChooseMerge
    <2>2. CASE PersistMarks
        <3>1. slot = 0 /\ delmap = {} => delmap' = {}
            BY <2>2 DEF PersistMarks, WrittenMarks
        <3>2. UNCHANGED <<slot, bitmaps, epoch>>
            BY <2>2 DEF PersistMarks
        <3> QED
            BY <1>3, <3>1, <3>2, SameKeeps
    <2>3. CASE ForgetDeletions
        <3>1. CASE hasFrozen /\ slot # 0
            <4>1. /\ epoch \in Nat /\ slot = epoch + 1
                  /\ DOMAIN bitmaps = 1..MaxBitmaps
                BY <1>1, <3>1, BitmapNumbers
            <4>2. CASE slot' = 0 /\ epoch' = epoch + 1 /\ bitmaps' = bitmaps
                BY <4>1, <4>2 DEF KeepsMarks, InUse, Marks
            <4>3. CASE Install(Remaining)
                <5>1. /\ epoch' = epoch + 1 /\ slot' = epoch + 2
                      /\ \A b \in 0 .. epoch + 1 : bitmaps'[b] = bitmaps[b]
                    BY <4>1, <4>3 DEF Install
                <5> QED
                    BY <4>1, <5>1 DEF KeepsMarks, InUse, Marks
            <4> QED
                BY <2>3, <3>1, <4>2, <4>3 DEF ForgetDeletions
        <3>2. CASE ~(hasFrozen /\ slot # 0)
            <4>1. UNCHANGED <<delmap, slot, bitmaps, epoch>>
                BY <2>3, <3>2 DEF ForgetDeletions
            <4> QED
                BY <1>3, <4>1, SameKeeps
        <3> QED
            BY <3>1, <3>2
    <2>4. CASE ~(ChooseMerge \/ PersistMarks \/ ForgetDeletions)
        <3>1. UNCHANGED <<delmap, slot, bitmaps, epoch>>
            BY <2>4 DEF StartCommit, StartOptimize, FlushNothing, Seal,
                   SealUnsaved, InvalidateSealed, PersistFails, Publish,
                   PublishFails, ChooseNothing, Merge, MergeFails, ForgetFails,
                   Release
        <3> QED
            BY <1>3, <3>1, SameKeeps
    <2> QED
        BY <2>1, <2>2, <2>3, <2>4
<1>6. WriterListed' /\ LeftOver \subseteq LeftOver'
    <2>0. up' = up
        BY DEF StartCommit, StartOptimize, FlushNothing, Seal, SealUnsaved,
               InvalidateSealed, PersistMarks, PersistFails, Publish,
               PublishFails, ChooseMerge, ChooseNothing, Merge, MergeFails,
               ForgetDeletions, ForgetFails, Release
    <2>1. /\ up => 0 \notin DOMAIN files /\ nextId \notin DOMAIN files
          /\ writer # nextId
        BY <1>1, SegmentNumbers
    <2>2. CASE Seal \/ SealUnsaved
        <3>1. /\ segs' = segs \cup {writer} /\ UNCHANGED <<writer, buffer>>
              /\ DOMAIN files' = DOMAIN files \cup {writer} /\ buffer # {}
            BY <2>2 DEF Seal, SealUnsaved, WriteSegment
        <3>2. up
            BY <1>1, <2>2, HolderOpen DEF Seal, SealUnsaved
        <3> QED
            BY <2>0, <3>1, <3>2 DEF HiddenInv, WriterListed, LeftOver
    <2>3. CASE Merge \/ MergeFails
        <3>1. /\ UNCHANGED <<writer, buffer>> /\ holder = "merge"
              /\ \/ UNCHANGED <<segs, files>>
                 \/ \E deleted \in SUBSET sources : Replace(deleted)
            BY <2>3 DEF Merge, MergeFails
        <3>2. /\ up /\ buffer = {} /\ sources \subseteq segs
            BY <1>1, <3>1, HolderOpen
               DEF IndexInv, Phases, Flushing, TypeOK
        <3>3. CASE UNCHANGED <<segs, files>>
            BY <2>0, <3>1, <3>3 DEF HiddenInv, WriterListed, LeftOver
        <3>4. ASSUME NEW deleted \in SUBSET sources, Replace(deleted)
              PROVE  WriterListed' /\ LeftOver \subseteq LeftOver'
            <4>1. /\ segs' = (segs \ sources) \cup {nextId}
                  /\ DOMAIN files' = (DOMAIN files \ deleted) \cup {nextId}
                BY <3>4 DEF Replace
            <4> QED
                BY <2>0, <2>1, <3>1, <3>2, <4>1
                   DEF HiddenInv, WriterListed, LeftOver
        <3> QED
            BY <3>1, <3>3, <3>4
    <2>4. CASE ~(Seal \/ SealUnsaved \/ Merge \/ MergeFails)
        <3>1. UNCHANGED <<segs, files>>
            BY <2>4 DEF StartCommit, StartOptimize, FlushNothing,
                   InvalidateSealed, PersistMarks, PersistFails, Publish,
                   PublishFails, ChooseMerge, ChooseNothing, ForgetDeletions,
                   ForgetFails, Release
        <3>2. writer' = 0 \/ UNCHANGED <<writer, buffer>>
            BY <2>4 DEF StartCommit, StartOptimize, FlushNothing, DropWriter,
                   InvalidateSealed, PersistMarks, PersistFails, Publish,
                   PublishFails, ChooseMerge, ChooseNothing, ForgetDeletions,
                   ForgetFails, Release
        <3> QED
            BY <2>0, <2>1, <3>1, <3>2 DEF HiddenInv, WriterListed, LeftOver
    <2> QED
        BY <2>2, <2>3, <2>4
<1> QED
    BY <1>2, <1>3, <1>4, <1>5, <1>6, HiddenStep

\* Dropping the cached searcher.
LEMMA ReturnHidden ==
    ASSUME HiddenInv, FoundInv',
           Refresh \/ \E covered \in returning : Return(covered)
    PROVE  HiddenInv'
<1> USE DEF logVars, writerVars, managerVars, diskVars, bitmapVars, holderVars,
            cacheVars, buildVars, countVars
<1>1. /\ UNCHANGED <<log, appended, clearing, delmap, slot, bitmaps, epoch>>
      /\ UNCHANGED <<up, segs, files, buffer, writer, cache, cacheEpoch>>
      /\ UNCHANGED <<bpc, bsegs, bepoch, bbitmap, breaders>>
      /\ searcher' = <<>>
    BY DEF Return, Refresh, DropSearcher
<1>2. Deletes' = Deletes
    BY <1>1, WholeLog DEF Last
<1>3. Applied' = Applied
    BY <1>1, <1>2 DEF Applied
<1>4. KeepsMarks
    BY <1>1, <1>3, SameKeeps
<1>5. WriterListed' /\ LeftOver' = LeftOver
    BY <1>1 DEF HiddenInv, WriterListed, LeftOver
<1> QED
    BY <1>1, <1>4, <1>5, HiddenStep

\* A build that changes no bitmap leaves the readers current that are.
LEMMA SameMarks ==
    ASSUME UNCHANGED <<log, appended, clearing, delmap, slot, bitmaps, epoch>>
    PROVE  /\ Applied' = Applied /\ Gone' = Gone
           /\ \A n : n \in InUse => n \in InUse'
           /\ \A n : Marks(n)' = Marks(n)
           /\ \A r : Current(r) => Current(r)'
<1>1. Deletes' = Deletes
    BY WholeLog DEF Last
<1>2. Applied' = Applied /\ Gone' = Gone
    BY <1>1 DEF Applied, Gone
<1> QED
    BY <1>2 DEF Marks, InUse, Current

\* A search's build reads the epoch before the bitmap, and clears the cache
\* when the epoch has moved.
LEMMA BuildHidden ==
    ASSUME SearchOnly, HiddenInv, FoundInv', NEW b \in Builds, Build(b)
    PROVE  HiddenInv'
<1> USE DEF elsewhere, logVars, writerVars, managerVars, diskVars, holderVars,
            countVars, cacheVars, searcherVars, bitmapVars
<1>1. b = "search" /\ b \in Builders
    BY DEF SearchOnly, Builders
<1>2. /\ DOMAIN bpc = Builders /\ DOMAIN bsegs = Builders
      /\ DOMAIN bepoch = Builders /\ DOMAIN bbitmap = Builders
      /\ DOMAIN breaders = Builders
    BY DEF HiddenInv, FoundInv, ReadTypes
<1>3. /\ IndexInv
      /\ epoch \in Nat /\ slot \in {0, epoch + 1}
      /\ cacheEpoch \in 0..epoch /\ bepoch["search"] \in 0..epoch
    BY BitmapNumbers DEF HiddenInv, FoundInv, BuildPhases
<1>4. /\ UNCHANGED <<log, appended, clearing, segs, files, delmap>>
      /\ LeftOver' = LeftOver /\ WriterListed'
    <2>1. UNCHANGED <<up, log, appended, clearing, segs, files, delmap, buffer,
                      writer>>
        BY DEF Build, StartBuild, ReadEpoch, CompareEpoch, MoveEpoch,
               ReadBitmap, LoadReader, LoadFails, CheckEpoch
    <2> QED
        BY <2>1 DEF HiddenInv, WriterListed, LeftOver
<1>5. CASE ReadBitmap(b)
    <2>1. PICK t : t = slot'
        OBVIOUS
    <2>2. /\ LoadBitmap /\ bpc["search"] = "bitmap" /\ bpc'["search"] = "load"
          /\ bbitmap'["search"] = t /\ breaders'["search"] = <<>>
          /\ UNCHANGED <<cache, cacheEpoch, bsegs, bepoch, searcher>>
        BY <1>1, <1>2, <1>5, <2>1 DEF ReadBitmap, Turn
    <2>3. epoch' = epoch /\ (t = 0 => delmap = {})
        BY <1>3, <2>1, <2>2 DEF LoadBitmap
    <2>4. Applied' = Applied /\ Gone' = Gone
        <3>1. Deletes' = Deletes
            BY <1>4, WholeLog DEF Last
        <3> QED
            BY <1>4, <3>1 DEF Applied, Gone
    <2>5. KeepsMarks
        BY <1>3, <1>4, <2>2, <2>4, LoadKeeps
    <2>6. BuildPhases'
        BY <2>2, <2>3 DEF HiddenInv, BuildPhases
    <2>7. CurrentReaders'
        <3>1. \A r : Current(r) => Current(r)'
            BY <1>3, <2>3, <2>5, CurrentStays
        <3>2. cacheEpoch = epoch =>
                  \A s \in DOMAIN cache \ LeftOver : Current(cache[s])'
            BY <2>2, <3>1 DEF HiddenInv, CurrentReaders
        <3>3. DOMAIN breaders'["search"] = {}
            BY <2>2
        <3> QED
            BY <1>4, <2>1, <2>2, <2>3, <3>2, <3>3 DEF CurrentReaders
    <2>8. SearcherHides'
        BY <1>4, <2>2, <2>4, <2>5 DEF HiddenInv, SearcherHides, KeepsMarks
    <2> QED
        BY <1>4, <2>6, <2>7, <2>8 DEF HiddenInv
<1>6. CASE ~ReadBitmap(b)
    <2>1. UNCHANGED <<slot, bitmaps, epoch>>
        BY <1>6 DEF Build, StartBuild, ReadEpoch, CompareEpoch, MoveEpoch,
                    LoadReader, LoadFails, CheckEpoch
    <2>2. /\ Applied' = Applied /\ Gone' = Gone
          /\ \A n : n \in InUse => n \in InUse'
          /\ \A n : Marks(n)' = Marks(n)
          /\ \A r : Current(r) => Current(r)'
        BY <1>4, <2>1, SameMarks
    <2>3. searcher' = searcher => SearcherHides'
        BY <1>4, <2>2 DEF HiddenInv, SearcherHides
    <2>4. CASE StartBuild(b) \/ ReadEpoch(b)
        <3>1. /\ UNCHANGED <<cache, cacheEpoch, searcher>>
              /\ bpc'["search"] \in {"epoch", "compare"}
              /\ bepoch'["search"] \in 0..epoch
              /\ bsegs' = bsegs \/ bsegs'["search"] = segs
            BY <1>1, <1>2, <1>3, <2>4 DEF StartBuild, ReadEpoch, Turn
        <3>2. BuildPhases'
            BY <2>1, <3>1 DEF HiddenInv, BuildPhases
        <3>3. CurrentReaders'
            BY <1>4, <2>1, <2>2, <3>1 DEF HiddenInv, CurrentReaders
        <3> QED
            BY <1>4, <2>3, <3>1, <3>2, <3>3 DEF HiddenInv
    <2>5. CASE CompareEpoch(b)
        <3>1. /\ UNCHANGED <<cacheEpoch, bsegs, bepoch, searcher>>
              /\ \/ /\ bpc'["search"] = "bitmap" /\ cache' = cache
                    /\ cacheEpoch = bepoch["search"]
                 \/ bpc'["search"] = "move" /\ cache' = <<>>
            BY <1>1, <1>2, <2>5 DEF CompareEpoch, Turn
        <3>2. DOMAIN <<>> = {}
            OBVIOUS
        <3>3. BuildPhases'
            BY <2>1, <3>1, <3>2 DEF HiddenInv, BuildPhases
        <3>4. CurrentReaders'
            BY <1>4, <2>1, <2>2, <3>1, <3>2 DEF HiddenInv, CurrentReaders
        <3> QED
            BY <1>4, <2>3, <3>1, <3>3, <3>4 DEF HiddenInv
    <2>6. CASE MoveEpoch(b)
        <3>1. /\ UNCHANGED <<cache, bsegs, bepoch, searcher>>
              /\ bpc["search"] = "move" /\ bpc'["search"] = "bitmap"
              /\ cacheEpoch' = bepoch["search"]
            BY <1>1, <1>2, <2>6 DEF MoveEpoch, Turn
        <3>2. DOMAIN cache = {}
            BY <3>1 DEF HiddenInv, BuildPhases
        <3>3. BuildPhases'
            BY <1>3, <2>1, <3>1, <3>2 DEF BuildPhases
        <3>4. CurrentReaders'
            BY <3>1, <3>2 DEF CurrentReaders
        <3> QED
            BY <1>4, <2>3, <3>1, <3>3, <3>4 DEF HiddenInv
    <2>7. CASE LoadReader(b)
        <3>1. PICK s \in ToLoad(b) :
                LET loaded == [docs |-> files[s], bitmap |-> bbitmap[b]] IN
                IF s \in DOMAIN cache
                THEN /\ breaders' =
                            [breaders EXCEPT ![b] = With(@, s, cache[s])]
                     /\ UNCHANGED cache
                ELSE /\ s \in DOMAIN files
                     /\ breaders' = [breaders EXCEPT ![b] = With(@, s, loaded)]
                     /\ cache' = With(cache, s, loaded)
            BY <2>7 DEF LoadReader
        <3>2. /\ UNCHANGED <<cacheEpoch, bpc, bsegs, bepoch, bbitmap, searcher>>
              /\ bpc["search"] = "load" /\ s \in bsegs["search"]
            BY <1>1, <2>7 DEF LoadReader, ToLoad
        <3>3. cacheEpoch = bepoch["search"]
            BY <3>2 DEF HiddenInv, BuildPhases
        <3>4. PICK r :
                /\ breaders'["search"] = With(breaders["search"], s, r)
                /\ \/ s \in DOMAIN cache /\ r = cache[s] /\ cache' = cache
                   \/ /\ s \in DOMAIN files
                      /\ r = [docs |-> files[s], bitmap |-> bbitmap["search"]]
                      /\ cache' = With(cache, s, r)
            <4>1. CASE s \in DOMAIN cache
                BY <1>1, <1>2, <3>1, <4>1
            <4>2. CASE s \notin DOMAIN cache
                BY <1>1, <1>2, <3>1, <4>2
            <4> QED
                BY <4>1, <4>2
        <3>5. bepoch["search"] = epoch /\ s \notin LeftOver => Current(r)
            <4> SUFFICES ASSUME bepoch["search"] = epoch, s \notin LeftOver
                         PROVE  Current(r)
                OBVIOUS
            <4>1. CASE r = cache[s] /\ s \in DOMAIN cache
                BY <3>3, <4>1 DEF HiddenInv, CurrentReaders
            <4>2. CASE /\ s \in DOMAIN files
                       /\ r = [docs |-> files[s],
                               bitmap |-> bbitmap["search"]]
                <5>1. up
                    BY <3>2, <1>1, <1>2 DEF HiddenInv, FoundInv, IndexInv,
                                            Closed, AllIdle, Builders
                <5>2. files[s] \cap Applied \subseteq WrittenMarks
                    BY <1>3, <4>2, <5>1
                       DEF LeftOver, IndexInv, MemoryExact, MemoryDocs
                <5> QED
                    BY <3>2, <4>2, <5>2
                       DEF HiddenInv, CurrentReaders, Current, WrittenMarks,
                           Marks
            <4> QED
                BY <3>4, <4>1, <4>2
        <3>6. BuildPhases'
            BY <2>1, <3>2 DEF HiddenInv, BuildPhases
        <3>7. CurrentReaders'
            <4> PICK c, f : c = cache' /\ f = breaders'["search"]
                OBVIOUS
            <4>1. \A t \in DOMAIN c :
                      \/ t \in DOMAIN cache /\ c[t] = cache[t]
                      \/ t = s /\ c[t] = r
                BY <3>4 DEF With
            <4>2. \A t \in DOMAIN f :
                      \/ /\ t \in DOMAIN breaders["search"]
                         /\ f[t] = breaders["search"][t]
                      \/ t = s /\ f[t] = r
                BY <3>4 DEF With
            <4>3. cacheEpoch = epoch =>
                      \A t \in DOMAIN c \ LeftOver : Current(c[t])
                BY <3>3, <3>5, <4>1 DEF HiddenInv, CurrentReaders
            <4>4. bepoch["search"] = epoch =>
                      \A t \in DOMAIN f \ LeftOver : Current(f[t])
                BY <3>2, <3>5, <4>2 DEF HiddenInv, CurrentReaders
            <4>5. cacheEpoch = epoch =>
                      \A t \in DOMAIN cache' \ LeftOver' :
                          Current(cache[t])'
                BY <1>4, <2>2, <4>3
            <4>6. bepoch["search"] = epoch =>
                      \A t \in DOMAIN breaders'["search"] \ LeftOver' :
                          Current(breaders["search"][t])'
                BY <1>4, <2>2, <4>4
            <4> QED
                BY <1>4, <2>1, <3>2, <4>5, <4>6 DEF HiddenInv, CurrentReaders
        <3> QED
            BY <1>4, <2>3, <3>2, <3>6, <3>7 DEF HiddenInv
    <2>8. CASE LoadFails(b)
        <3>1. /\ UNCHANGED <<cache, cacheEpoch, searcher>>
              /\ bpc'["search"] = "idle" /\ bsegs'["search"] = {}
              /\ bepoch'["search"] = 0
            BY <1>1, <1>2, <2>8 DEF LoadFails, EndBuild, Turn
        <3>2. BuildPhases'
            BY <1>3, <2>1, <3>1 DEF BuildPhases
        <3>3. CurrentReaders'
            BY <1>4, <2>1, <2>2, <3>1 DEF HiddenInv, CurrentReaders
        <3> QED
            BY <1>4, <2>3, <3>1, <3>2, <3>3 DEF HiddenInv
    <2>9. CASE CheckEpoch(b) /\ epoch = bepoch[b]
        <3>1. /\ UNCHANGED <<cache, cacheEpoch>>
              /\ bpc["search"] = "load" /\ bepoch["search"] = epoch
              /\ bpc'["search"] = "idle" /\ bsegs'["search"] = {}
              /\ bepoch'["search"] = 0
              /\ searcher' = breaders["search"]
            BY <1>1, <1>2, <2>9 DEF CheckEpoch, EndBuild, Turn
        <3>2. BuildPhases'
            BY <1>3, <2>1, <3>1 DEF BuildPhases
        <3>3. CurrentReaders'
            BY <1>4, <2>1, <2>2, <3>1 DEF HiddenInv, CurrentReaders
        <3>4. SearcherHides'
            <4>1. \A s \in DOMAIN searcher' \ LeftOver : Current(searcher'[s])
                BY <3>1 DEF HiddenInv, CurrentReaders
            <4>2. slot \in InUse /\ Gone \subseteq Applied
                BY <1>3 DEF InUse, Gone, Applied
            <4>3. \A s \in DOMAIN searcher' \ LeftOver :
                      /\ searcher'[s].bitmap \in InUse
                      /\ searcher'[s].docs \cap Gone \subseteq
                             Marks(searcher'[s].bitmap)
                BY <4>1, <4>2 DEF Current
            <4> QED
                BY <1>4, <2>2, <4>3 DEF SearcherHides
        <3> QED
            BY <1>4, <3>2, <3>3, <3>4 DEF HiddenInv
    <2>10. CASE CheckEpoch(b) /\ epoch # bepoch[b]
        <3>1. /\ UNCHANGED <<cacheEpoch, bsegs, searcher>>
              /\ bpc'["search"] = "epoch" /\ cache' = <<>>
              /\ bepoch'["search"] = 0
            BY <1>1, <1>2, <2>10 DEF CheckEpoch, Turn
        <3>2. DOMAIN cache' = {}
            BY <3>1
        <3>3. BuildPhases'
            BY <1>3, <2>1, <3>1 DEF HiddenInv, BuildPhases
        <3>4. CurrentReaders'
            BY <3>1, <3>2 DEF CurrentReaders
        <3> QED
            BY <1>4, <2>3, <3>1, <3>3, <3>4 DEF HiddenInv
    <2> QED
        BY <1>6, <2>4, <2>5, <2>6, <2>7, <2>8, <2>9, <2>10 DEF Build
<1> QED
    BY <1>5, <1>6

\* A crash leaves no reader.
LEMMA CrashHidden ==
    ASSUME HiddenInv, FoundInv', Crash
    PROVE  HiddenInv'
<1>1. /\ epoch' = 0 /\ cacheEpoch' = 0 /\ cache' = <<>> /\ searcher' = <<>>
      /\ bpc' = AllIdle /\ bsegs' = NoBuilds({}) /\ bepoch' = NoBuilds(0)
    BY DEF Crash, Forgotten
<1>2. /\ DOMAIN cache' = {} /\ bpc'["search"] = "idle"
      /\ bsegs'["search"] = {} /\ bepoch'["search"] = 0
    BY <1>1, NothingBuilt DEF Builders, AllIdle
<1>3. BuildPhases' /\ CurrentReaders'
    BY <1>1, <1>2 DEF BuildPhases, CurrentReaders
<1>4. WriterListed' /\ SearcherHides'
    <2>1. ~up' /\ DOMAIN searcher' = {}
        BY <1>1 DEF Crash
    <2> QED
        BY <2>1 DEF WriterListed, SearcherHides
<1> QED
    BY <1>3, <1>4 DEF HiddenInv

\* An open finds none.
LEMMA OpenHidden ==
    ASSUME HiddenInv, FoundInv', Open
    PROVE  HiddenInv'
<1>1. /\ ~up
      /\ UNCHANGED <<cache, cacheEpoch, bpc, bsegs, bepoch, searcher>>
    BY DEF Open, cacheVars, buildVars, searcherVars
<1>2. /\ DOMAIN cache = {} /\ searcher = <<>> /\ bpc = AllIdle /\ epoch = 0
    BY <1>1 DEF HiddenInv, FoundInv, ReadTypes, IndexInv, Closed
<1>3. bpc["search"] = "idle" /\ epoch' \in Nat
    BY <1>2 DEF AllIdle, FoundInv, IndexInv, MoreTypes
<1>4. bsegs["search"] = {} /\ cacheEpoch = 0 /\ bepoch["search"] = 0
    BY <1>2, <1>3 DEF HiddenInv, BuildPhases
<1>5. BuildPhases' /\ CurrentReaders'
    BY <1>1, <1>2, <1>3, <1>4 DEF BuildPhases, CurrentReaders
<1>6. SearcherHides'
    BY <1>1, <1>2 DEF SearcherHides
<1>7. WriterListed'
    <2>1. IndexInv /\ IndexInv'
        BY DEF HiddenInv, FoundInv
    <2>2. DOMAIN files' = DOMAIN files \cap manifest.segs
        BY DEF Open
    <2>3. writer' \in {0, manifest.nextId}
        BY <1>1, <2>1 DEF Open, LoadedNextId, writerVars, IndexInv, Closed
    <2>4. 0 \notin manifest.segs /\ manifest.nextId \notin manifest.segs
        <3>1. /\ manifest.nextId \in Nat \ {0}
              /\ manifest.segs \subseteq 1 .. manifest.nextId - 1
            BY <2>1, SegmentNumbers
        <3> QED
            BY <3>1
    <2> QED
        BY <2>2, <2>3, <2>4 DEF WriterListed
<1> QED
    BY <1>5, <1>6, <1>7 DEF HiddenInv

\* An empty index satisfies the invariant.
LEMMA InitHidden == Init => HiddenInv
<1> SUFFICES ASSUME Init PROVE HiddenInv
    OBVIOUS
<1>1. FoundInv
    BY InitFound
<1>2. /\ epoch = 0 /\ cacheEpoch = 0 /\ cache = <<>> /\ searcher = <<>>
      /\ bpc = AllIdle /\ bsegs = NoBuilds({}) /\ bepoch = NoBuilds(0)
    BY DEF Init
<1>3. /\ DOMAIN cache = {} /\ bpc["search"] = "idle"
      /\ bsegs["search"] = {} /\ bepoch["search"] = 0
    BY <1>2, NothingBuilt DEF Builders, AllIdle
<1>4. BuildPhases /\ CurrentReaders
    BY <1>2, <1>3 DEF BuildPhases, CurrentReaders
<1>5. WriterListed /\ SearcherHides
    <2>1. DOMAIN files = {} /\ DOMAIN searcher = {}
        BY DEF Init
    <2> QED
        BY <2>1 DEF WriterListed, SearcherHides
<1> QED
    BY <1>1, <1>4, <1>5 DEF HiddenInv

\* Every step keeps it.
LEMMA NextHidden ==
    ASSUME SearchOnly, HiddenInv, [Next]_vars
    PROVE  HiddenInv'
<1>1. FoundInv'
    BY NextFound DEF HiddenInv
<1>2. CASE \/ Put
           \/ \E d \in Docs : AppendDelete(d) \/ MarkDeleted(d) \/ FinishDelete(d)
    BY <1>1, <1>2, MutationHidden
<1>3. CASE \/ StartCommit \/ StartOptimize \/ FlushNothing \/ Seal
           \/ SealUnsaved \/ InvalidateSealed \/ PersistMarks \/ PersistFails
           \/ Publish \/ PublishFails \/ ChooseMerge \/ ChooseNothing \/ Merge
           \/ MergeFails \/ ForgetDeletions \/ ForgetFails \/ Release
    BY <1>1, <1>3, HolderHidden
<1>4. CASE Refresh \/ \E covered \in returning : Return(covered)
    BY <1>1, <1>4, ReturnHidden
<1>5. ASSUME NEW b \in Builds, Build(b)
      PROVE  HiddenInv'
    BY <1>1, <1>5, BuildHidden
<1>6. CASE Crash \/ Open
    BY <1>1, <1>6, CrashHidden, OpenHidden
<1>7. CASE UNCHANGED vars
    <2>1. /\ UNCHANGED <<log, appended, clearing, delmap, slot, bitmaps, epoch>>
          /\ UNCHANGED <<up, segs, files, buffer, writer, cache, cacheEpoch>>
          /\ searcher' = searcher
          /\ UNCHANGED <<bpc, bsegs, bepoch, bbitmap, breaders>>
        BY <1>7 DEF vars, logVars, writerVars, managerVars, diskVars, bitmapVars,
                    holderVars, cacheVars, buildVars, searcherVars
    <2>2. Applied' = Applied /\ Gone' = Gone
        BY <2>1, SameMarks
    <2>3. KeepsMarks
        BY <2>1, <2>2, SameKeeps
    <2>4. WriterListed' /\ LeftOver' = LeftOver
        BY <2>1 DEF HiddenInv, WriterListed, LeftOver
    <2> QED
        BY <1>1, <2>1, <2>2, <2>3, <2>4, HiddenStep
<1> QED
    BY <1>2, <1>3, <1>4, <1>5, <1>6, <1>7 DEF Next

\* No search finds a document whose delete has returned in a segment but the
\* replaced ones whose files have stayed, whatever merges, fails or is deleted
\* while a search builds its searcher, so long as nothing but searches builds
\* readers (sealed_readers_newest_first, reader_cache.rs; forget_deletions,
\* segmented_core.rs).
THEOREM HiddenUnlessFilesStay ==
    ASSUME SearchOnly
    PROVE  Spec => []HiddenUnlessLeftOver
<1>1. HiddenInv => HiddenUnlessLeftOver
    <2> SUFFICES ASSUME HiddenInv
                 PROVE  FoundIn(DOMAIN searcher \ LeftOver) \cap Gone = {}
        BY DEF HiddenUnlessLeftOver
    <2>1. \A s \in DOMAIN searcher \ LeftOver :
              searcher[s].docs \cap Gone \subseteq Marks(searcher[s].bitmap)
        BY DEF HiddenInv, SearcherHides
    <2> QED
        BY <2>1 DEF FoundIn
<1>2. SearchOnly
    OBVIOUS
<1>3. SearchOnly /\ HiddenInv /\ [Next]_vars => HiddenInv'
    BY NextHidden
<1> QED
    BY <1>1, <1>2, <1>3, InitHidden, PTL DEF Spec

=============================================================================
