----------------------- MODULE LexicalSegmentsProofs -----------------------
(***************************************************************************)
(* Theorems about LexicalSegments, for any number of ids, records,         *)
(* flushes, merges, failures and crashes: an id is looked up as its live   *)
(* version, a searcher shows what was committed before it, every crash     *)
(* point reopens to the live documents, a document is live in one place    *)
(* at most, and the counts of the entries give the number of live          *)
(* documents.                                                              *)
(***************************************************************************)
EXTENDS LexicalSegments, FiniteSetTheorems, WellFoundedInduction, TLAPS

-----------------------------------------------------------------------------
(* Types.                                                                  *)

\* Functions from some generations.
Maps(values) == UNION {[S -> values] : S \in SUBSET Nat}

WriterRecord ==
    [open : BOOLEAN, buffer : SUBSET Docs, known : SUBSET Nat,
     flushed : SUBSET Nat, pending : Maps(Entry), manager : BOOLEAN,
     marks : Maps(SUBSET Docs), dirty : SUBSET Nat, flips : SUBSET Nat,
     superseded : SUBSET Docs, seq : Nat]

Task == [seq : 1..Last, docs : SUBSET Docs, drops : SUBSET Docs]

Types ==
    /\ up \in BOOLEAN
    /\ log \in Seq(Record) /\ Last <= MaxSeq
    /\ todo \subseteq Task
    /\ replay \in 0..Last
    /\ writer \in WriterRecord
    /\ segs \in Maps(Entry) /\ manifest \in Maps(Entry)
    /\ unread \in Maps(Entry)
    /\ files \in Maps(SUBSET Docs) /\ delmaps \in Maps(SUBSET Docs)
    /\ nextGen \in Nat /\ ckpt \in Nat /\ metadata \in Nat /\ asOf \in Nat
    /\ holder \in Steps /\ call \in {"none", "commit", "optimize"}
    /\ sources \subseteq Nat
    /\ building \in BOOLEAN /\ hasSearcher \in BOOLEAN
    /\ found \subseteq Docs /\ searcher \subseteq Docs

-----------------------------------------------------------------------------
(* What the invariant speaks of.                                           *)

\* The commit or the optimization is past the writer's commit.
MergePhase == holder \in {"merge", "release", "delete", "done"}

\* What a segment's bitmap hides, on storage, in the writer, and in either.
Saved(s) == At(delmaps, s, {})
Marks(s) == At(writer.marks, s, {})
Marked(s) == Saved(s) \cup Marks(s)
Kept(s) == DocsOf(s) \ Marked(s)

UnionDocs(S) == UNION {DocsOf(s) : s \in S}

\* The segments that a lookup reaches.
SegIds == DOMAIN segs \cup writer.flushed

\* What the mutations under way, or the replay, have still to do.
OpenAdds == IF replay = 0 THEN UNION {t.docs : t \in todo}
            ELSE Adds(replay..Last)
OpenDrops == IF replay = 0 THEN UNION {t.drops : t \in todo}
             ELSE Drops(replay..Last)

DoneDrops == Drops(1..Last) \ OpenDrops

\* What the records that the replay has yet to apply touch.
Unreplayed == IF replay = 0 THEN {}
              ELSE Adds(replay..Last) \cup Drops(replay..Last)

\* What the records above the checkpoint on storage touch.
Unsaved == Adds(metadata + 1..Last) \cup Drops(metadata + 1..Last)

-----------------------------------------------------------------------------
(* The shape of the state.                                                 *)

\* A record adds the document of its number, if any, and drops documents of
\* its id that earlier records added and no other drops.
LogShape ==
    /\ \A n \in 1..Last : log[n].adds \in {{}, {n}}
    /\ \A n \in 1..Last : \A d \in log[n].drops :
           /\ d \in 1..n - 1
           /\ log[d].adds = {d} /\ log[d].id = log[n].id
    /\ \A m, n \in 1..Last :
           m # n => log[m].drops \cap log[n].drops = {}

\* What is under way is of records above every checkpoint, one an id.
TodoShape ==
    /\ \A t \in todo :
           /\ t.docs \subseteq log[t.seq].adds \cap Live
           /\ t.drops \subseteq log[t.seq].drops
           /\ t.docs \cup t.drops # {}
           /\ metadata < t.seq /\ writer.seq < t.seq
    /\ \A t, u \in todo : log[t.seq].id = log[u.seq].id => t = u
    /\ replay # 0 => /\ todo = {} /\ holder = "free"
                     /\ metadata = ckpt /\ metadata < replay
                     /\ writer.seq < replay
    /\ writer.seq <= Last /\ ckpt <= metadata /\ metadata <= Last

WriterShape ==
    /\ ~writer.open => writer = NoWriter
    /\ ~writer.manager => /\ writer.marks = <<>>
                          /\ writer.dirty = {} /\ writer.flips = {}
    /\ DOMAIN writer.pending \subseteq writer.flushed
    /\ writer.flushed \subseteq writer.known
    /\ writer.flushed \subseteq DOMAIN segs \cup DOMAIN writer.pending
    /\ writer.open /\ ~MergePhase => DOMAIN segs \subseteq writer.known
    /\ writer.dirty \subseteq writer.flips \cap DOMAIN writer.marks
    /\ writer.flips \subseteq DOMAIN writer.marks

\* The writer's bitmaps and those on storage.
BitmapShape ==
    /\ \A s \in DOMAIN delmaps :
           writer.manager \/ s \in writer.flushed => Saved(s) \subseteq Marks(s)
    /\ \A s \in (SegIds \cup DOMAIN manifest) \ writer.dirty :
           Marks(s) \subseteq Saved(s)

\* What each step of the commit finds done.
Phases ==
    /\ holder \in {"flush", "marks", "flags", "publish", "checkpoint"} =>
           writer.open
    /\ holder \notin {"free", "flush"} => writer.buffer = {}
    /\ holder \notin {"free", "flush", "marks"} => writer.dirty = {}
    /\ holder \notin {"free", "flush", "marks", "flags"} => writer.flips = {}
    /\ holder = "checkpoint" \/ MergePhase => writer.pending = <<>>
    /\ MergePhase => writer.flushed = {} /\ writer.superseded = {}
    /\ holder \notin {"release", "delete"} => sources = {}
    /\ sources \cap (DOMAIN segs \cup DOMAIN manifest) = {}
    /\ holder = "delete" => sources \cap DOMAIN unread = {}
    /\ holder # "free" => up /\ replay = 0

Closed ==
    ~up => /\ writer = NoWriter /\ todo = {} /\ replay = 0
           /\ segs = <<>> /\ holder = "free"
           /\ ~building /\ ~hasSearcher

\* The next generation is above everything that has one.
Numbers ==
    /\ up => /\ DOMAIN segs \cup DOMAIN manifest \cup Stems
                    \cup sources \cup writer.known \cup DOMAIN writer.marks
                    \subseteq 0..nextGen - 1
    /\ ~up => \E k \in Nat : DOMAIN manifest \cup Stems \subseteq 0..k

\* Whatever holds a document, the log added it.
Logged ==
    /\ \A s : DocsOf(s) \subseteq Adds(1..Last)
    /\ writer.buffer \cup writer.superseded \subseteq Adds(1..Last)
    /\ found \cup searcher \subseteq Adds(1..Last)

SearchShape ==
    /\ building => ~hasSearcher
    /\ ~building => unread = <<>> /\ found = {}
    /\ ~hasSearcher => searcher = {}
    /\ ~building /\ ~hasSearcher => asOf = 0
    /\ asOf <= metadata
    /\ up => DOMAIN unread \subseteq 0..nextGen - 1

Shape == /\ Types /\ LogShape /\ TodoShape /\ WriterShape /\ BitmapShape
         /\ Phases /\ Closed /\ Numbers /\ Logged /\ SearchShape

-----------------------------------------------------------------------------
(* What memory and storage hold.                                           *)

\* A live document whose mutation has finished is buffered or kept.
MemoryHas ==
    up => \A d \in Live \ OpenAdds :
              d \in writer.buffer \/ \E s \in SegIds : d \in Kept(s)

\* A document whose removal is done is marked wherever it is, and what a
\* search may still find of it the writer leaves out.
MemoryHides ==
    up => /\ writer.buffer \cap DoneDrops = {}
          /\ \A s \in SegIds : \A d \in DocsOf(s) \cap DoneDrops :
                 /\ d \in Marked(s)
                 /\ \/ d \in writer.superseded
                    \/ /\ s \in DOMAIN segs /\ segs[s].hasDeletions
                       /\ d \in Saved(s)

\* A marked document's segment has its flag, or the commit will set it, or
\* the replay will mark the document again.
FlagsIn(entries) ==
    up => \A s \in DOMAIN entries : \A d \in DocsOf(s) \cap Marked(s) :
              \/ entries[s].hasDeletions
              \/ s \in writer.flips \/ d \in Unreplayed

\* The manifest lags memory only while a flag is to be set.
ManifestFlags ==
    up /\ writer.flips = {} =>
        \A m \in DOMAIN manifest : \A d \in DocsOf(m) :
            /\ d \in Marked(m) =>
                   manifest[m].hasDeletions \/ d \in Unreplayed
            /\ d \in DoneDrops => d \in Marked(m)

\* A bitmap that its entry does not tell of marks what a replay will mark.
FlaggedIn(entries) ==
    \A s \in DOMAIN entries : \A d \in DocsOf(s) \cap Marked(s) :
        entries[s].hasDeletions \/ d \in Unsaved

\* What the records up to the checkpoint drop is hidden.
HidesIn(entries) ==
    \A s \in DOMAIN entries : \A d \in DocsOf(s) \cap Drops(1..metadata) :
        entries[s].hasDeletions /\ d \in Saved(s)

\* What they leave live is kept.
CheckpointKept ==
    \A d \in Live \cap 1..metadata :
        /\ up => \E s \in DOMAIN segs : d \in Kept(s)
        /\ \E m \in DOMAIN manifest : d \in Kept(m)

ManifestHas ==
    up => \A s \in DOMAIN segs : \A d \in Kept(s) :
              \E m \in DOMAIN manifest : d \in Kept(m)

ManifestFrom ==
    up => \A m \in DOMAIN manifest : \A d \in DocsOf(m) :
              \E s \in DOMAIN segs \cup DOMAIN writer.pending : d \in DocsOf(s)

\* A document that the writer leaves out of a search's results is live only
\* if the writer finds it itself.
SupersededHeld ==
    \A d \in writer.superseded \cap Live :
        d \in writer.buffer \/ \E s \in writer.flushed : d \in Kept(s)

Contents ==
    /\ MemoryHas /\ MemoryHides
    /\ FlagsIn(segs) /\ FlagsIn(writer.pending) /\ ManifestFlags
    /\ FlaggedIn(segs) /\ FlaggedIn(writer.pending) /\ FlaggedIn(manifest)
    /\ HidesIn(segs) /\ HidesIn(writer.pending) /\ HidesIn(manifest)
    /\ CheckpointKept /\ ManifestHas /\ ManifestFrom /\ SupersededHeld

\* A document of two places is hidden in one of them: in memory,
MemoryOnce ==
    /\ \A s, u \in SegIds : s # u =>
           DocsOf(s) \cap DocsOf(u) \subseteq Hidden(s) \cup Hidden(u)
    /\ \A s \in SegIds : writer.buffer \cap DocsOf(s) \subseteq Hidden(s)

\* and on storage.
StorageOnce ==
    \A s, u \in DOMAIN manifest : s # u =>
        DocsOf(s) \cap DocsOf(u) \subseteq
            MarksOf(s, manifest[s]) \cup MarksOf(u, manifest[u])

Once == MemoryOnce /\ StorageOnce

-----------------------------------------------------------------------------
(* What searches find.                                                     *)

\* While no merge is under way, a search finds what is kept, and of what is
\* dropped only what the writer leaves out.
SearchOfMemory ==
    ~MergePhase =>
        /\ \A s \in DOMAIN segs \ writer.flushed : \A d \in Kept(s) :
               /\ building => d \in found \/ s \in DOMAIN unread
               /\ hasSearcher => d \in searcher
        /\ (found \cup searcher) \cap DoneDrops \subseteq writer.superseded
        /\ \A s \in DOMAIN unread : \A d \in DocsOf(s) \cap DoneDrops :
               \/ d \in writer.superseded
               \/ unread[s].hasDeletions /\ d \in Saved(s)
        /\ \A d \in found \cup searcher :
               \E s \in DOMAIN segs : d \in DocsOf(s)
        /\ DOMAIN unread \subseteq DOMAIN segs
        /\ building \/ hasSearcher => asOf = ckpt

\* At all times it finds what its checkpoint covers.
SearchOfCheckpoint ==
    /\ hasSearcher => /\ Live \cap 1..asOf \subseteq searcher
                      /\ Drops(1..asOf) \cap searcher = {}
    /\ building =>
           /\ \A d \in Live \cap 1..asOf :
                  d \in found \/ \E s \in DOMAIN unread : d \in Kept(s)
           /\ Drops(1..asOf) \cap found = {}
           /\ \A s \in DOMAIN unread :
                  \A d \in DocsOf(s) \cap Drops(1..asOf) :
                      unread[s].hasDeletions /\ d \in Saved(s)

Searches == SearchOfMemory /\ SearchOfCheckpoint

LexInv == Shape /\ Contents /\ Once /\ Searches

-----------------------------------------------------------------------------
(* Functions from generations.                                             *)

\* A map is a function of its domain, which holds numbers.
LEMMA MapShape ==
    ASSUME NEW values, NEW f
    PROVE  f \in Maps(values) <=> f \in [DOMAIN f -> values] /\ DOMAIN f \subseteq Nat
    BY DEF Maps

\* The empty function is a map, and has no member.
LEMMA EmptyMap ==
    /\ DOMAIN <<>> = {}
    /\ \A values : <<>> \in Maps(values)
    /\ \A f, values : f \in Maps(values) /\ DOMAIN f = {} => f = <<>>
    /\ \A x, default : At(<<>>, x, default) = default
<1>1. DOMAIN <<>> = {}
    OBVIOUS
<1>2. \A values : <<>> \in [{} -> values]
    BY <1>1
<1>3. \A values : <<>> \in Maps(values)
    BY <1>1, <1>2, MapShape
<1>4. ASSUME NEW f, NEW values, f \in Maps(values), DOMAIN f = {}
      PROVE  f = <<>>
    <2>1. f \in [{} -> values]
        BY <1>4, MapShape
    <2> QED
        BY <1>2, <2>1
<1> QED
    BY <1>1, <1>3, <1>4 DEF At

\* What a map is after a member is set.
LEMMA WithMember ==
    ASSUME NEW values, NEW f \in Maps(values), NEW x \in Nat, NEW v \in values
    PROVE  /\ With(f, x, v) \in Maps(values)
           /\ DOMAIN With(f, x, v) = DOMAIN f \cup {x}
           /\ With(f, x, v)[x] = v
           /\ \A y \in DOMAIN f : y # x => With(f, x, v)[y] = f[y]
           /\ \A y, default : At(With(f, x, v), y, default) =
                                  IF y = x THEN v ELSE At(f, y, default)
<1>1. f \in [DOMAIN f -> values] /\ DOMAIN f \subseteq Nat
    BY MapShape
<1>2. /\ DOMAIN With(f, x, v) = DOMAIN f \cup {x}
      /\ With(f, x, v) \in [DOMAIN f \cup {x} -> values]
    BY <1>1 DEF With
<1>3. With(f, x, v) \in Maps(values)
    BY <1>1, <1>2, MapShape
<1> QED
    BY <1>2, <1>3 DEF With, At

\* What a map is after members are dropped.
LEMMA WithoutMembers ==
    ASSUME NEW values, NEW f \in Maps(values), NEW S
    PROVE  /\ Without(f, S) \in Maps(values)
           /\ DOMAIN Without(f, S) = DOMAIN f \ S
           /\ \A y \in DOMAIN f \ S : Without(f, S)[y] = f[y]
           /\ \A y, default : At(Without(f, S), y, default) =
                                  IF y \in S THEN default ELSE At(f, y, default)
<1>1. f \in [DOMAIN f -> values] /\ DOMAIN f \subseteq Nat
    BY MapShape
<1>2. /\ DOMAIN Without(f, S) = DOMAIN f \ S
      /\ Without(f, S) \in [DOMAIN f \ S -> values]
    BY <1>1 DEF Without
<1>3. Without(f, S) \in Maps(values)
    BY <1>1, <1>2, MapShape
<1> QED
    BY <1>2, <1>3 DEF Without, At

\* What a map is after another is laid over it.
LEMMA OverMembers ==
    ASSUME NEW values, NEW f \in Maps(values), NEW g \in Maps(values)
    PROVE  /\ Over(f, g) \in Maps(values)
           /\ DOMAIN Over(f, g) = DOMAIN f \cup DOMAIN g
           /\ \A x \in DOMAIN f : Over(f, g)[x] = f[x]
           /\ \A x \in DOMAIN g \ DOMAIN f : Over(f, g)[x] = g[x]
<1>1. /\ f \in [DOMAIN f -> values] /\ DOMAIN f \subseteq Nat
      /\ g \in [DOMAIN g -> values] /\ DOMAIN g \subseteq Nat
    BY MapShape
<1>2. /\ DOMAIN Over(f, g) = DOMAIN f \cup DOMAIN g
      /\ Over(f, g) \in [DOMAIN f \cup DOMAIN g -> values]
    BY <1>1 DEF Over
<1>3. Over(f, g) \in Maps(values)
    BY <1>1, <1>2, MapShape
<1> QED
    BY <1>2, <1>3 DEF Over

\* A member of a map, or what stands for one.
LEMMA AtMember ==
    ASSUME NEW values, NEW f \in Maps(values), NEW x
    PROVE  /\ x \in DOMAIN f => f[x] \in values /\ x \in Nat
           /\ \A default : x \in DOMAIN f => At(f, x, default) = f[x]
           /\ \A default : x \notin DOMAIN f => At(f, x, default) = default
    BY MapShape DEF At

\* A set of numbers that is not empty has a least one.
LEMMA Least ==
    ASSUME NEW S \in SUBSET Nat, S # {}
    PROVE  /\ Min(S) \in S
           /\ \E x \in S : \A y \in S : x <= y
<1> DEFINE R == {p \in Nat \X Nat : p[1] < p[2]}
<1>1. IsWellFoundedOn(R, Nat)
    BY NatLessThanWellFounded, Zenon DEF OpToRel
<1> HIDE DEF R
<1>2. PICK x \in S : \A y \in S : ~ (<<y, x>> \in R)
    BY <1>1, WFMin
<1>3. ASSUME NEW y \in S PROVE x <= y
    <2>1. y < x => <<y, x>> \in R
        BY DEF R
    <2> QED
        BY <1>2, <2>1
<1> QED
    BY <1>3 DEF Min

\* One with a bound has a largest.
LEMMA Largest ==
    ASSUME NEW S \in SUBSET Nat, S # {}, NEW k \in Nat, \A x \in S : x <= k
    PROVE  Max(S) \in S /\ \A x \in S : x <= Max(S)
<1> DEFINE B == {b \in Nat : \A x \in S : x <= b}
<1>1. PICK b \in B : \A c \in B : b <= c
    BY Least
<1>2. b \in S
    <2> SUFFICES ASSUME b \notin S PROVE FALSE
        OBVIOUS
    <2>1. \A x \in S : x < b
        OBVIOUS
    <2>2. PICK x \in S : TRUE
        OBVIOUS
    <2>3. b - 1 \in B
        BY <2>1, <2>2
    <2> QED
        BY <1>1, <2>3
<1> QED
    BY <1>2 DEF Max

-----------------------------------------------------------------------------
(* What the types and the shape say, and what a step that leaves variables *)
(* alone keeps.                                                            *)

\* The types of what the invariant speaks of.
LEMMA TypeFacts ==
    ASSUME Types
    PROVE  /\ Last \in Nat /\ MaxSeq \in Nat
           /\ \A n \in 1..Last : log[n] \in Record
           /\ writer.open \in BOOLEAN /\ writer.manager \in BOOLEAN
           /\ writer.buffer \subseteq Docs /\ writer.superseded \subseteq Docs
           /\ writer.known \subseteq Nat /\ writer.flushed \subseteq Nat
           /\ writer.dirty \subseteq Nat /\ writer.flips \subseteq Nat
           /\ writer.seq \in Nat
           /\ writer.pending \in Maps(Entry)
           /\ writer.marks \in Maps(SUBSET Docs)
           /\ \A s : /\ DocsOf(s) \subseteq Docs /\ Saved(s) \subseteq Docs
                     /\ Marks(s) \subseteq Docs
           /\ \A s : /\ s \notin DOMAIN files => DocsOf(s) = {}
                     /\ s \notin DOMAIN delmaps => Saved(s) = {}
                     /\ s \notin DOMAIN writer.marks => Marks(s) = {}
<1>1. MaxSeq \in Nat /\ Last \in Nat
    BY BoundsAssumption DEF Types, Last
<1>2. writer.marks \in Maps(SUBSET Docs)
    BY DEF Types, WriterRecord
<1>3. \A s : /\ DocsOf(s) \subseteq Docs /\ Saved(s) \subseteq Docs
             /\ Marks(s) \subseteq Docs
    <2>1. ASSUME NEW f \in Maps(SUBSET Docs), NEW s
          PROVE  At(f, s, {}) \subseteq Docs
        BY AtMember
    <2>2. files \in Maps(SUBSET Docs) /\ delmaps \in Maps(SUBSET Docs)
        BY DEF Types
    <2> QED
        BY <1>2, <2>1, <2>2 DEF DocsOf, Saved, Marks
<1>4. \A s : /\ s \notin DOMAIN files => DocsOf(s) = {}
             /\ s \notin DOMAIN delmaps => Saved(s) = {}
             /\ s \notin DOMAIN writer.marks => Marks(s) = {}
    BY DEF DocsOf, Saved, Marks, At
<1>5. \A n \in 1..Last : log[n] \in Record
    BY DEF Types, Last
<1> QED
    BY <1>1, <1>2, <1>3, <1>4, <1>5 DEF Types, WriterRecord

\* The documents and the removals of some records (LogShape).
LEMMA LogFacts ==
    ASSUME Types, LogShape
    PROVE  /\ \A S \in SUBSET (1..Last) : Adds(S) = S \cap Adds(1..Last)
           /\ \A S, T \in SUBSET (1..Last) :
                  /\ Drops(S \cup T) = Drops(S) \cup Drops(T)
                  /\ S \cap T = {} => Drops(S) \cap Drops(T) = {}
           /\ Adds({}) = {} /\ Drops({}) = {}
           /\ Adds(1..Last) \subseteq 1..Last
           /\ Drops(1..Last) \subseteq Adds(1..Last)
           /\ \A d \in Adds(1..Last) : log[d].adds = {d}
<1>1. Last \in Nat
    BY TypeFacts
<1>2. ASSUME NEW S \in SUBSET (1..Last)
      PROVE  Adds(S) = S \cap Adds(1..Last)
    BY DEF Adds, LogShape
<1>3. ASSUME NEW S \in SUBSET (1..Last), NEW T \in SUBSET (1..Last)
      PROVE  /\ Drops(S \cup T) = Drops(S) \cup Drops(T)
             /\ S \cap T = {} => Drops(S) \cap Drops(T) = {}
    BY DEF Drops, LogShape
<1>4. Adds({}) = {} /\ Drops({}) = {}
    BY DEF Adds, Drops
<1>5. Adds(1..Last) \subseteq 1..Last
    BY <1>2
<1>6. \A d \in Adds(1..Last) : log[d].adds = {d}
    BY DEF Adds, LogShape
<1>7. \A n \in 1..Last : \A d \in log[n].drops : d \in 1..Last /\ d \in log[d].adds
    BY <1>1 DEF LogShape
<1>8. Drops(1..Last) \subseteq Adds(1..Last)
    BY <1>7 DEF Drops, Adds
<1> QED
    BY <1>2, <1>3, <1>4, <1>5, <1>6, <1>8

\* The records up to one, and those after it.
LEMMA LogSplit ==
    ASSUME Types, LogShape, NEW n \in 0..Last
    PROVE  /\ Adds(1..n) = (1..n) \cap Adds(1..Last)
           /\ Adds(n + 1..Last) = (n + 1..Last) \cap Adds(1..Last)
           /\ Drops(1..Last) = Drops(1..n) \cup Drops(n + 1..Last)
           /\ Drops(1..n) \cap Drops(n + 1..Last) = {}
           /\ Drops(1..n) \subseteq 1..n
<1>1. Last \in Nat
    BY TypeFacts
<1>2. 1..Last = (1..n) \cup (n + 1..Last) /\ (1..n) \cap (n + 1..Last) = {}
    BY <1>1
<1>3. /\ Adds(1..n) = (1..n) \cap Adds(1..Last)
      /\ Adds(n + 1..Last) = (n + 1..Last) \cap Adds(1..Last)
    BY <1>2 DEF Adds, LogShape
<1>4. Drops(1..Last) = Drops(1..n) \cup Drops(n + 1..Last)
    BY <1>2 DEF Drops
<1>5. Drops(1..n) \cap Drops(n + 1..Last) = {}
    <2> SUFFICES ASSUME NEW a \in 1..n, NEW b \in n + 1..Last,
                        NEW d, d \in log[a].drops, d \in log[b].drops
                 PROVE  FALSE
        BY DEF Drops
    <2>1. a \in 1..Last /\ b \in 1..Last /\ a # b
        BY <1>1
    <2> QED
        BY <2>1 DEF LogShape
<1>6. Drops(1..n) \subseteq 1..n
    BY <1>1 DEF Drops, LogShape
<1> QED
    BY <1>3, <1>4, <1>5, <1>6

\* What the records that every open mutation follows have done, is done.
LEMMA DoneBelow ==
    ASSUME Types, LogShape, TodoShape, NEW n \in 0..Last,
           \A t \in todo : n < t.seq, replay # 0 => n < replay
    PROVE  /\ Drops(1..n) \subseteq DoneDrops
           /\ (1..n) \cap OpenAdds = {}
<1>1. Last \in Nat /\ replay \in 0..Last
    BY TypeFacts DEF Types
<1>2. \A t \in todo : t.seq \in 1..Last
    BY DEF Types, Task
<1>3. CASE replay = 0
    <2>1. \A d \in OpenAdds : \E t \in todo : d \in log[t.seq].adds
        BY <1>3 DEF OpenAdds, TodoShape
    <2>2. \A d \in OpenAdds : \E t \in todo : d = t.seq
        BY <1>2, <2>1 DEF LogShape
    <2>3. (1..n) \cap OpenAdds = {}
        BY <1>1, <1>2, <2>2
    <2>4. \A d \in OpenDrops : \E t \in todo : d \in log[t.seq].drops
        BY <1>3 DEF OpenDrops, TodoShape
    <2>5. Drops(1..n) \cap OpenDrops = {}
        <3> SUFFICES ASSUME NEW m \in 1..n, NEW d \in log[m].drops, d \in OpenDrops
                     PROVE  FALSE
            BY DEF Drops
        <3>1. PICK t \in todo : d \in log[t.seq].drops
            BY <2>4
        <3>2. m \in 1..Last /\ m # t.seq
            BY <1>1, <1>2
        <3> QED
            BY <1>2, <3>1, <3>2 DEF LogShape
    <2>6. Drops(1..n) \subseteq Drops(1..Last)
        BY <1>1 DEF Drops
    <2> QED
        BY <2>3, <2>5, <2>6 DEF DoneDrops
<1>4. CASE replay # 0
    <2>1. (1..n) \in SUBSET (1..Last) /\ (replay..Last) \in SUBSET (1..Last)
        BY <1>1, <1>4
    <2>2. (1..n) \cap (replay..Last) = {}
        BY <1>1, <1>4
    <2>3. Drops(1..n) \cap OpenDrops = {}
        BY <1>4, <2>1, <2>2, LogFacts DEF OpenDrops
    <2>5. Drops(1..n) \subseteq Drops(1..Last)
        BY <2>1 DEF Drops
    <2>4. (1..n) \cap OpenAdds = {}
        BY <1>4, <2>1, <2>2, LogFacts DEF OpenAdds
    <2> QED
        BY <2>3, <2>4, <2>5 DEF DoneDrops
<1> QED
    BY <1>3, <1>4

\* What the checkpoint on storage covers is done.
LEMMA CheckpointDone ==
    ASSUME Types, LogShape, TodoShape
    PROVE  /\ Drops(1..metadata) \subseteq DoneDrops
           /\ (1..metadata) \cap OpenAdds = {}
<1>1. metadata \in 0..Last
    BY TypeFacts DEF Types, TodoShape
<1>2. \A t \in todo : metadata < t.seq
    BY DEF TodoShape
<1>3. replay # 0 => metadata < replay
    BY DEF TodoShape
<1> QED
    BY <1>1, <1>2, <1>3, DoneBelow

\* A step that leaves the log and what is under way alone.
LEMMA SameLog ==
    ASSUME UNCHANGED <<log, todo, replay>>
    PROVE  /\ Last' = Last /\ Live' = Live
           /\ OpenAdds' = OpenAdds /\ OpenDrops' = OpenDrops
           /\ DoneDrops' = DoneDrops /\ Unreplayed' = Unreplayed
           /\ \A S : Adds(S)' = Adds(S) /\ Drops(S)' = Drops(S)
           /\ Adds(1..Last)' = Adds(1..Last) /\ Drops(1..Last)' = Drops(1..Last)
<1>1. Last' = Last
    BY DEF Last
<1>2. \A S : Adds(S)' = Adds(S) /\ Drops(S)' = Drops(S)
    BY DEF Adds, Drops
<1>3. Adds(1..Last)' = Adds(1..Last) /\ Drops(1..Last)' = Drops(1..Last)
    BY <1>1 DEF Adds, Drops
<1>4. Live' = Live
    BY <1>3 DEF Live
<1>5. OpenAdds' = OpenAdds /\ OpenDrops' = OpenDrops
    BY <1>1 DEF OpenAdds, OpenDrops, Adds, Drops
<1>6. DoneDrops' = DoneDrops
    BY <1>3, <1>5 DEF DoneDrops
<1>7. Unreplayed' = Unreplayed
    BY <1>1 DEF Unreplayed, Adds, Drops
<1> QED
    BY <1>1, <1>2, <1>3, <1>4, <1>5, <1>6, <1>7

\* A step that leaves the checkpoint alone too.
LEMMA SameUnsaved ==
    ASSUME UNCHANGED <<log, metadata>>
    PROVE  /\ Unsaved' = Unsaved /\ Last' = Last /\ Live' = Live
           /\ Drops(1..metadata)' = Drops(1..metadata)
    BY DEF Unsaved, Adds, Drops, Last, Live

\* A step that leaves the segments' files and the bitmaps alone.
LEMMA SameBitmaps ==
    ASSUME UNCHANGED <<files, delmaps>>, writer'.marks = writer.marks
    PROVE  \A s : /\ DocsOf(s)' = DocsOf(s) /\ Saved(s)' = Saved(s)
                  /\ Marks(s)' = Marks(s) /\ Marked(s)' = Marked(s)
                  /\ Kept(s)' = Kept(s)
    BY DEF DocsOf, Saved, Marks, Marked, Kept

\* What the writer has of documents and segments stays.
SameWriting ==
    /\ writer'.buffer = writer.buffer /\ writer'.flushed = writer.flushed
    /\ writer'.pending = writer.pending /\ writer'.manager = writer.manager
    /\ writer'.marks = writer.marks /\ writer'.dirty = writer.dirty
    /\ writer'.flips = writer.flips /\ writer'.superseded = writer.superseded

\* A step that leaves all this alone keeps what memory and storage hold.
LEMMA KeepContents ==
    ASSUME Contents, SameWriting,
           UNCHANGED <<up, log, todo, replay, segs, manifest, metadata, files,
                       delmaps>>
    PROVE  Contents'
<1>1. \A s : /\ DocsOf(s)' = DocsOf(s) /\ Saved(s)' = Saved(s)
             /\ Marked(s)' = Marked(s) /\ Kept(s)' = Kept(s)
    BY SameBitmaps DEF SameWriting
<1>2. /\ Live' = Live /\ OpenAdds' = OpenAdds /\ DoneDrops' = DoneDrops
      /\ Unreplayed' = Unreplayed /\ Unsaved' = Unsaved
      /\ Drops(1..metadata)' = Drops(1..metadata)
    BY SameLog, SameUnsaved
<1>3. SegIds' = SegIds
    BY DEF SegIds, SameWriting
<1>4. MemoryHas' /\ SupersededHeld'
    BY <1>1, <1>2, <1>3 DEF Contents, MemoryHas, SupersededHeld, SameWriting
<1>5. MemoryHides'
    BY <1>1, <1>2, <1>3 DEF Contents, MemoryHides, SameWriting
<1>6. FlagsIn(segs)' /\ FlagsIn(writer.pending)' /\ ManifestFlags'
    BY <1>1, <1>2 DEF Contents, FlagsIn, ManifestFlags, SameWriting
<1>7. FlaggedIn(segs)' /\ FlaggedIn(writer.pending)' /\ FlaggedIn(manifest)'
    BY <1>1, <1>2 DEF Contents, FlaggedIn, SameWriting
<1>8. HidesIn(segs)' /\ HidesIn(writer.pending)' /\ HidesIn(manifest)'
    BY <1>1, <1>2 DEF Contents, HidesIn, SameWriting
<1>9. CheckpointKept' /\ ManifestHas' /\ ManifestFrom'
    BY <1>1, <1>2 DEF Contents, CheckpointKept, ManifestHas, ManifestFrom,
                      SameWriting
<1> QED
    BY <1>4, <1>5, <1>6, <1>7, <1>8, <1>9 DEF Contents

\* It leaves a document in one place.
LEMMA KeepOnce ==
    ASSUME Once, SameWriting, UNCHANGED <<segs, manifest, files, delmaps>>
    PROVE  Once'
<1>1. \A s : DocsOf(s)' = DocsOf(s)
    BY SameBitmaps DEF SameWriting
<1>2. \A s : Hidden(s)' = Hidden(s)
    BY DEF Hidden, MarksOf, SameWriting
<1>3. SegIds' = SegIds
    BY DEF SegIds, SameWriting
<1>4. MemoryOnce'
    BY <1>1, <1>2, <1>3 DEF Once, MemoryOnce, SameWriting
<1>5. StorageOnce'
    BY <1>1 DEF Once, StorageOnce, MarksOf
<1> QED
    BY <1>4, <1>5 DEF Once

\* And what searches find, if neither they nor the merges move on.
LEMMA KeepSearches ==
    ASSUME Searches, SameWriting, MergePhase => MergePhase',
           UNCHANGED <<log, todo, replay, segs, files, delmaps, ckpt,
                       building, unread, found, searcher, hasSearcher, asOf>>
    PROVE  Searches'
<1>1. \A s : /\ DocsOf(s)' = DocsOf(s) /\ Saved(s)' = Saved(s)
             /\ Kept(s)' = Kept(s)
    BY SameBitmaps DEF SameWriting
<1>2. Live' = Live /\ DoneDrops' = DoneDrops
    BY SameLog
<1>3. Drops(1..asOf)' = Drops(1..asOf)
    BY DEF Drops
<1>4. SearchOfMemory'
    BY <1>1, <1>2 DEF Searches, SearchOfMemory, SameWriting
<1>5. SearchOfCheckpoint'
    BY <1>1, <1>2, <1>3 DEF Searches, SearchOfCheckpoint
<1> QED
    BY <1>4, <1>5 DEF Searches

-----------------------------------------------------------------------------
(* The first state, and what the invariant says of the properties.         *)

\* The first state has nothing.
LEMMA InitLex ==
    ASSUME Init
    PROVE  LexInv
<1>1. /\ Last = 0 /\ log \in Seq(Record)
    BY DEF Init, Last
<1>2. /\ DOMAIN <<>> = {} /\ \A values : <<>> \in Maps(values)
      /\ \A s : At(<<>>, s, {}) = {}
    BY EmptyMap
<1>3. NoWriter \in WriterRecord
    BY <1>2 DEF NoWriter, WriterRecord
<1>4. Types
    <2>1. /\ up \in BOOLEAN /\ building \in BOOLEAN /\ hasSearcher \in BOOLEAN
          /\ holder \in Steps /\ call \in {"none", "commit", "optimize"}
        BY DEF Init, Steps
    <2>5. /\ replay \in 0..Last /\ todo \subseteq Task
          /\ nextGen \in Nat /\ ckpt \in Nat /\ metadata \in Nat /\ asOf \in Nat
        BY <1>1 DEF Init
    <2>2. /\ segs \in Maps(Entry) /\ manifest \in Maps(Entry)
          /\ unread \in Maps(Entry)
          /\ files \in Maps(SUBSET Docs) /\ delmaps \in Maps(SUBSET Docs)
        BY <1>2 DEF Init
    <2>3. Last <= MaxSeq /\ writer \in WriterRecord
        BY <1>1, <1>3, BoundsAssumption DEF Init
    <2>4. sources \subseteq Nat /\ found \subseteq Docs /\ searcher \subseteq Docs
        BY DEF Init
    <2> QED
        BY <1>1, <2>1, <2>2, <2>3, <2>4, <2>5 DEF Types
<1>5. /\ DOMAIN segs = {} /\ DOMAIN manifest = {} /\ DOMAIN unread = {}
      /\ SegIds = {} /\ DOMAIN writer.pending = {} /\ Stems = {}
      /\ DOMAIN delmaps = {} /\ DOMAIN writer.marks = {}
      /\ \A s : DocsOf(s) = {} /\ Saved(s) = {} /\ Marks(s) = {}
    BY <1>2 DEF Init, SegIds, NoWriter, DocsOf, Saved, Marks, Stems
<1>6. Adds(1..Last) = {} /\ Drops(1..Last) = {} /\ Live = {}
    BY <1>1 DEF Adds, Drops, Live
<1>7. LogShape /\ TodoShape
    BY <1>1 DEF Init, LogShape, TodoShape, NoWriter
<1>8. WriterShape /\ BitmapShape /\ Phases /\ Closed
    BY <1>5 DEF Init, WriterShape, BitmapShape, Phases, Closed, NoWriter,
                MergePhase
<1>9. Numbers /\ Logged /\ SearchShape
    BY <1>5 DEF Init, Numbers, Logged, SearchShape, NoWriter
<1>10. Contents
    BY <1>5, <1>6 DEF Init, Contents, MemoryHas, MemoryHides, FlagsIn,
        ManifestFlags, FlaggedIn, HidesIn, CheckpointKept, ManifestHas,
        ManifestFrom, SupersededHeld, NoWriter, DoneDrops
<1>11. Once
    BY <1>5 DEF Once, MemoryOnce, StorageOnce
<1>12. Searches
    BY <1>5 DEF Init, Searches, SearchOfMemory, SearchOfCheckpoint, NoWriter
<1> QED
    BY <1>4, <1>7, <1>8, <1>9, <1>10, <1>11, <1>12 DEF LexInv, Shape

\* The type invariant (see LexicalSegments).
LEMMA ShapeTypes ==
    ASSUME Shape
    PROVE  TypeOK
<1>1. todo \subseteq [seq : 1..Last, docs : SUBSET Docs, drops : SUBSET Docs]
    BY DEF Shape, Types, Task
<1>2. DOMAIN writer = DOMAIN NoWriter
    BY DEF Shape, Types, WriterRecord, NoWriter
<1>3. \A s \in DOMAIN segs : segs[s] \in Entry /\ s < nextGen
    <2>1. CASE up
        BY <2>1, AtMember DEF Shape, Types, Numbers
    <2>2. CASE ~up
        BY <2>2, EmptyMap DEF Shape, Closed
    <2> QED
        BY <2>1, <2>2
<1>4. \A s \in DOMAIN manifest : manifest[s] \in Entry
    BY AtMember DEF Shape, Types
<1>5. /\ \A s \in DOMAIN files : s \in Nat /\ files[s] \subseteq Docs
      /\ \A s \in DOMAIN delmaps : s \in Nat /\ delmaps[s] \subseteq Docs
    <2>1. ASSUME NEW f \in Maps(SUBSET Docs), NEW s \in DOMAIN f
          PROVE  s \in Nat /\ f[s] \subseteq Docs
        BY AtMember
    <2> QED
        BY <2>1 DEF Shape, Types
<1>6. asOf \in 0..Last
    BY TypeFacts DEF Shape, Types, TodoShape, SearchShape
<1>7. up => writer.known \cup sources \subseteq 0..(nextGen - 1)
    BY DEF Shape, Numbers
<1> QED
    BY <1>1, <1>2, <1>3, <1>4, <1>5, <1>6, <1>7 DEF TypeOK, Shape, Types

\* Nothing is found of what the checkpoint drops, and what it leaves is kept.
LEMMA ReopenFacts ==
    ASSUME LexInv
    PROVE  ReopensLive
<1> DEFINE replayed == metadata + 1..Last
<1>0. Types /\ LogShape /\ TodoShape
    BY DEF LexInv, Shape
<1>1. Last \in Nat /\ metadata \in Nat /\ metadata <= Last
    BY <1>0, TypeFacts DEF Types, TodoShape
<1>2. /\ (1..metadata) \in SUBSET (1..Last) /\ replayed \in SUBSET (1..Last)
      /\ (1..metadata) \cup replayed = 1..Last
    BY <1>1
<1>3. Drops(1..Last) = Drops(1..metadata) \cup Drops(replayed)
    BY <1>0, <1>1, LogSplit
<1>4. /\ Adds(replayed) = replayed \cap Adds(1..Last)
      /\ Adds(1..Last) \subseteq 1..Last
      /\ Drops(1..metadata) \cap replayed = {}
    BY <1>0, <1>1, LogSplit, LogFacts
<1>5. ASSUME NEW d \in Visible(manifest)
      PROVE  d \in Adds(1..Last) /\ d \notin Drops(1..metadata)
    <2>1. PICK s \in DOMAIN manifest : d \in DocsOf(s) \ MarksOf(s, manifest[s])
        BY DEF Visible
    <2> QED
        BY <2>1 DEF LexInv, Shape, Logged, Contents, HidesIn, MarksOf, Saved
<1>6. ASSUME NEW d \in Live, d \in 1..metadata
      PROVE  d \in Visible(manifest)
    <2>1. PICK m \in DOMAIN manifest : d \in Kept(m)
        BY <1>6 DEF LexInv, Contents, CheckpointKept
    <2> QED
        BY <2>1 DEF Visible, Kept, Marked, Saved, MarksOf
<1>7. ASSUME NEW d \in Visible(manifest) \cup Adds(replayed),
             d \notin Drops(replayed)
      PROVE  d \in Live
    BY <1>3, <1>4, <1>5, <1>7 DEF Live
<1>8. Live \subseteq (Visible(manifest) \cup Adds(replayed)) \ Drops(replayed)
    BY <1>2, <1>3, <1>4, <1>6 DEF Live
<1> QED
    BY <1>7, <1>8 DEF ReopensLive

\* A searcher shows its checkpoint.
LEMMA SearcherFacts ==
    ASSUME LexInv
    PROVE  SearchesSeeCommit
<1>0. Types /\ LogShape /\ TodoShape /\ SearchShape
    BY DEF LexInv, Shape
<1>1. Last \in Nat /\ asOf \in Nat /\ metadata <= Last /\ metadata \in Nat
    BY <1>0, TypeFacts DEF Types, TodoShape
<1> SUFFICES ASSUME hasSearcher
             PROVE  LET covered == 1..(IF Unlocked THEN ckpt ELSE asOf)
                    IN  /\ Adds(covered) \ Drops(1..Last) \subseteq searcher
                        /\ Drops(covered) \cap searcher = {}
    BY DEF SearchesSeeCommit
<1>2. (IF Unlocked THEN ckpt ELSE asOf) = asOf
    BY DEF Unlocked, MergePhase, LexInv, Searches, SearchOfMemory
<1>3. asOf \in 0..Last
    BY <1>0, <1>1 DEF SearchShape
<1>4. Adds(1..asOf) \ Drops(1..Last) = Live \cap 1..asOf
    BY <1>0, <1>3, LogSplit DEF Live
<1> QED
    BY <1>2, <1>4 DEF LexInv, Searches, SearchOfCheckpoint

\* What a search finds, with a searcher or without, while none is built.
LEMMA SearchFinds ==
    ASSUME LexInv, up, ~MergePhase, ~building
    PROVE  /\ \A s \in DOMAIN segs \ writer.flushed : Kept(s) \subseteq Search
           /\ Search \cap DoneDrops \subseteq writer.superseded
           /\ \A d \in Search : \E s \in DOMAIN segs : d \in DocsOf(s)
           /\ Search \subseteq Adds(1..Last)
           /\ Live \cap 1..ckpt \subseteq Search
           /\ Drops(1..ckpt) \cap Search = {}
<1>1. SearchOfMemory /\ SearchOfCheckpoint /\ CheckpointKept /\ MemoryHides
      /\ HidesIn(segs) /\ Logged
    BY DEF LexInv, Searches, Contents, Shape
<1>2. CASE hasSearcher
    BY <1>1, <1>2 DEF Search, SearchOfMemory, SearchOfCheckpoint, Logged
<1>3. CASE ~hasSearcher
    <2>1. Search = Visible(segs)
        BY <1>3 DEF Search
    <2>2. ASSUME NEW s \in DOMAIN segs, NEW d \in Kept(s)
          PROVE  d \in Visible(segs)
        BY DEF Visible, MarksOf, Kept, Marked, Saved
    <2>3. ASSUME NEW d \in Visible(segs)
          PROVE  /\ \E s \in DOMAIN segs : d \in DocsOf(s)
                 /\ d \in DoneDrops => d \in writer.superseded
                 /\ d \notin Drops(1..metadata)
        <3>1. PICK s \in DOMAIN segs : d \in DocsOf(s) \ MarksOf(s, segs[s])
            BY DEF Visible
        <3>2. segs[s].hasDeletions => d \notin Saved(s)
            BY <3>1 DEF MarksOf, Saved
        <3>3. d \in DoneDrops => d \in writer.superseded
            BY <1>1, <3>1, <3>2 DEF MemoryHides, SegIds
        <3> QED
            BY <1>1, <3>1, <3>2, <3>3 DEF HidesIn
    <2>4. ckpt \in Nat /\ metadata \in Nat /\ ckpt <= metadata
        BY DEF LexInv, Shape, Types, TodoShape
    <2>5. Live \cap 1..ckpt \subseteq Visible(segs)
        BY <1>1, <2>2, <2>4 DEF CheckpointKept
    <2>6. Drops(1..ckpt) \subseteq Drops(1..metadata)
        BY <2>4 DEF Drops
    <2> QED
        BY <1>1, <2>1, <2>2, <2>3, <2>5, <2>6 DEF Logged
<1> QED
    BY <1>2, <1>3

\* A lookup finds what the log leaves live.
LEMMA LookupFacts ==
    ASSUME LexInv, Serving, Unlocked, ~building, NEW id \in Ids,
           \A t \in todo : log[t.seq].id # id
    PROVE  Lookup(id) = OfId(Live, id)
<1>1. /\ Types /\ LogShape /\ TodoShape /\ BitmapShape /\ WriterShape
      /\ Logged /\ MemoryHas /\ MemoryHides /\ SupersededHeld
    BY DEF LexInv, Shape, Contents
<1>2. up /\ replay = 0 /\ ~MergePhase
    BY DEF Serving, Unlocked, MergePhase
<1>3. /\ \A s \in DOMAIN segs \ writer.flushed : Kept(s) \subseteq Search
      /\ Search \cap DoneDrops \subseteq writer.superseded
      /\ Search \subseteq Adds(1..Last)
    BY <1>2, SearchFinds
<1>4. \A t \in todo : t.seq \in 1..Last
    BY <1>1 DEF Types, Task
<1>5. \A d \in OpenAdds : log[d].id # id
    <2> SUFFICES ASSUME NEW t \in todo, NEW d \in t.docs PROVE log[d].id # id
        BY <1>2 DEF OpenAdds
    <2>1. d = t.seq
        BY <1>1, <1>4 DEF TodoShape, LogShape
    <2> QED
        BY <2>1
<1>6. \A d \in OpenDrops : log[d].id # id
    <2> SUFFICES ASSUME NEW t \in todo, NEW d \in t.drops PROVE log[d].id # id
        BY <1>2 DEF OpenDrops
    <2>1. log[d].id = log[t.seq].id
        BY <1>1, <1>4 DEF TodoShape, LogShape
    <2> QED
        BY <2>1
<1>7. \A s \in writer.flushed : \A d \in DocsOf(s) :
          d \in InWriter(writer) \/ d \in Marks(s)
    BY <1>1 DEF InWriter, Marks, WriterShape
<1>8. ASSUME NEW s \in writer.flushed, NEW d \in Marked(s)
      PROVE  d \in Marks(s) /\ writer.manager
    <2>1. d \in Marks(s)
        BY <1>1, <1>8, TypeFacts DEF BitmapShape, Marked
    <2> QED
        BY <1>1, <2>1, EmptyMap DEF WriterShape, Marks
<1>9. ASSUME NEW d \in Live, log[d].id = id
      PROVE  d \in InWriter(writer) \cup (Search \ writer.superseded)
    <2>1. d \notin OpenAdds
        BY <1>5, <1>9
    <2>2. ASSUME NEW s \in writer.flushed, d \in Kept(s)
          PROVE  d \in InWriter(writer)
        BY <1>7, <2>2 DEF Kept, Marked
    <2>3. d \in writer.buffer => d \in InWriter(writer)
        BY DEF InWriter
    <2>4. d \in writer.superseded => d \in InWriter(writer)
        BY <1>1, <2>2, <2>3 DEF SupersededHeld
    <2>5. d \in writer.buffer \/ \E s \in SegIds : d \in Kept(s)
        BY <1>1, <1>2, <2>1 DEF MemoryHas
    <2> QED
        BY <1>3, <2>2, <2>3, <2>4, <2>5 DEF SegIds
<1>10. ASSUME NEW d \in InWriter(writer) \cup (Search \ writer.superseded),
              log[d].id = id
       PROVE  d \in Live
    <2>1. d \in Adds(1..Last)
        BY <1>1, <1>3 DEF InWriter, Logged
    <2>2. d \notin DoneDrops
        <3>1. CASE d \in InWriter(writer) /\ d \in writer.buffer
            BY <1>1, <1>2, <3>1 DEF MemoryHides
        <3>2. CASE d \in InWriter(writer) /\ d \notin writer.buffer
            <4>1. PICK s \in writer.flushed :
                      d \in DocsOf(s) /\ (writer.manager => d \notin Marks(s))
                BY <3>2 DEF InWriter, Marks
            <4> QED
                BY <1>1, <1>2, <1>8, <4>1 DEF MemoryHides, SegIds
        <3>3. CASE d \in Search \ writer.superseded
            BY <1>3, <3>3
        <3> QED
            BY <3>1, <3>2, <3>3
    <2>3. d \notin OpenDrops
        BY <1>6, <1>10
    <2> QED
        BY <2>1, <2>2, <2>3 DEF Live, DoneDrops
<1> QED
    BY <1>9, <1>10 DEF Lookup, OfId

\* A document is in one place.
LEMMA OneFacts ==
    ASSUME LexInv
    PROVE  OneCopy
<1> SUFFICES ASSUME NEW d \in Docs
             PROVE  Cardinality({s \in SegIds : d \in DocsOf(s) \ Hidden(s)}
                        \cup (IF d \in writer.buffer THEN {nextGen} ELSE {})) <= 1
    BY DEF OneCopy, SegIds
<1> DEFINE Places == {s \in SegIds : d \in DocsOf(s) \ Hidden(s)}
                         \cup (IF d \in writer.buffer THEN {nextGen} ELSE {})
<1>1. \A x, y \in Places : x = y
    BY DEF LexInv, Once, MemoryOnce
<1>2. Places = {} \/ \E x : Places = {x}
    BY <1>1
<1> HIDE DEF Places
<1>3. Cardinality(Places) = 0 \/ Cardinality(Places) = 1
    <2>1. Cardinality({}) = 0
        BY FS_EmptySet
    <2>2. \A x : Cardinality({x}) = 1
        BY FS_Singleton
    <2> QED
        BY <1>2, <2>1, <2>2
<1> QED
    BY <1>3 DEF Places

-----------------------------------------------------------------------------
(* Searches.                                                               *)

\* A step that leaves all but what searches have alone keeps the rest.
LEMMA KeepShape ==
    ASSUME Shape, UNCHANGED elsewhere
    PROVE  LogShape' /\ TodoShape' /\ WriterShape' /\ BitmapShape' /\ Numbers'
<1> USE DEF elsewhere, logVars, memoryVars, diskVars, holderVars
<1>1. LogShape'
    BY DEF Shape, LogShape, Last
<1>2. Live' = Live
    BY SameLog
<1>3. TodoShape'
    BY <1>2 DEF Shape, TodoShape, Last
<1>4. WriterShape'
    BY DEF Shape, WriterShape, MergePhase
<1>5. BitmapShape'
    <2>1. \A s : Saved(s)' = Saved(s) /\ Marks(s)' = Marks(s)
        BY SameBitmaps
    <2> QED
        BY <2>1 DEF Shape, BitmapShape, SegIds
<1>6. Numbers'
    BY DEF Shape, Numbers, Stems
<1> QED
    BY <1>1, <1>3, <1>4, <1>5, <1>6

\* Building a searcher keeps the invariant.
LEMMA SearchKeeps ==
    ASSUME LexInv, UNCHANGED elsewhere,
           unread' \in Maps(Entry), asOf' \in Nat,
           building' \in BOOLEAN, hasSearcher' \in BOOLEAN,
           found' \cup searcher' \subseteq Adds(1..Last),
           ~up => ~building' /\ ~hasSearcher',
           holder = "delete" => sources \cap DOMAIN unread' = {},
           SearchShape', Searches'
    PROVE  LexInv'
<1> USE DEF elsewhere, logVars, memoryVars, diskVars, holderVars
<1>1. LogShape' /\ TodoShape' /\ WriterShape' /\ BitmapShape' /\ Numbers'
    BY KeepShape DEF LexInv
<1>2. Types'
    <2>1. Adds(1..Last) \subseteq Docs
        <3>1. Types /\ LogShape
            BY DEF LexInv, Shape
        <3> QED
            BY <3>1, TypeFacts, LogFacts DEF Docs, Types
    <2>2. Types
        BY DEF LexInv, Shape
    <2>3. /\ up' \in BOOLEAN /\ log' \in Seq(Record) /\ Last' <= MaxSeq
          /\ replay' \in 0..Last' /\ writer' \in WriterRecord
          /\ todo' \subseteq Task'
        BY <2>2 DEF Types, Last, Task
    <2>4. /\ segs' \in Maps(Entry) /\ manifest' \in Maps(Entry)
          /\ files' \in Maps(SUBSET Docs) /\ delmaps' \in Maps(SUBSET Docs)
          /\ nextGen' \in Nat /\ ckpt' \in Nat /\ metadata' \in Nat
          /\ holder' \in Steps /\ call' \in {"none", "commit", "optimize"}
          /\ sources' \subseteq Nat
        BY <2>2 DEF Types
    <2>5. found' \subseteq Docs /\ searcher' \subseteq Docs
        BY <2>1
    <2> QED
        BY <2>3, <2>4, <2>5 DEF Types
<1>3. Phases'
    BY DEF LexInv, Shape, Phases, MergePhase
<1>4. Closed'
    BY DEF LexInv, Shape, Closed
<1>5. Logged'
    <2>1. Adds(1..Last)' = Adds(1..Last) /\ \A s : DocsOf(s)' = DocsOf(s)
        BY SameLog, SameBitmaps
    <2> QED
        BY <2>1 DEF LexInv, Shape, Logged
<1>6. SameWriting
    BY DEF SameWriting
<1>7. Contents'
    BY <1>6, KeepContents DEF LexInv
<1>8. Once'
    BY <1>6, KeepOnce DEF LexInv
<1> QED
    BY <1>1, <1>2, <1>3, <1>4, <1>5, <1>7, <1>8 DEF LexInv, Shape

\* A search that starts to build a searcher reads the segments of memory.
LEMMA StartBuildKeeps ==
    ASSUME LexInv, StartBuild
    PROVE  LexInv'
<1>1. /\ UNCHANGED elsewhere /\ up /\ ~building /\ ~hasSearcher
      /\ building' /\ unread' = segs /\ asOf' = ckpt
      /\ UNCHANGED <<found, searcher, hasSearcher>>
    <2>1. segs = [s \in DOMAIN segs |-> segs[s]]
        BY MapShape DEF LexInv, Shape, Types
    <2> QED
        BY <2>1 DEF StartBuild
<1>2. /\ Types /\ LogShape /\ TodoShape /\ SearchShape /\ Logged /\ Phases
      /\ MemoryHides /\ CheckpointKept /\ HidesIn(segs)
    BY DEF LexInv, Shape, Contents
<1>3. found = {} /\ searcher = {} /\ ckpt <= metadata
    BY <1>1, <1>2 DEF SearchShape, TodoShape
<1>4. /\ \A s : DocsOf(s)' = DocsOf(s) /\ Saved(s)' = Saved(s)
                /\ Kept(s)' = Kept(s)
      /\ Live' = Live /\ DoneDrops' = DoneDrops
      /\ \A S : Drops(S)' = Drops(S)
    BY <1>1, SameBitmaps, SameLog
       DEF elsewhere, logVars, diskVars
<1>5. SearchOfMemory'
    BY <1>1, <1>2, <1>3, <1>4
       DEF SearchOfMemory, MemoryHides, SegIds, elsewhere, memoryVars
<1>6. SearchOfCheckpoint'
    <2>1. 1..ckpt \subseteq 1..metadata
        BY <1>2, <1>3 DEF Types
    <2>2. Drops(1..ckpt) \subseteq Drops(1..metadata)
        BY <2>1 DEF Drops
    <2>3. Drops(1..asOf)' = Drops(1..ckpt)
        BY <1>1, <1>4
    <2> QED
        BY <1>1, <1>2, <1>3, <1>4, <2>1, <2>2, <2>3
           DEF SearchOfCheckpoint, HidesIn, CheckpointKept
<1>7. SearchShape'
    <2>1. DOMAIN segs \subseteq 0..nextGen - 1
        BY <1>1 DEF LexInv, Shape, Numbers
    <2> QED
        BY <1>1, <1>2, <1>3, <2>1
           DEF SearchShape, elsewhere, diskVars, memoryVars
<1>8. sources \cap DOMAIN unread' = {}
    BY <1>1, <1>2 DEF Phases
<1> QED
    BY <1>1, <1>2, <1>3, <1>5, <1>6, <1>7, <1>8, SearchKeeps
       DEF Searches, Types

\* It reads the oldest that is left.
LEMMA ReadSegmentKeeps ==
    ASSUME LexInv, ReadSegment
    PROVE  LexInv'
<1> DEFINE s == Min(DOMAIN unread)
<1>1. /\ UNCHANGED elsewhere /\ unread # <<>>
      /\ found' = found \cup (DocsOf(s) \ MarksOf(s, unread[s]))
      /\ unread' = Without(unread, {s})
      /\ UNCHANGED <<building, searcher, hasSearcher, asOf>>
    BY DEF ReadSegment
<1>2. Types /\ LogShape /\ SearchShape /\ Logged /\ Phases /\ Closed
      /\ SearchOfMemory /\ SearchOfCheckpoint
    BY DEF LexInv, Shape, Searches
<1>3. building /\ ~hasSearcher
    BY <1>1, <1>2 DEF SearchShape, Types
<1>4. s \in DOMAIN unread
    <2>1. DOMAIN unread \in SUBSET Nat
        BY <1>2, MapShape DEF Types
    <2>2. DOMAIN unread # {}
        BY <1>1, <1>2, EmptyMap DEF Types
    <2> QED
        BY <2>1, <2>2, Least
<1> HIDE DEF s
<1>5. /\ unread' \in Maps(Entry)
      /\ DOMAIN unread' = DOMAIN unread \ {s}
      /\ \A u \in DOMAIN unread' : unread'[u] = unread[u]
    <2>1. unread \in Maps(Entry)
        BY <1>2 DEF Types
    <2>2. /\ Without(unread, {s}) \in Maps(Entry)
          /\ DOMAIN Without(unread, {s}) = DOMAIN unread \ {s}
          /\ \A u \in DOMAIN unread \ {s} : Without(unread, {s})[u] = unread[u]
        BY <2>1, WithoutMembers
    <2> QED
        BY <1>1, <2>2
<1>6. /\ \A u : DocsOf(u)' = DocsOf(u) /\ Saved(u)' = Saved(u)
                /\ Kept(u)' = Kept(u)
      /\ Live' = Live /\ DoneDrops' = DoneDrops
      /\ \A S : Drops(S)' = Drops(S)
    BY <1>1, SameBitmaps, SameLog DEF elsewhere, logVars, diskVars
<1>7. /\ Kept(s) \subseteq found'
      /\ \A d \in found' \ found :
             /\ d \in DocsOf(s)
             /\ unread[s].hasDeletions => d \notin Saved(s)
    BY <1>1 DEF Kept, Marked, Saved, MarksOf
<1>8. SearchOfMemory'
    <2> SUFFICES ASSUME ~MergePhase PROVE SearchOfMemory'
        BY <1>1 DEF SearchOfMemory, MergePhase, elsewhere, holderVars
    <2>1. /\ segs' = segs /\ writer' = writer /\ ckpt' = ckpt
          /\ DOMAIN unread \subseteq DOMAIN segs /\ searcher = {}
        BY <1>1, <1>2, <1>3 DEF SearchOfMemory, elsewhere, memoryVars, SearchShape
    <2>2. \A u \in DOMAIN segs \ writer.flushed : \A d \in Kept(u) :
              d \in found' \/ u \in DOMAIN unread'
        BY <1>1, <1>2, <1>3, <1>5, <1>7 DEF SearchOfMemory
    <2>3. found' \cap DoneDrops \subseteq writer.superseded
        BY <1>2, <1>3, <1>4, <1>7 DEF SearchOfMemory
    <2>4. \A u \in DOMAIN unread' : \A d \in DocsOf(u) \cap DoneDrops :
              \/ d \in writer.superseded
              \/ unread'[u].hasDeletions /\ d \in Saved(u)
        BY <1>2, <1>5 DEF SearchOfMemory
    <2>5. \A d \in found' : \E u \in DOMAIN segs : d \in DocsOf(u)
        BY <1>2, <1>4, <1>7, <2>1 DEF SearchOfMemory
    <2> QED
        BY <1>1, <1>2, <1>3, <1>5, <1>6, <2>1, <2>2, <2>3, <2>4, <2>5
           DEF SearchOfMemory
<1>9. SearchOfCheckpoint'
    <2>1. \A d \in Live \cap 1..asOf :
              d \in found' \/ \E u \in DOMAIN unread' : d \in Kept(u)
        BY <1>1, <1>2, <1>3, <1>5, <1>7 DEF SearchOfCheckpoint
    <2>2. Drops(1..asOf) \cap found' = {}
        BY <1>2, <1>3, <1>4, <1>7 DEF SearchOfCheckpoint
    <2>3. \A u \in DOMAIN unread' : \A d \in DocsOf(u) \cap Drops(1..asOf) :
              unread'[u].hasDeletions /\ d \in Saved(u)
        BY <1>2, <1>3, <1>5 DEF SearchOfCheckpoint
    <2>4. Drops(1..asOf)' = Drops(1..asOf)
        BY <1>1, <1>6
    <2> QED
        BY <1>1, <1>3, <1>6, <2>1, <2>2, <2>3, <2>4 DEF SearchOfCheckpoint
<1>10. SearchShape'
    <2>1. up => DOMAIN unread' \subseteq 0..nextGen - 1
        BY <1>2, <1>5 DEF SearchShape
    <2> QED
        BY <1>1, <1>2, <1>3, <2>1
           DEF SearchShape, elsewhere, diskVars, memoryVars
<1>11. found' \cup searcher' \subseteq Adds(1..Last)
    BY <1>1, <1>2 DEF Logged
<1> QED
    BY <1>1, <1>2, <1>3, <1>5, <1>8, <1>9, <1>10, <1>11, SearchKeeps
       DEF Searches, Types, Phases, Closed

\* It is done.
LEMMA FinishBuildKeeps ==
    ASSUME LexInv, FinishBuild
    PROVE  LexInv'
<1>1. /\ UNCHANGED elsewhere /\ building /\ unread = <<>>
      /\ building' = FALSE /\ found' = {} /\ searcher' = found
      /\ hasSearcher' = TRUE /\ UNCHANGED <<unread, asOf>>
    BY DEF FinishBuild
<1>2. Types /\ SearchShape /\ Logged /\ Phases /\ Closed
      /\ SearchOfMemory /\ SearchOfCheckpoint
    BY DEF LexInv, Shape, Searches
<1>3. DOMAIN unread = {}
    BY <1>1, EmptyMap
<1>4. /\ \A u : DocsOf(u)' = DocsOf(u) /\ Saved(u)' = Saved(u)
                /\ Kept(u)' = Kept(u)
      /\ Live' = Live /\ DoneDrops' = DoneDrops
      /\ Drops(1..asOf)' = Drops(1..asOf)
    BY <1>1, SameBitmaps, SameLog DEF elsewhere, logVars, diskVars
<1>5. SearchOfMemory'
    BY <1>1, <1>2, <1>3, <1>4
       DEF SearchOfMemory, elsewhere, memoryVars, MergePhase, holderVars
<1>6. SearchOfCheckpoint'
    BY <1>1, <1>2, <1>3, <1>4 DEF SearchOfCheckpoint
<1>7. SearchShape'
    BY <1>1, <1>2, <1>3 DEF SearchShape, elsewhere, diskVars, memoryVars
<1>8. found' \cup searcher' \subseteq Adds(1..Last)
    BY <1>1, <1>2 DEF Logged
<1> QED
    BY <1>1, <1>2, <1>3, <1>5, <1>6, <1>7, <1>8, SearchKeeps
       DEF Searches, Types, Closed

-----------------------------------------------------------------------------
(* Records.                                                                *)

\* The writer that a mutation gets (cached_writer).
LEMMA WriterFacts ==
    ASSUME Types, WriterShape
    PROVE  /\ Writer \in WriterRecord /\ Writer.open
           /\ writer.open => Writer = writer
           /\ ~writer.open => Writer.known = DOMAIN segs /\ Writer.seq = ckpt
           /\ Writer.buffer = writer.buffer /\ Writer.flushed = writer.flushed
           /\ Writer.pending = writer.pending /\ Writer.manager = writer.manager
           /\ Writer.marks = writer.marks /\ Writer.dirty = writer.dirty
           /\ Writer.flips = writer.flips
           /\ Writer.superseded = writer.superseded
<1>1. CASE writer.open
    BY <1>1 DEF Types, Writer
<1>2. CASE ~writer.open
    <2>1. writer = NoWriter /\ Writer = NewWriter
        BY <1>2 DEF WriterShape, Writer
    <2>2. DOMAIN segs \subseteq Nat /\ ckpt \in Nat
        BY MapShape DEF Types
    <2>3. /\ NewWriter.open /\ NewWriter.known = DOMAIN segs
          /\ NewWriter.seq = ckpt /\ NewWriter.buffer = NoWriter.buffer
          /\ NewWriter.flushed = NoWriter.flushed
          /\ NewWriter.pending = NoWriter.pending
          /\ NewWriter.manager = NoWriter.manager
          /\ NewWriter.marks = NoWriter.marks
          /\ NewWriter.dirty = NoWriter.dirty
          /\ NewWriter.flips = NoWriter.flips
          /\ NewWriter.superseded = NoWriter.superseded
        BY DEF NewWriter, NoWriter
    <2>4. NewWriter \in WriterRecord
        BY <2>1, <2>2 DEF Types, NewWriter, WriterRecord
    <2> QED
        BY <1>2, <2>1, <2>3, <2>4
<1> QED
    BY <1>1, <1>2 DEF Types, WriterRecord

\* What a record adds to the log.
LEMMA MutateRecord ==
    ASSUME LexInv, NEW id \in Ids, NEW docs \in {{}, {Last + 1}},
           Mutate(id, docs)
    PROVE  LET L == OfId(Live, id)
           IN  /\ Last' = Last + 1 /\ log' \in Seq(Record)
               /\ \A n \in 1..Last : log'[n] = log[n]
               /\ log'[Last + 1] = [id |-> id, adds |-> docs, drops |-> L]
               /\ todo' = todo \cup {[seq |-> Last + 1, docs |-> docs,
                                      drops |-> L]}
               /\ \A d \in L : d \in 1..Last /\ log[d].adds = {d}
                               /\ log[d].id = id
<1> DEFINE L == OfId(Live, id)
<1>1. Types /\ LogShape
    BY DEF LexInv, Shape
<1>2. Lookup(id) = L
    <2>1. /\ Serving /\ Unlocked /\ ~building
          /\ \A t \in todo : log[t.seq].id # id
        BY DEF Mutate
    <2> QED
        BY <2>1, LookupFacts
<1>3. /\ log' = Append(log, [id |-> id, adds |-> docs, drops |-> L])
      /\ todo' = todo \cup {[seq |-> Last + 1, docs |-> docs, drops |-> L]}
      /\ Last < MaxSeq
    BY <1>2 DEF Mutate
<1>4. L \subseteq Adds(1..Last) /\ Adds(1..Last) \subseteq 1..Last
    BY <1>1, LogFacts DEF OfId, Live
<1>5. Last \in Nat /\ MaxSeq \in Nat
    BY <1>1, TypeFacts
<1>6. [id |-> id, adds |-> docs, drops |-> L] \in Record
    BY <1>3, <1>4, <1>5 DEF Record, Docs
<1>7. /\ Last' = Last + 1 /\ log' \in Seq(Record)
      /\ \A n \in 1..Last : log'[n] = log[n]
      /\ log'[Last + 1] = [id |-> id, adds |-> docs, drops |-> L]
    BY <1>1, <1>3, <1>6 DEF Types, Last
<1>8. \A d \in L : d \in 1..Last /\ log[d].adds = {d} /\ log[d].id = id
    BY <1>1, <1>4, LogFacts DEF OfId
<1> QED
    BY <1>3, <1>7, <1>8

\* What the log and the mutations under way say afterwards.
LEMMA MutateLog ==
    ASSUME LexInv, NEW id \in Ids, NEW docs \in {{}, {Last + 1}},
           Mutate(id, docs)
    PROVE  LET L == OfId(Live, id)
           IN  /\ LogShape'
               /\ L \subseteq Live /\ L \cap OpenAdds = {}
               /\ Adds(1..Last)' = Adds(1..Last) \cup docs
               /\ Live' = (Live \cup docs) \ L
               /\ OpenAdds' = OpenAdds \cup docs
               /\ DoneDrops' = DoneDrops
               /\ Unreplayed' = Unreplayed
               /\ \A n \in 0..Last : Drops(1..n)' = Drops(1..n)
               /\ Unsaved \subseteq Unsaved'
<1> DEFINE L == OfId(Live, id)
           rec == [id |-> id, adds |-> docs, drops |-> L]
<1>1. Types /\ LogShape /\ TodoShape
    BY DEF LexInv, Shape
<1>2. /\ Last' = Last + 1
      /\ \A n \in 1..Last : log'[n] = log[n]
      /\ log'[Last + 1] = rec
      /\ todo' = todo \cup {[seq |-> Last + 1, docs |-> docs, drops |-> L]}
      /\ \A d \in L : d \in 1..Last /\ log[d].adds = {d} /\ log[d].id = id
    BY MutateRecord
<1>3. Last \in Nat /\ Adds(1..Last) \subseteq 1..Last
    BY <1>1, TypeFacts, LogFacts
<1>4. /\ up /\ replay = 0 /\ UNCHANGED <<replay, metadata>>
      /\ \A t \in todo : log[t.seq].id # id
    BY DEF Mutate, Serving, diskVars
<1>5. L \subseteq Live
    BY DEF OfId
<1>6. 1..Last' = 1..Last \cup {Last + 1}
    BY <1>2, <1>3
<1> HIDE DEF L
<1>7. LogShape'
    <2>1. \A n \in 1..Last' : log'[n].adds \in {{}, {n}}
        BY <1>1, <1>2, <1>6 DEF LogShape
    <2>2. ASSUME NEW n \in 1..Last', NEW d \in log'[n].drops
          PROVE  d \in 1..n - 1 /\ log'[d].adds = {d} /\ log'[d].id = log'[n].id
        <3>1. CASE n = Last + 1
            BY <1>2, <1>3, <2>2, <3>1
        <3>2. CASE n \in 1..Last
            <4>1. /\ d \in 1..n - 1 /\ log[d].adds = {d}
                  /\ log[d].id = log[n].id
                BY <1>1, <1>2, <2>2, <3>2 DEF LogShape
            <4>2. d \in 1..Last
                BY <1>3, <3>2, <4>1
            <4> QED
                BY <1>2, <3>2, <4>1, <4>2
        <3> QED
            BY <1>6, <3>1, <3>2
    <2>3. ASSUME NEW m \in 1..Last PROVE log[m].drops \cap L = {}
        BY <1>5 DEF Live, Drops
    <2>4. ASSUME NEW m \in 1..Last', NEW n \in 1..Last', m # n
          PROVE  log'[m].drops \cap log'[n].drops = {}
        <3>1. CASE m \in 1..Last /\ n \in 1..Last
            BY <1>1, <1>2, <2>4, <3>1 DEF LogShape
        <3>2. CASE m = Last + 1
            BY <1>2, <1>6, <2>3, <2>4, <3>2
        <3>3. CASE n = Last + 1
            BY <1>2, <1>6, <2>3, <2>4, <3>3
        <3> QED
            BY <1>6, <3>1, <3>2, <3>3
    <2> QED
        BY <2>1, <2>2, <2>4 DEF LogShape
<1>8. /\ Adds(1..Last)' = Adds(1..Last) \cup docs
      /\ Drops(1..Last)' = Drops(1..Last) \cup L
    BY <1>2, <1>6 DEF Adds, Drops
<1>9. docs \cap L = {}
    BY <1>2, <1>3
<1>10. docs \cap Drops(1..Last) = {}
    <2>1. Drops(1..Last) \subseteq 1..Last
        BY <1>1, <1>3, LogFacts
    <2> QED
        BY <1>3, <2>1
<1>11. Live' = (Live \cup docs) \ L
    BY <1>8, <1>10 DEF Live
<1>12. OpenAdds' = OpenAdds \cup docs /\ OpenDrops' = OpenDrops \cup L
    <2>1. PICK t : t = [seq |-> Last + 1, docs |-> docs, drops |-> L]
        OBVIOUS
    <2>2. t.docs = docs /\ t.drops = L
        BY <2>1
    <2>3. todo' = todo \cup {t} /\ replay' = 0 /\ replay = 0
        BY <1>2, <1>4, <2>1
    <2>4. /\ OpenAdds' = UNION {u.docs : u \in todo'}
          /\ OpenDrops' = UNION {u.drops : u \in todo'}
          /\ OpenAdds = UNION {u.docs : u \in todo}
          /\ OpenDrops = UNION {u.drops : u \in todo}
        BY <2>3 DEF OpenAdds, OpenDrops
    <2> QED
        BY <2>2, <2>3, <2>4
<1>13. DoneDrops' = DoneDrops
    BY <1>5, <1>8, <1>12 DEF DoneDrops, Live
<1>14. L \cap OpenAdds = {}
    <2> SUFFICES ASSUME NEW t \in todo, NEW d \in t.docs, d \in L PROVE FALSE
        BY <1>4 DEF OpenAdds
    <2>1. t.seq \in 1..Last /\ d \in log[t.seq].adds
        BY <1>1 DEF Types, Task, TodoShape
    <2>2. d = t.seq
        BY <1>1, <2>1 DEF LogShape
    <2> QED
        BY <1>2, <1>4, <2>2
<1>15. Unreplayed' = Unreplayed
    BY <1>4 DEF Unreplayed
<1>16. \A n \in 0..Last : Drops(1..n)' = Drops(1..n)
    <2> SUFFICES ASSUME NEW n \in 0..Last
                 PROVE  Drops(1..n)' = Drops(1..n)
        OBVIOUS
    <2>1. 1..n \subseteq 1..Last
        BY <1>3
    <2> QED
        BY <1>2, <2>1 DEF Drops
<1>17. Unsaved \subseteq Unsaved'
    <2>1. metadata \in Nat /\ metadata + 1..Last \subseteq 1..Last
          /\ metadata + 1..Last \subseteq metadata + 1..Last'
        BY <1>1, <1>2, <1>3 DEF Types
    <2> QED
        BY <1>2, <1>4, <2>1 DEF Unsaved, Adds, Drops
<1> QED
    BY <1>5, <1>7, <1>8, <1>11, <1>12, <1>13, <1>14, <1>15, <1>16, <1>17 DEF L

\* A record keeps what memory and storage hold.
LEMMA MutateContents ==
    ASSUME LexInv, NEW id \in Ids, NEW docs \in {{}, {Last + 1}},
           Mutate(id, docs), SameWriting
    PROVE  Contents'
<1> DEFINE L == OfId(Live, id)
<1>1. /\ Types /\ LogShape /\ TodoShape /\ Logged /\ Contents
    BY DEF LexInv, Shape
<1>2. /\ L \subseteq Live /\ L \cap OpenAdds = {}
      /\ Live' = (Live \cup docs) \ L
      /\ OpenAdds' = OpenAdds \cup docs
      /\ DoneDrops' = DoneDrops /\ Unreplayed' = Unreplayed
      /\ \A n \in 0..Last : Drops(1..n)' = Drops(1..n)
      /\ Unsaved \subseteq Unsaved'
    BY MutateLog
<1> HIDE DEF L
<1>3. UNCHANGED <<up, segs, nextGen, ckpt, manifest, metadata, files, delmaps>>
    BY DEF Mutate, memoryVars, diskVars
<1>4. \A s : /\ DocsOf(s)' = DocsOf(s) /\ Saved(s)' = Saved(s)
             /\ Marked(s)' = Marked(s) /\ Kept(s)' = Kept(s)
    BY <1>3, SameBitmaps DEF SameWriting
<1>5. SegIds' = SegIds
    BY <1>3 DEF SegIds, SameWriting
<1>6. /\ Last \in Nat /\ metadata \in 0..Last
      /\ Adds(1..Last) \subseteq 1..Last
    BY <1>1, TypeFacts, LogFacts DEF Types, TodoShape
<1>7. Drops(1..metadata)' = Drops(1..metadata)
    BY <1>2, <1>3, <1>6
<1>8. Live' \cap 1..metadata \subseteq Live
    BY <1>2, <1>6
<1>9. writer.superseded \cap Live' \subseteq Live
    BY <1>1, <1>2, <1>6 DEF Logged
<1>10. MemoryHas'
    BY <1>1, <1>2, <1>3, <1>4, <1>5 DEF Contents, MemoryHas, SameWriting
<1>11. MemoryHides'
    BY <1>1, <1>2, <1>3, <1>4, <1>5 DEF Contents, MemoryHides, SameWriting
<1>12. FlagsIn(segs)' /\ FlagsIn(writer.pending)' /\ ManifestFlags'
    BY <1>1, <1>2, <1>3, <1>4 DEF Contents, FlagsIn, ManifestFlags, SameWriting
<1>13. FlaggedIn(segs)' /\ FlaggedIn(writer.pending)' /\ FlaggedIn(manifest)'
    BY <1>1, <1>2, <1>3, <1>4 DEF Contents, FlaggedIn, SameWriting
<1>14. HidesIn(segs)' /\ HidesIn(writer.pending)' /\ HidesIn(manifest)'
    BY <1>1, <1>3, <1>4, <1>7 DEF Contents, HidesIn, SameWriting
<1>15. CheckpointKept'
    BY <1>1, <1>3, <1>4, <1>8 DEF Contents, CheckpointKept
<1>16. ManifestHas' /\ ManifestFrom'
    BY <1>1, <1>3, <1>4 DEF Contents, ManifestHas, ManifestFrom, SameWriting
<1>17. SupersededHeld'
    BY <1>1, <1>4, <1>9 DEF Contents, SupersededHeld, SameWriting
<1> QED
    BY <1>10, <1>11, <1>12, <1>13, <1>14, <1>15, <1>16, <1>17 DEF Contents

\* The searcher that its lookup leaves shows the last commit.
LEMMA MutateSearches ==
    ASSUME LexInv, NEW id \in Ids, NEW docs \in {{}, {Last + 1}},
           Mutate(id, docs), SameWriting
    PROVE  Searches' /\ SearchShape'
<1>1. /\ up /\ ~MergePhase /\ ~building /\ UNCHANGED <<building, unread, found>>
      /\ UNCHANGED <<segs, ckpt, metadata, files, delmaps, holder>>
      /\ searcher' = Search /\ hasSearcher' = TRUE
      /\ asOf' = IF hasSearcher THEN asOf ELSE ckpt
    BY DEF Mutate, Serving, Unlocked, MergePhase, memoryVars, diskVars,
           holderVars
<1>2. /\ Types /\ LogShape /\ TodoShape /\ SearchShape /\ SearchOfMemory
    BY DEF LexInv, Shape, Searches
<1>3. unread = <<>> /\ found = {} /\ DOMAIN unread = {}
    BY <1>1, <1>2, EmptyMap DEF SearchShape
<1>4. asOf' = ckpt /\ ckpt \in 0..Last /\ ckpt <= metadata
    BY <1>1, <1>2, TypeFacts DEF SearchOfMemory, TodoShape, Types
<1>5. /\ \A s \in DOMAIN segs \ writer.flushed : Kept(s) \subseteq Search
      /\ Search \cap DoneDrops \subseteq writer.superseded
      /\ \A d \in Search : \E s \in DOMAIN segs : d \in DocsOf(s)
      /\ Live \cap 1..ckpt \subseteq Search
      /\ Drops(1..ckpt) \cap Search = {}
    BY <1>1, SearchFinds
<1>6. /\ Live' \subseteq Live \cup {Last + 1} /\ DoneDrops' = DoneDrops
      /\ \A n \in 0..Last : Drops(1..n)' = Drops(1..n)
    BY MutateLog
<1>7. \A s : /\ DocsOf(s)' = DocsOf(s) /\ Saved(s)' = Saved(s)
             /\ Kept(s)' = Kept(s)
    BY <1>1, SameBitmaps DEF SameWriting
<1>8. SearchOfMemory'
    BY <1>1, <1>3, <1>4, <1>5, <1>6, <1>7 DEF SearchOfMemory, SameWriting
<1>9. SearchOfCheckpoint'
    <2>1. Drops(1..asOf)' = Drops(1..ckpt)
        <3>1. Drops(1..ckpt)' = Drops(1..ckpt)
            BY <1>1, <1>4, <1>6
        <3> QED
            BY <1>1, <1>4, <3>1
    <2>2. Live' \cap 1..ckpt \subseteq Live
        BY <1>2, <1>4, <1>6, TypeFacts
    <2> QED
        BY <1>1, <1>3, <1>4, <1>5, <2>1, <2>2 DEF SearchOfCheckpoint
<1>10. SearchShape'
    BY <1>1, <1>3, <1>4 DEF SearchShape
<1> QED
    BY <1>8, <1>9, <1>10 DEF Searches

\* A put's or a delete's record keeps the invariant.
LEMMA MutateKeeps ==
    ASSUME LexInv, NEW id \in Ids, NEW docs \in {{}, {Last + 1}},
           Mutate(id, docs), docs # {} \/ Lookup(id) # {},
           writer' = writer \/ writer' = Writer
    PROVE  LexInv'
<1> DEFINE L == OfId(Live, id)
<1>1. /\ Types /\ LogShape /\ TodoShape /\ WriterShape /\ BitmapShape
      /\ Phases /\ Closed /\ Numbers /\ Logged /\ Once
    BY DEF LexInv, Shape
<1>2. /\ up /\ replay = 0 /\ holder = "free" /\ ~building
      /\ \A t \in todo : log[t.seq].id # id
      /\ UNCHANGED <<up, replay, segs, nextGen, ckpt, manifest, metadata, files,
                     delmaps, holder, call, sources, building, unread, found>>
      /\ searcher' = Search /\ hasSearcher' = TRUE
      /\ asOf' = (IF hasSearcher THEN asOf ELSE ckpt)
      /\ Last < MaxSeq
    BY DEF Mutate, Serving, Unlocked, memoryVars, diskVars, holderVars
<1>3. /\ writer' \in WriterRecord /\ SameWriting
      /\ writer'.seq = writer.seq \/ writer'.seq = ckpt
      /\ writer'.known = writer.known \/ writer'.known = DOMAIN segs
      /\ writer.open => writer' = writer
      /\ ~writer.open => writer' = NoWriter \/ writer'.known = DOMAIN segs
      /\ writer'.open \/ writer' = NoWriter
    BY <1>1, WriterFacts DEF SameWriting, WriterShape, Types
<1>4. /\ Last' = Last + 1 /\ log' \in Seq(Record)
      /\ \A n \in 1..Last : log'[n] = log[n]
      /\ log'[Last + 1] = [id |-> id, adds |-> docs, drops |-> L]
      /\ todo' = todo \cup {[seq |-> Last + 1, docs |-> docs, drops |-> L]}
    BY MutateRecord
<1>5. /\ LogShape' /\ L \subseteq Live
      /\ Adds(1..Last)' = Adds(1..Last) \cup docs
      /\ Live' = (Live \cup docs) \ L /\ L \cap OpenAdds = {}
    BY MutateLog
<1>6. Last \in Nat /\ Adds(1..Last) \subseteq 1..Last
    BY <1>1, TypeFacts, LogFacts
<1>7. L \cup docs # {}
    BY <1>2, LookupFacts DEF Serving, Unlocked
<1>8. \A t \in todo : log'[t.seq] = log[t.seq] /\ t.seq \in 1..Last
    BY <1>1, <1>4 DEF Types, Task
<1> HIDE DEF L
<1>9. Types'
    <2>1. L \subseteq Docs /\ docs \subseteq Docs /\ Search \subseteq Docs
        <3>1. Search \subseteq Adds(1..Last)
            BY <1>2, SearchFinds DEF MergePhase
        <3>2. 1..Last + 1 \subseteq Docs
            BY <1>1, <1>2, <1>6, TypeFacts DEF Docs
        <3> QED
            BY <1>5, <1>6, <3>1, <3>2 DEF Live
    <2>2. todo \subseteq Task'
        BY <1>1, <1>4, <1>6 DEF Types, Task
    <2>3. [seq |-> Last + 1, docs |-> docs, drops |-> L] \in Task'
        BY <1>4, <1>6, <2>1 DEF Task
    <2>4. todo' \subseteq Task'
        BY <1>4, <2>2, <2>3
    <2>5. Last' <= MaxSeq /\ replay' \in 0..Last'
        BY <1>1, <1>2, <1>4, <1>6, TypeFacts
    <2> QED
        BY <1>1, <1>2, <1>3, <1>4, <2>1, <2>4, <2>5 DEF Types
<1>10. TodoShape'
    <2>1. \A t \in todo : /\ t.docs \subseteq log[t.seq].adds \cap Live
                          /\ t.docs \cap L = {}
        <3>1. \A t \in todo : t.docs \subseteq OpenAdds
            BY <1>2 DEF OpenAdds
        <3> QED
            BY <1>1, <1>5, <3>1 DEF TodoShape
    <2>2. docs \cap L = {}
        BY <1>5, <1>6 DEF Live
    <2>3. ckpt \in Nat /\ metadata \in Nat /\ writer'.seq <= Last
          /\ ckpt <= metadata /\ metadata <= Last
        BY <1>1, <1>3, <1>6, TypeFacts DEF Types, TodoShape
    <2>4. \A t \in todo : metadata < t.seq /\ writer'.seq < t.seq
        BY <1>1, <1>3, <1>8, <2>3, TypeFacts DEF TodoShape
    <2>5. PICK u : u = [seq |-> Last + 1, docs |-> docs, drops |-> L]
        OBVIOUS
    <2>6. u.seq = Last + 1 /\ u.docs = docs /\ u.drops = L
        BY <2>5
    <2>7. todo' = todo \cup {u}
        BY <1>4, <2>5
    <2>8. /\ u.docs \subseteq log'[u.seq].adds \cap Live'
          /\ u.drops \subseteq log'[u.seq].drops
          /\ u.docs \cup u.drops # {}
          /\ metadata' < u.seq /\ writer'.seq < u.seq
        BY <1>2, <1>3, <1>4, <1>5, <1>6, <1>7, <2>2, <2>3, <2>6, TypeFacts
           DEF WriterRecord
    <2>9. \A t \in todo :
              /\ t.docs \subseteq log'[t.seq].adds \cap Live'
              /\ t.drops \subseteq log'[t.seq].drops
              /\ t.docs \cup t.drops # {}
              /\ metadata' < t.seq /\ writer'.seq < t.seq
        BY <1>1, <1>2, <1>5, <1>8, <2>1, <2>4 DEF TodoShape
    <2>10. \A t, v \in todo' : log'[t.seq].id = log'[v.seq].id => t = v
        <3>1. log'[u.seq].id = id
            BY <1>4, <2>6
        <3>2. \A t \in todo : log'[t.seq].id = log[t.seq].id /\ log[t.seq].id # id
            BY <1>2, <1>8
        <3> QED
            BY <1>1, <2>7, <3>1, <3>2 DEF TodoShape
    <2>11. writer'.seq <= Last' /\ ckpt' <= metadata' /\ metadata' <= Last'
        BY <1>2, <1>3, <1>4, <1>6, <2>3 DEF WriterRecord
    <2> QED
        BY <1>2, <2>7, <2>8, <2>9, <2>10, <2>11 DEF TodoShape
<1>11. WriterShape'
    <2>1. CASE writer' = writer
        BY <1>1, <1>2, <2>1 DEF WriterShape, MergePhase
    <2>2. CASE writer' # writer
        <3>1. /\ ~writer.open /\ writer = NoWriter /\ writer'.open
              /\ writer'.known = DOMAIN segs
            BY <1>1, <1>3, <2>2 DEF WriterShape
        <3> QED
            BY <1>1, <1>2, <1>3, <3>1
               DEF WriterShape, SameWriting, NoWriter
    <2> QED
        BY <2>1, <2>2
<1>12. BitmapShape'
    <2>1. \A s : Saved(s)' = Saved(s) /\ Marks(s)' = Marks(s)
        BY <1>2, <1>3, SameBitmaps DEF SameWriting
    <2> QED
        BY <1>1, <1>2, <1>3, <2>1 DEF BitmapShape, SegIds, SameWriting
<1>13. Phases' /\ Closed'
    BY <1>1, <1>2 DEF Phases, Closed, MergePhase
<1>14. Numbers'
    BY <1>1, <1>2, <1>3 DEF Numbers, Stems, SameWriting
<1>15. Logged'
    <2>1. Search \subseteq Adds(1..Last)
        BY <1>2, SearchFinds DEF MergePhase
    <2>2. \A s : DocsOf(s)' = DocsOf(s)
        BY <1>2, <1>3, SameBitmaps DEF SameWriting
    <2> QED
        BY <1>1, <1>2, <1>3, <1>5, <2>1, <2>2 DEF Logged, SameWriting
<1>16. Contents'
    BY <1>3, MutateContents
<1>17. Searches' /\ SearchShape'
    BY <1>3, MutateSearches
<1>18. Once'
    BY <1>1, <1>2, <1>3, KeepOnce
<1> QED
    BY <1>5, <1>9, <1>10, <1>11, <1>12, <1>13, <1>14, <1>15, <1>16, <1>17,
       <1>18 DEF LexInv, Shape

-----------------------------------------------------------------------------
(* Marks.                                                                  *)

\* The segments that hold one of the documents, and the marks that a writer
\* starts from.
Touched(w, docs) == {s \in w.known : DocsOf(s) \cap docs # {}}
Base(w, s) == IF w.manager THEN At(w.marks, s, {}) ELSE Saved(s)

\* What supersede makes of the writer w, its buffer apart.
MarksTo(w, docs, v) ==
    /\ v \in WriterRecord
    /\ v.open = w.open /\ v.known = w.known /\ v.flushed = w.flushed
    /\ v.pending = w.pending /\ v.seq = w.seq
    /\ v.flips = w.flips \cup Touched(w, docs)
    /\ v.superseded = w.superseded \cup (docs \cap UnionDocs(Touched(w, docs)))
    /\ Touched(w, docs) = {} =>
           v.manager = w.manager /\ v.marks = w.marks /\ v.dirty = w.dirty
    /\ Touched(w, docs) # {} =>
           /\ v.manager
           /\ \A s : At(v.marks, s, {}) = Base(w, s) \cup
                         (IF s \in Touched(w, docs) THEN DocsOf(s) \cap docs
                          ELSE {})
           /\ DOMAIN v.marks = (IF w.manager THEN DOMAIN w.marks
                                ELSE DOMAIN delmaps) \cup Touched(w, docs)
           /\ w.dirty \subseteq v.dirty
           /\ v.dirty \subseteq w.dirty \cup Touched(w, docs)
           /\ \A s \in Touched(w, docs) \ v.dirty :
                  At(v.marks, s, {}) = Base(w, s)

\* mark_persisted_doc_deleted.
LEMMA SupersedeFacts ==
    ASSUME Types, NEW w \in WriterRecord, NEW docs \in SUBSET Docs
    PROVE  /\ MarksTo(w, docs, Supersede(w, docs))
           /\ Supersede(w, docs).buffer = w.buffer
<1> DEFINE T == Touched(w, docs)
           loaded == IF w.manager THEN w.marks ELSE delmaps
           marked == [s \in DOMAIN loaded \cup T |->
                          At(loaded, s, {})
                              \cup IF s \in T THEN DocsOf(s) \cap docs ELSE {}]
           changed == {s \in T : s \notin DOMAIN loaded
                                     \/ marked[s] # loaded[s]}
           new == [w EXCEPT
                      !.manager = TRUE, !.marks = marked,
                      !.dirty = @ \cup changed,
                      !.flips = @ \cup T,
                      !.superseded =
                          @ \cup (docs \cap UNION {DocsOf(s) : s \in T})]
<1>1. Supersede(w, docs) = IF T = {} THEN w ELSE new
    BY DEF Supersede, Touched, ToFlag
<1>2. /\ loaded \in Maps(SUBSET Docs) /\ T \subseteq Nat
      /\ w.marks \in Maps(SUBSET Docs)
    BY DEF Types, WriterRecord, Touched
<1>3. \A s : At(loaded, s, {}) \subseteq Docs
    <2>1. ASSUME NEW f \in Maps(SUBSET Docs), NEW s
          PROVE  At(f, s, {}) \subseteq Docs
        BY AtMember
    <2> QED
        BY <1>2, <2>1
<1>4. marked \in Maps(SUBSET Docs) /\ DOMAIN marked = DOMAIN loaded \cup T
    <2>1. DOMAIN loaded \subseteq Nat
        BY <1>2, MapShape
    <2>2. DOMAIN marked = DOMAIN loaded \cup T
        OBVIOUS
    <2>3. marked \in [DOMAIN loaded \cup T -> SUBSET Docs]
        BY <1>3
    <2> QED
        BY <1>2, <2>1, <2>2, <2>3, MapShape
<1>5. \A s : At(marked, s, {}) = At(loaded, s, {})
                 \cup (IF s \in T THEN DocsOf(s) \cap docs ELSE {})
    BY DEF At
<1>6. \A s : At(loaded, s, {}) = Base(w, s)
    BY DEF Base, Saved
<1>7. ASSUME NEW s \in T \ changed
      PROVE  At(marked, s, {}) = At(loaded, s, {})
    BY <1>7 DEF At
<1>8. CASE T = {}
    BY <1>1, <1>8 DEF MarksTo, UnionDocs
<1>9. CASE T # {}
    <2>1. changed \subseteq T
        OBVIOUS
    <2> HIDE DEF T, loaded, marked, changed
    <2>2. /\ new \in WriterRecord
          /\ new.open = w.open /\ new.known = w.known /\ new.flushed = w.flushed
          /\ new.pending = w.pending /\ new.seq = w.seq /\ new.buffer = w.buffer
          /\ new.manager = TRUE /\ new.marks = marked
          /\ new.dirty = w.dirty \cup changed
          /\ new.flips = w.flips \cup T
          /\ new.superseded =
                 w.superseded \cup (docs \cap UNION {DocsOf(s) : s \in T})
        BY <1>2, <1>4, <2>1 DEF WriterRecord
    <2> HIDE DEF new
    <2>3. T = Touched(w, docs)
        BY DEF T
    <2>4. DOMAIN marked = (IF w.manager THEN DOMAIN w.marks
                           ELSE DOMAIN delmaps) \cup T
        BY <1>4 DEF loaded
    <2>5. \A s : At(new.marks, s, {}) = Base(w, s)
                     \cup (IF s \in T THEN DocsOf(s) \cap docs ELSE {})
        BY <1>5, <1>6, <2>2
    <2>6. \A s \in T \ new.dirty : At(new.marks, s, {}) = Base(w, s)
        BY <1>6, <1>7, <2>2
    <2>7. MarksTo(w, docs, new)
        BY <1>9, <2>1, <2>2, <2>3, <2>4, <2>5, <2>6 DEF MarksTo, UnionDocs
    <2> QED
        BY <1>1, <1>9, <2>2, <2>7
<1> QED
    BY <1>8, <1>9

\* delete_document, and buffer_analyzed_document.
LEMMA RemoveFacts ==
    ASSUME Types, NEW w \in WriterRecord, NEW docs \in SUBSET Docs
    PROVE  /\ MarksTo(w, docs, Remove(w, docs))
           /\ Remove(w, docs).buffer = w.buffer \ docs
           /\ MarksTo(w, docs, Buffer(w, docs))
           /\ Buffer(w, docs).buffer = (w.buffer \ docs) \cup docs
<1> DEFINE u == [w EXCEPT !.buffer = @ \ docs]
<1>1. /\ u \in WriterRecord /\ u.buffer = w.buffer \ docs
      /\ u.open = w.open /\ u.known = w.known /\ u.flushed = w.flushed
      /\ u.pending = w.pending /\ u.seq = w.seq /\ u.manager = w.manager
      /\ u.marks = w.marks /\ u.dirty = w.dirty /\ u.flips = w.flips
      /\ u.superseded = w.superseded
    BY DEF WriterRecord
<1>2. Remove(w, docs) = Supersede(u, docs)
    BY DEF Remove
<1> HIDE DEF u
<1>3. MarksTo(u, docs, Remove(w, docs)) /\ Remove(w, docs).buffer = u.buffer
    BY <1>1, <1>2, SupersedeFacts
<1>4. Touched(u, docs) = Touched(w, docs) /\ \A s : Base(u, s) = Base(w, s)
    BY <1>1 DEF Touched, Base
<1>5. MarksTo(w, docs, Remove(w, docs))
    BY <1>1, <1>3, <1>4 DEF MarksTo
<1>6. PICK r : r = Remove(w, docs)
    OBVIOUS
<1>7. PICK b : b = [r EXCEPT !.buffer = @ \cup docs]
    OBVIOUS
<1>8. b = Buffer(w, docs)
    BY <1>6, <1>7 DEF Buffer
<1>9. r \in WriterRecord
    BY <1>5, <1>6 DEF MarksTo
<1>10. /\ b \in WriterRecord /\ b.buffer = r.buffer \cup docs
       /\ b.open = r.open /\ b.known = r.known /\ b.flushed = r.flushed
       /\ b.pending = r.pending /\ b.seq = r.seq /\ b.manager = r.manager
       /\ b.marks = r.marks /\ b.dirty = r.dirty /\ b.flips = r.flips
       /\ b.superseded = r.superseded
    BY <1>7, <1>9 DEF WriterRecord
<1>11. MarksTo(w, docs, b)
    BY <1>5, <1>6, <1>10 DEF MarksTo
<1> QED
    BY <1>1, <1>3, <1>5, <1>6, <1>8, <1>10, <1>11

\* One after the other is both at once.
LEMMA MarksTwice ==
    ASSUME NEW w, NEW u, NEW v, NEW D, NEW E,
           MarksTo(w, D, u), MarksTo(u, E, v)
    PROVE  MarksTo(w, D \cup E, v)
<1> DEFINE T == Touched(w, D)
           U == Touched(u, E)
           V == Touched(w, D \cup E)
<1>1. V = T \cup U
    BY DEF Touched, MarksTo
<1>2. /\ \A s : s \in V => DocsOf(s) \cap (D \cup E) =
                    (IF s \in T THEN DocsOf(s) \cap D ELSE {})
                    \cup (IF s \in U THEN DocsOf(s) \cap E ELSE {})
      /\ (D \cup E) \cap UnionDocs(V) =
             (D \cap UnionDocs(T)) \cup (E \cap UnionDocs(U))
    BY DEF Touched, MarksTo, UnionDocs
<1>3. /\ v \in WriterRecord
      /\ v.open = w.open /\ v.known = w.known /\ v.flushed = w.flushed
      /\ v.pending = w.pending /\ v.seq = w.seq
      /\ v.flips = w.flips \cup V
      /\ v.superseded = w.superseded \cup ((D \cup E) \cap UnionDocs(V))
    BY <1>1, <1>2 DEF MarksTo
<1>4. CASE T = {}
    <2>1. \A s : Base(u, s) = Base(w, s)
        BY <1>4 DEF MarksTo, Base
    <2> QED
        BY <1>1, <1>2, <1>3, <1>4, <2>1 DEF MarksTo
<1>5. CASE T # {} /\ U = {}
    BY <1>1, <1>2, <1>3, <1>5 DEF MarksTo
<1>6. CASE T # {} /\ U # {}
    <2>1. /\ \A s : At(u.marks, s, {}) = Base(w, s) \cup
                     (IF s \in T THEN DocsOf(s) \cap D ELSE {})
          /\ u.manager /\ u.dirty \subseteq w.dirty \cup T
          /\ \A s \in T \ u.dirty : At(u.marks, s, {}) = Base(w, s)
        BY <1>6 DEF MarksTo
    <2>2. /\ \A s : At(v.marks, s, {}) = At(u.marks, s, {}) \cup
                     (IF s \in U THEN DocsOf(s) \cap E ELSE {})
          /\ u.dirty \subseteq v.dirty
          /\ \A s \in U \ v.dirty : At(v.marks, s, {}) = At(u.marks, s, {})
        BY <1>6, <2>1 DEF MarksTo, Base
    <2> HIDE DEF T, U, V
    <2>3. /\ \A s : At(v.marks, s, {}) = Base(w, s) \cup
                     (IF s \in V THEN DocsOf(s) \cap (D \cup E) ELSE {})
          /\ \A s \in V \ v.dirty : At(v.marks, s, {}) = Base(w, s)
        <3>1. ASSUME NEW s
              PROVE  At(v.marks, s, {}) = Base(w, s) \cup
                         (IF s \in V THEN DocsOf(s) \cap (D \cup E) ELSE {})
            <4>1. CASE s \in V
                BY <1>2, <2>1, <2>2, <4>1
            <4>2. CASE s \notin V
                BY <1>1, <2>1, <2>2, <4>2
            <4> QED
                BY <4>1, <4>2
        <3>2. ASSUME NEW s \in V \ v.dirty
              PROVE  At(v.marks, s, {}) = Base(w, s)
            <4>1. At(u.marks, s, {}) = Base(w, s)
                BY <2>1, <2>2
            <4>2. At(v.marks, s, {}) = At(u.marks, s, {})
                BY <2>2
            <4> QED
                BY <4>1, <4>2
        <3> QED
            BY <3>1, <3>2
    <2> USE DEF T, U, V
    <2>4. DOMAIN v.marks = (IF w.manager THEN DOMAIN w.marks
                            ELSE DOMAIN delmaps) \cup V
        BY <1>1, <1>6 DEF MarksTo
    <2>5. v.manager /\ w.dirty \subseteq v.dirty /\ v.dirty \subseteq w.dirty \cup V
        BY <1>1, <1>6 DEF MarksTo
    <2> QED
        BY <1>1, <1>3, <1>6, <2>3, <2>4, <2>5 DEF MarksTo
<1> QED
    BY <1>4, <1>5, <1>6

\* A mutation or a record of the replay marks docs and adds new to the buffer.
\* What it marks is dropped or new, of records above the checkpoint.
Marking(docs, new) ==
    /\ up /\ holder = "free"
    /\ MarksTo(Writer, docs, writer')
    /\ writer'.buffer = (writer.buffer \ docs) \cup new
    /\ UNCHANGED <<up, log, memoryVars, diskVars, holderVars, searchVars>>
    /\ docs \subseteq Adds(1..Last) \cap Unsaved
    /\ docs \cap Live \subseteq new
    /\ new \subseteq docs \cap OpenAdds
    /\ OpenAdds \subseteq OpenAdds' \cup new
    /\ DoneDrops' \subseteq DoneDrops \cup docs
    /\ new \cap DoneDrops' = {}
    /\ Unreplayed \subseteq Unreplayed' \cup docs

\* What that makes of the marks.
LEMMA MarkingFacts ==
    ASSUME Shape, NEW docs, NEW new, Marking(docs, new)
    PROVE  LET T == Touched(Writer, docs)
           IN  /\ writer' \in WriterRecord /\ writer'.open
               /\ writer'.flushed = writer.flushed
               /\ writer'.pending = writer.pending
               /\ writer'.flips = writer.flips \cup T
               /\ writer'.superseded =
                      writer.superseded \cup (docs \cap UnionDocs(T))
               /\ writer'.known = Writer.known
               /\ SegIds \subseteq Writer.known
               /\ DOMAIN writer.pending \subseteq Writer.known
               /\ \A s : /\ DocsOf(s)' = DocsOf(s) /\ Saved(s)' = Saved(s)
                         /\ Marks(s) \subseteq Marks(s)'
                         /\ Marked(s)' = Marked(s) \cup
                                (IF s \in T THEN DocsOf(s) \cap docs ELSE {})
                         /\ Kept(s)' = Kept(s) \
                                (IF s \in T THEN docs ELSE {})
                         /\ Hidden(s) \subseteq Hidden(s)'
               /\ \A s \in T : DocsOf(s) \cap docs \subseteq Hidden(s)'
<1> DEFINE T == Touched(Writer, docs)
<1>1. /\ Types /\ WriterShape /\ ~MergePhase
      /\ MarksTo(Writer, docs, writer')
      /\ UNCHANGED <<files, delmaps, segs>>
    BY DEF Shape, Marking, MergePhase, diskVars, memoryVars
<1>2. /\ Writer.open /\ (writer.open => Writer = writer)
      /\ ~writer.open => Writer.known = DOMAIN segs
      /\ Writer.flushed = writer.flushed
      /\ Writer.pending = writer.pending /\ Writer.manager = writer.manager
      /\ Writer.marks = writer.marks /\ Writer.dirty = writer.dirty
      /\ Writer.flips = writer.flips
      /\ Writer.superseded = writer.superseded
    BY <1>1, WriterFacts
<1>3. SegIds \subseteq Writer.known /\ DOMAIN writer.pending \subseteq Writer.known
    <2>1. CASE writer.open
        BY <1>1, <1>2, <2>1 DEF WriterShape, SegIds
    <2>2. CASE ~writer.open
        BY <1>1, <1>2, <2>2, EmptyMap DEF WriterShape, SegIds, NoWriter
    <2> QED
        BY <2>1, <2>2
<1>4. /\ writer' \in WriterRecord /\ writer'.open
      /\ writer'.flushed = writer.flushed /\ writer'.pending = writer.pending
      /\ writer'.flips = writer.flips \cup T
      /\ writer'.superseded = writer.superseded \cup (docs \cap UnionDocs(T))
      /\ writer'.known = Writer.known
    BY <1>1, <1>2 DEF MarksTo
<1>5. \A s : DocsOf(s)' = DocsOf(s) /\ Saved(s)' = Saved(s)
    BY <1>1 DEF DocsOf, Saved
<1>6. \A s : ~writer.manager => Marks(s) = {}
    BY <1>1, EmptyMap DEF WriterShape, Marks
<1>7. \A s : Base(Writer, s) = IF writer.manager THEN Marks(s) ELSE Saved(s)
    BY <1>2 DEF Base, Marks
<1>8. CASE T = {}
    <2>1. writer'.manager = writer.manager /\ writer'.marks = writer.marks
        BY <1>1, <1>2, <1>8 DEF MarksTo
    <2>2. \A s : Marks(s)' = Marks(s) /\ Hidden(s)' = Hidden(s)
        BY <1>1, <2>1 DEF Marks, Hidden, MarksOf
    <2>3. \A s : Marked(s)' = Marked(s) /\ Kept(s)' = Kept(s)
        BY <1>5, <2>2 DEF Marked, Kept
    <2> QED
        BY <1>3, <1>4, <1>5, <1>8, <2>2, <2>3
<1>9. CASE T # {}
    <2>1. /\ writer'.manager
          /\ \A s : Marks(s)' = Base(Writer, s) \cup
                        (IF s \in T THEN DocsOf(s) \cap docs ELSE {})
        BY <1>1, <1>9 DEF MarksTo, Marks
    <2>2. \A s : Hidden(s)' = Marks(s)'
        BY <2>1 DEF Hidden, Marks
    <2> HIDE DEF T
    <2>3. ASSUME NEW s
          PROVE  /\ Marks(s) \subseteq Marks(s)'
                 /\ Marked(s)' = Marked(s) \cup
                        (IF s \in T THEN DocsOf(s) \cap docs ELSE {})
        BY <1>5, <1>6, <1>7, <2>1 DEF Marked
    <2>4. \A s : Kept(s)' = Kept(s) \ (IF s \in T THEN docs ELSE {})
        BY <1>5, <2>3 DEF Kept
    <2>5. ASSUME NEW s PROVE Hidden(s) \subseteq Hidden(s)'
        <3>1. CASE writer.manager
            BY <1>7, <2>1, <2>2, <3>1 DEF Hidden, Marks
        <3>2. CASE ~writer.manager
            BY <1>7, <2>1, <2>2, <3>2 DEF Hidden, MarksOf, Saved
        <3> QED
            BY <3>1, <3>2
    <2>6. \A s \in T : DocsOf(s) \cap docs \subseteq Hidden(s)'
        BY <2>1, <2>2
    <2> QED
        BY <1>3, <1>4, <1>5, <2>3, <2>4, <2>5, <2>6 DEF T
<1> QED
    BY <1>8, <1>9

\* It keeps what the writer and its bitmaps are.
LEMMA MarkingShape ==
    ASSUME Shape, NEW docs, NEW new, Marking(docs, new)
    PROVE  WriterShape' /\ BitmapShape' /\ Numbers' /\ Logged'
<1> DEFINE T == Touched(Writer, docs)
<1>1. /\ Types /\ WriterShape /\ BitmapShape /\ Numbers /\ Logged /\ ~MergePhase
      /\ MarksTo(Writer, docs, writer') /\ up
      /\ docs \subseteq Adds(1..Last) /\ new \subseteq docs
      /\ writer'.buffer = (writer.buffer \ docs) \cup new
      /\ UNCHANGED <<up, log, files, delmaps, segs, manifest, holder, sources,
                     nextGen, found, searcher>>
    BY DEF Shape, Marking, MergePhase, diskVars, memoryVars, holderVars,
           searchVars
<1>2. /\ (writer.open => Writer.known = writer.known)
      /\ ~writer.open => Writer.known = DOMAIN segs
      /\ Writer.manager = writer.manager
      /\ Writer.marks = writer.marks /\ Writer.dirty = writer.dirty
    BY <1>1, WriterFacts
<1>3. /\ writer' \in WriterRecord /\ writer'.open
      /\ writer'.flushed = writer.flushed
      /\ writer'.pending = writer.pending
      /\ writer'.flips = writer.flips \cup T
      /\ writer'.superseded = writer.superseded \cup (docs \cap UnionDocs(T))
      /\ writer'.known = Writer.known
      /\ SegIds \subseteq Writer.known
      /\ \A s : /\ DocsOf(s)' = DocsOf(s) /\ Saved(s)' = Saved(s)
                /\ Marks(s) \subseteq Marks(s)'
    BY MarkingFacts
<1>4. T \subseteq Writer.known
    BY DEF Touched
<1>5. T = {} => /\ writer'.manager = writer.manager
                /\ writer'.marks = writer.marks /\ writer'.dirty = writer.dirty
    BY <1>1, <1>2 DEF MarksTo
<1>6. T # {} => /\ writer'.manager
                /\ DOMAIN writer'.marks = (IF writer.manager
                                           THEN DOMAIN writer.marks
                                           ELSE DOMAIN delmaps) \cup T
                /\ writer'.dirty \subseteq writer.dirty \cup T
                /\ writer.dirty \subseteq writer'.dirty
    BY <1>1, <1>2 DEF MarksTo
<1>7. T # {} =>
          /\ \A s : s \notin T => Marks(s)' = Base(Writer, s)
          /\ \A s \in T \ writer'.dirty : Marks(s)' = Base(Writer, s)
          /\ \A s : Base(Writer, s) \subseteq Marks(s)'
    <2> SUFFICES ASSUME T # {}
                 PROVE  /\ \A s : s \notin T => Marks(s)' = Base(Writer, s)
                        /\ \A s \in T \ writer'.dirty :
                               Marks(s)' = Base(Writer, s)
                        /\ \A s : Base(Writer, s) \subseteq Marks(s)'
        OBVIOUS
    <2>1. \A s : Marks(s)' = Base(Writer, s) \cup
                    (IF s \in T THEN DocsOf(s) \cap docs ELSE {})
        BY <1>1 DEF MarksTo, Marks
    <2>2. \A s \in T \ writer'.dirty : Marks(s)' = Base(Writer, s)
        BY <1>1 DEF MarksTo, Marks
    <2> HIDE DEF T
    <2> QED
        BY <2>1, <2>2
<1>8. \A s : Base(Writer, s) = IF writer.manager THEN Marks(s) ELSE Saved(s)
    BY <1>2 DEF Base, Marks
<1> HIDE DEF T
<1>9. WriterShape'
    <2>1. CASE T = {}
        BY <1>1, <1>3, <1>5, <2>1 DEF WriterShape, MergePhase, SegIds
    <2>2. CASE T # {}
        <3>1. writer'.dirty \subseteq writer'.flips \cap DOMAIN writer'.marks
            BY <1>1, <1>3, <1>6, <2>2 DEF WriterShape
        <3>2. writer'.flips \subseteq DOMAIN writer'.marks
            BY <1>1, <1>3, <1>6, <2>2 DEF WriterShape
        <3> QED
            BY <1>1, <1>3, <1>6, <2>2, <3>1, <3>2
               DEF WriterShape, MergePhase, SegIds
    <2> QED
        BY <2>1, <2>2
<1>10. BitmapShape'
    <2>1. SegIds' = SegIds
        BY <1>1, <1>3 DEF SegIds
    <2>2. CASE T = {}
        <3>1. \A s : Marks(s)' = Marks(s)
            BY <1>5, <2>2 DEF Marks
        <3> QED
            BY <1>1, <1>3, <1>5, <2>1, <2>2, <3>1 DEF BitmapShape
    <2>3. CASE T # {}
        <3>1. \A s \in DOMAIN delmaps : Saved(s) \subseteq Marks(s)'
            BY <1>1, <1>7, <1>8, <2>3 DEF BitmapShape
        <3>2. ASSUME NEW s \in (SegIds \cup DOMAIN manifest) \ writer'.dirty
              PROVE  Marks(s)' \subseteq Saved(s)
            <4>1. Marks(s)' = Base(Writer, s)
                BY <1>7, <2>3
            <4>2. s \notin writer.dirty
                BY <1>6, <2>3
            <4> QED
                BY <1>1, <1>8, <4>1, <4>2 DEF BitmapShape
        <3> QED
            BY <1>1, <1>3, <2>1, <3>1, <3>2 DEF BitmapShape
    <2> QED
        BY <2>2, <2>3
<1>11. Numbers'
    <2>1. Writer.known \subseteq 0..nextGen - 1
        BY <1>1, <1>2 DEF Numbers
    <2>2. DOMAIN writer'.marks \subseteq 0..nextGen - 1
        BY <1>1, <1>4, <1>5, <1>6, <2>1 DEF Numbers, Stems
    <2> QED
        BY <1>1, <1>3, <2>1, <2>2 DEF Numbers, Stems
<1>12. Logged'
    <2>1. Adds(1..Last)' = Adds(1..Last)
        BY <1>1 DEF Adds, Last
    <2> QED
        BY <1>1, <1>3, <2>1 DEF Logged
<1> QED
    BY <1>9, <1>10, <1>11, <1>12

\* It keeps what memory and storage hold.
LEMMA MarkingContents ==
    ASSUME LexInv, NEW docs, NEW new, Marking(docs, new)
    PROVE  Contents'
<1> DEFINE T == Touched(Writer, docs)
<1>1. /\ Types /\ LogShape /\ TodoShape /\ Contents /\ Shape
    BY DEF LexInv, Shape
<1>2. /\ up /\ writer'.buffer = (writer.buffer \ docs) \cup new
      /\ docs \subseteq Adds(1..Last) \cap Unsaved
      /\ docs \cap Live \subseteq new /\ new \subseteq docs \cap OpenAdds
      /\ OpenAdds \subseteq OpenAdds' \cup new
      /\ DoneDrops' \subseteq DoneDrops \cup docs
      /\ new \cap DoneDrops' = {}
      /\ Unreplayed \subseteq Unreplayed' \cup docs
      /\ UNCHANGED <<up, log, files, delmaps, segs, manifest, metadata>>
    BY DEF Marking, diskVars, memoryVars
<1>3. /\ writer'.flushed = writer.flushed
      /\ writer'.pending = writer.pending
      /\ writer'.flips = writer.flips \cup T
      /\ writer'.superseded = writer.superseded \cup (docs \cap UnionDocs(T))
      /\ SegIds \subseteq Writer.known
      /\ DOMAIN writer.pending \subseteq Writer.known
      /\ \A s : /\ DocsOf(s)' = DocsOf(s) /\ Saved(s)' = Saved(s)
                /\ Marked(s)' = Marked(s) \cup
                       (IF s \in T THEN DocsOf(s) \cap docs ELSE {})
                /\ Kept(s)' = Kept(s) \ (IF s \in T THEN docs ELSE {})
    BY <1>1, MarkingFacts
<1>4. \A s \in Writer.known : DocsOf(s) \cap docs # {} => s \in T
    BY DEF Touched
<1>5. \A s \in Writer.known : \A d \in DocsOf(s) \cap docs :
          s \in T /\ d \in writer'.superseded
    BY <1>3, <1>4 DEF UnionDocs
<1>6. /\ Live' = Live /\ Unsaved' = Unsaved
      /\ Drops(1..metadata)' = Drops(1..metadata)
    BY <1>2, SameUnsaved
<1>7. SegIds' = SegIds /\ DOMAIN segs \subseteq SegIds
    BY <1>2, <1>3 DEF SegIds
<1>8. docs \cap Live \cap 1..metadata = {}
    BY <1>1, <1>2, CheckpointDone
<1> HIDE DEF T
<1>9. \A d \in Live : d \in docs => d \in writer'.buffer
    BY <1>2
<1>10. \A s : \A d \in Kept(s) : d \notin docs => d \in Kept(s)'
    BY <1>3
<1>11. MemoryHas'
    <2> SUFFICES ASSUME NEW d \in Live, d \notin OpenAdds', d \notin docs
                 PROVE  d \in writer'.buffer \/ \E s \in SegIds : d \in Kept(s)'
        BY <1>6, <1>7, <1>9 DEF MemoryHas
    <2>1. d \notin OpenAdds
        BY <1>2
    <2>2. d \in writer.buffer \/ \E s \in SegIds : d \in Kept(s)
        BY <1>1, <1>2, <2>1 DEF Contents, MemoryHas
    <2> QED
        BY <1>2, <1>10, <2>2
<1>12. MemoryHides'
    <2>1. writer'.buffer \cap DoneDrops' = {}
        BY <1>1, <1>2 DEF Contents, MemoryHides
    <2>2. ASSUME NEW s \in SegIds, NEW d \in DocsOf(s), d \in DoneDrops'
          PROVE  /\ d \in Marked(s)'
                 /\ \/ d \in writer'.superseded
                    \/ /\ s \in DOMAIN segs /\ segs[s].hasDeletions
                       /\ d \in Saved(s)
        <3>1. CASE d \in docs
            BY <1>3, <1>5, <3>1
        <3>2. CASE d \notin docs
            <4>1. d \in DoneDrops
                BY <1>2, <2>2, <3>2
            <4> QED
                BY <1>1, <1>2, <1>3, <4>1 DEF Contents, MemoryHides
        <3> QED
            BY <3>1, <3>2
    <2> QED
        BY <1>2, <1>3, <1>7, <2>1, <2>2 DEF MemoryHides
<1>13. ASSUME NEW entries, FlagsIn(entries), DOMAIN entries \subseteq Writer.known,
              NEW s \in DOMAIN entries, NEW d \in DocsOf(s), d \in Marked(s)'
       PROVE  \/ entries[s].hasDeletions
              \/ s \in writer'.flips \/ d \in Unreplayed'
    <2>1. CASE d \in docs
        BY <1>3, <1>5, <1>13, <2>1
    <2>2. CASE d \notin docs
        <3>1. d \in Marked(s)
            BY <1>3, <1>13, <2>2
        <3> QED
            BY <1>2, <1>3, <1>13, <2>2, <3>1 DEF FlagsIn
    <2> QED
        BY <2>1, <2>2
<1>14. FlagsIn(segs)' /\ FlagsIn(writer.pending)'
    <2>1. FlagsIn(segs) /\ FlagsIn(writer.pending)
        BY <1>1 DEF Contents
    <2>2. DOMAIN segs \subseteq Writer.known
        BY <1>3, <1>7
    <2>3. FlagsIn(segs)'
        BY <1>2, <1>3, <1>13, <2>1, <2>2 DEF FlagsIn
    <2>4. FlagsIn(writer.pending)'
        BY <1>2, <1>3, <1>13, <2>1 DEF FlagsIn
    <2> QED
        BY <2>3, <2>4
<1>15. ManifestFlags'
    <2> SUFFICES ASSUME writer'.flips = {},
                        NEW m \in DOMAIN manifest, NEW d \in DocsOf(m)
                 PROVE  /\ d \in Marked(m)' =>
                               manifest[m].hasDeletions \/ d \in Unreplayed'
                        /\ d \in DoneDrops' => d \in Marked(m)'
        BY <1>2, <1>3 DEF ManifestFlags
    <2>1. T = {} /\ writer.flips = {}
        BY <1>3
    <2>2. PICK s \in DOMAIN segs \cup DOMAIN writer.pending : d \in DocsOf(s)
        BY <1>1, <1>2 DEF Contents, ManifestFrom
    <2>3. d \notin docs
        BY <1>3, <1>4, <1>7, <2>1, <2>2
    <2>4. /\ d \in Marked(m) => manifest[m].hasDeletions \/ d \in Unreplayed
          /\ d \in DoneDrops => d \in Marked(m)
        BY <1>1, <1>2, <2>1 DEF Contents, ManifestFlags
    <2> QED
        BY <1>2, <1>3, <2>1, <2>3, <2>4
<1>16. ASSUME NEW entries, FlaggedIn(entries),
              NEW s \in DOMAIN entries, NEW d \in DocsOf(s), d \in Marked(s)'
       PROVE  entries[s].hasDeletions \/ d \in Unsaved
    BY <1>2, <1>3, <1>16 DEF FlaggedIn
<1>17. FlaggedIn(segs)' /\ FlaggedIn(writer.pending)' /\ FlaggedIn(manifest)'
    <2>1. FlaggedIn(segs) /\ FlaggedIn(writer.pending) /\ FlaggedIn(manifest)
        BY <1>1 DEF Contents
    <2>2. FlaggedIn(segs)'
        BY <1>2, <1>3, <1>6, <1>16, <2>1 DEF FlaggedIn
    <2>3. FlaggedIn(writer.pending)'
        BY <1>3, <1>6, <1>16, <2>1 DEF FlaggedIn
    <2>4. FlaggedIn(manifest)'
        BY <1>2, <1>3, <1>6, <1>16, <2>1 DEF FlaggedIn
    <2> QED
        BY <2>2, <2>3, <2>4
<1>18. HidesIn(segs)' /\ HidesIn(writer.pending)' /\ HidesIn(manifest)'
    BY <1>1, <1>2, <1>3, <1>6 DEF Contents, HidesIn
<1>19. CheckpointKept'
    BY <1>1, <1>2, <1>6, <1>8, <1>10 DEF Contents, CheckpointKept
<1>20. ManifestHas'
    <2> SUFFICES ASSUME NEW s \in DOMAIN segs, NEW d \in Kept(s)'
                 PROVE  \E m \in DOMAIN manifest : d \in Kept(m)'
        BY <1>2 DEF ManifestHas
    <2>1. d \in Kept(s) /\ d \in DocsOf(s)
        BY <1>3 DEF Kept
    <2>2. d \notin docs
        BY <1>3, <1>4, <1>7, <2>1
    <2> QED
        BY <1>1, <1>2, <1>10, <2>1, <2>2 DEF Contents, ManifestHas
<1>21. ManifestFrom'
    BY <1>1, <1>2, <1>3 DEF Contents, ManifestFrom
<1>22. SupersededHeld'
    <2> SUFFICES ASSUME NEW d \in writer'.superseded \cap Live, d \notin docs
                 PROVE  \/ d \in writer'.buffer
                        \/ \E s \in writer.flushed : d \in Kept(s)'
        BY <1>3, <1>6, <1>9 DEF SupersededHeld
    <2>1. d \in writer.superseded
        BY <1>3
    <2> QED
        BY <1>1, <1>2, <1>10, <2>1 DEF Contents, SupersededHeld
<1> QED
    BY <1>11, <1>12, <1>14, <1>15, <1>17, <1>18, <1>19, <1>20, <1>21, <1>22
       DEF Contents

\* It leaves a document in one place.
LEMMA MarkingOnce ==
    ASSUME LexInv, NEW docs, NEW new, Marking(docs, new)
    PROVE  Once'
<1> DEFINE T == Touched(Writer, docs)
<1>1. Shape /\ Once
    BY DEF LexInv
<1>2. /\ writer'.buffer = (writer.buffer \ docs) \cup new /\ new \subseteq docs
      /\ UNCHANGED <<files, delmaps, segs, manifest>>
    BY DEF Marking, diskVars, memoryVars
<1>3. /\ writer'.flushed = writer.flushed
      /\ SegIds \subseteq Writer.known
      /\ \A s : DocsOf(s)' = DocsOf(s) /\ Hidden(s) \subseteq Hidden(s)'
      /\ \A s \in T : DocsOf(s) \cap docs \subseteq Hidden(s)'
    BY <1>1, MarkingFacts
<1>4. \A s \in Writer.known : DocsOf(s) \cap docs # {} => s \in T
    BY DEF Touched
<1>5. SegIds' = SegIds
    BY <1>2, <1>3 DEF SegIds
<1> HIDE DEF T
<1>6. ASSUME NEW s \in SegIds
      PROVE  writer'.buffer \cap DocsOf(s) \subseteq Hidden(s)'
    <2> SUFFICES ASSUME NEW d \in writer'.buffer, d \in DocsOf(s)
                 PROVE  d \in Hidden(s)'
        OBVIOUS
    <2>1. CASE d \in docs
        BY <1>3, <1>4, <2>1
    <2>2. CASE d \notin docs
        BY <1>1, <1>2, <1>3, <2>2 DEF Once, MemoryOnce
    <2> QED
        BY <2>1, <2>2
<1>7. \A s, u \in SegIds : s # u =>
          DocsOf(s) \cap DocsOf(u) \subseteq Hidden(s)' \cup Hidden(u)'
    BY <1>1, <1>3 DEF Once, MemoryOnce
<1>8. MemoryOnce'
    BY <1>3, <1>5, <1>6, <1>7 DEF MemoryOnce
<1>9. StorageOnce'
    BY <1>1, <1>2, <1>3 DEF Once, StorageOnce, MarksOf
<1> QED
    BY <1>8, <1>9 DEF Once

\* And what searches find.
LEMMA MarkingSearches ==
    ASSUME LexInv, NEW docs, NEW new, Marking(docs, new)
    PROVE  Searches'
<1> DEFINE T == Touched(Writer, docs)
<1>1. /\ Types /\ LogShape /\ TodoShape /\ SearchShape /\ Shape /\ ~MergePhase
      /\ SearchOfMemory /\ SearchOfCheckpoint
    BY DEF LexInv, Shape, Searches, Marking, MergePhase
<1>2. /\ docs \cap Live \subseteq new /\ new \subseteq docs \cap OpenAdds
      /\ DoneDrops' \subseteq DoneDrops \cup docs
      /\ UNCHANGED <<log, files, delmaps, segs, ckpt, building, unread, found,
                     searcher, hasSearcher, asOf>>
    BY DEF Marking, diskVars, memoryVars, searchVars
<1>3. /\ writer'.flushed = writer.flushed
      /\ writer'.superseded = writer.superseded \cup (docs \cap UnionDocs(T))
      /\ SegIds \subseteq Writer.known
      /\ \A s : /\ DocsOf(s)' = DocsOf(s) /\ Saved(s)' = Saved(s)
                /\ Kept(s)' = Kept(s) \ (IF s \in T THEN docs ELSE {})
    BY <1>1, MarkingFacts
<1>4. \A s \in DOMAIN segs : \A d \in DocsOf(s) \cap docs : d \in writer'.superseded
    BY <1>3 DEF Touched, UnionDocs, SegIds
<1>5. Live' = Live /\ Drops(1..asOf)' = Drops(1..asOf)
    BY <1>2 DEF Live, Adds, Drops, Last
<1> HIDE DEF T
<1>6. SearchOfMemory'
    <2>1. \A s \in DOMAIN segs \ writer.flushed : \A d \in Kept(s)' :
              /\ building => d \in found \/ s \in DOMAIN unread
              /\ hasSearcher => d \in searcher
        BY <1>1, <1>3 DEF SearchOfMemory
    <2>2. ASSUME NEW d \in found \cup searcher, d \in DoneDrops'
          PROVE  d \in writer'.superseded
        <3>1. PICK s \in DOMAIN segs : d \in DocsOf(s)
            BY <1>1 DEF SearchOfMemory
        <3>2. CASE d \in docs
            BY <1>4, <3>1, <3>2
        <3>3. CASE d \notin docs
            BY <1>1, <1>2, <1>3, <2>2, <3>3 DEF SearchOfMemory
        <3> QED
            BY <3>2, <3>3
    <2>3. ASSUME NEW s \in DOMAIN unread, NEW d \in DocsOf(s), d \in DoneDrops'
          PROVE  \/ d \in writer'.superseded
                 \/ unread[s].hasDeletions /\ d \in Saved(s)
        <3>1. CASE d \in docs
            BY <1>1, <1>4, <3>1 DEF SearchOfMemory
        <3>2. CASE d \notin docs
            BY <1>1, <1>2, <1>3, <2>3, <3>2 DEF SearchOfMemory
        <3> QED
            BY <3>1, <3>2
    <2> QED
        BY <1>1, <1>2, <1>3, <2>1, <2>2, <2>3 DEF SearchOfMemory
<1>7. docs \cap Live \cap 1..asOf = {}
    <2>1. 1..asOf \subseteq 1..metadata
        BY <1>1 DEF SearchShape, Types
    <2> QED
        BY <1>1, <1>2, <2>1, CheckpointDone
<1>8. SearchOfCheckpoint'
    <2>1. \A d \in Live \cap 1..asOf : \A s : d \in Kept(s) => d \in Kept(s)'
        BY <1>3, <1>7
    <2> QED
        BY <1>1, <1>2, <1>3, <1>5, <2>1 DEF SearchOfCheckpoint
<1> QED
    BY <1>6, <1>8 DEF Searches

\* The rest is what the step says of the mutations under way or of the replay.
LEMMA MarkingKeeps ==
    ASSUME LexInv, NEW docs, NEW new, Marking(docs, new),
           todo' \subseteq Task, replay' \in 0..Last, TodoShape',
           replay' # 0 => up
    PROVE  LexInv'
<1>1. Contents' /\ Once' /\ Searches'
    BY MarkingContents, MarkingOnce, MarkingSearches
<1>2. /\ Types /\ LogShape /\ Phases /\ Closed /\ SearchShape /\ Shape
    BY DEF LexInv, Shape
<1>3. WriterShape' /\ BitmapShape' /\ Numbers' /\ Logged'
    BY <1>2, MarkingShape
<1>4. /\ up /\ holder = "free"
      /\ UNCHANGED <<up, log, segs, nextGen, ckpt, manifest, metadata, files,
                     delmaps, holder, call, sources, building, unread, found,
                     searcher, hasSearcher, asOf>>
    BY DEF Marking, diskVars, memoryVars, holderVars, searchVars
<1>5. writer' \in WriterRecord
    BY <1>2, MarkingFacts
<1>6. Last' = Last
    BY <1>4 DEF Last
<1>7. Types'
    <2>1. todo' \subseteq Task'
        BY <1>6 DEF Task
    <2>2. replay' \in 0..Last'
        BY <1>6
    <2> QED
        BY <1>2, <1>4, <1>5, <1>6, <2>1, <2>2 DEF Types
<1>8. LogShape'
    BY <1>2, <1>4, <1>6 DEF LogShape
<1>9. Phases' /\ Closed' /\ SearchShape'
    BY <1>2, <1>4 DEF Phases, Closed, SearchShape, MergePhase
<1> QED
    BY <1>1, <1>3, <1>7, <1>8, <1>9 DEF LexInv, Shape

\* A mutation that goes on has less to do.
LEMMA ProgressFacts ==
    ASSUME Types, LogShape, TodoShape, replay = 0, NEW t \in todo, NEW u \in Task,
           u.seq = t.seq, u.docs \subseteq t.docs, u.drops \subseteq t.drops,
           Progress(t, u), UNCHANGED <<log, replay, ckpt, metadata>>,
           writer'.seq = writer.seq \/ writer'.seq = ckpt
    PROVE  /\ todo' \subseteq Task /\ TodoShape'
           /\ OpenAdds \subseteq OpenAdds' \cup (t.docs \ u.docs)
           /\ DoneDrops' \subseteq DoneDrops \cup (t.drops \ u.drops)
           /\ Unreplayed = {}
<1>1. /\ \A v \in todo' : v = u \/ v \in todo \ {t}
      /\ \A v \in todo : v # t => v \in todo'
      /\ u.docs \cup u.drops # {} => u \in todo'
      /\ u.docs \cup u.drops = {} => todo' = todo \ {t}
      /\ u \in todo' => u.docs \cup u.drops # {} \/ u \in todo
    BY DEF Progress
<1>2. Live' = Live /\ Last' = Last /\ Drops(1..Last)' = Drops(1..Last)
    BY DEF Live, Adds, Drops, Last
<1>3. todo' \subseteq Task
    BY <1>1 DEF Types
<1>4. /\ ckpt \in Nat /\ metadata \in Nat /\ Last \in Nat
      /\ \A v \in todo : v.seq \in 1..Last
    BY TypeFacts DEF Types, Task
<1>5. /\ t.docs \subseteq log[t.seq].adds \cap Live
      /\ t.drops \subseteq log[t.seq].drops
      /\ metadata < t.seq /\ writer.seq < t.seq
      /\ ckpt <= metadata /\ metadata <= Last /\ writer.seq <= Last
    BY DEF TodoShape
<1>6. TodoShape'
    <2>1. ASSUME NEW v \in todo'
          PROVE  /\ v.docs \subseteq log[v.seq].adds \cap Live
                 /\ v.drops \subseteq log[v.seq].drops
                 /\ v.docs \cup v.drops # {}
                 /\ metadata < v.seq /\ writer'.seq < v.seq
        <3>1. CASE v \in todo
            <4>1. ckpt < v.seq
                BY <1>4, <3>1 DEF TodoShape
            <4> QED
                BY <3>1, <4>1 DEF TodoShape
        <3>2. CASE v = u /\ u \notin todo
            <4>1. ckpt < u.seq
                BY <1>4, <1>5
            <4> QED
                BY <1>1, <1>5, <2>1, <3>2, <4>1
        <3> QED
            BY <1>1, <3>1, <3>2
    <2>2. \A v, x \in todo' : log[v.seq].id = log[x.seq].id => v = x
        <3>1. \A v \in todo \ {t} : log[v.seq].id # log[t.seq].id
            BY DEF TodoShape
        <3> QED
            BY <1>1, <3>1 DEF TodoShape
    <2>3. writer'.seq <= Last /\ ckpt <= metadata /\ metadata <= Last
        BY <1>4, <1>5
    <2> QED
        BY <1>2, <2>1, <2>2, <2>3 DEF TodoShape
<1>7. OpenAdds \subseteq OpenAdds' \cup (t.docs \ u.docs)
    <2> SUFFICES ASSUME NEW v \in todo, NEW d \in v.docs, d \notin t.docs \ u.docs
                 PROVE  \E x \in todo' : d \in x.docs
        BY DEF OpenAdds
    <2>1. CASE v = t
        BY <1>1, <2>1
    <2>2. CASE v # t
        BY <1>1, <2>2
    <2> QED
        BY <2>1, <2>2
<1>8. OpenDrops \subseteq OpenDrops' \cup (t.drops \ u.drops)
    <2> SUFFICES ASSUME NEW v \in todo, NEW d \in v.drops,
                        d \notin t.drops \ u.drops
                 PROVE  \E x \in todo' : d \in x.drops
        BY DEF OpenDrops
    <2>1. CASE v = t
        BY <1>1, <2>1
    <2>2. CASE v # t
        BY <1>1, <2>2
    <2> QED
        BY <2>1, <2>2
<1>9. DoneDrops' \subseteq DoneDrops \cup (t.drops \ u.drops)
    BY <1>2, <1>8 DEF DoneDrops
<1>10. Unreplayed = {} /\ Unreplayed' = {}
    BY DEF Unreplayed
<1> QED
    BY <1>3, <1>6, <1>7, <1>9, <1>10

\* What a record above the checkpoint touches.
LEMMA RecordUnsaved ==
    ASSUME Types, LogShape, NEW n \in 1..Last, metadata < n
    PROVE  /\ log[n].adds \cup log[n].drops \subseteq Adds(1..Last) \cap Unsaved
           /\ log[n].drops \cap Live = {}
<1>1. n \in metadata + 1..Last
    BY TypeFacts DEF Types
<1>2. log[n].adds \cup log[n].drops \subseteq Unsaved
    BY <1>1 DEF Unsaved, Adds, Drops
<1>3. log[n].adds \subseteq Adds(1..Last) /\ log[n].drops \subseteq Drops(1..Last)
    BY DEF Adds, Drops
<1>4. Drops(1..Last) \subseteq Adds(1..Last)
    BY LogFacts
<1> QED
    BY <1>2, <1>3, <1>4 DEF Live

\* What the log added is a document.
LEMMA AddsAreDocs ==
    ASSUME Types, LogShape
    PROVE  Adds(1..Last) \subseteq Docs
<1>1. Adds(1..Last) \subseteq 1..Last
    BY LogFacts
<1> QED
    BY <1>1, TypeFacts DEF Docs, Types

\* A mutation marks a replaced version.
LEMMA DeleteVersionMarks ==
    ASSUME LexInv, NEW t \in todo, DeleteVersion(t)
    PROVE  \E docs, new : /\ Marking(docs, new)
                          /\ todo' \subseteq Task /\ TodoShape'
                          /\ replay' \in 0..Last
<1>1. Types /\ LogShape /\ TodoShape /\ WriterShape
    BY DEF LexInv, Shape
<1>2. PICK d \in t.drops :
          /\ writer' = Remove(Writer, {d})
          /\ Progress(t, [t EXCEPT !.drops = @ \ {d}])
    BY DEF DeleteVersion
<1>3. /\ up /\ replay = 0 /\ holder = "free"
      /\ UNCHANGED <<up, log, replay, memoryVars, diskVars, holderVars, searchVars>>
      /\ UNCHANGED <<ckpt, metadata>>
    BY DEF DeleteVersion, Serving, Unlocked, memoryVars, diskVars
<1>4. PICK u : u = [t EXCEPT !.drops = @ \ {d}]
    OBVIOUS
<1>5. /\ t \in Task /\ u \in Task /\ u.seq = t.seq /\ u.docs = t.docs
      /\ u.drops = t.drops \ {d} /\ t.seq \in 1..Last
    BY <1>1, <1>4 DEF Types, Task
<1>6. /\ d \in log[t.seq].drops /\ metadata < t.seq
    BY <1>1, <1>2 DEF TodoShape
<1>7. d \in Adds(1..Last) /\ d \in Unsaved /\ d \notin Live
    BY <1>1, <1>5, <1>6, RecordUnsaved
<1>8. {d} \in SUBSET Docs
    BY <1>1, <1>7, AddsAreDocs
<1>9. /\ Writer \in WriterRecord /\ Writer.buffer = writer.buffer
      /\ writer.open => Writer = writer
      /\ ~writer.open => Writer.seq = ckpt
    BY <1>1, WriterFacts
<1>10. /\ MarksTo(Writer, {d}, writer')
       /\ writer'.buffer = writer.buffer \ {d}
    BY <1>1, <1>2, <1>8, <1>9, RemoveFacts
<1>11. writer'.seq = writer.seq \/ writer'.seq = ckpt
    BY <1>9, <1>10 DEF MarksTo
<1>12. /\ todo' \subseteq Task /\ TodoShape'
       /\ OpenAdds \subseteq OpenAdds' \cup (t.docs \ u.docs)
       /\ DoneDrops' \subseteq DoneDrops \cup (t.drops \ u.drops)
       /\ Unreplayed = {}
    <2>1. Progress(t, u)
        BY <1>2, <1>4
    <2>2. u.docs \subseteq t.docs /\ u.drops \subseteq t.drops
        BY <1>5
    <2>3. UNCHANGED <<log, replay, ckpt, metadata>>
        BY <1>3
    <2> QED
        BY <1>1, <1>3, <1>5, <1>11, <2>1, <2>2, <2>3, ProgressFacts
<1>13. Marking({d}, {})
    BY <1>3, <1>5, <1>7, <1>10, <1>12 DEF Marking
<1>14. replay' = 0 /\ replay' \in 0..Last
    BY <1>1, <1>3 DEF Types
<1> QED
    BY <1>12, <1>13, <1>14

\* It marks its document before it buffers it.
LEMMA InsertMarks ==
    ASSUME LexInv, NEW t \in todo, Insert(t)
    PROVE  \E docs, new : /\ Marking(docs, new)
                          /\ todo' \subseteq Task /\ TodoShape'
                          /\ replay' \in 0..Last
<1>1. Types /\ LogShape /\ TodoShape /\ WriterShape
    BY DEF LexInv, Shape
<1>2. /\ up /\ replay = 0 /\ holder = "free" /\ t.drops = {}
      /\ writer' = Buffer(Writer, t.docs)
      /\ Progress(t, [t EXCEPT !.docs = {}])
      /\ UNCHANGED <<up, log, replay, memoryVars, diskVars, holderVars, searchVars>>
      /\ UNCHANGED <<ckpt, metadata>>
    BY DEF Insert, Serving, Unlocked, memoryVars, diskVars
<1>3. PICK u : u = [t EXCEPT !.docs = {}]
    OBVIOUS
<1>4. /\ t \in Task /\ u \in Task /\ u.seq = t.seq /\ u.docs = {}
      /\ u.drops = {} /\ t.seq \in 1..Last
    BY <1>1, <1>2, <1>3 DEF Types, Task
<1>5. /\ t.docs \subseteq log[t.seq].adds /\ t.docs \subseteq Live
      /\ metadata < t.seq
    BY <1>1 DEF TodoShape
<1>6. t.docs \subseteq Adds(1..Last) \cap Unsaved
    BY <1>1, <1>4, <1>5, RecordUnsaved
<1>7. t.docs \in SUBSET Docs
    BY <1>4 DEF Task
<1>8. /\ Writer \in WriterRecord /\ Writer.buffer = writer.buffer
      /\ writer.open => Writer = writer
      /\ ~writer.open => Writer.seq = ckpt
    BY <1>1, WriterFacts
<1>9. /\ MarksTo(Writer, t.docs, writer')
      /\ writer'.buffer = (writer.buffer \ t.docs) \cup t.docs
    BY <1>1, <1>2, <1>7, <1>8, RemoveFacts
<1>10. writer'.seq = writer.seq \/ writer'.seq = ckpt
    BY <1>8, <1>9 DEF MarksTo
<1>11. /\ todo' \subseteq Task /\ TodoShape'
       /\ OpenAdds \subseteq OpenAdds' \cup (t.docs \ u.docs)
       /\ DoneDrops' \subseteq DoneDrops \cup (t.drops \ u.drops)
       /\ Unreplayed = {}
    <2>1. Progress(t, u)
        BY <1>2, <1>3
    <2>2. u.docs \subseteq t.docs /\ u.drops \subseteq t.drops
        BY <1>4
    <2>3. UNCHANGED <<log, replay, ckpt, metadata>>
        BY <1>2
    <2> QED
        BY <1>1, <1>2, <1>4, <1>10, <2>1, <2>2, <2>3, ProgressFacts
<1>12. Marking(t.docs, t.docs)
    <2>1. t.docs \subseteq OpenAdds
        BY <1>2 DEF OpenAdds
    <2>2. DoneDrops' \subseteq DoneDrops \cup {}
        BY <1>2, <1>11
    <2>3. t.docs \cap DoneDrops' = {}
        BY <1>5, <2>2 DEF DoneDrops, Live
    <2> QED
        BY <1>2, <1>5, <1>6, <1>9, <1>11, <2>1, <2>2, <2>3 DEF Marking
<1>13. replay' = 0 /\ replay' \in 0..Last
    BY <1>1, <1>2 DEF Types
<1> QED
    BY <1>11, <1>12, <1>13

\* What a record of the replay leaves for those that follow.
LEMMA ReplayFacts ==
    ASSUME Types, LogShape, TodoShape, replay # 0,
           replay' = IF replay < Last THEN replay + 1 ELSE 0,
           UNCHANGED <<log, todo>>
    PROVE  LET A == log[replay].adds
               D == log[replay].drops
           IN  /\ replay \in 1..Last
               /\ A \subseteq OpenAdds /\ OpenAdds \subseteq OpenAdds' \cup A
               /\ DoneDrops' \subseteq DoneDrops \cup D
               /\ A \cap DoneDrops' = {}
               /\ Unreplayed \subseteq Unreplayed' \cup (D \cup A)
<1> DEFINE A == log[replay].adds
           D == log[replay].drops
           Rest == replay + 1..Last
<1>1. Last \in Nat /\ replay \in 1..Last /\ todo = {}
    BY TypeFacts DEF Types, TodoShape
<1>2. replay..Last = {replay} \cup Rest
    BY <1>1
<1>3. /\ Adds(replay..Last) = A \cup Adds(Rest)
      /\ Drops(replay..Last) = D \cup Drops(Rest)
    BY <1>2 DEF Adds, Drops
<1>4. /\ OpenAdds' = Adds(Rest) /\ OpenDrops' = Drops(Rest)
      /\ Unreplayed' = Adds(Rest) \cup Drops(Rest)
    <2>1. Last' = Last
        BY DEF Last
    <2>2. CASE replay < Last
        BY <1>1, <2>1, <2>2 DEF OpenAdds, OpenDrops, Unreplayed, Adds, Drops
    <2>3. CASE ~(replay < Last)
        <3>1. Rest = {} /\ replay' = 0 /\ todo' = {}
            BY <1>1, <2>3
        <3>2. Adds(Rest) = {} /\ Drops(Rest) = {}
            BY <3>1 DEF Adds, Drops
        <3> QED
            BY <3>1, <3>2 DEF OpenAdds, OpenDrops, Unreplayed
    <2> QED
        BY <2>2, <2>3
<1>5. /\ OpenAdds = Adds(replay..Last) /\ OpenDrops = Drops(replay..Last)
      /\ Unreplayed = Adds(replay..Last) \cup Drops(replay..Last)
    BY DEF OpenAdds, OpenDrops, Unreplayed
<1>6. Drops(1..Last)' = Drops(1..Last)
    BY DEF Drops, Last
<1>7. DoneDrops' \subseteq DoneDrops \cup D
    BY <1>3, <1>4, <1>5, <1>6 DEF DoneDrops
<1>8. A \cap DoneDrops' = {}
    <2> SUFFICES ASSUME NEW d \in A, d \in Drops(1..Last) PROVE d \in Drops(Rest)
        BY <1>4, <1>6 DEF DoneDrops
    <2>1. d = replay
        BY <1>1 DEF LogShape
    <2>2. PICK n \in 1..Last : d \in log[n].drops
        BY DEF Drops
    <2>3. n \in Rest
        BY <1>1, <2>1, <2>2 DEF LogShape
    <2> QED
        BY <2>2, <2>3 DEF Drops
<1> QED
    BY <1>1, <1>3, <1>4, <1>5, <1>7, <1>8

\* A record of the replay marks what it drops and what it adds.
LEMMA ReplayMarks ==
    ASSUME LexInv, ReplayRecord
    PROVE  \E docs, new : /\ Marking(docs, new)
                          /\ todo' \subseteq Task /\ TodoShape'
                          /\ replay' \in 0..Last
<1> DEFINE A == log[replay].adds
           D == log[replay].drops
<1>1. Types /\ LogShape /\ TodoShape /\ WriterShape
    BY DEF LexInv, Shape
<1>2. /\ up /\ replay # 0
      /\ writer' = IF A = {} THEN Remove(Writer, D)
                   ELSE Buffer(Remove(Writer, D), A)
      /\ replay' = IF replay < Last THEN replay + 1 ELSE 0
      /\ UNCHANGED <<up, log, memoryVars, diskVars, holderVars, searchVars>>
      /\ UNCHANGED <<log, todo>> /\ UNCHANGED <<ckpt, metadata>>
    BY DEF ReplayRecord, memoryVars, diskVars
<1>3. /\ replay \in 1..Last
      /\ A \subseteq OpenAdds /\ OpenAdds \subseteq OpenAdds' \cup A
      /\ DoneDrops' \subseteq DoneDrops \cup D
      /\ A \cap DoneDrops' = {}
      /\ Unreplayed \subseteq Unreplayed' \cup (D \cup A)
    BY <1>1, <1>2, ReplayFacts
<1>4. /\ todo = {} /\ holder = "free" /\ metadata = ckpt /\ metadata < replay
      /\ writer.seq < replay /\ writer.seq <= Last /\ metadata <= Last
    BY <1>1, <1>2 DEF TodoShape
<1>5. A \cup D \subseteq Adds(1..Last) \cap Unsaved /\ D \cap Live = {}
    BY <1>1, <1>3, <1>4, RecordUnsaved
<1>6. A \in SUBSET Docs /\ D \in SUBSET Docs
    BY <1>1, <1>5, AddsAreDocs
<1>7. /\ Writer \in WriterRecord /\ Writer.buffer = writer.buffer
      /\ writer.open => Writer = writer
      /\ ~writer.open => Writer.seq = ckpt
    BY <1>1, WriterFacts
<1> HIDE DEF A, D
<1>8. /\ MarksTo(Writer, D \cup A, writer')
      /\ writer'.buffer = (writer.buffer \ (D \cup A)) \cup A
    <2>1. PICK r : r = Remove(Writer, D)
        OBVIOUS
    <2>2. MarksTo(Writer, D, r) /\ r.buffer = writer.buffer \ D
        BY <1>1, <1>6, <1>7, <2>1, RemoveFacts
    <2>3. r \in WriterRecord
        BY <2>2 DEF MarksTo
    <2>4. CASE A = {}
        <3>1. writer' = r /\ D \cup A = D
            BY <1>2, <2>1, <2>4 DEF A, D
        <3> QED
            BY <2>2, <2>4, <3>1
    <2>5. CASE A # {}
        <3>1. PICK v : v = Buffer(r, A)
            OBVIOUS
        <3>2. writer' = v
            BY <1>2, <2>1, <2>5, <3>1 DEF A, D
        <3>3. MarksTo(r, A, v) /\ v.buffer = (r.buffer \ A) \cup A
            BY <1>1, <1>6, <2>3, <3>1, RemoveFacts
        <3>4. MarksTo(Writer, D \cup A, v)
            BY <2>2, <3>3, MarksTwice
        <3>5. v.buffer = (writer.buffer \ (D \cup A)) \cup A
            BY <2>2, <3>3
        <3> QED
            BY <3>2, <3>4, <3>5
    <2> QED
        BY <2>4, <2>5
<1>9. Marking(D \cup A, A)
    <2>1. OpenAdds \subseteq OpenAdds' \cup A
        BY <1>3 DEF A, D
    <2>2. DoneDrops' \subseteq DoneDrops \cup (D \cup A)
        BY <1>3 DEF A, D
    <2>3. A \subseteq OpenAdds /\ A \cap DoneDrops' = {}
        BY <1>3 DEF A, D
    <2>4. Unreplayed \subseteq Unreplayed' \cup (D \cup A)
        BY <1>3 DEF A, D
    <2>5. /\ D \cup A \subseteq Adds(1..Last) \cap Unsaved
          /\ (D \cup A) \cap Live \subseteq A
        BY <1>5 DEF A, D
    <2> QED
        BY <1>2, <1>4, <1>8, <2>1, <2>2, <2>3, <2>4, <2>5 DEF Marking
<1>10. /\ todo' \subseteq Task /\ replay' \in 0..Last
    <2>1. todo' = {} /\ Last \in Nat
        BY <1>1, <1>2, <1>4, TypeFacts
    <2> QED
        BY <1>2, <1>3, <2>1
<1>11. writer'.seq = writer.seq \/ writer'.seq = ckpt
    BY <1>7, <1>8 DEF MarksTo
<1>12. TodoShape'
    <2>1. replay' # 0 => replay < replay'
        BY <1>2, <1>3
    <2>2. /\ writer.seq \in Nat /\ metadata \in Nat /\ ckpt \in Nat
          /\ replay \in Nat /\ replay' \in Nat
        BY <1>1, <1>3, <1>10, TypeFacts DEF Types
    <2>3. Last' = Last /\ holder' = "free" /\ todo' = {}
        BY <1>2, <1>4 DEF Last, holderVars
    <2> QED
        BY <1>2, <1>4, <1>11, <2>1, <2>2, <2>3 DEF TodoShape
<1> QED
    BY <1>9, <1>10, <1>12

\* The three keep the invariant.
LEMMA MarksKeep ==
    ASSUME LexInv,
           \/ \E t \in todo : DeleteVersion(t) \/ Insert(t)
           \/ ReplayRecord
    PROVE  LexInv'
<1>1. PICK docs, new : /\ Marking(docs, new)
                       /\ todo' \subseteq Task /\ TodoShape'
                       /\ replay' \in 0..Last
    BY DeleteVersionMarks, InsertMarks, ReplayMarks
<1>2. up
    BY <1>1 DEF Marking
<1> QED
    BY <1>1, <1>2, MarkingKeeps

-----------------------------------------------------------------------------
(* New segments.                                                           *)

\* Nothing has the next generation.
LEMMA FreshGeneration ==
    ASSUME Shape, up
    PROVE  /\ nextGen \in Nat
           /\ nextGen \notin DOMAIN segs /\ nextGen \notin DOMAIN manifest
           /\ nextGen \notin writer.known /\ nextGen \notin writer.flushed
           /\ nextGen \notin DOMAIN writer.pending
           /\ nextGen \notin DOMAIN writer.marks
           /\ nextGen \notin DOMAIN files /\ nextGen \notin DOMAIN delmaps
           /\ nextGen \notin DOMAIN unread /\ nextGen \notin sources
           /\ nextGen \notin writer.flips /\ nextGen \notin writer.dirty
           /\ DocsOf(nextGen) = {} /\ Marked(nextGen) = {}
<1>1. Types /\ WriterShape /\ Numbers /\ SearchShape
    BY DEF Shape
<1>2. nextGen \in Nat /\ nextGen \notin 0..nextGen - 1
    BY <1>1 DEF Types
<1>3. /\ nextGen \notin DOMAIN segs /\ nextGen \notin DOMAIN manifest
      /\ nextGen \notin writer.known /\ nextGen \notin DOMAIN writer.marks
      /\ nextGen \notin DOMAIN files /\ nextGen \notin DOMAIN delmaps
      /\ nextGen \notin DOMAIN unread /\ nextGen \notin sources
    BY <1>1, <1>2 DEF Numbers, Stems, SearchShape
<1>4. /\ nextGen \notin writer.flushed /\ nextGen \notin DOMAIN writer.pending
      /\ nextGen \notin writer.flips /\ nextGen \notin writer.dirty
    BY <1>1, <1>3 DEF WriterShape
<1>5. DocsOf(nextGen) = {} /\ Marked(nextGen) = {}
    BY <1>1, <1>3, TypeFacts DEF Marked
<1> QED
    BY <1>2, <1>3, <1>4, <1>5

\* Files of the next generation are all that a step adds: nothing sees them.
LEMMA UnseenFiles ==
    ASSUME LexInv, up, SameWriting,
           \A s : s # nextGen => DocsOf(s)' = DocsOf(s),
           MergePhase \/ ~MergePhase',
           ~MergePhase \/ MergePhase',
           UNCHANGED <<up, log, todo, replay, segs, ckpt, manifest, metadata,
                       delmaps, building, unread, found, searcher,
                       hasSearcher, asOf>>
    PROVE  Contents' /\ Once' /\ Searches'
<1>1. Shape /\ WriterShape /\ SearchShape /\ Contents /\ Once /\ Searches
    BY DEF LexInv, Shape
<1>2. /\ nextGen \notin DOMAIN segs /\ nextGen \notin DOMAIN manifest
      /\ nextGen \notin writer.flushed /\ nextGen \notin DOMAIN writer.pending
      /\ nextGen \notin DOMAIN unread
    BY <1>1, FreshGeneration
<1>3. \A s : /\ Saved(s)' = Saved(s) /\ Marks(s)' = Marks(s)
             /\ Marked(s)' = Marked(s) /\ Hidden(s)' = Hidden(s)
    BY DEF Saved, Marks, Marked, Hidden, MarksOf, SameWriting
<1>4. /\ SegIds' = SegIds /\ nextGen \notin SegIds
      /\ DOMAIN writer.pending' = DOMAIN writer.pending
    BY <1>2 DEF SegIds, SameWriting
<1>5. \A s : s # nextGen => DocsOf(s)' = DocsOf(s) /\ Kept(s)' = Kept(s)
    BY <1>3 DEF Kept
<1>6. /\ \A s \in SegIds : DocsOf(s)' = DocsOf(s) /\ Kept(s)' = Kept(s)
      /\ \A s \in DOMAIN segs : DocsOf(s)' = DocsOf(s) /\ Kept(s)' = Kept(s)
      /\ \A s \in DOMAIN manifest :
             DocsOf(s)' = DocsOf(s) /\ Kept(s)' = Kept(s)
      /\ \A s \in DOMAIN writer.pending : DocsOf(s)' = DocsOf(s)
      /\ \A s \in DOMAIN unread : DocsOf(s)' = DocsOf(s) /\ Kept(s)' = Kept(s)
      /\ \A s \in writer.flushed : Kept(s)' = Kept(s)
    BY <1>2, <1>4, <1>5
<1>7. /\ Live' = Live /\ OpenAdds' = OpenAdds /\ DoneDrops' = DoneDrops
      /\ Unreplayed' = Unreplayed /\ Unsaved' = Unsaved
      /\ Drops(1..metadata)' = Drops(1..metadata)
      /\ Drops(1..asOf)' = Drops(1..asOf)
    <2>1. Drops(1..asOf)' = Drops(1..asOf)
        BY DEF Drops
    <2> QED
        BY <2>1, SameLog, SameUnsaved
<1>8. MemoryHas' /\ SupersededHeld'
    BY <1>1, <1>4, <1>6, <1>7
       DEF Contents, MemoryHas, SupersededHeld, SameWriting
<1>9. MemoryHides'
    BY <1>1, <1>3, <1>4, <1>6, <1>7 DEF Contents, MemoryHides, SameWriting
<1>10. FlagsIn(segs)' /\ FlagsIn(writer.pending)' /\ ManifestFlags'
    BY <1>1, <1>3, <1>6, <1>7 DEF Contents, FlagsIn, ManifestFlags, SameWriting
<1>11. FlaggedIn(segs)' /\ FlaggedIn(writer.pending)' /\ FlaggedIn(manifest)'
    BY <1>1, <1>3, <1>6, <1>7 DEF Contents, FlaggedIn, SameWriting
<1>12. HidesIn(segs)' /\ HidesIn(writer.pending)' /\ HidesIn(manifest)'
    BY <1>1, <1>3, <1>6, <1>7 DEF Contents, HidesIn, SameWriting
<1>13. CheckpointKept' /\ ManifestHas'
    BY <1>1, <1>6, <1>7 DEF Contents, CheckpointKept, ManifestHas
<1>14. ManifestFrom'
    BY <1>1, <1>6 DEF Contents, ManifestFrom, SameWriting
<1>15. MemoryOnce'
    BY <1>1, <1>3, <1>4, <1>6 DEF Once, MemoryOnce, SameWriting
<1>16. StorageOnce'
    BY <1>1, <1>6 DEF Once, StorageOnce, MarksOf
<1>17. SearchOfMemory'
    BY <1>1, <1>3, <1>6, <1>7 DEF Searches, SearchOfMemory, SameWriting
<1>18. SearchOfCheckpoint'
    BY <1>1, <1>3, <1>6, <1>7 DEF Searches, SearchOfCheckpoint
<1> QED
    BY <1>8, <1>9, <1>10, <1>11, <1>12, <1>13, <1>14, <1>15, <1>16, <1>17,
       <1>18 DEF Contents, Once, Searches

\* The files of the next generation.
LEMMA NewFiles ==
    ASSUME Types, NEW docs \in SUBSET Docs, files' = With(files, nextGen, docs)
    PROVE  /\ files' \in Maps(SUBSET Docs)
           /\ DOMAIN files' = DOMAIN files \cup {nextGen}
           /\ \A s : DocsOf(s)' = IF s = nextGen THEN docs ELSE DocsOf(s)
<1>1. files \in Maps(SUBSET Docs) /\ nextGen \in Nat
    BY DEF Types
<1>2. /\ With(files, nextGen, docs) \in Maps(SUBSET Docs)
      /\ DOMAIN With(files, nextGen, docs) = DOMAIN files \cup {nextGen}
      /\ \A s, default : At(With(files, nextGen, docs), s, default) =
                             IF s = nextGen THEN docs ELSE At(files, s, default)
    <2>1. PICK V : V = SUBSET Docs
        OBVIOUS
    <2>2. files \in Maps(V) /\ docs \in V
        BY <1>1, <2>1
    <2>3. /\ With(files, nextGen, docs) \in Maps(V)
          /\ DOMAIN With(files, nextGen, docs) = DOMAIN files \cup {nextGen}
          /\ \A s, default : At(With(files, nextGen, docs), s, default) =
                 IF s = nextGen THEN docs ELSE At(files, s, default)
        BY <1>1, <2>2, WithMember, SMTT(30)
    <2> QED
        BY <2>1, <2>3
<1> QED
    BY <1>2 DEF DocsOf

\* The writer after a flush, and after one that failed.
LEMMA FlushedFacts ==
    ASSUME Types
    PROVE  /\ \A v : v = FlushedWriter(writer) =>
                  /\ v \in WriterRecord /\ v.buffer = {}
                  /\ v.known = writer.known \cup {nextGen}
                  /\ v.flushed = writer.flushed \cup {nextGen}
                  /\ DOMAIN v.pending = DOMAIN writer.pending \cup {nextGen}
                  /\ v.pending[nextGen] = NewEntry
                  /\ \A s \in DOMAIN writer.pending :
                         s # nextGen => v.pending[s] = writer.pending[s]
                  /\ v.open = writer.open /\ v.manager = writer.manager
                  /\ v.marks = writer.marks /\ v.dirty = writer.dirty
                  /\ v.flips = writer.flips
                  /\ v.superseded = writer.superseded /\ v.seq = writer.seq
           /\ \A v \in FailedFlushes(writer) :
                  /\ v \in WriterRecord
                  /\ v.known \in {writer.known, writer.known \cup {nextGen}}
                  /\ v.buffer = writer.buffer /\ v.flushed = writer.flushed
                  /\ v.pending = writer.pending /\ v.open = writer.open
                  /\ v.manager = writer.manager /\ v.marks = writer.marks
                  /\ v.dirty = writer.dirty /\ v.flips = writer.flips
                  /\ v.superseded = writer.superseded /\ v.seq = writer.seq
<1>1. writer \in WriterRecord /\ nextGen \in Nat
    BY DEF Types
<1>2. NewEntry \in Entry /\ writer.pending \in Maps(Entry)
    BY <1>1 DEF NewEntry, Entry, WriterRecord
<1>3. PICK p : p = With(writer.pending, nextGen, NewEntry)
    OBVIOUS
<1>4. /\ p \in Maps(Entry) /\ DOMAIN p = DOMAIN writer.pending \cup {nextGen}
      /\ p[nextGen] = NewEntry
      /\ \A s \in DOMAIN writer.pending :
             s # nextGen => p[s] = writer.pending[s]
    <2>1. ASSUME NEW f \in Maps(Entry), NEW x \in Nat, NEW e \in Entry
          PROVE  /\ With(f, x, e) \in Maps(Entry)
                 /\ DOMAIN With(f, x, e) = DOMAIN f \cup {x}
                 /\ With(f, x, e)[x] = e
                 /\ \A s \in DOMAIN f : s # x => With(f, x, e)[s] = f[s]
        BY WithMember
    <2>2. /\ With(writer.pending, nextGen, NewEntry) \in Maps(Entry)
          /\ DOMAIN With(writer.pending, nextGen, NewEntry) =
                 DOMAIN writer.pending \cup {nextGen}
          /\ With(writer.pending, nextGen, NewEntry)[nextGen] = NewEntry
          /\ \A s \in DOMAIN writer.pending : s # nextGen =>
                 With(writer.pending, nextGen, NewEntry)[s] = writer.pending[s]
        BY <1>1, <1>2, <2>1
    <2> QED
        BY <1>3, <2>2
<1>5. ASSUME NEW v, v = FlushedWriter(writer)
      PROVE  /\ v \in WriterRecord /\ v.buffer = {} /\ v.pending = p
             /\ v.known = writer.known \cup {nextGen}
             /\ v.flushed = writer.flushed \cup {nextGen}
             /\ v.open = writer.open /\ v.manager = writer.manager
             /\ v.marks = writer.marks /\ v.dirty = writer.dirty
             /\ v.flips = writer.flips
             /\ v.superseded = writer.superseded /\ v.seq = writer.seq
    <2>1. v = [writer EXCEPT !.buffer = {}, !.known = @ \cup {nextGen},
                             !.flushed = @ \cup {nextGen}, !.pending = p]
        BY <1>3, <1>5 DEF FlushedWriter
    <2> QED
        BY <1>1, <1>4, <2>1 DEF WriterRecord
<1>6. \A v \in FailedFlushes(writer) :
          /\ v \in WriterRecord
          /\ v.known \in {writer.known, writer.known \cup {nextGen}}
          /\ v.buffer = writer.buffer /\ v.flushed = writer.flushed
          /\ v.pending = writer.pending /\ v.open = writer.open
          /\ v.manager = writer.manager /\ v.marks = writer.marks
          /\ v.dirty = writer.dirty /\ v.flips = writer.flips
          /\ v.superseded = writer.superseded /\ v.seq = writer.seq
    BY <1>1 DEF FailedFlushes, WriterRecord
<1> QED
    BY <1>4, <1>5, <1>6

\* What the steps that write the buffer do, and all that they do.
Flushing ==
    /\ up /\ writer.open /\ ~MergePhase /\ WriteBuffer
    /\ \/ writer' = FlushedWriter(writer)
       \/ writer' \in FailedFlushes(writer) /\ holder' = "free"
    /\ holder' = "free" \/ (holder = "flush" /\ holder' = "marks")
    /\ replay # 0 => holder' = "free"
    /\ call' \in {"none", "commit", "optimize"}
    /\ UNCHANGED <<up, log, todo, replay, segs, ckpt, manifest, metadata,
                   delmaps, sources, building, unread, found, searcher,
                   hasSearcher, asOf>>

\* They keep the shape of the state.
LEMMA FlushShape ==
    ASSUME LexInv, Flushing
    PROVE  Shape' /\ MergePhase' = MergePhase
<1>1. /\ Types /\ LogShape /\ TodoShape /\ WriterShape /\ BitmapShape /\ Phases
      /\ Closed /\ Numbers /\ Logged /\ SearchShape /\ Shape
    BY DEF LexInv, Shape
<1>2. /\ up /\ writer.open /\ ~MergePhase
      /\ files' = With(files, nextGen, writer.buffer)
      /\ nextGen' = nextGen + 1
      /\ \/ writer' = FlushedWriter(writer)
         \/ writer' \in FailedFlushes(writer) /\ holder' = "free"
      /\ holder' = "free" \/ (holder = "flush" /\ holder' = "marks")
      /\ UNCHANGED <<up, log, todo, replay, segs, ckpt, manifest, metadata,
                     delmaps, sources, building, unread, found, searcher,
                     hasSearcher, asOf>>
    BY DEF Flushing, WriteBuffer
<1>3. writer.buffer \in SUBSET Docs /\ nextGen \in Nat
    BY <1>1, TypeFacts DEF Types
<1>4. /\ files' \in Maps(SUBSET Docs)
      /\ DOMAIN files' = DOMAIN files \cup {nextGen}
      /\ \A s : DocsOf(s)' = IF s = nextGen THEN writer.buffer ELSE DocsOf(s)
    BY <1>1, <1>2, <1>3, NewFiles
<1>5. /\ writer' \in WriterRecord
      /\ writer'.known \in {writer.known, writer.known \cup {nextGen}}
      /\ writer'.open = writer.open /\ writer'.manager = writer.manager
      /\ writer'.marks = writer.marks /\ writer'.dirty = writer.dirty
      /\ writer'.flips = writer.flips
      /\ writer'.superseded = writer.superseded /\ writer'.seq = writer.seq
      /\ \/ /\ writer'.buffer = {}
            /\ writer'.known = writer.known \cup {nextGen}
            /\ writer'.flushed = writer.flushed \cup {nextGen}
            /\ DOMAIN writer'.pending = DOMAIN writer.pending \cup {nextGen}
         \/ /\ writer'.buffer = writer.buffer /\ holder' = "free"
            /\ writer'.flushed = writer.flushed
            /\ writer'.pending = writer.pending
    BY <1>1, <1>2, FlushedFacts
<1>6. ~MergePhase'
    BY <1>2 DEF MergePhase
<1>7. Last' = Last /\ Live' = Live /\ Adds(1..Last)' = Adds(1..Last)
    BY <1>2, SameLog
<1>8. holder' \in Steps
    BY <1>2 DEF Steps
<1>9. Types'
    <2>1. todo' \subseteq Task' /\ replay' \in 0..Last' /\ log' \in Seq(Record)
          /\ Last' <= MaxSeq
        BY <1>1, <1>2, <1>7 DEF Types, Task
    <2>2. nextGen' \in Nat
        BY <1>2, <1>3
    <2>3. call' \in {"none", "commit", "optimize"}
        BY DEF Flushing
    <2>4. /\ up' \in BOOLEAN
          /\ segs' \in Maps(Entry) /\ manifest' \in Maps(Entry)
          /\ unread' \in Maps(Entry) /\ delmaps' \in Maps(SUBSET Docs)
          /\ ckpt' \in Nat /\ metadata' \in Nat /\ asOf' \in Nat
          /\ sources' \subseteq Nat
          /\ building' \in BOOLEAN /\ hasSearcher' \in BOOLEAN
          /\ found' \subseteq Docs /\ searcher' \subseteq Docs
        BY <1>1, <1>2 DEF Types
    <2> QED
        BY <1>4, <1>5, <1>8, <2>1, <2>2, <2>3, <2>4 DEF Types
<1>10. LogShape'
    BY <1>1, <1>2, <1>7 DEF LogShape
<1>11. TodoShape'
    <2>1. replay # 0 => holder' = "free"
        BY DEF Flushing
    <2> QED
        BY <1>1, <1>2, <1>5, <1>7, <2>1 DEF TodoShape
<1>12. WriterShape'
    <2>1. DOMAIN writer'.pending \subseteq writer'.flushed
        BY <1>1, <1>5 DEF WriterShape
    <2>2. writer'.flushed \subseteq writer'.known
        BY <1>1, <1>5 DEF WriterShape
    <2>3. writer'.flushed \subseteq DOMAIN segs \cup DOMAIN writer'.pending
        BY <1>1, <1>5 DEF WriterShape
    <2>4. DOMAIN segs \subseteq writer'.known
        BY <1>1, <1>2, <1>5 DEF WriterShape
    <2> QED
        BY <1>1, <1>2, <1>5, <2>1, <2>2, <2>3, <2>4 DEF WriterShape
<1>13. BitmapShape'
    <2>1. \A s : Saved(s)' = Saved(s) /\ Marks(s)' = Marks(s)
        BY <1>2, <1>5 DEF Saved, Marks
    <2>2. Marks(nextGen) = {} /\ nextGen \notin DOMAIN delmaps
        BY <1>1, <1>2, FreshGeneration DEF Marked
    <2>3. /\ SegIds' \subseteq SegIds \cup {nextGen}
          /\ writer'.flushed \subseteq writer.flushed \cup {nextGen}
        BY <1>2, <1>5 DEF SegIds
    <2> QED
        BY <1>1, <1>2, <1>5, <2>1, <2>2, <2>3 DEF BitmapShape
<1>14. Phases'
    <2>1. holder' \notin {"free", "flush"} => writer'.buffer = {}
        BY <1>1, <1>2, <1>5 DEF Phases
    <2>2. CASE holder' = "free"
        BY <1>1, <1>2, <1>6, <2>2 DEF Phases, MergePhase
    <2>3. CASE holder = "flush" /\ holder' = "marks"
        BY <1>1, <1>2, <1>5, <1>6, <2>1, <2>3 DEF Phases, MergePhase
    <2> QED
        BY <1>2, <2>2, <2>3
<1>15. Closed'
    BY <1>2 DEF Closed
<1>16. Numbers'
    <2>1. 0..nextGen' - 1 = (0..nextGen - 1) \cup {nextGen}
        BY <1>2, <1>3
    <2> QED
        BY <1>1, <1>2, <1>4, <1>5, <2>1 DEF Numbers, Stems
<1>17. Logged'
    BY <1>1, <1>2, <1>4, <1>5, <1>7 DEF Logged
<1>18. SearchShape'
    <2>1. 0..nextGen - 1 \subseteq 0..nextGen' - 1
        BY <1>2, <1>3
    <2> QED
        BY <1>1, <1>2, <2>1 DEF SearchShape
<1>19. MergePhase' = MergePhase
    BY <1>2, <1>6 DEF MergePhase
<1> QED
    BY <1>9, <1>10, <1>11, <1>12, <1>13, <1>14, <1>15, <1>16, <1>17, <1>18,
       <1>19 DEF Shape

\* A flush moves the buffer to a segment.
LEMMA FlushContents ==
    ASSUME LexInv, Flushing
    PROVE  Contents' /\ Once' /\ Searches'
<1>1. /\ Types /\ LogShape /\ TodoShape /\ WriterShape /\ Shape /\ SearchShape
      /\ Contents /\ Once /\ Searches
    BY DEF LexInv, Shape
<1>2. /\ up /\ ~MergePhase /\ ~MergePhase'
      /\ files' = With(files, nextGen, writer.buffer)
      /\ UNCHANGED <<up, log, todo, replay, segs, ckpt, manifest, metadata,
                     delmaps, sources, building, unread, found, searcher,
                     hasSearcher, asOf>>
    BY FlushShape DEF Flushing, WriteBuffer
<1>3. \A s : DocsOf(s)' = IF s = nextGen THEN writer.buffer ELSE DocsOf(s)
    <2>1. writer.buffer \in SUBSET Docs
        BY <1>1, TypeFacts
    <2> QED
        BY <1>1, <1>2, <2>1, NewFiles
<1>4. CASE writer' \in FailedFlushes(writer)
    <2>1. SameWriting
        BY <1>1, <1>4, FlushedFacts DEF SameWriting
    <2> QED
        BY <1>2, <1>3, <2>1, UnseenFiles
<1>5. CASE writer' = FlushedWriter(writer)
    <2>1. /\ writer'.buffer = {}
          /\ writer'.flushed = writer.flushed \cup {nextGen}
          /\ DOMAIN writer'.pending = DOMAIN writer.pending \cup {nextGen}
          /\ \A s \in DOMAIN writer.pending :
                 s # nextGen => writer'.pending[s] = writer.pending[s]
          /\ writer'.manager = writer.manager
          /\ writer'.marks = writer.marks /\ writer'.flips = writer.flips
          /\ writer'.superseded = writer.superseded
        BY <1>1, <1>5, FlushedFacts
    <2>2. /\ nextGen \notin DOMAIN segs /\ nextGen \notin DOMAIN manifest
          /\ nextGen \notin writer.flushed /\ nextGen \notin DOMAIN writer.pending
          /\ nextGen \notin DOMAIN unread /\ Marked(nextGen) = {}
        BY <1>1, <1>2, FreshGeneration
    <2>3. \A s : /\ Saved(s)' = Saved(s) /\ Marks(s)' = Marks(s)
                 /\ Marked(s)' = Marked(s) /\ Hidden(s)' = Hidden(s)
        BY <1>2, <2>1 DEF Saved, Marks, Marked, Hidden, MarksOf
    <2>4. /\ SegIds' = SegIds \cup {nextGen} /\ nextGen \notin SegIds
        BY <1>2, <2>1, <2>2 DEF SegIds
    <2>5. \A s : s # nextGen => DocsOf(s)' = DocsOf(s) /\ Kept(s)' = Kept(s)
        BY <1>3, <2>3 DEF Kept
    <2>6. /\ \A s \in SegIds : DocsOf(s)' = DocsOf(s) /\ Kept(s)' = Kept(s)
          /\ \A s \in DOMAIN segs : DocsOf(s)' = DocsOf(s) /\ Kept(s)' = Kept(s)
          /\ \A s \in DOMAIN manifest :
                 DocsOf(s)' = DocsOf(s) /\ Kept(s)' = Kept(s)
          /\ \A s \in DOMAIN writer.pending : DocsOf(s)' = DocsOf(s)
          /\ \A s \in DOMAIN unread :
                 DocsOf(s)' = DocsOf(s) /\ Kept(s)' = Kept(s)
          /\ \A s \in writer.flushed : Kept(s)' = Kept(s)
        BY <2>2, <2>4, <2>5
    <2>7. PICK g : g = nextGen
        OBVIOUS
    <2>8. /\ DocsOf(g)' = writer.buffer /\ Kept(g)' = writer.buffer
          /\ Marked(g)' = {} /\ g \in SegIds' /\ g \in writer'.flushed
        BY <1>3, <2>1, <2>2, <2>3, <2>4, <2>7 DEF Kept
    <2>9. /\ Live' = Live /\ OpenAdds' = OpenAdds /\ DoneDrops' = DoneDrops
          /\ Unreplayed' = Unreplayed /\ Unsaved' = Unsaved
          /\ Drops(1..metadata)' = Drops(1..metadata)
          /\ Drops(1..asOf)' = Drops(1..asOf)
        <3>1. Drops(1..asOf)' = Drops(1..asOf)
            BY <1>2 DEF Drops
        <3> QED
            BY <1>2, <3>1, SameLog, SameUnsaved
    <2>10. writer.buffer \cap DoneDrops = {}
        BY <1>1, <1>2 DEF Contents, MemoryHides
    <2>11. writer.buffer \cap Drops(1..metadata) = {}
        BY <1>1, <2>10, CheckpointDone
    <2>12. MemoryHas'
        BY <1>1, <1>2, <2>4, <2>6, <2>8, <2>9 DEF Contents, MemoryHas
    <2>13. SupersededHeld'
        BY <1>1, <2>1, <2>6, <2>8, <2>9 DEF Contents, SupersededHeld
    <2>14. MemoryHides'
        <3> SUFFICES ASSUME NEW s \in SegIds',
                            NEW d \in DocsOf(s)', d \in DoneDrops
                     PROVE  /\ d \in Marked(s)
                            /\ \/ d \in writer.superseded
                               \/ /\ s \in DOMAIN segs /\ segs[s].hasDeletions
                                  /\ d \in Saved(s)
            BY <1>2, <2>1, <2>3, <2>9 DEF MemoryHides
        <3>1. CASE s = g
            BY <2>8, <2>10, <3>1
        <3>2. CASE s # g
            <4>1. s \in SegIds /\ d \in DocsOf(s)
                BY <2>4, <2>5, <2>7, <3>2
            <4> QED
                BY <1>1, <1>2, <4>1 DEF Contents, MemoryHides
        <3> QED
            BY <3>1, <3>2
    <2>15. FlagsIn(segs)' /\ ManifestFlags'
        BY <1>1, <1>2, <2>1, <2>3, <2>6, <2>9
           DEF Contents, FlagsIn, ManifestFlags
    <2>16. /\ FlagsIn(writer.pending)' /\ FlaggedIn(writer.pending)'
           /\ HidesIn(writer.pending)'
        <3> SUFFICES ASSUME NEW s \in DOMAIN writer'.pending, NEW d \in DocsOf(s)'
                     PROVE  /\ d \in Marked(s) =>
                                   \/ writer'.pending[s].hasDeletions
                                   \/ s \in writer.flips \/ d \in Unreplayed
                            /\ d \in Marked(s) =>
                                   \/ writer'.pending[s].hasDeletions
                                   \/ d \in Unsaved
                            /\ d \in Drops(1..metadata) =>
                                   /\ writer'.pending[s].hasDeletions
                                   /\ d \in Saved(s)
            BY <1>2, <2>1, <2>3, <2>9 DEF FlagsIn, FlaggedIn, HidesIn
        <3>1. CASE s = g
            BY <2>3, <2>8, <2>11, <3>1
        <3>2. CASE s # g
            <4>1. /\ s \in DOMAIN writer.pending /\ d \in DocsOf(s)
                  /\ writer'.pending[s] = writer.pending[s]
                BY <2>1, <2>5, <2>7, <3>2
            <4> QED
                BY <1>1, <1>2, <4>1 DEF Contents, FlagsIn, FlaggedIn, HidesIn
        <3> QED
            BY <3>1, <3>2
    <2>17. FlaggedIn(segs)' /\ FlaggedIn(manifest)'
        BY <1>1, <1>2, <2>3, <2>6, <2>9 DEF Contents, FlaggedIn
    <2>18. HidesIn(segs)' /\ HidesIn(manifest)'
        BY <1>1, <1>2, <2>3, <2>6, <2>9 DEF Contents, HidesIn
    <2>19. CheckpointKept' /\ ManifestHas'
        BY <1>1, <1>2, <2>6, <2>9 DEF Contents, CheckpointKept, ManifestHas
    <2>20. ManifestFrom'
        BY <1>1, <1>2, <2>1, <2>6 DEF Contents, ManifestFrom
    <2>21. MemoryOnce'
        <3>1. \A s \in SegIds : writer.buffer \cap DocsOf(s) \subseteq Hidden(s)
            BY <1>1 DEF Once, MemoryOnce
        <3>2. ASSUME NEW s \in SegIds', NEW u \in SegIds', s # u
              PROVE  DocsOf(s)' \cap DocsOf(u)' \subseteq Hidden(s) \cup Hidden(u)
            <4>1. CASE s = g
                BY <2>4, <2>6, <2>7, <2>8, <3>1, <3>2, <4>1
            <4>2. CASE u = g
                BY <2>4, <2>6, <2>7, <2>8, <3>1, <3>2, <4>2
            <4>3. CASE s # g /\ u # g
                BY <1>1, <2>4, <2>6, <2>7, <3>2, <4>3 DEF Once, MemoryOnce
            <4> QED
                BY <4>1, <4>2, <4>3
        <3> QED
            BY <2>1, <2>3, <3>2 DEF MemoryOnce
    <2>22. StorageOnce'
        BY <1>1, <1>2, <2>6 DEF Once, StorageOnce, MarksOf
    <2>23. SearchOfMemory'
        <3>1. DOMAIN segs \ writer'.flushed = DOMAIN segs \ writer.flushed
            BY <2>1, <2>2
        <3> QED
            BY <1>1, <1>2, <2>1, <2>3, <2>6, <2>9, <3>1
               DEF Searches, SearchOfMemory
    <2>24. SearchOfCheckpoint'
        BY <1>1, <1>2, <2>3, <2>6, <2>9 DEF Searches, SearchOfCheckpoint
    <2> QED
        BY <2>12, <2>13, <2>14, <2>15, <2>16, <2>17, <2>18, <2>19, <2>20, <2>21,
           <2>22, <2>23, <2>24 DEF Contents, Once, Searches
<1> QED
    BY <1>4, <1>5 DEF Flushing

\* A flush, and one that fails, keeps the invariant.
LEMMA FlushingKeeps ==
    ASSUME LexInv, Flushing
    PROVE  LexInv'
    BY FlushShape, FlushContents DEF LexInv

-----------------------------------------------------------------------------
(* Steps that write nothing.                                               *)

\* A commit or a merge goes on, and no more.
Quiet ==
    /\ up /\ writer' \in WriterRecord /\ SameWriting
    /\ writer'.open = writer.open /\ writer'.known = writer.known
    /\ writer.open \/ writer' = writer
    /\ holder' \in Steps /\ call' \in {"none", "commit", "optimize"}
    /\ MergePhase => MergePhase'
    /\ sources' \subseteq sources
    /\ UNCHANGED <<up, log, todo, replay, segs, nextGen, ckpt, manifest, metadata,
                   files, delmaps, building, unread, found, searcher,
                   hasSearcher, asOf>>

\* It keeps the invariant if what the step that follows finds done is done.
LEMMA QuietKeeps ==
    ASSUME LexInv, Quiet, TodoShape', Phases'
    PROVE  LexInv'
<1>1. /\ Types /\ LogShape /\ WriterShape /\ BitmapShape /\ Closed /\ Numbers
      /\ Logged /\ SearchShape /\ Contents /\ Once /\ Searches
    BY DEF LexInv, Shape
<1>2. /\ up /\ writer' \in WriterRecord /\ SameWriting
      /\ writer'.open = writer.open /\ writer'.known = writer.known
      /\ writer.open \/ writer' = writer
      /\ holder' \in Steps /\ call' \in {"none", "commit", "optimize"}
      /\ MergePhase => MergePhase'
      /\ sources' \subseteq sources
      /\ UNCHANGED <<up, log, todo, replay, segs, nextGen, ckpt, manifest,
                     metadata, files, delmaps, building, unread, found,
                     searcher, hasSearcher, asOf>>
    BY DEF Quiet
<1>3. Last' = Last /\ Adds(1..Last)' = Adds(1..Last)
    BY <1>2, SameLog
<1>4. \A s : DocsOf(s)' = DocsOf(s) /\ Saved(s)' = Saved(s) /\ Marks(s)' = Marks(s)
    BY <1>2, SameBitmaps DEF SameWriting
<1>5. Types'
    <2>1. todo' \subseteq Task' /\ replay' \in 0..Last' /\ log' \in Seq(Record)
          /\ Last' <= MaxSeq
        BY <1>1, <1>2, <1>3 DEF Types, Task
    <2> QED
        BY <1>1, <1>2, <2>1 DEF Types
<1>6. LogShape'
    BY <1>1, <1>2, <1>3 DEF LogShape
<1>7. WriterShape'
    <2>1. ~writer'.open => writer' = NoWriter
        BY <1>1, <1>2 DEF WriterShape
    <2> QED
        BY <1>1, <1>2, <2>1 DEF WriterShape, SameWriting
<1>8. BitmapShape'
    BY <1>1, <1>2, <1>4 DEF BitmapShape, SegIds, SameWriting
<1>9. Closed' /\ SearchShape'
    BY <1>1, <1>2 DEF Closed, SearchShape
<1>10. Numbers'
    BY <1>1, <1>2 DEF Numbers, Stems, SameWriting
<1>11. Logged'
    BY <1>1, <1>2, <1>3, <1>4 DEF Logged, SameWriting
<1>12. Contents'
    BY <1>1, <1>2, KeepContents
<1>13. Once'
    BY <1>1, <1>2, KeepOnce
<1>14. Searches'
    BY <1>1, <1>2, KeepSearches
<1> QED
    BY <1>5, <1>6, <1>7, <1>8, <1>9, <1>10, <1>11, <1>12, <1>13, <1>14
       DEF LexInv, Shape

\* Of one that leaves the writer too, only the step is to be looked at.
LEMMA QuietStep ==
    ASSUME LexInv, UNCHANGED <<up, log, todo, replay, writer, segs, nextGen, ckpt,
               manifest, metadata, files, delmaps, building, unread, found,
               searcher, hasSearcher, asOf>>,
           up, holder' \in Steps, call' \in {"none", "commit", "optimize"},
           MergePhase => MergePhase',
           sources' \subseteq sources,
           replay # 0 => holder' = "free",
           Phases'
    PROVE  LexInv'
<1>1. Types /\ TodoShape
    BY DEF LexInv, Shape
<1>2. Quiet
    BY <1>1 DEF Quiet, SameWriting, Types
<1>3. TodoShape'
    <2>1. Live' = Live /\ Last' = Last
        BY SameLog
    <2> QED
        BY <1>1, <2>1 DEF TodoShape
<1> QED
    BY <1>2, <1>3, QuietKeeps

\* The watermark is a number that every mutation under way is above.
LEMMA WatermarkFacts ==
    ASSUME Types
    PROVE  /\ Watermark \in 0..Last
           /\ \A t \in todo : Watermark < t.seq
<1>1. Last \in Nat /\ UnderWay \subseteq 1..Last
    BY TypeFacts DEF Types, Task, UnderWay
<1>2. \E n \in 0..Last : /\ \A m \in 1..n : m \notin UnderWay
                         /\ n = Last \/ n + 1 \in UnderWay
    <2>1. CASE UnderWay = {}
        BY <1>1, <2>1
    <2>2. CASE UnderWay # {}
        <3>1. UnderWay \in SUBSET Nat
            BY <1>1
        <3>2. PICK k \in UnderWay : \A m \in UnderWay : k <= m
            BY <2>2, <3>1, Least
        <3>3. /\ k - 1 \in 0..Last /\ (k - 1) + 1 \in UnderWay
              /\ \A m \in 1..k - 1 : m \notin UnderWay
            BY <1>1, <3>2
        <3> QED
            BY <3>3
    <2> QED
        BY <2>1, <2>2
<1>3. /\ Watermark \in 0..Last
      /\ \A m \in 1..Watermark : m \notin UnderWay
    BY <1>2 DEF Watermark
<1>4. ASSUME NEW t \in todo PROVE Watermark < t.seq
    <2>1. t.seq \in UnderWay
        BY DEF UnderWay
    <2>2. t.seq \in 1..Last /\ t.seq \notin 1..Watermark
        BY <1>1, <1>3, <2>1
    <2> QED
        BY <1>1, <1>3, <2>2
<1> QED
    BY <1>3, <1>4

\* A commit or an optimization that starts keeps the invariant.
LEMMA StartKeeps ==
    ASSUME LexInv, StartCommit \/ StartOptimize
    PROVE  LexInv'
<1>1. /\ Types /\ WriterShape /\ Phases /\ TodoShape
    BY DEF LexInv, Shape
<1>2. /\ up /\ replay = 0 /\ holder = "free"
      /\ holder' = IF writer.open THEN "flush" ELSE "merge"
      /\ call' \in {"commit", "optimize"}
      /\ \/ writer' = writer
         \/ /\ writer.open
            /\ writer' = [writer EXCEPT !.seq = Larger(@, Watermark)]
      /\ UNCHANGED <<up, log, todo, replay, segs, nextGen, ckpt, manifest,
                     metadata, files, delmaps, sources, building, unread,
                     found, searcher, hasSearcher, asOf>>
    BY DEF StartCommit, StartOptimize, Serving, Step, logVars, memoryVars,
           diskVars, searchVars
<1>3. /\ Watermark \in 0..Last /\ \A t \in todo : Watermark < t.seq
      /\ writer.seq \in Nat /\ Last \in Nat
    BY <1>1, WatermarkFacts, TypeFacts
<1>4. /\ writer' \in WriterRecord
      /\ writer'.seq = writer.seq \/ writer'.seq = Watermark
      /\ writer'.open = writer.open /\ writer'.known = writer.known
      /\ SameWriting
    <2>1. CASE writer' = writer
        BY <1>1, <2>1 DEF Types, SameWriting
    <2>2. CASE writer' = [writer EXCEPT !.seq = Larger(@, Watermark)]
        BY <1>1, <1>3, <2>2, SMTT(30)
           DEF Types, SameWriting, WriterRecord, Larger
    <2> QED
        BY <1>2, <2>1, <2>2
<1>5. Quiet
    BY <1>2, <1>4 DEF Quiet, MergePhase, Steps
<1>6. TodoShape'
    <2>1. Live' = Live /\ Last' = Last
        BY <1>2, SameLog
    <2>2. \A t \in todo : writer'.seq < t.seq
        BY <1>1, <1>3, <1>4 DEF TodoShape
    <2>3. writer'.seq <= Last
        BY <1>1, <1>3, <1>4 DEF TodoShape
    <2> QED
        BY <1>1, <1>2, <2>1, <2>2, <2>3 DEF TodoShape
<1>7. Phases'
    <2>1. CASE writer.open
        BY <1>1, <1>2, <1>4, <2>1 DEF Phases, MergePhase
    <2>2. CASE ~writer.open
        <3>1. writer' = NoWriter /\ writer = NoWriter
            BY <1>1, <1>2, <2>2 DEF WriterShape
        <3> QED
            BY <1>1, <1>2, <2>2, <3>1 DEF Phases, MergePhase, NoWriter
    <2> QED
        BY <2>1, <2>2
<1> QED
    BY <1>5, <1>6, <1>7, QuietKeeps

\* The buffer is flushed as it fills, and in a commit.
LEMMA FlushIs ==
    ASSUME LexInv, AutoFlush \/ Flush \/ FlushFails
    PROVE  \/ Flushing
           \/ /\ holder = "flush" /\ holder' = "marks" /\ Phases'
              /\ call' = call
              /\ UNCHANGED <<up, log, todo, replay, writer, segs, nextGen,
                             ckpt, manifest, metadata, files, delmaps,
                             sources, building, unread, found, searcher,
                             hasSearcher, asOf>>
<1>1. /\ Types /\ WriterShape /\ Phases /\ Closed
    BY DEF LexInv, Shape
<1>2. writer.buffer # {} => writer.open
    BY <1>1 DEF WriterShape, NoWriter
<1>3. ASSUME AutoFlush PROVE Flushing
    BY <1>1, <1>2, <1>3
       DEF AutoFlush, Flushing, Unlocked, MergePhase, Types, logVars, holderVars,
           searchVars
<1>4. ASSUME FlushFails PROVE Flushing
    <2>1. holder = "flush" /\ holder' = "free" /\ call' = "none" /\ up
        BY <1>1, <1>4 DEF FlushFails, Fails, Step, Phases
    <2> QED
        BY <1>2, <1>4, <2>1
           DEF FlushFails, Flushing, MergePhase, logVars, searchVars
<1>5. CASE Flush
    <2>1. /\ holder = "flush" /\ holder' = "marks" /\ up /\ replay = 0
          /\ writer.open /\ call' = call
          /\ UNCHANGED <<up, log, todo, replay, segs, ckpt, manifest, metadata,
                         delmaps, sources, building, unread, found, searcher,
                         hasSearcher, asOf>>
        BY <1>1, <1>5 DEF Flush, Step, Phases, logVars, searchVars
    <2>2. CASE writer.buffer = {}
        <3>1. UNCHANGED <<writer, files, nextGen>>
            BY <1>5, <2>2 DEF Flush
        <3>2. Phases'
            BY <1>1, <2>1, <2>2, <3>1 DEF Phases, MergePhase
        <3> QED
            BY <2>1, <3>1, <3>2
    <2>3. CASE writer.buffer # {}
        <3>1. WriteBuffer /\ writer' = FlushedWriter(writer)
            BY <1>5, <2>3 DEF Flush
        <3>2. Flushing
            BY <1>1, <2>1, <3>1 DEF Flushing, MergePhase, Types
        <3> QED
            BY <3>2
    <2> QED
        BY <2>2, <2>3
<1> QED
    BY <1>3, <1>4, <1>5

\* It keeps the invariant.
LEMMA FlushKeeps ==
    ASSUME LexInv, AutoFlush \/ Flush \/ FlushFails
    PROVE  LexInv'
<1>1. CASE Flushing
    BY <1>1, FlushingKeeps
<1>2. CASE ~Flushing
    <2>1. /\ holder = "flush" /\ holder' = "marks" /\ Phases'
          /\ call' = call
          /\ UNCHANGED <<up, log, todo, replay, writer, segs, nextGen, ckpt,
                         manifest, metadata, files, delmaps, sources, building,
                         unread, found, searcher, hasSearcher, asOf>>
        BY <1>2, FlushIs
    <2>2. Types /\ Phases
        BY DEF LexInv, Shape
    <2>3. up /\ replay = 0
        BY <2>1, <2>2 DEF Phases
    <2> QED
        BY <2>1, <2>2, <2>3, QuietStep DEF MergePhase, Steps, Types
<1> QED
    BY <1>1, <1>2

-----------------------------------------------------------------------------
(* The writer's commit.                                                    *)

\* What a saved bitmap changes of the marks.
LEMMA SavedFacts ==
    ASSUME Shape, NEW s \in writer.dirty,
           delmaps' = With(delmaps, s, writer.marks[s]),
           writer' = [writer EXCEPT !.dirty = @ \ {s}],
           UNCHANGED <<files, segs>>
    PROVE  /\ delmaps' \in Maps(SUBSET Docs)
           /\ DOMAIN delmaps' = DOMAIN delmaps \cup {s}
           /\ s \in DOMAIN writer.marks
           /\ writer.manager /\ writer.open
           /\ writer' \in WriterRecord
           /\ writer'.dirty = writer.dirty \ {s}
           /\ writer'.open = writer.open /\ writer'.buffer = writer.buffer
           /\ writer'.known = writer.known /\ writer'.flushed = writer.flushed
           /\ writer'.pending = writer.pending
           /\ writer'.manager = writer.manager /\ writer'.marks = writer.marks
           /\ writer'.flips = writer.flips
           /\ writer'.superseded = writer.superseded /\ writer'.seq = writer.seq
           /\ \A u : /\ DocsOf(u)' = DocsOf(u) /\ Marks(u)' = Marks(u)
                     /\ Saved(u)' = IF u = s THEN Marks(s) ELSE Saved(u)
                     /\ Saved(u) \subseteq Saved(u)'
                     /\ Marked(u)' = Marked(u) /\ Kept(u)' = Kept(u)
                     /\ Hidden(u)' = Hidden(u)
<1>1. Types /\ WriterShape /\ BitmapShape
    BY DEF Shape
<1>2. /\ writer.marks \in Maps(SUBSET Docs) /\ delmaps \in Maps(SUBSET Docs)
      /\ s \in Nat
    BY <1>1, TypeFacts DEF Types
<1>3. s \in DOMAIN writer.marks /\ writer.manager
    BY <1>1 DEF WriterShape
<1>4. PICK m : m = writer.marks[s]
    OBVIOUS
<1>5. m \subseteq Docs /\ m = Marks(s)
    <2>1. ASSUME NEW f \in Maps(SUBSET Docs), NEW x \in DOMAIN f
          PROVE  f[x] \subseteq Docs /\ At(f, x, {}) = f[x]
        BY AtMember
    <2> QED
        BY <1>2, <1>3, <1>4, <2>1 DEF Marks
<1>6. /\ delmaps' \in Maps(SUBSET Docs)
      /\ DOMAIN delmaps' = DOMAIN delmaps \cup {s}
      /\ \A u : Saved(u)' = IF u = s THEN m ELSE Saved(u)
    <2>1. ASSUME NEW f \in Maps(SUBSET Docs), NEW x \in Nat, NEW v \in SUBSET Docs
          PROVE  /\ With(f, x, v) \in Maps(SUBSET Docs)
                 /\ DOMAIN With(f, x, v) = DOMAIN f \cup {x}
                 /\ \A u : At(With(f, x, v), u, {}) =
                               IF u = x THEN v ELSE At(f, u, {})
        <3>1. PICK V : V = SUBSET Docs
            OBVIOUS
        <3>2. f \in Maps(V) /\ v \in V
            BY <3>1
        <3>3. /\ With(f, x, v) \in Maps(V)
              /\ DOMAIN With(f, x, v) = DOMAIN f \cup {x}
              /\ \A u, default : At(With(f, x, v), u, default) =
                                     IF u = x THEN v ELSE At(f, u, default)
            BY <3>2, WithMember
        <3> QED
            BY <3>1, <3>3
    <2>2. m \in SUBSET Docs
        BY <1>5
    <2>3. /\ With(delmaps, s, m) \in Maps(SUBSET Docs)
          /\ DOMAIN With(delmaps, s, m) = DOMAIN delmaps \cup {s}
          /\ \A u : At(With(delmaps, s, m), u, {}) =
                        IF u = s THEN m ELSE At(delmaps, u, {})
        BY <1>2, <2>1, <2>2, ZenonT(30)
    <2> QED
        BY <1>4, <2>3 DEF Saved
<1>7. /\ writer' \in WriterRecord
      /\ writer'.dirty = writer.dirty \ {s}
      /\ writer'.open = writer.open /\ writer'.buffer = writer.buffer
      /\ writer'.known = writer.known /\ writer'.flushed = writer.flushed
      /\ writer'.pending = writer.pending
      /\ writer'.manager = writer.manager /\ writer'.marks = writer.marks
      /\ writer'.flips = writer.flips
      /\ writer'.superseded = writer.superseded /\ writer'.seq = writer.seq
    BY <1>1 DEF Types, WriterRecord
<1>8. writer.open
    BY <1>1, <1>3 DEF WriterShape, NoWriter
<1>9. \A u : DocsOf(u)' = DocsOf(u) /\ Marks(u)' = Marks(u)
    BY <1>7 DEF DocsOf, Marks
<1>10. Saved(s) \subseteq Marks(s)
    BY <1>1, <1>3, TypeFacts DEF BitmapShape
<1>11. \A u : Saved(u) \subseteq Saved(u)' /\ Marked(u)' = Marked(u)
    BY <1>5, <1>6, <1>9, <1>10 DEF Marked
<1>12. \A u : Kept(u)' = Kept(u)
    BY <1>9, <1>11 DEF Kept
<1>13. \A u : Hidden(u)' = Hidden(u)
    BY <1>3, <1>7 DEF Hidden
<1> QED
    BY <1>3, <1>5, <1>6, <1>7, <1>8, <1>9, <1>11, <1>12, <1>13

\* A bitmap that is saved keeps the invariant.
LEMMA SaveMarkKeeps ==
    ASSUME LexInv, NEW s \in writer.dirty,
           delmaps' = With(delmaps, s, writer.marks[s]),
           writer' = [writer EXCEPT !.dirty = @ \ {s}],
           UNCHANGED <<up, log, todo, replay, segs, nextGen, ckpt, manifest,
                       metadata, files, holder, call, sources, building, unread,
                       found, searcher, hasSearcher, asOf>>
    PROVE  LexInv'
<1>1. /\ Types /\ LogShape /\ TodoShape /\ WriterShape /\ BitmapShape /\ Phases
      /\ Closed /\ Numbers /\ Logged /\ SearchShape /\ Shape
      /\ Contents /\ Once /\ Searches
    BY DEF LexInv, Shape
<1>2. /\ delmaps' \in Maps(SUBSET Docs)
      /\ DOMAIN delmaps' = DOMAIN delmaps \cup {s}
      /\ s \in DOMAIN writer.marks
      /\ writer.manager /\ writer.open
      /\ writer' \in WriterRecord
      /\ writer'.dirty = writer.dirty \ {s}
      /\ writer'.open = writer.open /\ writer'.buffer = writer.buffer
      /\ writer'.known = writer.known /\ writer'.flushed = writer.flushed
      /\ writer'.pending = writer.pending
      /\ writer'.manager = writer.manager /\ writer'.marks = writer.marks
      /\ writer'.flips = writer.flips
      /\ writer'.superseded = writer.superseded /\ writer'.seq = writer.seq
      /\ \A u : /\ DocsOf(u)' = DocsOf(u) /\ Marks(u)' = Marks(u)
                /\ Saved(u)' = IF u = s THEN Marks(s) ELSE Saved(u)
                /\ Saved(u) \subseteq Saved(u)'
                /\ Marked(u)' = Marked(u) /\ Kept(u)' = Kept(u)
                /\ Hidden(u)' = Hidden(u)
    BY <1>1, SavedFacts
<1>3. /\ Live' = Live /\ OpenAdds' = OpenAdds /\ DoneDrops' = DoneDrops
      /\ Unreplayed' = Unreplayed /\ Unsaved' = Unsaved
      /\ Drops(1..metadata)' = Drops(1..metadata)
      /\ Drops(1..asOf)' = Drops(1..asOf)
      /\ Last' = Last /\ Adds(1..Last)' = Adds(1..Last)
    <2>1. Drops(1..asOf)' = Drops(1..asOf)
        BY DEF Drops
    <2> QED
        BY <2>1, SameLog, SameUnsaved
<1>4. SegIds' = SegIds
    BY <1>2 DEF SegIds
<1>5. Types'
    <2>1. todo' \subseteq Task' /\ replay' \in 0..Last' /\ log' \in Seq(Record)
          /\ Last' <= MaxSeq
        BY <1>1, <1>3 DEF Types, Task
    <2> QED
        BY <1>1, <1>2, <2>1 DEF Types
<1>6. LogShape' /\ TodoShape'
    BY <1>1, <1>2, <1>3 DEF LogShape, TodoShape
<1>7. WriterShape'
    BY <1>1, <1>2 DEF WriterShape, MergePhase
<1>8. BitmapShape'
    <2>1. \A u \in DOMAIN delmaps' :
              writer.manager \/ u \in writer.flushed => Saved(u)' \subseteq Marks(u)
        BY <1>1, <1>2 DEF BitmapShape
    <2>2. \A u \in (SegIds \cup DOMAIN manifest) \ writer'.dirty :
              Marks(u) \subseteq Saved(u)'
        BY <1>1, <1>2 DEF BitmapShape
    <2> QED
        BY <1>2, <1>4, <2>1, <2>2 DEF BitmapShape
<1>9. Phases' /\ Closed' /\ SearchShape'
    <2>1. Phases'
        BY <1>1, <1>2 DEF Phases, MergePhase
    <2>2. up
        BY <1>1, <1>2 DEF Closed, NoWriter
    <2>3. Closed'
        BY <1>1, <2>2 DEF Closed
    <2>4. SearchShape'
        BY <1>1 DEF SearchShape
    <2> QED
        BY <2>1, <2>3, <2>4
<1>10. Numbers'
    BY <1>1, <1>2 DEF Numbers, Stems, Closed, NoWriter
<1>11. Logged'
    BY <1>1, <1>2, <1>3 DEF Logged
<1>12. MemoryHas' /\ SupersededHeld'
    BY <1>1, <1>2, <1>3, <1>4 DEF Contents, MemoryHas, SupersededHeld
<1>13. MemoryHides'
    <2>1. /\ up => writer.buffer \cap DoneDrops = {}
          /\ up => \A u \in SegIds : \A d \in DocsOf(u) \cap DoneDrops :
                 /\ d \in Marked(u)
                 /\ \/ d \in writer.superseded
                    \/ /\ u \in DOMAIN segs /\ segs[u].hasDeletions
                       /\ d \in Saved(u)
        BY <1>1 DEF Contents, MemoryHides
    <2>2. \A u : \A d \in Saved(u) : d \in Saved(u)'
        BY <1>2
    <2> QED
        BY <1>2, <1>3, <1>4, <2>1, <2>2 DEF MemoryHides
<1>14. FlagsIn(segs)' /\ FlagsIn(writer.pending)' /\ ManifestFlags'
    BY <1>1, <1>2, <1>3 DEF Contents, FlagsIn, ManifestFlags
<1>15. FlaggedIn(segs)' /\ FlaggedIn(writer.pending)' /\ FlaggedIn(manifest)'
    BY <1>1, <1>2, <1>3 DEF Contents, FlaggedIn
<1>16. HidesIn(segs)' /\ HidesIn(writer.pending)' /\ HidesIn(manifest)'
    <2>1. \A u : \A d \in Saved(u) : d \in Saved(u)'
        BY <1>2
    <2> QED
        BY <1>1, <1>2, <1>3, <2>1 DEF Contents, HidesIn
<1>17. CheckpointKept' /\ ManifestHas' /\ ManifestFrom'
    BY <1>1, <1>2, <1>3 DEF Contents, CheckpointKept, ManifestHas, ManifestFrom
<1>18. MemoryOnce'
    BY <1>1, <1>2, <1>4 DEF Once, MemoryOnce
<1>19. StorageOnce'
    <2>1. \A u : MarksOf(u, manifest[u]) \subseteq MarksOf(u, manifest[u])'
        BY <1>2 DEF MarksOf, Saved
    <2> QED
        BY <1>1, <1>2, <2>1 DEF Once, StorageOnce
<1>20. SearchOfMemory' /\ SearchOfCheckpoint'
    <2>1. \A u : \A d \in Saved(u) : d \in Saved(u)'
        BY <1>2
    <2>2. SearchOfMemory'
        BY <1>1, <1>2, <1>3, <2>1 DEF Searches, SearchOfMemory, MergePhase
    <2>3. SearchOfCheckpoint'
        BY <1>1, <1>2, <1>3, <2>1 DEF Searches, SearchOfCheckpoint
    <2> QED
        BY <2>2, <2>3
<1> QED
    BY <1>5, <1>6, <1>7, <1>8, <1>9, <1>10, <1>11, <1>12, <1>13, <1>14, <1>15,
       <1>16, <1>17, <1>18, <1>19, <1>20
       DEF LexInv, Shape, Contents, Once, Searches

\* DeletionManager::flush, and a step of it that fails, keep the invariant.
LEMMA SaveMarksKeeps ==
    ASSUME LexInv, SaveMarks \/ SaveMarksFails
    PROVE  LexInv'
<1>1. Types /\ Phases
    BY DEF LexInv, Shape
<1>2. holder = "marks" /\ up /\ replay = 0 /\ writer.open
    BY <1>1 DEF SaveMarks, SaveMarksFails, Fails, Step, Phases
<1>3. CASE SaveMarks /\ writer.dirty # {}
    <2>1. /\ UNCHANGED <<up, log, todo, replay, segs, nextGen, ckpt, manifest,
                         metadata, files, holder, call, sources, building,
                         unread, found, searcher, hasSearcher, asOf>>
          /\ \E s \in writer.dirty :
                 /\ delmaps' = With(delmaps, s, writer.marks[s])
                 /\ writer' = [writer EXCEPT !.dirty = @ \ {s}]
        BY <1>3 DEF SaveMarks, logVars, memoryVars, searchVars
    <2> QED
        BY <2>1, SaveMarkKeeps
<1>4. CASE (SaveMarks /\ writer.dirty = {}) \/ SaveMarksFails
    <2>1. /\ UNCHANGED <<up, log, todo, replay, writer, segs, nextGen, ckpt,
                         manifest, metadata, files, delmaps, sources, building,
                         unread, found, searcher, hasSearcher, asOf>>
          /\ holder' \in {"flags", "free"} /\ call' \in {call, "none"}
          /\ holder' = "flags" => writer.dirty = {}
        BY <1>4 DEF SaveMarks, SaveMarksFails, Fails, Step, logVars, memoryVars,
                    diskVars, searchVars
    <2>2. Phases'
        BY <1>1, <1>2, <2>1 DEF Phases, MergePhase
    <2> QED
        BY <1>1, <1>2, <2>1, <2>2, QuietStep DEF MergePhase, Steps, Types
<1> QED
    BY <1>3, <1>4

\* A manifest of these entries is saved, and memory takes it, or the step
\* fails.
Publishing(entries) ==
    /\ holder \in {"flags", "publish"}
    /\ entries \in Maps(Entry)
    /\ DOMAIN segs \subseteq DOMAIN entries /\ DOMAIN entries \subseteq SegIds
    /\ \A s \in DOMAIN entries : \A d \in DocsOf(s) \cap Marked(s) :
           entries[s].hasDeletions
    /\ manifest' = entries
    /\ \/ segs' = entries /\ writer'.flips = {}
       \/ segs' = segs /\ writer' = writer
    /\ writer' \in WriterRecord
    /\ writer'.open = writer.open /\ writer'.buffer = writer.buffer
    /\ writer'.known = writer.known /\ writer'.flushed = writer.flushed
    /\ writer'.manager = writer.manager /\ writer'.marks = writer.marks
    /\ writer'.dirty = writer.dirty
    /\ writer'.superseded = writer.superseded /\ writer'.seq = writer.seq
    /\ DOMAIN writer'.pending \subseteq DOMAIN writer.pending
    /\ writer.flushed \subseteq DOMAIN segs' \cup DOMAIN writer'.pending
    /\ FlagsIn(writer.pending)' /\ FlaggedIn(writer.pending)'
    /\ HidesIn(writer.pending)'
    /\ holder' \in {"publish", "checkpoint", "free"}
    /\ holder' # "free" => writer'.flips = {}
    /\ holder' = "checkpoint" => writer'.pending = <<>>
    /\ call' \in {"none", "commit", "optimize"}
    /\ UNCHANGED <<up, log, todo, replay, nextGen, ckpt, metadata, files, delmaps,
                   sources, building, unread, found, searcher, hasSearcher,
                   asOf>>

\* Every bitmap has been saved, so that the entries tell of all that is marked.
LEMMA PublishingFacts ==
    ASSUME LexInv, NEW entries, Publishing(entries)
    PROVE  /\ up /\ replay = 0 /\ writer.open /\ ~MergePhase /\ ~MergePhase'
           /\ writer.dirty = {} /\ writer.buffer = {} /\ sources = {}
           /\ Unreplayed = {}
           /\ \A s \in SegIds : Marked(s) = Saved(s)
           /\ \A s \in SegIds : \A d \in DocsOf(s) \cap DoneDrops : d \in Saved(s)
           /\ \A s : /\ DocsOf(s)' = DocsOf(s) /\ Saved(s)' = Saved(s)
                     /\ Marks(s)' = Marks(s) /\ Marked(s)' = Marked(s)
                     /\ Kept(s)' = Kept(s)
           /\ SegIds' = SegIds
           /\ \A s : Hidden(s) \subseteq Marked(s)
<1>1. /\ Types /\ WriterShape /\ BitmapShape /\ Phases /\ MemoryHides
      /\ holder \in {"flags", "publish"}
    BY DEF LexInv, Shape, Contents, Publishing
<1>2. /\ up /\ replay = 0 /\ writer.open /\ writer.dirty = {}
      /\ writer.buffer = {} /\ sources = {}
    BY <1>1 DEF Phases
<1>3. \A s \in SegIds : Marked(s) = Saved(s)
    BY <1>1, <1>2 DEF BitmapShape, Marked
<1>4. \A s : /\ DocsOf(s)' = DocsOf(s) /\ Saved(s)' = Saved(s)
             /\ Marks(s)' = Marks(s) /\ Marked(s)' = Marked(s)
             /\ Kept(s)' = Kept(s)
    BY SameBitmaps DEF Publishing
<1>5. SegIds' = SegIds
    BY <1>1 DEF Publishing, SegIds, WriterShape
<1>6. \A s : Hidden(s) \subseteq Marked(s)
    BY DEF Hidden, Marked, Marks, Saved, MarksOf
<1>7. ~MergePhase /\ ~MergePhase'
    BY <1>1 DEF MergePhase, Publishing
<1>8. \A s \in SegIds : \A d \in DocsOf(s) \cap DoneDrops : d \in Saved(s)
    BY <1>1, <1>2, <1>3 DEF MemoryHides
<1> QED
    BY <1>2, <1>3, <1>4, <1>5, <1>6, <1>7, <1>8 DEF Unreplayed

\* A publication keeps the shape of the state.
LEMMA PublishingShape ==
    ASSUME LexInv, NEW entries, Publishing(entries)
    PROVE  Shape'
<1>1. /\ Types /\ LogShape /\ TodoShape /\ WriterShape /\ BitmapShape /\ Phases
      /\ Closed /\ Numbers /\ Logged /\ SearchShape
    BY DEF LexInv, Shape
<1>2. /\ up /\ replay = 0 /\ writer.open /\ ~MergePhase /\ ~MergePhase'
      /\ writer.dirty = {} /\ writer.buffer = {} /\ sources = {}
      /\ SegIds' = SegIds
      /\ \A s : DocsOf(s)' = DocsOf(s) /\ Saved(s)' = Saved(s)
                /\ Marks(s)' = Marks(s)
    BY PublishingFacts
<1>3. /\ entries \in Maps(Entry)
      /\ DOMAIN segs \subseteq DOMAIN entries /\ DOMAIN entries \subseteq SegIds
      /\ manifest' = entries /\ segs' \in {segs, entries}
      /\ writer' \in WriterRecord
      /\ writer'.open = writer.open /\ writer'.buffer = writer.buffer
      /\ writer'.known = writer.known /\ writer'.flushed = writer.flushed
      /\ writer'.manager = writer.manager /\ writer'.marks = writer.marks
      /\ writer'.dirty = writer.dirty
      /\ writer'.flips = {} \/ writer'.flips = writer.flips
      /\ writer'.superseded = writer.superseded /\ writer'.seq = writer.seq
      /\ DOMAIN writer'.pending \subseteq DOMAIN writer.pending
      /\ writer.flushed \subseteq DOMAIN segs' \cup DOMAIN writer'.pending
      /\ holder' \in {"publish", "checkpoint", "free"}
      /\ holder' # "free" => writer'.flips = {}
      /\ holder' = "checkpoint" => writer'.pending = <<>>
      /\ call' \in {"none", "commit", "optimize"}
      /\ UNCHANGED <<up, log, todo, replay, nextGen, ckpt, metadata, files,
                     delmaps, sources, building, unread, found, searcher,
                     hasSearcher, asOf>>
    BY DEF Publishing
<1>4. /\ Last' = Last /\ Live' = Live /\ Adds(1..Last)' = Adds(1..Last)
    BY <1>3, SameLog
<1>5. SegIds \subseteq writer.known
    BY <1>1, <1>2 DEF SegIds, WriterShape
<1>6. Types'
    <2>1. todo' \subseteq Task' /\ replay' \in 0..Last' /\ log' \in Seq(Record)
          /\ Last' <= MaxSeq
        BY <1>1, <1>3, <1>4 DEF Types, Task
    <2>2. holder' \in Steps
        BY <1>3 DEF Steps
    <2>3. segs' \in Maps(Entry) /\ manifest' \in Maps(Entry)
        BY <1>1, <1>3 DEF Types
    <2> QED
        BY <1>1, <1>3, <2>1, <2>2, <2>3 DEF Types
<1>7. LogShape' /\ TodoShape'
    BY <1>1, <1>2, <1>3, <1>4 DEF LogShape, TodoShape
<1>8. WriterShape'
    <2>1. DOMAIN writer'.pending \subseteq writer'.flushed
        BY <1>1, <1>3 DEF WriterShape
    <2>2. DOMAIN segs' \subseteq writer'.known
        BY <1>3, <1>5 DEF SegIds
    <2>3. writer'.flips \subseteq DOMAIN writer'.marks /\ writer'.dirty = {}
          /\ (~writer'.manager => writer'.marks = <<>> /\ writer'.flips = {})
        BY <1>1, <1>2, <1>3 DEF WriterShape
    <2>4. writer'.open /\ writer'.flushed \subseteq writer'.known
        BY <1>1, <1>2, <1>3 DEF WriterShape
    <2> QED
        BY <1>3, <2>1, <2>2, <2>3, <2>4 DEF WriterShape
<1>9. BitmapShape'
    <2>1. SegIds' \cup DOMAIN manifest' \subseteq SegIds
        BY <1>2, <1>3
    <2> QED
        BY <1>1, <1>2, <1>3, <2>1 DEF BitmapShape
<1>10. Phases'
    BY <1>2, <1>3 DEF Phases, MergePhase
<1>11. Closed'
    BY <1>2, <1>3 DEF Closed
<1>12. Numbers'
    <2>1. DOMAIN segs' \cup DOMAIN manifest' \subseteq writer.known
        BY <1>3, <1>5 DEF SegIds
    <2> QED
        BY <1>1, <1>2, <1>3, <2>1 DEF Numbers, Stems
<1>13. Logged' /\ SearchShape'
    BY <1>1, <1>2, <1>3, <1>4 DEF Logged, SearchShape
<1> QED
    BY <1>6, <1>7, <1>8, <1>9, <1>10, <1>11, <1>12, <1>13 DEF Shape

\* It keeps what memory and storage hold.
LEMMA PublishingContents ==
    ASSUME LexInv, NEW entries, Publishing(entries)
    PROVE  Contents'
<1>1. /\ Types /\ LogShape /\ TodoShape /\ WriterShape /\ Contents
    BY DEF LexInv, Shape
<1>2. /\ up /\ replay = 0 /\ Unreplayed = {}
      /\ \A s \in SegIds : Marked(s) = Saved(s)
      /\ \A s \in SegIds : \A d \in DocsOf(s) \cap DoneDrops : d \in Saved(s)
      /\ \A s : /\ DocsOf(s)' = DocsOf(s) /\ Saved(s)' = Saved(s)
                /\ Marked(s)' = Marked(s) /\ Kept(s)' = Kept(s)
      /\ SegIds' = SegIds
    BY PublishingFacts
<1>3. /\ DOMAIN segs \subseteq DOMAIN entries /\ DOMAIN entries \subseteq SegIds
      /\ \A s \in DOMAIN entries : \A d \in DocsOf(s) \cap Marked(s) :
             entries[s].hasDeletions
      /\ manifest' = entries
      /\ \/ segs' = entries
         \/ segs' = segs /\ writer' = writer
      /\ writer'.buffer = writer.buffer /\ writer'.flushed = writer.flushed
      /\ writer'.superseded = writer.superseded
      /\ writer.flushed \subseteq DOMAIN segs' \cup DOMAIN writer'.pending
      /\ FlagsIn(writer.pending)' /\ FlaggedIn(writer.pending)'
      /\ HidesIn(writer.pending)'
      /\ UNCHANGED <<up, log, todo, replay, metadata>>
    BY DEF Publishing
<1>4. /\ Live' = Live /\ OpenAdds' = OpenAdds /\ DoneDrops' = DoneDrops
      /\ Unreplayed' = Unreplayed /\ Unsaved' = Unsaved
      /\ Drops(1..metadata)' = Drops(1..metadata)
    BY <1>3, SameLog, SameUnsaved
<1>5. Drops(1..metadata) \subseteq DoneDrops
    BY <1>1, CheckpointDone
<1>6. MemoryHas' /\ SupersededHeld'
    BY <1>1, <1>2, <1>3, <1>4 DEF Contents, MemoryHas, SupersededHeld
<1>7. MemoryHides'
    <2> SUFFICES ASSUME NEW s \in SegIds, NEW d \in DocsOf(s) \cap DoneDrops
                 PROVE  /\ d \in Marked(s)
                        /\ \/ d \in writer.superseded
                           \/ /\ s \in DOMAIN segs' /\ segs'[s].hasDeletions
                              /\ d \in Saved(s)
        BY <1>1, <1>2, <1>3, <1>4 DEF Contents, MemoryHides
    <2>1. /\ d \in Marked(s)
          /\ \/ d \in writer.superseded
             \/ s \in DOMAIN segs /\ segs[s].hasDeletions /\ d \in Saved(s)
        BY <1>1, <1>2 DEF Contents, MemoryHides
    <2> QED
        BY <1>3, <2>1
<1>8. FlagsIn(segs)'
    <2>1. CASE segs' = entries
        BY <1>2, <1>3, <2>1 DEF FlagsIn
    <2>2. CASE segs' = segs /\ writer' = writer
        BY <1>1, <1>2, <1>3, <1>4, <2>2 DEF Contents, FlagsIn
    <2> QED
        BY <1>3, <2>1, <2>2
<1>9. ManifestFlags'
    BY <1>2, <1>3, <1>4 DEF ManifestFlags
<1>10. FlaggedIn(segs)' /\ FlaggedIn(manifest)'
    <2>1. FlaggedIn(manifest)'
        BY <1>2, <1>3, <1>4 DEF FlaggedIn
    <2>2. CASE segs' = entries
        BY <1>2, <1>3, <1>4, <2>1, <2>2 DEF FlaggedIn
    <2>3. CASE segs' = segs
        BY <1>1, <1>2, <1>4, <2>1, <2>3 DEF Contents, FlaggedIn
    <2> QED
        BY <1>3, <2>1, <2>2, <2>3
<1>11. HidesIn(segs)' /\ HidesIn(manifest)'
    <2>1. \A s \in DOMAIN entries : \A d \in DocsOf(s) \cap Drops(1..metadata) :
              entries[s].hasDeletions /\ d \in Saved(s)
        BY <1>2, <1>3, <1>5
    <2>2. HidesIn(manifest)'
        BY <1>2, <1>3, <1>4, <2>1 DEF HidesIn
    <2>3. CASE segs' = entries
        BY <1>2, <1>4, <2>1, <2>2, <2>3 DEF HidesIn
    <2>4. CASE segs' = segs
        BY <1>1, <1>2, <1>4, <2>2, <2>4 DEF Contents, HidesIn
    <2> QED
        BY <1>3, <2>2, <2>3, <2>4
<1>12. CheckpointKept' /\ ManifestHas'
    BY <1>1, <1>2, <1>3, <1>4 DEF Contents, CheckpointKept, ManifestHas
<1>13. ManifestFrom'
    <2>1. DOMAIN entries \subseteq DOMAIN segs' \cup DOMAIN writer'.pending
        BY <1>3 DEF SegIds
    <2> QED
        BY <1>3, <2>1 DEF ManifestFrom
<1> QED
    BY <1>3, <1>6, <1>7, <1>8, <1>9, <1>10, <1>11, <1>12, <1>13 DEF Contents

\* A document stays in one place, and searches find it as before.
LEMMA PublishingKeeps ==
    ASSUME LexInv, NEW entries, Publishing(entries)
    PROVE  LexInv'
<1>1. /\ WriterShape /\ Once /\ SearchOfMemory /\ SearchOfCheckpoint
    BY DEF LexInv, Shape, Searches
<1>2. /\ ~MergePhase /\ writer.buffer = {}
      /\ \A s \in SegIds : Marked(s) = Saved(s)
      /\ \A s : /\ DocsOf(s)' = DocsOf(s) /\ Saved(s)' = Saved(s)
                /\ Marks(s)' = Marks(s) /\ Kept(s)' = Kept(s)
      /\ SegIds' = SegIds
      /\ \A s : Hidden(s) \subseteq Marked(s)
    BY PublishingFacts
<1>3. /\ DOMAIN segs \subseteq DOMAIN entries /\ DOMAIN entries \subseteq SegIds
      /\ \A s \in DOMAIN entries : \A d \in DocsOf(s) \cap Marked(s) :
             entries[s].hasDeletions
      /\ manifest' = entries /\ segs' \in {segs, entries}
      /\ writer'.buffer = writer.buffer /\ writer'.flushed = writer.flushed
      /\ writer'.manager = writer.manager /\ writer'.marks = writer.marks
      /\ writer'.superseded = writer.superseded
      /\ UNCHANGED <<log, todo, replay, ckpt, files, delmaps, building, unread,
                     found, searcher, hasSearcher, asOf>>
    BY DEF Publishing
<1>4. ASSUME NEW s \in SegIds, NEW d \in DocsOf(s), d \in Hidden(s)
      PROVE  d \in Hidden(s)'
    <2>1. CASE writer.manager \/ segs' = segs
        BY <1>3, <1>4, <2>1 DEF Hidden, MarksOf
    <2>2. CASE ~writer.manager /\ segs' = entries
        <3>1. s \in DOMAIN segs /\ d \in MarksOf(s, segs[s])
            BY <1>4, <2>2 DEF Hidden
        <3>2. s \in DOMAIN entries /\ entries[s].hasDeletions /\ d \in Saved(s)
            BY <1>2, <1>3, <1>4, <3>1
        <3> QED
            BY <1>3, <2>2, <3>2 DEF Hidden, MarksOf, Saved
    <2> QED
        BY <1>3, <2>1, <2>2
<1>5. MemoryOnce'
    <2>1. \A s, u \in SegIds : s # u =>
              DocsOf(s) \cap DocsOf(u) \subseteq Hidden(s)' \cup Hidden(u)'
        BY <1>1, <1>4 DEF Once, MemoryOnce
    <2> QED
        BY <1>2, <1>3, <2>1 DEF MemoryOnce
<1>6. StorageOnce'
    <2> SUFFICES ASSUME NEW s \in DOMAIN entries, NEW u \in DOMAIN entries, s # u,
                        NEW d \in DocsOf(s) \cap DocsOf(u)
                 PROVE  d \in MarksOf(s, entries[s])' \cup MarksOf(u, entries[u])'
        BY <1>2, <1>3 DEF StorageOnce, MarksOf
    <2>1. ASSUME NEW v \in DOMAIN entries, d \in DocsOf(v), d \in Hidden(v)
          PROVE  entries[v].hasDeletions /\ d \in Saved(v)
        BY <1>2, <1>3, <2>1
    <2>2. d \in Hidden(s) \cup Hidden(u)
        BY <1>1, <1>3 DEF Once, MemoryOnce
    <2> QED
        BY <1>3, <2>1, <2>2 DEF MarksOf, Saved
<1>7. /\ Live' = Live /\ DoneDrops' = DoneDrops
      /\ Drops(1..asOf)' = Drops(1..asOf)
    <2>1. Drops(1..asOf)' = Drops(1..asOf)
        BY <1>3 DEF Drops
    <2> QED
        BY <1>3, <2>1, SameLog
<1>8. SearchOfMemory'
    <2>1. DOMAIN segs' \ writer.flushed = DOMAIN segs \ writer.flushed
        BY <1>3 DEF SegIds
    <2>2. DOMAIN segs \subseteq DOMAIN segs'
        BY <1>3
    <2> QED
        BY <1>1, <1>2, <1>3, <1>7, <2>1, <2>2 DEF SearchOfMemory
<1>9. SearchOfCheckpoint'
    BY <1>1, <1>2, <1>3, <1>7 DEF SearchOfCheckpoint
<1> QED
    BY <1>5, <1>6, <1>8, <1>9, PublishingShape, PublishingContents
       DEF LexInv, Once, Searches

\* The entries with the flags of the bitmaps that changed.
LEMMA FlaggedEntries ==
    ASSUME Types, NEW entries \in Maps(Entry)
    PROVE  /\ Flagged(entries) \in Maps(Entry)
           /\ DOMAIN Flagged(entries) = DOMAIN entries
           /\ \A s \in DOMAIN entries : s \in writer.flips =>
                  Flagged(entries)[s].hasDeletions
           /\ \A s \in DOMAIN entries : s \notin writer.flips =>
                  Flagged(entries)[s] = entries[s]
           /\ \A s \in DOMAIN entries : entries[s].hasDeletions =>
                  Flagged(entries)[s].hasDeletions
<1>1. entries \in [DOMAIN entries -> Entry] /\ DOMAIN entries \subseteq Nat
    BY MapShape
<1>2. ASSUME NEW S, NEW s PROVE Cardinality(S \cap DocsOf(s)) \in Nat
    <2>1. S \cap DocsOf(s) \subseteq 1..MaxSeq /\ MaxSeq \in Nat
        BY TypeFacts DEF Docs
    <2>2. IsFiniteSet(1..MaxSeq)
        BY <2>1, FS_Interval
    <2> QED
        BY <2>1, <2>2, FS_Subset, FS_CardinalityType
<1>3. ASSUME NEW s
      PROVE  [hasDeletions |-> TRUE,
              deleted |-> Cardinality(writer.marks[s] \cap DocsOf(s))] \in Entry
    BY <1>2 DEF Entry
<1>4. DOMAIN Flagged(entries) = DOMAIN entries
    BY DEF Flagged
<1>5. Flagged(entries) \in [DOMAIN entries -> Entry]
    BY <1>1, <1>3 DEF Flagged
<1>6. Flagged(entries) \in Maps(Entry)
    BY <1>1, <1>4, <1>5, MapShape
<1>7. ASSUME NEW s \in DOMAIN entries
      PROVE  /\ s \in writer.flips => Flagged(entries)[s].hasDeletions
             /\ s \notin writer.flips => Flagged(entries)[s] = entries[s]
    BY DEF Flagged
<1> QED
    BY <1>4, <1>6, <1>7

\* The rest of flush_deletions keeps the invariant.
LEMMA FlagKeeps ==
    ASSUME LexInv, FlagDeletions \/ FlagDeletionsFails
    PROVE  LexInv'
<1>1. /\ Types /\ WriterShape /\ Phases
      /\ FlagsIn(segs) /\ FlagsIn(writer.pending) /\ FlaggedIn(writer.pending)
      /\ HidesIn(writer.pending)
    BY DEF LexInv, Shape, Contents
<1>2. /\ holder = "flags" /\ holder' \in {"publish", "free"}
      /\ call' \in {call, "none"}
      /\ UNCHANGED <<up, log, todo, replay, nextGen, ckpt, metadata, files,
                     delmaps, sources, building, unread, found, searcher,
                     hasSearcher, asOf>>
    BY DEF FlagDeletions, FlagDeletionsFails, Fails, Step, logVars, searchVars
<1>3. up /\ replay = 0 /\ writer.open /\ writer.dirty = {} /\ writer.buffer = {}
    BY <1>1, <1>2 DEF Phases
<1>4. CASE UNCHANGED <<writer, segs, manifest>> /\ (writer.flips = {} \/ holder' = "free")
    <2>1. Phases'
        BY <1>1, <1>2, <1>3, <1>4 DEF Phases, MergePhase
    <2> QED
        BY <1>1, <1>2, <1>3, <1>4, <2>1, QuietStep DEF MergePhase, Steps, Types
<1>5. CASE /\ manifest' = Flagged(segs)
           /\ \/ /\ segs' = Flagged(segs) /\ writer.flips # {}
                 /\ writer' = [writer EXCEPT !.pending = Flagged(@), !.flips = {}]
              \/ segs' = segs /\ writer' = writer /\ holder' = "free"
    <2>1. segs \in Maps(Entry) /\ writer.pending \in Maps(Entry)
        BY <1>1, TypeFacts DEF Types
    <2>2. PICK e : e = Flagged(segs)
        OBVIOUS
    <2>3. /\ e \in Maps(Entry) /\ DOMAIN e = DOMAIN segs
          /\ \A s \in DOMAIN segs : s \in writer.flips => e[s].hasDeletions
          /\ \A s \in DOMAIN segs : segs[s].hasDeletions => e[s].hasDeletions
        BY <1>1, <2>1, <2>2, FlaggedEntries
    <2>4. PICK p : p = Flagged(writer.pending)
        OBVIOUS
    <2>5. /\ p \in Maps(Entry) /\ DOMAIN p = DOMAIN writer.pending
          /\ \A s \in DOMAIN p : s \in writer.flips => p[s].hasDeletions
          /\ \A s \in DOMAIN p :
                 writer.pending[s].hasDeletions => p[s].hasDeletions
        BY <1>1, <2>1, <2>4, FlaggedEntries
    <2>6. Unreplayed = {} /\ Unreplayed' = {}
        BY <1>2, <1>3 DEF Unreplayed
    <2>7. \A s \in DOMAIN e : \A d \in DocsOf(s) \cap Marked(s) : e[s].hasDeletions
        BY <1>1, <1>3, <2>3, <2>6 DEF FlagsIn
    <2>8. \A s \in DOMAIN p : \A d \in DocsOf(s) \cap Marked(s) : p[s].hasDeletions
        BY <1>1, <1>3, <2>5, <2>6 DEF FlagsIn
    <2>9. /\ manifest' = e
          /\ \/ /\ segs' = e /\ writer.flips # {}
                /\ writer' = [writer EXCEPT !.pending = p, !.flips = {}]
             \/ segs' = segs /\ writer' = writer /\ holder' = "free"
        BY <1>5, <2>2, <2>4
    <2>10. /\ writer' \in WriterRecord
           /\ writer'.open = writer.open /\ writer'.buffer = writer.buffer
           /\ writer'.known = writer.known /\ writer'.flushed = writer.flushed
           /\ writer'.manager = writer.manager /\ writer'.marks = writer.marks
           /\ writer'.dirty = writer.dirty
           /\ writer'.superseded = writer.superseded
           /\ writer'.seq = writer.seq
           /\ \/ writer'.flips = {} /\ writer'.pending = p /\ segs' = e
              \/ segs' = segs /\ writer' = writer /\ holder' = "free"
        <3>1. CASE writer' = [writer EXCEPT !.pending = p, !.flips = {}]
            BY <1>1, <2>5, <2>9, <3>1 DEF Types, WriterRecord
        <3>2. CASE writer' = writer
            BY <1>1, <2>5, <2>9, <3>2 DEF Types, WriterRecord
        <3> QED
            BY <2>9, <3>1, <3>2
    <2>11. \A s : /\ DocsOf(s)' = DocsOf(s) /\ Saved(s)' = Saved(s)
                  /\ Marked(s)' = Marked(s)
        BY <1>2, <2>10, SameBitmaps
    <2>12. Unsaved' = Unsaved /\ Drops(1..metadata)' = Drops(1..metadata)
        BY <1>2, SameUnsaved
    <2>13. /\ FlagsIn(writer.pending)' /\ FlaggedIn(writer.pending)'
           /\ HidesIn(writer.pending)'
        <3>1. CASE writer'.pending = p
            <4>1. FlagsIn(writer.pending)' /\ FlaggedIn(writer.pending)'
                BY <2>8, <2>11, <2>12, <3>1 DEF FlagsIn, FlaggedIn
            <4>2. HidesIn(writer.pending)'
                BY <1>1, <2>5, <2>11, <2>12, <3>1 DEF HidesIn
            <4> QED
                BY <4>1, <4>2
        <3>2. CASE writer' = writer
            <4>1. FlagsIn(writer.pending)'
                BY <1>1, <1>2, <2>6, <2>11, <3>2 DEF FlagsIn
            <4>2. FlaggedIn(writer.pending)' /\ HidesIn(writer.pending)'
                BY <1>1, <2>11, <2>12, <3>2 DEF FlaggedIn, HidesIn
            <4> QED
                BY <4>1, <4>2
        <3> QED
            BY <2>10, <3>1, <3>2
    <2>14. /\ DOMAIN writer'.pending = DOMAIN writer.pending
           /\ DOMAIN segs' = DOMAIN segs
        BY <2>3, <2>5, <2>10
    <2>15. Publishing(e)
        BY <1>1, <1>2, <2>3, <2>7, <2>9, <2>10, <2>13, <2>14
           DEF Publishing, SegIds, WriterShape, Types
    <2> QED
        BY <2>15, PublishingKeeps
<1>6. \/ UNCHANGED <<writer, segs, manifest>>
             /\ (writer.flips = {} \/ holder' = "free")
      \/ /\ manifest' = Flagged(segs)
         /\ \/ /\ segs' = Flagged(segs) /\ writer.flips # {}
               /\ writer' = [writer EXCEPT !.pending = Flagged(@), !.flips = {}]
            \/ segs' = segs /\ writer' = writer /\ holder' = "free"
    <2>1. CASE FlagDeletions
        BY <2>1 DEF FlagDeletions, PublishAs
    <2>2. CASE FlagDeletionsFails
        BY <2>2 DEF FlagDeletionsFails, PublishFailsAs, Fails, Step
    <2> QED
        BY <2>1, <2>2
<1> QED
    BY <1>4, <1>5, <1>6

\* So does publish_pending_segments.
LEMMA PublishKeeps ==
    ASSUME LexInv, Publish \/ PublishFails
    PROVE  LexInv'
<1>1. /\ Types /\ WriterShape /\ Phases
      /\ FlagsIn(segs) /\ FlagsIn(writer.pending) /\ FlaggedIn(writer.pending)
      /\ HidesIn(writer.pending)
    BY DEF LexInv, Shape, Contents
<1>2. /\ holder = "publish" /\ holder' \in {"checkpoint", "free"}
      /\ call' \in {call, "none"}
      /\ UNCHANGED <<up, log, todo, replay, nextGen, ckpt, metadata, files,
                     delmaps, sources, building, unread, found, searcher,
                     hasSearcher, asOf>>
    BY DEF Publish, PublishFails, Fails, Step, logVars, searchVars
<1>3. /\ up /\ replay = 0 /\ writer.open /\ writer.dirty = {}
      /\ writer.buffer = {} /\ writer.flips = {}
    BY <1>1, <1>2 DEF Phases
<1>4. CASE UNCHANGED <<writer, segs, manifest>>
           /\ (writer.pending = <<>> \/ holder' = "free")
    <2>1. Phases'
        BY <1>1, <1>2, <1>3, <1>4 DEF Phases, MergePhase
    <2> QED
        BY <1>1, <1>2, <1>3, <1>4, <2>1, QuietStep DEF MergePhase, Steps, Types
<1>5. CASE /\ manifest' = Over(writer.pending, segs)
           /\ \/ /\ segs' = Over(writer.pending, segs)
                 /\ writer' = [writer EXCEPT !.pending = <<>>]
              \/ segs' = segs /\ writer' = writer /\ holder' = "free"
    <2>1. segs \in Maps(Entry) /\ writer.pending \in Maps(Entry)
        BY <1>1, TypeFacts DEF Types
    <2>2. PICK e : e = Over(writer.pending, segs)
        OBVIOUS
    <2>3. /\ e \in Maps(Entry) /\ DOMAIN e = DOMAIN writer.pending \cup DOMAIN segs
          /\ \A s \in DOMAIN writer.pending : e[s] = writer.pending[s]
          /\ \A s \in DOMAIN segs \ DOMAIN writer.pending : e[s] = segs[s]
        <3>1. /\ Over(writer.pending, segs) \in Maps(Entry)
              /\ DOMAIN Over(writer.pending, segs) =
                     DOMAIN writer.pending \cup DOMAIN segs
              /\ \A s \in DOMAIN writer.pending :
                     Over(writer.pending, segs)[s] = writer.pending[s]
              /\ \A s \in DOMAIN segs \ DOMAIN writer.pending :
                     Over(writer.pending, segs)[s] = segs[s]
            <4>1. ASSUME NEW f \in Maps(Entry), NEW g \in Maps(Entry)
                  PROVE  /\ Over(f, g) \in Maps(Entry)
                         /\ DOMAIN Over(f, g) = DOMAIN f \cup DOMAIN g
                         /\ \A s \in DOMAIN f : Over(f, g)[s] = f[s]
                         /\ \A s \in DOMAIN g \ DOMAIN f : Over(f, g)[s] = g[s]
                <5>1. DOMAIN Over(f, g) = DOMAIN f \cup DOMAIN g
                    BY DEF Over
                <5>2. \A s \in DOMAIN f : Over(f, g)[s] = f[s]
                    BY DEF Over
                <5>3. \A s \in DOMAIN g \ DOMAIN f : Over(f, g)[s] = g[s]
                    BY DEF Over
                <5>4. Over(f, g) \in Maps(Entry)
                    BY OverMembers
                <5> QED
                    BY <5>1, <5>2, <5>3, <5>4
            <4> QED
                BY <2>1, <4>1
        <3> QED
            BY <2>2, <3>1
    <2>4. Unreplayed = {} /\ Unreplayed' = {}
        BY <1>2, <1>3 DEF Unreplayed
    <2>5. \A s \in DOMAIN e : \A d \in DocsOf(s) \cap Marked(s) : e[s].hasDeletions
        BY <1>1, <1>3, <2>3, <2>4 DEF FlagsIn
    <2>6. /\ manifest' = e
          /\ \/ segs' = e /\ writer' = [writer EXCEPT !.pending = <<>>]
             \/ segs' = segs /\ writer' = writer /\ holder' = "free"
        BY <1>5, <2>2
    <2>7. <<>> \in Maps(Entry) /\ DOMAIN <<>> = {}
        BY EmptyMap
    <2>8. /\ writer' \in WriterRecord
          /\ writer'.open = writer.open /\ writer'.buffer = writer.buffer
          /\ writer'.known = writer.known /\ writer'.flushed = writer.flushed
          /\ writer'.manager = writer.manager /\ writer'.marks = writer.marks
          /\ writer'.dirty = writer.dirty /\ writer'.flips = {}
          /\ writer'.superseded = writer.superseded
          /\ writer'.seq = writer.seq
          /\ \/ writer'.pending = <<>> /\ segs' = e
             \/ segs' = segs /\ writer' = writer /\ holder' = "free"
        <3>1. CASE writer' = [writer EXCEPT !.pending = <<>>]
            BY <1>1, <1>3, <2>6, <2>7, <3>1 DEF Types, WriterRecord
        <3>2. CASE writer' = writer
            BY <1>1, <1>3, <2>6, <2>7, <3>2 DEF Types, WriterRecord
        <3> QED
            BY <2>6, <3>1, <3>2
    <2>9. \A s : /\ DocsOf(s)' = DocsOf(s) /\ Saved(s)' = Saved(s)
                 /\ Marked(s)' = Marked(s)
        BY <1>2, <2>8, SameBitmaps
    <2>10. Unsaved' = Unsaved /\ Drops(1..metadata)' = Drops(1..metadata)
        BY <1>2, SameUnsaved
    <2>11. /\ FlagsIn(writer.pending)' /\ FlaggedIn(writer.pending)'
           /\ HidesIn(writer.pending)'
        <3>1. CASE writer'.pending = <<>>
            BY <2>7, <3>1 DEF FlagsIn, FlaggedIn, HidesIn
        <3>2. CASE writer' = writer
            <4>1. FlagsIn(writer.pending)'
                BY <1>1, <1>2, <2>4, <2>9, <3>2 DEF FlagsIn
            <4>2. FlaggedIn(writer.pending)' /\ HidesIn(writer.pending)'
                BY <1>1, <2>9, <2>10, <3>2 DEF FlaggedIn, HidesIn
            <4> QED
                BY <4>1, <4>2
        <3> QED
            BY <2>8, <3>1, <3>2
    <2>12. /\ DOMAIN writer'.pending \subseteq DOMAIN writer.pending
           /\ writer.flushed \subseteq DOMAIN segs' \cup DOMAIN writer'.pending
        BY <1>1, <2>3, <2>7, <2>8 DEF WriterShape
    <2>13. DOMAIN segs \subseteq DOMAIN e /\ DOMAIN e \subseteq SegIds
        BY <1>1, <2>3 DEF WriterShape, SegIds
    <2>14. Publishing(e)
        BY <1>1, <1>2, <2>3, <2>5, <2>6, <2>8, <2>11, <2>12, <2>13
           DEF Publishing, Types
    <2> QED
        BY <2>14, PublishingKeeps
<1>6. \/ UNCHANGED <<writer, segs, manifest>>
             /\ (writer.pending = <<>> \/ holder' = "free")
      \/ /\ manifest' = Over(writer.pending, segs)
         /\ \/ /\ segs' = Over(writer.pending, segs)
               /\ writer' = [writer EXCEPT !.pending = <<>>]
            \/ segs' = segs /\ writer' = writer /\ holder' = "free"
    <2>1. CASE Publish
        BY <2>1 DEF Publish, PublishAs
    <2>2. CASE PublishFails
        BY <2>2 DEF PublishFails, PublishFailsAs, Fails, Step
    <2> QED
        BY <2>1, <2>2
<1> QED
    BY <1>4, <1>5, <1>6

\* What write_metadata_json and the end of the writer's commit do, or the
\* former as it fails.
Checkpointing(n) ==
    /\ holder = "checkpoint" /\ n = Larger(ckpt, writer.seq)
    /\ metadata' = n
    /\ \/ writer' = writer /\ ckpt' = ckpt /\ holder' = "free"
       \/ /\ ckpt' = n /\ holder' = "merge"
          /\ \/ writer' = NoWriter
             \/ writer' = [writer EXCEPT !.flushed = {}, !.superseded = {}]
    /\ call' \in {"none", "commit", "optimize"}
    /\ UNCHANGED <<up, log, todo, replay, segs, nextGen, manifest, files, delmaps,
                   sources, building, unread, found, searcher, hasSearcher,
                   asOf>>

\* All that the checkpoint covers is on storage by then.
LEMMA CheckpointFacts ==
    ASSUME LexInv, NEW n, Checkpointing(n)
    PROVE  /\ n \in Nat /\ n <= Last /\ ckpt <= n
           /\ \A t \in todo : n < t.seq
           /\ Drops(1..n) \subseteq DoneDrops /\ (1..n) \cap OpenAdds = {}
           /\ up /\ replay = 0 /\ ~MergePhase /\ sources = {}
           /\ writer.buffer = {} /\ writer.dirty = {} /\ writer.flips = {}
           /\ writer.pending = <<>> /\ DOMAIN writer.pending = {}
           /\ SegIds = DOMAIN segs
           /\ \A s \in DOMAIN segs \cup DOMAIN manifest : Marked(s) = Saved(s)
           /\ \A s \in DOMAIN segs : \A d \in DocsOf(s) :
                  /\ d \in Marked(s) => segs[s].hasDeletions
                  /\ d \in DoneDrops => d \in Saved(s)
           /\ \A m \in DOMAIN manifest : \A d \in DocsOf(m) :
                  /\ d \in Marked(m) => manifest[m].hasDeletions
                  /\ d \in DoneDrops => d \in Saved(m)
           /\ Unreplayed = {}
<1>1. /\ Types /\ LogShape /\ TodoShape /\ WriterShape /\ BitmapShape /\ Phases
      /\ MemoryHides /\ FlagsIn(segs) /\ ManifestFlags
      /\ holder = "checkpoint" /\ n = Larger(ckpt, writer.seq)
    BY DEF LexInv, Shape, Contents, Checkpointing
<1>2. /\ up /\ replay = 0 /\ ~MergePhase /\ sources = {}
      /\ writer.buffer = {} /\ writer.dirty = {} /\ writer.flips = {}
      /\ writer.pending = <<>>
    BY <1>1 DEF Phases, MergePhase
<1>3. DOMAIN writer.pending = {} /\ SegIds = DOMAIN segs
    BY <1>1, <1>2, EmptyMap DEF SegIds, WriterShape
<1>4. \A s \in DOMAIN segs \cup DOMAIN manifest : Marked(s) = Saved(s)
    BY <1>1, <1>2 DEF BitmapShape, Marked, SegIds
<1>5. /\ ckpt \in Nat /\ writer.seq \in Nat /\ metadata \in Nat /\ Last \in Nat
      /\ \A t \in todo : t.seq \in Nat
    BY <1>1, TypeFacts DEF Types, Task
<1>6. n \in Nat /\ n <= Last /\ ckpt <= n
    BY <1>1, <1>5 DEF Larger, TodoShape
<1>7. \A t \in todo : n < t.seq
    BY <1>1, <1>5 DEF Larger, TodoShape
<1>8. Drops(1..n) \subseteq DoneDrops /\ (1..n) \cap OpenAdds = {}
    <2>1. n \in 0..Last
        BY <1>5, <1>6
    <2> QED
        BY <1>1, <1>2, <1>7, <2>1, DoneBelow
<1>9. Unreplayed = {}
    BY <1>2 DEF Unreplayed
<1>10. \A s \in DOMAIN segs : \A d \in DocsOf(s) :
           /\ d \in Marked(s) => segs[s].hasDeletions
           /\ d \in DoneDrops => d \in Saved(s)
    <2>1. \A s \in DOMAIN segs : \A d \in DocsOf(s) :
              d \in DoneDrops => d \in Marked(s)
        BY <1>1, <1>2, <1>3 DEF MemoryHides
    <2> QED
        BY <1>1, <1>2, <1>4, <1>9, <2>1 DEF FlagsIn
<1>11. \A m \in DOMAIN manifest : \A d \in DocsOf(m) :
           /\ d \in Marked(m) => manifest[m].hasDeletions
           /\ d \in DoneDrops => d \in Saved(m)
    BY <1>1, <1>2, <1>4, <1>9 DEF ManifestFlags
<1> QED
    BY <1>2, <1>3, <1>4, <1>6, <1>7, <1>8, <1>9, <1>10, <1>11

\* What is left of the writer.
LEMMA CheckpointWriter ==
    ASSUME LexInv, NEW n, Checkpointing(n)
    PROVE  /\ writer' \in WriterRecord
           /\ writer'.buffer = {} /\ writer'.dirty = {} /\ writer'.flips = {}
           /\ DOMAIN writer'.pending = {} /\ writer'.pending = <<>>
           /\ writer'.flushed \subseteq writer.flushed
           /\ writer'.superseded \subseteq writer.superseded
           /\ writer'.known \subseteq writer.known
           /\ \/ writer' = writer
              \/ writer'.flushed = {} /\ writer'.superseded = {}
           /\ \/ writer' = NoWriter
              \/ /\ writer'.open = writer.open /\ writer'.known = writer.known
                 /\ writer'.manager = writer.manager
                 /\ writer'.marks = writer.marks /\ writer'.seq = writer.seq
           /\ SegIds' = DOMAIN segs
           /\ \A s : /\ DocsOf(s)' = DocsOf(s) /\ Saved(s)' = Saved(s)
                     /\ Marks(s)' = Marks(s) \/ Marks(s)' = {}
           /\ \A s \in DOMAIN segs \cup DOMAIN manifest :
                  Marked(s)' = Marked(s) /\ Kept(s)' = Kept(s)
           /\ \A s \in DOMAIN segs : \A d \in DocsOf(s) :
                  d \in Hidden(s) => d \in Hidden(s)'
<1>1. /\ writer \in WriterRecord /\ WriterShape
      /\ \/ writer' = writer
         \/ writer' = NoWriter
         \/ writer' = [writer EXCEPT !.flushed = {}, !.superseded = {}]
      /\ UNCHANGED <<segs, files, delmaps, manifest>>
    BY DEF LexInv, Shape, Types, Checkpointing
<1>2. /\ writer.buffer = {} /\ writer.dirty = {} /\ writer.flips = {}
      /\ writer.pending = <<>> /\ DOMAIN writer.pending = {}
      /\ SegIds = DOMAIN segs
      /\ \A s \in DOMAIN segs \cup DOMAIN manifest : Marked(s) = Saved(s)
      /\ \A s \in DOMAIN segs : \A d \in DocsOf(s) :
             d \in Marked(s) => segs[s].hasDeletions
    BY CheckpointFacts
<1>3. <<>> \in Maps(Entry) /\ <<>> \in Maps(SUBSET Docs)
    BY EmptyMap
<1>4. NoWriter \in WriterRecord
    BY <1>3 DEF NoWriter, WriterRecord
<1>5. /\ writer' \in WriterRecord
      /\ writer'.buffer = {} /\ writer'.dirty = {} /\ writer'.flips = {}
      /\ writer'.pending = <<>>
      /\ writer'.flushed \subseteq writer.flushed
      /\ writer'.superseded \subseteq writer.superseded
      /\ writer'.known \subseteq writer.known
      /\ \/ writer' = writer
         \/ writer'.flushed = {} /\ writer'.superseded = {}
      /\ \/ writer' = NoWriter
         \/ /\ writer'.open = writer.open /\ writer'.known = writer.known
            /\ writer'.manager = writer.manager
            /\ writer'.marks = writer.marks /\ writer'.seq = writer.seq
    <2>1. CASE writer' = writer
        BY <1>1, <1>2, <2>1
    <2>2. CASE writer' = NoWriter
        BY <1>2, <1>4, <2>2 DEF NoWriter
    <2>3. CASE writer' = [writer EXCEPT !.flushed = {}, !.superseded = {}]
        BY <1>1, <1>2, <2>3 DEF WriterRecord
    <2> QED
        BY <1>1, <2>1, <2>2, <2>3
<1>6. SegIds' = DOMAIN segs
    BY <1>1, <1>2, <1>5 DEF SegIds
<1>7. /\ \A s : DocsOf(s)' = DocsOf(s) /\ Saved(s)' = Saved(s)
      /\ \A s : Marks(s)' = Marks(s) \/ Marks(s)' = {}
    <2>1. CASE writer' = NoWriter
        BY <1>1, <2>1, EmptyMap DEF DocsOf, Saved, Marks, NoWriter
    <2>2. CASE writer'.marks = writer.marks
        BY <1>1, <2>2 DEF DocsOf, Saved, Marks
    <2> QED
        BY <1>5, <2>1, <2>2
<1>8. \A s \in DOMAIN segs \cup DOMAIN manifest : Marked(s)' = Marked(s)
    BY <1>2, <1>7 DEF Marked
<1>9. \A s \in DOMAIN segs \cup DOMAIN manifest : Kept(s)' = Kept(s)
    BY <1>7, <1>8 DEF Kept
<1>10. ASSUME NEW s \in DOMAIN segs, NEW d \in DocsOf(s), d \in Hidden(s)
       PROVE  d \in Hidden(s)'
    <2>1. CASE writer' = NoWriter
        <3>1. d \in Marked(s)
            BY <1>10 DEF Hidden, Marked, Marks, Saved, MarksOf
        <3>2. d \in Saved(s) /\ segs[s].hasDeletions
            BY <1>2, <3>1
        <3> QED
            BY <1>1, <2>1, <3>2 DEF Hidden, MarksOf, Saved, NoWriter
    <2>2. CASE writer'.manager = writer.manager /\ writer'.marks = writer.marks
        BY <1>1, <1>10, <2>2 DEF Hidden, MarksOf
    <2> QED
        BY <1>5, <2>1, <2>2
<1> QED
    BY <1>2, <1>5, <1>6, <1>7, <1>8, <1>9, <1>10

\* A checkpoint keeps the shape of the state.
LEMMA CheckpointShape ==
    ASSUME LexInv, NEW n, Checkpointing(n)
    PROVE  Shape'
<1>1. /\ Types /\ LogShape /\ TodoShape /\ WriterShape /\ BitmapShape /\ Phases
      /\ Closed /\ Numbers /\ Logged /\ SearchShape /\ SearchOfMemory
    BY DEF LexInv, Shape, Searches
<1>2. /\ n \in Nat /\ n <= Last /\ ckpt <= n
      /\ \A t \in todo : n < t.seq
      /\ up /\ replay = 0 /\ ~MergePhase /\ sources = {}
      /\ SegIds = DOMAIN segs
      /\ \A s \in DOMAIN segs \cup DOMAIN manifest : Marked(s) = Saved(s)
    BY CheckpointFacts
<1>3. /\ writer' \in WriterRecord
      /\ writer'.buffer = {} /\ writer'.dirty = {} /\ writer'.flips = {}
      /\ DOMAIN writer'.pending = {} /\ writer'.pending = <<>>
      /\ writer'.flushed \subseteq writer.flushed
      /\ writer'.superseded \subseteq writer.superseded
      /\ writer'.known \subseteq writer.known
      /\ \/ writer' = writer
         \/ writer'.flushed = {} /\ writer'.superseded = {}
      /\ \/ writer' = NoWriter
         \/ /\ writer'.open = writer.open /\ writer'.known = writer.known
            /\ writer'.manager = writer.manager
            /\ writer'.marks = writer.marks /\ writer'.seq = writer.seq
      /\ SegIds' = DOMAIN segs
      /\ \A s : /\ DocsOf(s)' = DocsOf(s) /\ Saved(s)' = Saved(s)
                /\ Marks(s)' = Marks(s) \/ Marks(s)' = {}
    BY CheckpointWriter
<1>4. /\ metadata' = n /\ ckpt' \in {ckpt, n}
      /\ \/ writer' = writer /\ holder' = "free"
         \/ holder' = "merge" /\ writer'.flushed = {} /\ writer'.superseded = {}
      /\ call' \in {"none", "commit", "optimize"}
      /\ UNCHANGED <<up, log, todo, replay, segs, nextGen, manifest, files,
                     delmaps, sources, building, unread, found, searcher,
                     hasSearcher, asOf>>
    <2>1. CASE writer' = NoWriter
        BY <2>1 DEF Checkpointing, NoWriter
    <2>2. CASE writer' = [writer EXCEPT !.flushed = {}, !.superseded = {}]
        BY <1>1, <2>2 DEF Checkpointing, Types, WriterRecord
    <2>3. CASE writer' = writer /\ ckpt' = ckpt /\ holder' = "free"
        BY <2>3 DEF Checkpointing
    <2> QED
        BY <2>1, <2>2, <2>3 DEF Checkpointing
<1>5. Last' = Last /\ Live' = Live /\ Adds(1..Last)' = Adds(1..Last)
    BY <1>4, SameLog
<1>6. Types'
    <2>1. todo' \subseteq Task' /\ replay' \in 0..Last' /\ log' \in Seq(Record)
          /\ Last' <= MaxSeq
        BY <1>1, <1>4, <1>5 DEF Types, Task
    <2>2. holder' \in Steps /\ ckpt' \in Nat /\ metadata' \in Nat
        BY <1>1, <1>2, <1>4 DEF Types, Steps
    <2> QED
        BY <1>1, <1>3, <1>4, <2>1, <2>2 DEF Types
<1>7. LogShape'
    BY <1>1, <1>4, <1>5 DEF LogShape
<1>8. TodoShape'
    <2>1. \A t \in todo : t.seq \in 1..Last
        BY <1>1 DEF Types, Task
    <2>2. /\ \A t \in todo : writer'.seq < t.seq
          /\ writer'.seq <= Last
        <3>1. CASE writer' = NoWriter
            BY <1>1, <2>1, <3>1, TypeFacts DEF NoWriter
        <3>2. CASE writer'.seq = writer.seq
            BY <1>1, <3>2 DEF TodoShape
        <3> QED
            BY <1>3, <3>1, <3>2
    <2>3. ckpt' <= metadata'
        BY <1>2, <1>4
    <2> QED
        BY <1>1, <1>2, <1>4, <1>5, <2>2, <2>3 DEF TodoShape
<1>9. WriterShape'
    <2>1. CASE writer' = NoWriter
        BY <1>3, <2>1, EmptyMap DEF WriterShape, NoWriter
    <2>2. CASE /\ writer'.open = writer.open /\ writer'.known = writer.known
               /\ writer'.manager = writer.manager
               /\ writer'.marks = writer.marks /\ writer'.open
        BY <1>1, <1>2, <1>3, <1>4, <2>2 DEF WriterShape, SegIds
    <2>3. writer.open
        BY <1>1 DEF Phases, Checkpointing
    <2> QED
        BY <1>3, <2>1, <2>2, <2>3
<1>10. BitmapShape'
    <2>1. \A s \in DOMAIN segs \cup DOMAIN manifest : Marks(s)' \subseteq Saved(s)
        BY <1>2, <1>3 DEF Marked
    <2>2. \A s \in DOMAIN delmaps :
              writer'.manager \/ s \in writer'.flushed => Saved(s) \subseteq Marks(s)'
        <3>1. CASE writer' = NoWriter
            BY <3>1 DEF NoWriter
        <3>2. CASE writer'.manager = writer.manager /\ writer'.marks = writer.marks
            BY <1>1, <1>3, <3>2 DEF BitmapShape, Marks
        <3> QED
            BY <1>3, <3>1, <3>2
    <2> QED
        BY <1>3, <1>4, <2>1, <2>2 DEF BitmapShape
<1>11. Phases'
    BY <1>2, <1>3, <1>4 DEF Phases, MergePhase
<1>12. Closed'
    BY <1>2, <1>4 DEF Closed
<1>13. Numbers'
    <2>1. DOMAIN writer'.marks \subseteq 0..nextGen - 1
        <3>1. CASE writer' = NoWriter
            BY <3>1, EmptyMap DEF NoWriter
        <3>2. CASE writer'.marks = writer.marks
            BY <1>1, <1>2, <3>2 DEF Numbers
        <3> QED
            BY <1>3, <3>1, <3>2
    <2> QED
        BY <1>1, <1>2, <1>3, <1>4, <2>1 DEF Numbers, Stems
<1>14. Logged'
    BY <1>1, <1>3, <1>4, <1>5 DEF Logged
<1>15. SearchShape'
    <2>1. asOf = 0 \/ asOf = ckpt
        BY <1>1, <1>2 DEF SearchShape, SearchOfMemory
    <2>2. asOf <= n
        BY <1>2, <2>1
    <2> QED
        BY <1>1, <1>4, <2>2 DEF SearchShape
<1> QED
    BY <1>6, <1>7, <1>8, <1>9, <1>10, <1>11, <1>12, <1>13, <1>14, <1>15 DEF Shape

\* It keeps what memory and storage hold.
LEMMA CheckpointContents ==
    ASSUME LexInv, NEW n, Checkpointing(n)
    PROVE  Contents'
<1>1. Contents /\ Logged /\ Types /\ LogShape
    BY DEF LexInv, Shape
<1>2. /\ n \in Nat /\ n <= Last
      /\ Drops(1..n) \subseteq DoneDrops /\ (1..n) \cap OpenAdds = {}
      /\ up /\ replay = 0
      /\ writer.buffer = {} /\ writer.flips = {} /\ DOMAIN writer.pending = {}
      /\ SegIds = DOMAIN segs
      /\ \A s \in DOMAIN segs \cup DOMAIN manifest : Marked(s) = Saved(s)
      /\ \A s \in DOMAIN segs : \A d \in DocsOf(s) :
             /\ d \in Marked(s) => segs[s].hasDeletions
             /\ d \in DoneDrops => d \in Saved(s)
      /\ \A m \in DOMAIN manifest : \A d \in DocsOf(m) :
             /\ d \in Marked(m) => manifest[m].hasDeletions
             /\ d \in DoneDrops => d \in Saved(m)
      /\ Unreplayed = {}
    BY CheckpointFacts
<1>3. /\ writer'.buffer = {} /\ writer'.flips = {}
      /\ DOMAIN writer'.pending = {}
      /\ \/ writer' = writer
         \/ writer'.flushed = {} /\ writer'.superseded = {}
      /\ SegIds' = DOMAIN segs
      /\ \A s : DocsOf(s)' = DocsOf(s) /\ Saved(s)' = Saved(s)
      /\ \A s \in DOMAIN segs \cup DOMAIN manifest :
             Marked(s)' = Marked(s) /\ Kept(s)' = Kept(s)
    BY CheckpointWriter
<1>4. /\ metadata' = n
      /\ UNCHANGED <<up, log, todo, replay, segs, manifest, files, delmaps>>
    BY DEF Checkpointing
<1>5. /\ Last' = Last /\ Live' = Live /\ OpenAdds' = OpenAdds
      /\ DoneDrops' = DoneDrops /\ Unreplayed' = Unreplayed
    BY <1>4, SameLog
<1>6. Drops(1..metadata)' = Drops(1..n)
    BY <1>4 DEF Drops
<1>7. MemoryHas'
    BY <1>1, <1>2, <1>3, <1>4, <1>5 DEF Contents, MemoryHas
<1>8. MemoryHides'
    <2>1. \A s \in DOMAIN segs : \A d \in DocsOf(s) \cap DoneDrops :
              d \in Marked(s) /\ segs[s].hasDeletions /\ d \in Saved(s)
        BY <1>2
    <2> QED
        BY <1>3, <1>4, <1>5, <2>1 DEF MemoryHides
<1>9. FlagsIn(segs)' /\ FlagsIn(writer.pending)'
    BY <1>2, <1>3, <1>4 DEF FlagsIn
<1>10. ManifestFlags'
    BY <1>2, <1>3, <1>4, <1>5 DEF ManifestFlags
<1>11. FlaggedIn(segs)' /\ FlaggedIn(writer.pending)' /\ FlaggedIn(manifest)'
    BY <1>2, <1>3, <1>4 DEF FlaggedIn
<1>12. HidesIn(segs)' /\ HidesIn(writer.pending)' /\ HidesIn(manifest)'
    <2>1. \A s \in DOMAIN segs : \A d \in DocsOf(s) \cap Drops(1..n) :
              segs[s].hasDeletions /\ d \in Saved(s)
        BY <1>2
    <2>2. \A m \in DOMAIN manifest : \A d \in DocsOf(m) \cap Drops(1..n) :
              manifest[m].hasDeletions /\ d \in Saved(m)
        BY <1>2
    <2> QED
        BY <1>3, <1>4, <1>6, <2>1, <2>2 DEF HidesIn
<1>13. CheckpointKept'
    <2>1. ASSUME NEW d \in Live \cap 1..n
          PROVE  /\ \E s \in DOMAIN segs : d \in Kept(s)
                 /\ \E m \in DOMAIN manifest : d \in Kept(m)
        BY <1>1, <1>2, <2>1 DEF Contents, MemoryHas, ManifestHas
    <2> QED
        BY <1>3, <1>4, <1>5, <2>1 DEF CheckpointKept
<1>14. ManifestHas'
    BY <1>1, <1>2, <1>3, <1>4 DEF Contents, ManifestHas
<1>15. ManifestFrom'
    BY <1>1, <1>2, <1>3, <1>4 DEF Contents, ManifestFrom
<1>16. SupersededHeld'
    <2>1. CASE writer' = writer
        <3>1. \A s \in writer.flushed : s \in DOMAIN segs
            BY <1>2 DEF SegIds
        <3> QED
            BY <1>1, <1>2, <1>3, <1>5, <2>1, <3>1 DEF Contents, SupersededHeld
    <2>2. CASE writer'.superseded = {}
        BY <2>2 DEF SupersededHeld
    <2> QED
        BY <1>3, <2>1, <2>2
<1> QED
    BY <1>7, <1>8, <1>9, <1>10, <1>11, <1>12, <1>13, <1>14, <1>15, <1>16
       DEF Contents

\* A document stays in one place, and searches find it as before.
LEMMA CheckpointingKeeps ==
    ASSUME LexInv, NEW n, Checkpointing(n)
    PROVE  LexInv'
<1>1. Once /\ Searches /\ Types
    BY DEF LexInv, Shape
<1>2. /\ SegIds = DOMAIN segs /\ writer.buffer = {}
    BY CheckpointFacts
<1>3. /\ writer'.buffer = {} /\ SegIds' = DOMAIN segs
      /\ \A s : DocsOf(s)' = DocsOf(s) /\ Saved(s)' = Saved(s)
      /\ \A s \in DOMAIN segs : Kept(s)' = Kept(s)
      /\ \A s \in DOMAIN segs : \A d \in DocsOf(s) :
             d \in Hidden(s) => d \in Hidden(s)'
    BY CheckpointWriter
<1>4. /\ holder = "checkpoint"
      /\ (writer' = writer /\ ckpt' = ckpt) \/ holder' = "merge"
      /\ UNCHANGED <<log, todo, replay, segs, manifest, files, delmaps, building,
                     unread, found, searcher, hasSearcher, asOf>>
    BY DEF Checkpointing
<1>5. MemoryOnce'
    BY <1>1, <1>2, <1>3 DEF Once, MemoryOnce
<1>6. StorageOnce'
    BY <1>1, <1>3, <1>4 DEF Once, StorageOnce, MarksOf
<1>7. Live' = Live /\ DoneDrops' = DoneDrops
    BY <1>4, SameLog
<1>8. SearchOfMemory'
    <2>1. CASE writer' = writer /\ ckpt' = ckpt
        <3>1. SearchOfMemory /\ ~MergePhase
            BY <1>1, <1>4 DEF Searches, MergePhase
        <3> QED
            BY <1>3, <1>4, <1>7, <2>1, <3>1 DEF SearchOfMemory
    <2>2. CASE holder' = "merge"
        BY <2>2 DEF SearchOfMemory, MergePhase
    <2> QED
        BY <1>4, <2>1, <2>2
<1>9. SearchOfCheckpoint'
    <2>1. Drops(1..asOf)' = Drops(1..asOf)
        BY <1>4 DEF Drops
    <2>2. DOMAIN unread \subseteq DOMAIN segs
        BY <1>1, <1>4 DEF Searches, SearchOfMemory, MergePhase
    <2> QED
        BY <1>1, <1>3, <1>4, <1>7, <2>1, <2>2 DEF Searches, SearchOfCheckpoint
<1> QED
    BY <1>5, <1>6, <1>8, <1>9, CheckpointShape, CheckpointContents
       DEF LexInv, Once, Searches

\* So write_metadata_json and the end of the writer's commit keep it.
LEMMA CheckpointKeeps ==
    ASSUME LexInv, Checkpoint \/ CheckpointFails
    PROVE  LexInv'
<1>1. Types /\ Phases
    BY DEF LexInv, Shape
<1>2. PICK n : n = Larger(ckpt, writer.seq)
    OBVIOUS
<1>3. CASE Checkpoint
    <2>1. Checkpointing(n)
        <3>1. call' = call /\ call \in {"none", "commit", "optimize"}
            BY <1>1, <1>3 DEF Checkpoint, Types
        <3> QED
            BY <1>2, <1>3, <3>1 DEF Checkpoint, Checkpointing, Step, logVars,
                                    searchVars
    <2> QED
        BY <2>1, CheckpointingKeeps
<1>4. CASE CheckpointFails /\ metadata' = metadata
    <2>1. /\ holder = "checkpoint" /\ holder' = "free" /\ call' = "none"
          /\ UNCHANGED <<up, log, todo, replay, writer, segs, nextGen, ckpt,
                         manifest, files, delmaps, sources, building, unread,
                         found, searcher, hasSearcher, asOf>>
        BY <1>4 DEF CheckpointFails, Fails, Step, logVars, memoryVars, searchVars
    <2>2. up /\ replay = 0
        BY <1>1, <2>1 DEF Phases
    <2>3. Phases'
        BY <1>1, <2>1, <2>2 DEF Phases, MergePhase
    <2> QED
        BY <1>4, <2>1, <2>2, <2>3, QuietStep DEF MergePhase, Steps
<1>5. CASE CheckpointFails /\ metadata' = Larger(ckpt, writer.seq)
    <2>1. Checkpointing(n)
        BY <1>2, <1>5 DEF CheckpointFails, Fails, Checkpointing, Step, logVars,
                          memoryVars, searchVars
    <2> QED
        BY <2>1, CheckpointingKeeps
<1> QED
    BY <1>3, <1>4, <1>5 DEF CheckpointFails

-----------------------------------------------------------------------------
(* Merges.                                                                 *)

\* What holds while a commit or an optimization merges.
LEMMA MergeFacts ==
    ASSUME LexInv, MergePhase
    PROVE  /\ up /\ replay = 0 /\ Unreplayed = {}
           /\ writer.buffer = {} /\ writer.dirty = {} /\ writer.flips = {}
           /\ writer.flushed = {} /\ writer.superseded = {}
           /\ writer.pending = <<>> /\ DOMAIN writer.pending = {}
           /\ SegIds = DOMAIN segs
           /\ \A s \in DOMAIN segs \cup DOMAIN manifest : Marked(s) = Saved(s)
           /\ \A s \in DOMAIN segs : \A d \in DocsOf(s) :
                  /\ d \in Marked(s) => segs[s].hasDeletions
                  /\ d \in DoneDrops => d \in Saved(s)
           /\ \A m \in DOMAIN manifest : \A d \in DocsOf(m) :
                  /\ d \in Marked(m) => manifest[m].hasDeletions
                  /\ d \in DoneDrops => d \in Saved(m)
<1>1. BitmapShape /\ Phases /\ MemoryHides /\ FlagsIn(segs) /\ ManifestFlags
    BY DEF LexInv, Shape, Contents
<1>2. /\ up /\ replay = 0
      /\ writer.buffer = {} /\ writer.dirty = {} /\ writer.flips = {}
      /\ writer.flushed = {} /\ writer.superseded = {} /\ writer.pending = <<>>
    BY <1>1 DEF Phases, MergePhase
<1>3. /\ Unreplayed = {} /\ DOMAIN writer.pending = {} /\ SegIds = DOMAIN segs
    BY <1>2, EmptyMap DEF Unreplayed, SegIds
<1>4. \A s \in DOMAIN segs \cup DOMAIN manifest : Marked(s) = Saved(s)
    BY <1>1, <1>2 DEF BitmapShape, Marked, SegIds
<1>5. \A s \in DOMAIN segs : \A d \in DocsOf(s) :
          /\ d \in Marked(s) => segs[s].hasDeletions
          /\ d \in DoneDrops => d \in Saved(s)
    <2>1. \A s \in DOMAIN segs : \A d \in DocsOf(s) :
              d \in DoneDrops => d \in Marked(s)
        BY <1>1, <1>2, <1>3 DEF MemoryHides
    <2> QED
        BY <1>1, <1>2, <1>3, <1>4, <2>1 DEF FlagsIn
<1>6. \A m \in DOMAIN manifest : \A d \in DocsOf(m) :
          /\ d \in Marked(m) => manifest[m].hasDeletions
          /\ d \in DoneDrops => d \in Saved(m)
    BY <1>1, <1>2, <1>3, <1>4 DEF ManifestFlags
<1> QED
    BY <1>2, <1>3, <1>4, <1>5, <1>6

\* The entries that a merge publishes.
LEMMA MergedEntriesFacts ==
    ASSUME Types, NEW S
    PROVE  /\ MergedEntries(S) \in Maps(Entry)
           /\ DOMAIN MergedEntries(S) = (DOMAIN segs \ S) \cup {nextGen}
           /\ MergedEntries(S)[nextGen] = NewEntry
           /\ \A s \in DOMAIN segs \ S :
                  s # nextGen => MergedEntries(S)[s] = segs[s]
<1>1. NewEntry \in Entry /\ segs \in Maps(Entry) /\ nextGen \in Nat
    BY DEF NewEntry, Entry, Types
<1>2. PICK f : f = Without(segs, S)
    OBVIOUS
<1>3. /\ f \in Maps(Entry) /\ DOMAIN f = DOMAIN segs \ S
      /\ \A s \in DOMAIN segs \ S : f[s] = segs[s]
    BY <1>1, <1>2, WithoutMembers
<1>4. PICK e : e = With(f, nextGen, NewEntry)
    OBVIOUS
<1>5. /\ e \in Maps(Entry) /\ DOMAIN e = DOMAIN f \cup {nextGen}
      /\ e[nextGen] = NewEntry
      /\ \A s \in DOMAIN f : s # nextGen => e[s] = f[s]
    BY <1>1, <1>3, <1>4, WithMember, SMTT(30)
<1>6. MergedEntries(S) = e
    BY <1>2, <1>4 DEF MergedEntries
<1> QED
    BY <1>3, <1>5, <1>6

\* The manifest that is saved, or published, with what the sources hold.
MergeSaved(S, e) ==
    /\ At(files', nextGen, {}) = MergedDocs(S) /\ manifest' = e
    /\ \/ segs' = segs /\ holder' = "done" /\ sources' = sources
       \/ segs' = e /\ holder' = "release" /\ sources' = S

\* A merge of the segments S, which publishes the entries e or fails before it
\* saves them or after.
Merged(S, e) ==
    /\ holder = "merge" /\ S \subseteq DOMAIN segs
    /\ e = MergedEntries(S)
    /\ nextGen' \in Nat /\ nextGen < nextGen'
    /\ files' \in Maps(SUBSET Docs)
    /\ DOMAIN files' \subseteq DOMAIN files \cup {nextGen}
    /\ \A s : s # nextGen => DocsOf(s)' = DocsOf(s)
    /\ \/ /\ segs' = segs /\ manifest' = manifest /\ holder' = "done"
          /\ sources' = sources
          /\ \A d \in At(files', nextGen, {}) : d \in MergedDocs(S)
       \/ MergeSaved(S, e)
    /\ UNCHANGED <<up, log, todo, replay, writer, ckpt, metadata, delmaps, call,
                   building, unread, found, searcher, hasSearcher, asOf>>

\* The entries of the other segments stay.
KeptEntries(S, e) == \A s \in DOMAIN segs \ S : e[s] = segs[s]

\* What a merge keeps of each segment.
LEMMA MergedFacts ==
    ASSUME LexInv, NEW S, NEW e, Merged(S, e)
    PROVE  /\ \A d : d \in MergedDocs(S) <=> \E s \in S : d \in Kept(s)
           /\ MergedDocs(S) \cap DoneDrops = {}
           /\ MergedDocs(S) \subseteq Adds(1..Last)
           /\ e \in Maps(Entry) /\ DOMAIN e = (DOMAIN segs \ S) \cup {nextGen}
           /\ e[nextGen] = NewEntry
           /\ KeptEntries(S, e)
           /\ MergePhase /\ MergePhase'
           /\ \A s : /\ Saved(s)' = Saved(s) /\ Marks(s)' = Marks(s)
                     /\ Marked(s)' = Marked(s)
<1>1. Types /\ Logged
    BY DEF LexInv, Shape
<1>2. MergePhase /\ MergePhase' /\ S \subseteq DOMAIN segs
    BY DEF Merged, MergeSaved, MergePhase
<1>3. /\ up
      /\ \A s \in DOMAIN segs \cup DOMAIN manifest : Marked(s) = Saved(s)
      /\ \A s \in DOMAIN segs : \A d \in DocsOf(s) :
             /\ d \in Marked(s) => segs[s].hasDeletions
             /\ d \in DoneDrops => d \in Saved(s)
    BY <1>2, MergeFacts
<1>4. \A s \in S : DocsOf(s) \ MarksOf(s, segs[s]) = Kept(s)
    <2> SUFFICES ASSUME NEW s \in S
                 PROVE  DocsOf(s) \ MarksOf(s, segs[s]) = Kept(s)
        OBVIOUS
    <2>1. s \in DOMAIN segs /\ Marked(s) = Saved(s)
        BY <1>2, <1>3
    <2>2. CASE segs[s].hasDeletions
        BY <2>1, <2>2 DEF MarksOf, Kept, Saved
    <2>3. CASE ~segs[s].hasDeletions
        BY <1>3, <2>1, <2>3 DEF MarksOf, Kept
    <2> QED
        BY <2>2, <2>3
<1>5. \A d : d \in MergedDocs(S) <=> \E s \in S : d \in Kept(s)
    BY <1>4 DEF MergedDocs
<1>6. MergedDocs(S) \cap DoneDrops = {} /\ MergedDocs(S) \subseteq Adds(1..Last)
    BY <1>1, <1>2, <1>3, <1>5 DEF Kept, Marked, Logged
<1>7. nextGen \notin DOMAIN segs
    BY <1>3, FreshGeneration DEF LexInv
<1>8. /\ e \in Maps(Entry) /\ DOMAIN e = (DOMAIN segs \ S) \cup {nextGen}
      /\ e[nextGen] = NewEntry
      /\ \A s \in DOMAIN segs \ S : e[s] = segs[s]
    BY <1>1, <1>7, MergedEntriesFacts DEF Merged
<1>9. \A s : /\ Saved(s)' = Saved(s) /\ Marks(s)' = Marks(s)
             /\ Marked(s)' = Marked(s)
    BY DEF Merged, Saved, Marks, Marked
<1> QED
    BY <1>2, <1>5, <1>6, <1>8, <1>9 DEF KeptEntries

\* It keeps the shape of the state.
LEMMA MergedShape ==
    ASSUME LexInv, NEW S, NEW e, Merged(S, e)
    PROVE  Shape'
<1>1. /\ Types /\ LogShape /\ TodoShape /\ WriterShape /\ BitmapShape /\ Phases
      /\ Closed /\ Numbers /\ Logged /\ SearchShape
    BY DEF LexInv, Shape
<1>2. PICK g : g = nextGen
    OBVIOUS
<1>3. /\ up /\ replay = 0
      /\ writer.buffer = {} /\ writer.dirty = {} /\ writer.flips = {}
      /\ writer.flushed = {} /\ writer.superseded = {}
      /\ writer.pending = <<>> /\ DOMAIN writer.pending = {}
      /\ \A s \in DOMAIN segs \cup DOMAIN manifest : Marked(s) = Saved(s)
    <2>1. MergePhase
        BY MergedFacts
    <2> QED
        BY <2>1, MergeFacts
<1>4. /\ MergedDocs(S) \subseteq Adds(1..Last)
      /\ e \in Maps(Entry) /\ DOMAIN e = (DOMAIN segs \ S) \cup {g}
      /\ MergePhase /\ MergePhase'
      /\ \A s : Saved(s)' = Saved(s) /\ Marks(s)' = Marks(s)
    BY <1>2, MergedFacts
<1>5. /\ holder = "merge" /\ S \subseteq DOMAIN segs /\ holder' \in {"release", "done"}
      /\ nextGen' \in Nat /\ g < nextGen' /\ g \in Nat
      /\ files' \in Maps(SUBSET Docs)
      /\ DOMAIN files' \subseteq DOMAIN files \cup {g}
      /\ \A s : s # g => DocsOf(s)' = DocsOf(s)
      /\ \A d \in DocsOf(g)' : d \in MergedDocs(S)
      /\ segs' \in {segs, e} /\ manifest' \in {manifest, e}
      /\ sources' = {} \/ (holder' = "release" /\ sources' = S
                             /\ segs' = e /\ manifest' = e)
      /\ UNCHANGED <<up, log, todo, replay, writer, ckpt, metadata, delmaps,
                     call, building, unread, found, searcher, hasSearcher,
                     asOf>>
    BY <1>1, <1>2 DEF Merged, MergeSaved, DocsOf, Phases, Types
<1>6. /\ g \notin DOMAIN segs /\ g \notin DOMAIN unread
      /\ g \notin DOMAIN writer.marks /\ Marked(g) = {}
    BY <1>2, <1>3, FreshGeneration DEF LexInv
<1>7. Last' = Last /\ Live' = Live /\ Adds(1..Last)' = Adds(1..Last)
    BY <1>5, SameLog
<1>8. Types'
    <2>1. todo' \subseteq Task' /\ replay' \in 0..Last' /\ log' \in Seq(Record)
          /\ Last' <= MaxSeq
        BY <1>1, <1>5, <1>7 DEF Types, Task
    <2>2. /\ segs' \in Maps(Entry) /\ manifest' \in Maps(Entry)
          /\ holder' \in Steps
        BY <1>1, <1>4, <1>5 DEF Types, Steps
    <2>3. sources' \subseteq Nat
        BY <1>1, <1>5, MapShape DEF Types
    <2> QED
        BY <1>1, <1>5, <2>1, <2>2, <2>3 DEF Types
<1>9. LogShape'
    BY <1>1, <1>5, <1>7 DEF LogShape
<1>10. TodoShape'
    BY <1>1, <1>3, <1>5, <1>7 DEF TodoShape
<1>11. WriterShape'
    BY <1>1, <1>3, <1>4, <1>5 DEF WriterShape
<1>12. BitmapShape'
    <2>1. \A s \in DOMAIN segs \cup DOMAIN manifest \cup {g} :
              Marks(s) \subseteq Saved(s)
        BY <1>3, <1>6 DEF Marked
    <2>2. \A s \in DOMAIN segs' \cup DOMAIN manifest' : Marks(s) \subseteq Saved(s)
        BY <1>4, <1>5, <2>1
    <2> QED
        BY <1>1, <1>3, <1>4, <1>5, <2>2 DEF BitmapShape, SegIds
<1>13. Phases'
    <2>1. sources' \cap (DOMAIN segs' \cup DOMAIN manifest') = {}
        BY <1>4, <1>5, <1>6
    <2> QED
        BY <1>1, <1>3, <1>5, <2>1 DEF Phases, MergePhase
<1>14. Closed'
    BY <1>3, <1>5 DEF Closed
<1>15. Numbers'
    <2>1. DOMAIN segs \cup DOMAIN manifest \cup Stems \cup writer.known
              \cup DOMAIN writer.marks \subseteq 0..g - 1
        BY <1>1, <1>2, <1>3 DEF Numbers
    <2>2. 0..g - 1 \subseteq 0..nextGen' - 1 /\ g \in 0..nextGen' - 1
        <3>1. PICK h : h = nextGen'
            OBVIOUS
        <3>2. h \in Nat /\ g < h /\ g \in Nat
            BY <1>5, <3>1
        <3>3. 0..g - 1 \subseteq 0..h - 1 /\ g \in 0..h - 1
            BY <3>2
        <3> QED
            BY <3>1, <3>3
    <2>3. Stems' \subseteq Stems \cup {g}
        BY <1>5 DEF Stems
    <2>4. sources' \subseteq DOMAIN segs
        BY <1>5
    <2>5. DOMAIN segs' \cup DOMAIN manifest' \subseteq
              DOMAIN segs \cup DOMAIN manifest \cup {g}
        BY <1>4, <1>5
    <2> QED
        BY <1>3, <1>5, <2>1, <2>2, <2>3, <2>4, <2>5 DEF Numbers
<1>16. Logged'
    <2>1. ASSUME NEW s PROVE DocsOf(s)' \subseteq Adds(1..Last)
        BY <1>1, <1>4, <1>5 DEF Logged
    <2> QED
        BY <1>1, <1>5, <1>7, <2>1 DEF Logged
<1>17. SearchShape'
    <2>1. DOMAIN unread \subseteq 0..nextGen' - 1
        BY <1>1, <1>2, <1>3, <1>5 DEF SearchShape
    <2> QED
        BY <1>1, <1>5, <2>1 DEF SearchShape
<1> QED
    BY <1>8, <1>9, <1>10, <1>11, <1>12, <1>13, <1>14, <1>15, <1>16, <1>17
       DEF Shape

\* What is published of a merge holds what its sources hold.
LEMMA MergedContents ==
    ASSUME LexInv, NEW S, NEW e, Merged(S, e), MergeSaved(S, e)
    PROVE  Contents'
<1>1. Contents /\ Types /\ LogShape /\ TodoShape
    BY DEF LexInv, Shape
<1>2. PICK g : g = nextGen
    OBVIOUS
<1>3. /\ \A d : d \in MergedDocs(S) <=> \E s \in S : d \in Kept(s)
      /\ MergedDocs(S) \cap DoneDrops = {}
      /\ DOMAIN e = (DOMAIN segs \ S) \cup {g}
      /\ \A s \in DOMAIN segs \ S : e[s] = segs[s]
      /\ \A s : Saved(s)' = Saved(s) /\ Marked(s)' = Marked(s)
    <2>1. KeptEntries(S, e)
        BY MergedFacts
    <2> QED
        BY <1>2, <2>1, MergedFacts DEF KeptEntries
<1>4. /\ up /\ replay = 0 /\ Unreplayed = {}
      /\ writer.buffer = {} /\ writer.flips = {} /\ writer.flushed = {}
      /\ writer.superseded = {} /\ DOMAIN writer.pending = {}
      /\ SegIds = DOMAIN segs
      /\ \A s \in DOMAIN segs \cup DOMAIN manifest : Marked(s) = Saved(s)
      /\ \A s \in DOMAIN segs : \A d \in DocsOf(s) :
             /\ d \in Marked(s) => segs[s].hasDeletions
             /\ d \in DoneDrops => d \in Saved(s)
    <2>1. MergePhase
        BY MergedFacts
    <2> QED
        BY <2>1, MergeFacts
<1>5. /\ S \subseteq DOMAIN segs
      /\ \A s : s # g => DocsOf(s)' = DocsOf(s)
      /\ DocsOf(g)' = MergedDocs(S)
      /\ UNCHANGED <<up, log, todo, replay, writer, metadata, delmaps>>
      /\ manifest' = e
      /\ segs' = segs \/ segs' = e
    BY <1>2 DEF Merged, MergeSaved, DocsOf
<1>6. g \notin DOMAIN segs /\ Marked(g) = {}
    BY <1>2, <1>4, FreshGeneration DEF LexInv
<1>7. /\ Last' = Last /\ Live' = Live /\ OpenAdds' = OpenAdds
      /\ DoneDrops' = DoneDrops /\ Unreplayed' = Unreplayed
      /\ Drops(1..metadata)' = Drops(1..metadata)
    BY <1>5, SameLog, SameUnsaved
<1>8. /\ \A s : s # g => Kept(s)' = Kept(s)
      /\ Kept(g)' = MergedDocs(S)
    BY <1>3, <1>5, <1>6 DEF Kept
<1>9. /\ DOMAIN segs' \subseteq DOMAIN segs \cup {g}
      /\ DOMAIN manifest' \subseteq DOMAIN segs \cup {g}
      /\ \A s \in DOMAIN segs' : s # g => segs'[s] = segs[s]
      /\ \A s \in DOMAIN manifest' : s # g => manifest'[s] = segs[s]
      /\ SegIds' = DOMAIN segs'
    BY <1>3, <1>4, <1>5, <1>6 DEF SegIds
<1>10. ASSUME NEW d, NEW s \in DOMAIN segs, d \in Kept(s)
       PROVE  /\ \E u \in DOMAIN segs' : d \in Kept(u)'
              /\ \E m \in DOMAIN manifest' : d \in Kept(m)'
    <2>1. \E m \in DOMAIN e : d \in Kept(m)'
        BY <1>3, <1>6, <1>8, <1>10
    <2>2. \E m \in DOMAIN segs : d \in Kept(m)'
        BY <1>6, <1>8, <1>10
    <2> QED
        BY <1>5, <2>1, <2>2
\* Every entry tells of what is marked, and nothing done is left to find.
<1>11. /\ \A s \in DOMAIN segs' : \A d \in DocsOf(s)' :
              /\ d \in Marked(s) => segs'[s].hasDeletions
              /\ d \in DoneDrops => d \in Saved(s) /\ segs'[s].hasDeletions
       /\ \A s \in DOMAIN manifest' : \A d \in DocsOf(s)' :
              /\ d \in Marked(s) => manifest'[s].hasDeletions
              /\ d \in DoneDrops => d \in Saved(s) /\ manifest'[s].hasDeletions
    <2>1. ASSUME NEW s \in DOMAIN segs, NEW d \in DocsOf(s)'
          PROVE  /\ d \in Marked(s) => segs[s].hasDeletions
                 /\ d \in DoneDrops => d \in Saved(s) /\ segs[s].hasDeletions
        <3>1. d \in DocsOf(s) /\ s # g
            BY <1>5, <1>6, <2>1
        <3> QED
            BY <1>4, <3>1
    <2>2. ASSUME NEW d \in DocsOf(g)'
          PROVE  d \notin Marked(g) /\ d \notin DoneDrops
        BY <1>3, <1>5, <1>6, <2>2
    <2> QED
        BY <1>9, <2>1, <2>2
<1>12. Drops(1..metadata) \subseteq DoneDrops
    BY <1>1, CheckpointDone
<1>13. MemoryHas'
    <2>1. \A d \in Live \ OpenAdds : \E s \in DOMAIN segs : d \in Kept(s)
        BY <1>1, <1>4 DEF Contents, MemoryHas
    <2> QED
        BY <1>7, <1>9, <1>10, <2>1 DEF MemoryHas
<1>14. MemoryHides'
    <2>1. \A s \in DOMAIN segs' : \A d \in DocsOf(s)' \cap DoneDrops :
              d \in Marked(s) /\ segs'[s].hasDeletions /\ d \in Saved(s)
        BY <1>11 DEF Marked
    <2> QED
        BY <1>3, <1>4, <1>5, <1>7, <1>9, <2>1 DEF MemoryHides
<1>15. FlagsIn(segs)' /\ FlagsIn(writer.pending)'
    BY <1>3, <1>4, <1>5, <1>11 DEF FlagsIn
<1>16. ManifestFlags'
    BY <1>3, <1>7, <1>11 DEF ManifestFlags, Marked
<1>17. FlaggedIn(segs)' /\ FlaggedIn(writer.pending)' /\ FlaggedIn(manifest)'
    BY <1>3, <1>4, <1>5, <1>11 DEF FlaggedIn
<1>18. HidesIn(segs)' /\ HidesIn(writer.pending)' /\ HidesIn(manifest)'
    BY <1>3, <1>4, <1>5, <1>7, <1>11, <1>12 DEF HidesIn
<1>19. CheckpointKept'
    <2>1. \A d \in Live \cap 1..metadata : \E s \in DOMAIN segs : d \in Kept(s)
        BY <1>1, <1>4 DEF Contents, CheckpointKept
    <2> QED
        BY <1>5, <1>7, <1>10, <2>1 DEF CheckpointKept
<1>20. ManifestHas'
    <2>1. CASE segs' = segs
        BY <1>6, <1>8, <1>10, <2>1 DEF ManifestHas
    <2>2. CASE segs' = e
        BY <1>5, <2>2 DEF ManifestHas
    <2> QED
        BY <1>5, <2>1, <2>2
<1>21. ManifestFrom'
    <2>1. CASE segs' = segs
        <3>1. ASSUME NEW m \in DOMAIN e, NEW d \in DocsOf(m)'
              PROVE  \E s \in DOMAIN segs : d \in DocsOf(s)'
            <4>1. CASE m = g
                BY <1>3, <1>5, <1>6, <3>1, <4>1 DEF Kept
            <4>2. CASE m # g
                BY <1>3, <3>1, <4>2
            <4> QED
                BY <4>1, <4>2
        <3> QED
            BY <1>5, <2>1, <3>1 DEF ManifestFrom
    <2>2. CASE segs' = e
        BY <1>5, <2>2 DEF ManifestFrom
    <2> QED
        BY <1>5, <2>1, <2>2
<1>22. SupersededHeld'
    BY <1>4, <1>5 DEF SupersededHeld
<1> QED
    BY <1>13, <1>14, <1>15, <1>16, <1>17, <1>18, <1>19, <1>20, <1>21, <1>22
       DEF Contents

\* A document stays in one place, and searches find it as before.
LEMMA MergedKeeps ==
    ASSUME LexInv, NEW S, NEW e, Merged(S, e)
    PROVE  LexInv'
<1>1. /\ Types /\ Once /\ Searches /\ MergePhase /\ MergePhase' /\ up
      /\ SearchShape
    <2>1. MergePhase /\ MergePhase'
        BY MergedFacts
    <2> QED
        BY <2>1, MergeFacts DEF LexInv, Shape
<1>2. CASE segs' = segs /\ manifest' = manifest
    <2>1. /\ SameWriting
          /\ \A s : s # nextGen => DocsOf(s)' = DocsOf(s)
          /\ UNCHANGED <<up, log, todo, replay, ckpt, metadata, delmaps,
                         building, unread, found, searcher, hasSearcher, asOf>>
        BY DEF Merged, SameWriting
    <2>2. Contents' /\ Once' /\ Searches'
        BY <1>1, <1>2, <2>1, UnseenFiles
    <2> QED
        BY <2>2, MergedShape DEF LexInv
<1>3. CASE MergeSaved(S, e)
    <2>1. PICK g : g = nextGen
        OBVIOUS
    <2>2. /\ \A d : d \in MergedDocs(S) <=> \E s \in S : d \in Kept(s)
          /\ DOMAIN e = (DOMAIN segs \ S) \cup {g}
          /\ KeptEntries(S, e)
          /\ \A s : Saved(s)' = Saved(s) /\ Marked(s)' = Marked(s)
        BY <2>1, MergedFacts
    <2>3. /\ writer.buffer = {} /\ writer.flushed = {}
          /\ SegIds = DOMAIN segs
          /\ \A s \in DOMAIN segs \cup DOMAIN manifest : Marked(s) = Saved(s)
          /\ \A s \in DOMAIN segs : \A d \in DocsOf(s) :
                 d \in Marked(s) => segs[s].hasDeletions
        BY <1>1, MergeFacts
    <2>4. /\ S \subseteq DOMAIN segs
          /\ \A s : s # g => DocsOf(s)' = DocsOf(s)
          /\ DocsOf(g)' = MergedDocs(S)
          /\ manifest' = e /\ segs' \in {segs, e}
          /\ UNCHANGED <<log, todo, replay, writer, delmaps, building, unread,
                         found, searcher, hasSearcher, asOf>>
        BY <1>3, <2>1 DEF Merged, MergeSaved, DocsOf
    <2>5. g \notin DOMAIN segs /\ g \notin DOMAIN unread
        BY <1>1, <2>1, FreshGeneration DEF LexInv
    <2>6. \A s : Hidden(s) \subseteq Marked(s)
        BY DEF Hidden, Marked, Marks, Saved, MarksOf
    <2>7. /\ \A s \in DOMAIN segs \ S : e[s] = segs[s]
          /\ \A s \in DOMAIN e : s # g => s \in DOMAIN segs \ S
        BY <2>2 DEF KeptEntries
\* A document of the merged segment is hidden in any other.
    <2>8. ASSUME NEW s \in DOMAIN e, NEW u \in DOMAIN e, s # u,
                 NEW d, d \in DocsOf(s)', d \in DocsOf(u)'
          PROVE  \/ s # g /\ d \in Hidden(s)
                 \/ u # g /\ d \in Hidden(u)
        <3>1. MemoryOnce
            BY <1>1 DEF Once
        <3>2. ASSUME NEW v \in DOMAIN segs, v \notin S, d \in DocsOf(v),
                     d \in MergedDocs(S)
              PROVE  d \in Hidden(v)
            <4>1. PICK w \in S : d \in Kept(w)
                BY <2>2, <3>2
            <4>2. /\ w \in DOMAIN segs /\ w # v /\ d \in DocsOf(w)
                  /\ d \notin Hidden(w)
                BY <2>4, <2>6, <3>2, <4>1 DEF Kept
            <4> QED
                BY <2>3, <3>1, <3>2, <4>2 DEF MemoryOnce
        <3>3. CASE s = g
            BY <2>4, <2>7, <2>8, <3>2, <3>3
        <3>4. CASE u = g
            BY <2>4, <2>7, <2>8, <3>2, <3>4
        <3>5. CASE s # g /\ u # g
            BY <2>3, <2>4, <2>7, <2>8, <3>1, <3>5 DEF MemoryOnce
        <3> QED
            BY <3>3, <3>4, <3>5
    <2>9. MemoryOnce'
        <3>1. CASE segs' = segs
            <4>1. \A s : Hidden(s)' = Hidden(s)
                BY <2>4, <3>1 DEF Hidden, MarksOf
            <4>2. \A s \in DOMAIN segs : DocsOf(s)' = DocsOf(s)
                BY <2>4, <2>5
            <4>3. SegIds' = SegIds
                BY <2>4, <3>1 DEF SegIds
            <4> QED
                BY <1>1, <2>3, <2>4, <4>1, <4>2, <4>3 DEF Once, MemoryOnce
        <3>2. CASE segs' = e
            <4>1. ASSUME NEW s \in DOMAIN e, s # g
                  PROVE  Hidden(s)' = Hidden(s)
                <5>1. s \in DOMAIN segs /\ e[s] = segs[s]
                    BY <2>7, <4>1
                <5>2. MarksOf(s, e[s])' = MarksOf(s, segs[s])
                    BY <2>4, <3>2, <5>1 DEF MarksOf
                <5> QED
                    BY <2>4, <3>2, <4>1, <5>1, <5>2 DEF Hidden
            <4>2. SegIds' = DOMAIN e
                BY <2>3, <2>4, <3>2 DEF SegIds
            <4> QED
                BY <2>3, <2>4, <2>8, <4>1, <4>2 DEF MemoryOnce
        <3> QED
            BY <2>4, <3>1, <3>2
    <2>10. StorageOnce'
        <3>1. ASSUME NEW s \in DOMAIN e, s # g, NEW d \in DocsOf(s)',
                     d \in Hidden(s)
              PROVE  d \in MarksOf(s, e[s])'
            <4>1. /\ s \in DOMAIN segs /\ e[s] = segs[s]
                  /\ d \in DocsOf(s) /\ d \in Marked(s)
                BY <2>4, <2>6, <2>7, <3>1
            <4>2. e[s].hasDeletions /\ d \in Saved(s)
                BY <2>3, <4>1
            <4> QED
                BY <2>4, <4>2 DEF MarksOf, Saved
        <3>2. \A s, u \in DOMAIN e : s # u =>
                  \A d : d \in DocsOf(s)' /\ d \in DocsOf(u)' =>
                      d \in MarksOf(s, e[s])' \/ d \in MarksOf(u, e[u])'
            BY <2>8, <3>1
        <3> QED
            BY <2>4, <3>2 DEF StorageOnce
    <2>11. SearchOfMemory'
        BY <1>1 DEF SearchOfMemory
    <2>12. SearchOfCheckpoint'
        <3>1. Drops(1..asOf)' = Drops(1..asOf) /\ Live' = Live
            BY <2>4, SameLog DEF Drops
        <3>2. \A s \in DOMAIN unread :
                  DocsOf(s)' = DocsOf(s) /\ Kept(s)' = Kept(s)
            BY <2>2, <2>4, <2>5 DEF Kept
        <3> QED
            BY <1>1, <2>2, <2>4, <3>1, <3>2 DEF Searches, SearchOfCheckpoint
    <2> QED
        BY <1>3, <2>9, <2>10, <2>11, <2>12, MergedShape, MergedContents
           DEF LexInv, Once, Searches
<1> QED
    BY <1>2, <1>3 DEF Merged

\* A merge is published, or fails.
LEMMA MergeIs ==
    ASSUME LexInv, NEW S \in Windows, Merge(S) \/ MergeFails(S)
    PROVE  \E e : Merged(S, e)
<1>1. Types /\ Phases /\ Numbers
    BY DEF LexInv, Shape
<1>2. /\ holder = "merge" /\ S \subseteq DOMAIN segs /\ Cardinality(S) >= 2
      /\ nextGen' = nextGen + Cardinality(S)
      /\ UNCHANGED <<up, log, todo, replay, writer, ckpt, metadata, delmaps,
                     call, building, unread, found, searcher, hasSearcher, asOf>>
    BY DEF Windows, Merge, MergeFails, Merging, Step, logVars, searchVars
<1>3. up /\ MergePhase
    BY <1>1, <1>2 DEF Phases, MergePhase
<1>4. nextGen' \in Nat /\ nextGen < nextGen'
    <2>1. nextGen \in Nat /\ S \subseteq 0..nextGen - 1
        BY <1>1, <1>2, <1>3 DEF Types, Numbers
    <2>2. IsFiniteSet(S)
        <3>1. 0 \in Int /\ nextGen - 1 \in Int
            BY <2>1
        <3>2. IsFiniteSet(0..nextGen - 1)
            BY <3>1, FS_Interval
        <3> QED
            BY <2>1, <3>2, FS_Subset
    <2>3. Cardinality(S) \in Nat
        BY <2>2, FS_CardinalityType
    <2> QED
        BY <1>2, <2>1, <2>3
<1>5. MergedDocs(S) \in SUBSET Docs
    <2>1. \A s : DocsOf(s) \subseteq Docs
        BY <1>1, TypeFacts
    <2> QED
        BY <2>1 DEF MergedDocs
<1>6. DocsOf(nextGen) = {} /\ nextGen \notin DOMAIN files
    BY <1>3, FreshGeneration DEF LexInv
<1>7. PICK e : e = MergedEntries(S)
    OBVIOUS
<1>8. PICK g : g = nextGen
    OBVIOUS
<1>9. ASSUME WriteMerged(S)
      PROVE  /\ files' \in Maps(SUBSET Docs)
             /\ DOMAIN files' \subseteq DOMAIN files \cup {g}
             /\ \A s : s # g => DocsOf(s)' = DocsOf(s)
             /\ At(files', g, {}) = MergedDocs(S)
    <2>1. CASE MergedDocs(S) = {}
        <3>1. files' = files
            BY <1>9, <2>1 DEF WriteMerged
        <3> QED
            BY <1>1, <1>6, <1>8, <2>1, <3>1 DEF Types, DocsOf
    <2>2. CASE MergedDocs(S) # {}
        <3>1. files' = With(files, nextGen, MergedDocs(S))
            BY <1>9, <2>2 DEF WriteMerged
        <3>2. /\ files' \in Maps(SUBSET Docs)
              /\ DOMAIN files' = DOMAIN files \cup {nextGen}
              /\ \A s : DocsOf(s)' =
                            IF s = nextGen THEN MergedDocs(S) ELSE DocsOf(s)
            BY <1>1, <1>5, <3>1, NewFiles
        <3>3. DocsOf(g)' = MergedDocs(S)
            BY <1>8, <3>2
        <3> QED
            BY <1>8, <3>2, <3>3 DEF DocsOf
    <2> QED
        BY <2>1, <2>2
<1>10. CASE WriteMerged(S) /\ MergeSaved(S, e)
    <2>1. Merged(S, e)
        BY <1>2, <1>4, <1>7, <1>8, <1>9, <1>10 DEF Merged
    <2> QED
        BY <2>1
<1>11. CASE /\ segs' = segs /\ manifest' = manifest
            /\ holder' = "done" /\ sources' = sources
            /\ WriteMerged(S) \/ files' = files
    <2>1. /\ files' \in Maps(SUBSET Docs)
          /\ DOMAIN files' \subseteq DOMAIN files \cup {g}
          /\ \A s : s # g => DocsOf(s)' = DocsOf(s)
          /\ \A d \in At(files', g, {}) : d \in MergedDocs(S)
        <3>1. CASE WriteMerged(S)
            BY <1>9, <3>1
        <3>2. CASE files' = files
            BY <1>1, <1>6, <1>8, <3>2 DEF Types, DocsOf
        <3> QED
            BY <1>11, <3>1, <3>2
    <2>2. Merged(S, e)
        BY <1>2, <1>4, <1>7, <1>8, <1>11, <2>1 DEF Merged
    <2> QED
        BY <2>2
<1>12. CASE Merge(S)
    <2>1. /\ WriteMerged(S) /\ segs' = e /\ manifest' = e
          /\ sources' = S /\ holder' = "release"
        BY <1>7, <1>12 DEF Merge, PublishAs, Step
    <2>2. MergeSaved(S, e)
        BY <1>8, <1>9, <2>1 DEF MergeSaved
    <2> QED
        BY <1>10, <2>1, <2>2
<1>13. CASE MergeFails(S)
    <2>1. /\ holder' = "done" /\ sources' = sources
          /\ \/ UNCHANGED <<files, segs, manifest>>
             \/ WriteMerged(S) /\ segs' = segs /\ manifest' \in {manifest, e}
        BY <1>7, <1>13 DEF MergeFails, PublishFailsAs, Step
    <2>2. CASE WriteMerged(S) /\ segs' = segs /\ manifest' = e
        <3>1. MergeSaved(S, e)
            BY <1>8, <1>9, <2>1, <2>2 DEF MergeSaved
        <3> QED
            BY <1>10, <2>2, <3>1
    <2> QED
        BY <1>11, <2>1, <2>2
<1> QED
    BY <1>12, <1>13

\* It keeps the invariant.
LEMMA MergeKeeps ==
    ASSUME LexInv, NEW S \in Windows, Merge(S) \/ MergeFails(S)
    PROVE  LexInv'
    BY MergeIs, MergedKeeps

\* Nor do the steps between merges touch more than the step.
LEMMA NoMergeKeeps ==
    ASSUME LexInv, NoMerge \/ Release \/ DeleteSourcesFails
                       \/ (DeleteSources /\ sources = {})
    PROVE  LexInv'
<1>1. Types /\ Phases /\ SearchShape
    BY DEF LexInv, Shape
<1>2. UNCHANGED <<up, log, todo, replay, writer, segs, nextGen, ckpt, manifest,
                  metadata, files, delmaps, building, unread, found, searcher,
                  hasSearcher, asOf>>
    <2>1. CASE NoMerge \/ Release \/ DeleteSourcesFails
        BY <2>1 DEF NoMerge, Release, ReleaseReaders, DeleteSourcesFails,
                    logVars, memoryVars, diskVars, searchVars
    <2>2. CASE DeleteSources /\ sources = {}
        BY <2>2 DEF DeleteSources, logVars, memoryVars, searchVars
    <2> QED
        BY <2>1, <2>2
<1>3. /\ holder \in {"merge", "release", "delete"}
      /\ call' = call /\ call \in {"none", "commit", "optimize"}
      /\ \/ holder = "merge" /\ holder' = "done" /\ sources' = sources
         \/ /\ holder = "release" /\ holder' = "delete" /\ sources' = sources
            /\ ~building
         \/ holder = "delete" /\ holder' \in {"merge", "done"} /\ sources' = {}
    BY <1>1 DEF NoMerge, Release, ReleaseReaders, DeleteSourcesFails,
                DeleteSources, Step, Types
<1>4. up /\ replay = 0 /\ MergePhase /\ MergePhase' /\ holder' \in Steps
    BY <1>1, <1>3 DEF Phases, MergePhase, Steps
<1>5. sources' \subseteq sources
    BY <1>3
<1>6. holder' = "delete" => DOMAIN unread = {}
    BY <1>1, <1>3, EmptyMap DEF SearchShape
<1>7. Phases'
    BY <1>1, <1>2, <1>3, <1>4, <1>5, <1>6 DEF Phases, MergePhase
<1> QED
    BY <1>2, <1>3, <1>4, <1>5, <1>7, QuietStep

\* The files of a source that are deleted are of no segment that is read.
LEMMA DeleteSourceKeeps ==
    ASSUME LexInv, DeleteSources, sources # {}
    PROVE  LexInv'
<1>1. /\ Types /\ LogShape /\ TodoShape /\ WriterShape /\ BitmapShape /\ Phases
      /\ Closed /\ Numbers /\ Logged /\ SearchShape
      /\ Contents /\ Once /\ Searches
    BY DEF LexInv, Shape
<1>2. PICK s : s = Min(sources)
    OBVIOUS
<1>3. /\ s \in sources /\ s \in Nat
    <2>1. sources \in SUBSET Nat
        BY <1>1 DEF Types
    <2>2. Min(sources) \in sources
        BY <2>1, Least
    <2> QED
        BY <1>2, <2>1, <2>2
<1>4. /\ holder = "delete" /\ holder' = holder
      /\ files' = Without(files, {s}) /\ delmaps' = Without(delmaps, {s})
      /\ sources' = sources \ {s}
      /\ UNCHANGED <<up, log, todo, replay, writer, segs, nextGen, ckpt,
                     manifest, metadata, call, building, unread, found,
                     searcher, hasSearcher, asOf>>
    BY <1>2 DEF DeleteSources, logVars, memoryVars, searchVars
<1>5. MergePhase /\ MergePhase'
    BY <1>4 DEF MergePhase
<1>6. /\ up /\ replay = 0 /\ writer.flushed = {} /\ SegIds = DOMAIN segs
      /\ DOMAIN writer.pending = {} /\ writer.superseded = {}
      /\ writer.buffer = {}
    BY <1>5, MergeFacts
<1>7. /\ s \notin DOMAIN segs /\ s \notin DOMAIN manifest
      /\ s \notin DOMAIN unread
    BY <1>1, <1>3, <1>4 DEF Phases
<1>8. /\ files' \in Maps(SUBSET Docs) /\ delmaps' \in Maps(SUBSET Docs)
      /\ DOMAIN files' = DOMAIN files \ {s}
      /\ DOMAIN delmaps' = DOMAIN delmaps \ {s}
      /\ \A u : /\ DocsOf(u)' = IF u = s THEN {} ELSE DocsOf(u)
                /\ Saved(u)' = IF u = s THEN {} ELSE Saved(u)
    <2>1. ASSUME NEW f \in Maps(SUBSET Docs)
          PROVE  /\ Without(f, {s}) \in Maps(SUBSET Docs)
                 /\ DOMAIN Without(f, {s}) = DOMAIN f \ {s}
                 /\ \A u : At(Without(f, {s}), u, {}) =
                               IF u = s THEN {} ELSE At(f, u, {})
        <3>1. PICK V : V = SUBSET Docs
            OBVIOUS
        <3>2. PICK T : T = {s}
            OBVIOUS
        <3>3. /\ Without(f, T) \in Maps(V)
              /\ DOMAIN Without(f, T) = DOMAIN f \ T
              /\ \A u, default : At(Without(f, T), u, default) =
                     IF u \in T THEN default ELSE At(f, u, default)
            <4>1. f \in Maps(V)
                BY <2>1, <3>1
            <4>2. Without(f, T) \in Maps(V)
                BY <4>1, WithoutMembers
            <4>3. DOMAIN Without(f, T) = DOMAIN f \ T
                BY DEF Without
            <4>4. \A u, default : At(Without(f, T), u, default) =
                      IF u \in T THEN default ELSE At(f, u, default)
                BY DEF Without, At
            <4> QED
                BY <4>2, <4>3, <4>4
        <3> QED
            BY <3>1, <3>2, <3>3
    <2>2. files \in Maps(SUBSET Docs) /\ delmaps \in Maps(SUBSET Docs)
        BY <1>1 DEF Types
    <2> QED
        BY <1>4, <2>1, <2>2 DEF DocsOf, Saved
<1>9. \A u : Marks(u)' = Marks(u)
    BY <1>4 DEF Marks
<1>10. \A u : u # s => /\ DocsOf(u)' = DocsOf(u) /\ Saved(u)' = Saved(u)
                       /\ Marked(u)' = Marked(u) /\ Kept(u)' = Kept(u)
    BY <1>8, <1>9 DEF Marked, Kept
<1>11. /\ Last' = Last /\ Live' = Live /\ OpenAdds' = OpenAdds
       /\ DoneDrops' = DoneDrops /\ Unreplayed' = Unreplayed
       /\ Adds(1..Last)' = Adds(1..Last) /\ Unsaved' = Unsaved
       /\ Drops(1..metadata)' = Drops(1..metadata)
       /\ Drops(1..asOf)' = Drops(1..asOf)
    BY <1>4, SameLog, SameUnsaved DEF Drops
<1>12. SegIds' = SegIds
    BY <1>4 DEF SegIds
<1>13. Types'
    <2>1. todo' \subseteq Task' /\ replay' \in 0..Last' /\ log' \in Seq(Record)
          /\ Last' <= MaxSeq
        BY <1>1, <1>4, <1>11 DEF Types, Task
    <2> QED
        BY <1>1, <1>4, <1>8, <2>1 DEF Types
<1>14. LogShape'
    BY <1>1, <1>4, <1>11 DEF LogShape
<1>15. TodoShape'
    BY <1>1, <1>4, <1>11 DEF TodoShape
<1>16. WriterShape'
    BY <1>1, <1>4, <1>5 DEF WriterShape
<1>17. BitmapShape'
    <2>1. \A u \in DOMAIN delmaps' : u \in DOMAIN delmaps /\ u # s
        BY <1>8
    <2>2. \A u \in DOMAIN segs \cup DOMAIN manifest : u # s
        BY <1>7
    <2>3. \A u \in DOMAIN delmaps' : writer.manager => Saved(u)' \subseteq Marks(u)'
        BY <1>1, <1>9, <1>10, <2>1 DEF BitmapShape
    <2>4. \A u \in (DOMAIN segs \cup DOMAIN manifest) \ writer.dirty :
              Marks(u)' \subseteq Saved(u)'
        BY <1>1, <1>6, <1>9, <1>10, <2>2 DEF BitmapShape
    <2> QED
        BY <1>4, <1>6, <1>12, <2>3, <2>4 DEF BitmapShape
<1>18. Phases' /\ Closed' /\ SearchShape'
    <2>1. Phases'
        BY <1>1, <1>4, <1>5, <1>6 DEF Phases, MergePhase
    <2> QED
        BY <1>1, <1>4, <2>1 DEF Closed, SearchShape
<1>19. Numbers'
    <2>1. Stems' \subseteq Stems
        BY <1>8 DEF Stems
    <2> QED
        BY <1>1, <1>4, <1>6, <2>1 DEF Numbers
<1>20. Logged'
    <2>1. \A u : DocsOf(u)' \subseteq Adds(1..Last)
        BY <1>1, <1>8 DEF Logged
    <2> QED
        BY <1>1, <1>4, <1>11, <2>1 DEF Logged
<1>21. Shape'
    BY <1>13, <1>14, <1>15, <1>16, <1>17, <1>18, <1>19, <1>20 DEF Shape
<1>22. \A u \in DOMAIN segs \cup DOMAIN manifest \cup DOMAIN unread :
           /\ DocsOf(u)' = DocsOf(u) /\ Saved(u)' = Saved(u)
           /\ Marked(u)' = Marked(u) /\ Kept(u)' = Kept(u)
    BY <1>7, <1>10
<1>23. Contents'
    <2>1. MemoryHas' /\ SupersededHeld'
        BY <1>1, <1>4, <1>6, <1>11, <1>12, <1>22
           DEF Contents, MemoryHas, SupersededHeld
    <2>2. MemoryHides'
        BY <1>1, <1>4, <1>6, <1>11, <1>12, <1>22 DEF Contents, MemoryHides
    <2>3. FlagsIn(segs)' /\ FlagsIn(writer.pending)' /\ ManifestFlags'
        BY <1>1, <1>4, <1>6, <1>11, <1>22 DEF Contents, FlagsIn, ManifestFlags
    <2>4. FlaggedIn(segs)' /\ FlaggedIn(writer.pending)' /\ FlaggedIn(manifest)'
        BY <1>1, <1>4, <1>6, <1>11, <1>22 DEF Contents, FlaggedIn
    <2>5. HidesIn(segs)' /\ HidesIn(writer.pending)' /\ HidesIn(manifest)'
        BY <1>1, <1>4, <1>6, <1>11, <1>22 DEF Contents, HidesIn
    <2>6. CheckpointKept' /\ ManifestHas'
        BY <1>1, <1>4, <1>11, <1>22 DEF Contents, CheckpointKept, ManifestHas
    <2>7. ManifestFrom'
        BY <1>1, <1>4, <1>6, <1>22 DEF Contents, ManifestFrom
    <2> QED
        BY <2>1, <2>2, <2>3, <2>4, <2>5, <2>6, <2>7 DEF Contents
<1>24. Once'
    <2>1. \A u \in DOMAIN segs : Hidden(u)' = Hidden(u)
        BY <1>4, <1>22 DEF Hidden, MarksOf, Saved
    <2>2. MemoryOnce'
        BY <1>1, <1>4, <1>6, <1>12, <1>22, <2>1 DEF Once, MemoryOnce
    <2>3. \A u \in DOMAIN manifest :
              MarksOf(u, manifest[u])' = MarksOf(u, manifest[u])
        BY <1>4, <1>22 DEF MarksOf, Saved
    <2>4. StorageOnce'
        BY <1>1, <1>4, <1>22, <2>3 DEF Once, StorageOnce
    <2> QED
        BY <2>2, <2>4 DEF Once
<1>25. Searches'
    <2>1. SearchOfMemory'
        BY <1>5 DEF SearchOfMemory
    <2>2. SearchOfCheckpoint'
        BY <1>1, <1>4, <1>11, <1>22 DEF Searches, SearchOfCheckpoint
    <2> QED
        BY <2>1, <2>2 DEF Searches
<1> QED
    BY <1>21, <1>23, <1>24, <1>25 DEF LexInv

\* The end of a commit or an optimization keeps the invariant.
LEMMA FinishKeeps ==
    ASSUME LexInv, Finish
    PROVE  LexInv'
<1>1. /\ Types /\ LogShape /\ TodoShape /\ WriterShape /\ BitmapShape /\ Phases
      /\ Closed /\ Numbers /\ Logged /\ SearchShape
      /\ Contents /\ Once
    BY DEF LexInv, Shape
<1>2. /\ holder = "done" /\ holder' = "free" /\ call' = "none"
      /\ ~building /\ building' = building /\ unread = <<>> /\ unread' = <<>>
      /\ found' = {} /\ searcher' = {} /\ ~hasSearcher' /\ asOf' = 0
      /\ writer' = IF writer.open THEN Invalidated(writer) ELSE writer
      /\ UNCHANGED <<up, log, todo, replay, segs, nextGen, ckpt, manifest,
                     metadata, files, delmaps, sources>>
    BY <1>1 DEF Finish, Step, SearchShape, logVars, memoryVars, diskVars
<1>3. MergePhase /\ ~MergePhase' /\ sources = {}
    BY <1>1, <1>2 DEF MergePhase, Phases
<1>4. /\ up /\ replay = 0 /\ Unreplayed = {}
      /\ writer.buffer = {} /\ writer.dirty = {} /\ writer.flips = {}
      /\ writer.flushed = {} /\ writer.superseded = {}
      /\ writer.pending = <<>> /\ DOMAIN writer.pending = {}
      /\ SegIds = DOMAIN segs
      /\ \A s \in DOMAIN segs \cup DOMAIN manifest : Marked(s) = Saved(s)
      /\ \A s \in DOMAIN segs : \A d \in DocsOf(s) :
             d \in Marked(s) => segs[s].hasDeletions
    BY <1>3, MergeFacts
<1>5. <<>> \in Maps(Entry) /\ <<>> \in Maps(SUBSET Docs) /\ DOMAIN <<>> = {}
      /\ \A s : At(<<>>, s, {}) = {}
    BY EmptyMap
<1>6. /\ writer' \in WriterRecord /\ writer'.open = writer.open
      /\ writer'.buffer = {} /\ writer'.flushed = {} /\ writer'.pending = <<>>
      /\ writer'.superseded = {} /\ writer'.flips = {} /\ writer'.dirty = {}
      /\ ~writer'.manager /\ writer'.marks = <<>> /\ writer'.seq = writer.seq
      /\ writer'.known \subseteq DOMAIN segs \cup writer.known
      /\ writer.open => writer'.known = DOMAIN segs
      /\ ~writer.open => writer' = NoWriter
    <2>1. CASE writer.open
        <3>1. writer' = Invalidated(writer)
            BY <1>2, <2>1
        <3>2. DOMAIN segs \subseteq Nat
            BY <1>1, MapShape DEF Types
        <3>3. writer \in WriterRecord
            BY <1>1 DEF Types
        <3>4. PICK D : D = DOMAIN segs
            OBVIOUS
        <3>5. writer' = [writer EXCEPT !.known = D, !.manager = FALSE,
                            !.marks = <<>>, !.dirty = {}, !.flips = {},
                            !.flushed = {}]
            BY <3>1, <3>4 DEF Invalidated
        <3>6. writer' \in WriterRecord
            BY <1>5, <3>2, <3>3, <3>4, <3>5 DEF WriterRecord
        <3>7. /\ writer'.open = writer.open /\ writer'.buffer = writer.buffer
              /\ writer'.flushed = {} /\ writer'.pending = writer.pending
              /\ writer'.superseded = writer.superseded
              /\ writer'.flips = {} /\ writer'.dirty = {}
              /\ writer'.manager = FALSE
              /\ writer'.marks = <<>> /\ writer'.seq = writer.seq
              /\ writer'.known = D
            BY <3>3, <3>5 DEF WriterRecord
        <3> QED
            BY <1>4, <2>1, <3>4, <3>6, <3>7
    <2>2. CASE ~writer.open
        <3>1. writer = NoWriter /\ writer' = NoWriter
            BY <1>1, <1>2, <2>2 DEF WriterShape
        <3>2. writer' \in WriterRecord /\ writer'.open = writer.open
              /\ writer'.seq = writer.seq /\ writer'.known = writer.known
            BY <1>1, <3>1 DEF Types
        <3> QED
            BY <2>2, <3>1, <3>2 DEF NoWriter
    <2> QED
        BY <2>1, <2>2
<1>7. /\ \A s : DocsOf(s)' = DocsOf(s) /\ Saved(s)' = Saved(s)
      /\ \A s : Marks(s)' = {}
    BY <1>2, <1>5, <1>6 DEF DocsOf, Saved, Marks
<1>8. /\ \A s : Marked(s)' = Saved(s)
      /\ \A s \in DOMAIN segs \cup DOMAIN manifest :
             Marked(s)' = Marked(s) /\ Kept(s)' = Kept(s)
    BY <1>4, <1>7 DEF Marked, Kept
<1>9. /\ Last' = Last /\ Live' = Live /\ OpenAdds' = OpenAdds
      /\ DoneDrops' = DoneDrops /\ Unreplayed' = Unreplayed
      /\ Adds(1..Last)' = Adds(1..Last) /\ Unsaved' = Unsaved
      /\ Drops(1..metadata)' = Drops(1..metadata)
    BY <1>2, SameLog, SameUnsaved
<1>10. SegIds' = DOMAIN segs
    BY <1>2, <1>6 DEF SegIds
<1>11. Types'
    <2>1. todo' \subseteq Task' /\ replay' \in 0..Last' /\ log' \in Seq(Record)
          /\ Last' <= MaxSeq
        BY <1>1, <1>2, <1>9 DEF Types, Task
    <2>2. /\ holder' \in Steps /\ call' \in {"none", "commit", "optimize"}
          /\ unread' \in Maps(Entry) /\ asOf' \in Nat
        BY <1>2, <1>5 DEF Steps
    <2>3. building' \in BOOLEAN
        BY <1>1, <1>2 DEF Types
    <2>4. hasSearcher' \in BOOLEAN
        BY DEF Finish
    <2> QED
        BY <1>1, <1>2, <1>6, <2>1, <2>2, <2>3, <2>4 DEF Types
<1>12. LogShape'
    BY <1>1, <1>2, <1>9 DEF LogShape
<1>13. TodoShape'
    BY <1>1, <1>2, <1>4, <1>6, <1>9 DEF TodoShape
<1>14. WriterShape'
    <2>1. CASE writer.open
        BY <1>2, <1>4, <1>5, <1>6, <2>1 DEF WriterShape
    <2>2. CASE ~writer.open
        BY <1>5, <1>6, <2>2 DEF WriterShape
    <2> QED
        BY <2>1, <2>2
<1>15. BitmapShape'
    BY <1>6, <1>7 DEF BitmapShape
<1>16. Phases' /\ Closed'
    BY <1>2, <1>3, <1>4 DEF Phases, MergePhase, Closed
<1>17. Numbers'
    BY <1>1, <1>2, <1>4, <1>5, <1>6 DEF Numbers, Stems
<1>18. Logged'
    BY <1>1, <1>2, <1>6, <1>7, <1>9 DEF Logged
<1>19. SearchShape'
    <2>1. metadata \in Nat
        BY <1>1 DEF Types
    <2> QED
        BY <1>2, <1>5, <2>1 DEF SearchShape
<1>20. Shape'
    BY <1>11, <1>12, <1>13, <1>14, <1>15, <1>16, <1>17, <1>18, <1>19 DEF Shape
<1>21. Contents'
    <2>1. MemoryHas' /\ SupersededHeld'
        BY <1>1, <1>2, <1>4, <1>6, <1>8, <1>9, <1>10
           DEF Contents, MemoryHas, SupersededHeld
    <2>2. MemoryHides'
        BY <1>1, <1>2, <1>4, <1>6, <1>7, <1>8, <1>9, <1>10
           DEF Contents, MemoryHides
    <2>3. FlagsIn(segs)' /\ FlagsIn(writer.pending)' /\ ManifestFlags'
        BY <1>1, <1>2, <1>4, <1>5, <1>6, <1>7, <1>8, <1>9
           DEF Contents, FlagsIn, ManifestFlags
    <2>4. FlaggedIn(segs)' /\ FlaggedIn(writer.pending)' /\ FlaggedIn(manifest)'
        BY <1>1, <1>2, <1>5, <1>6, <1>7, <1>8, <1>9 DEF Contents, FlaggedIn
    <2>5. HidesIn(segs)' /\ HidesIn(writer.pending)' /\ HidesIn(manifest)'
        BY <1>1, <1>2, <1>5, <1>6, <1>7, <1>9 DEF Contents, HidesIn
    <2>6. CheckpointKept' /\ ManifestHas'
        BY <1>1, <1>2, <1>8, <1>9 DEF Contents, CheckpointKept, ManifestHas
    <2>7. ManifestFrom'
        BY <1>1, <1>2, <1>4, <1>7 DEF Contents, ManifestFrom
    <2> QED
        BY <2>1, <2>2, <2>3, <2>4, <2>5, <2>6, <2>7 DEF Contents
<1>22. Once'
    <2>1. ASSUME NEW s \in DOMAIN segs, NEW d \in DocsOf(s), d \in Hidden(s)
          PROVE  d \in Hidden(s)'
        <3>1. d \in Marked(s)
            BY <2>1 DEF Hidden, Marked, Marks, Saved, MarksOf
        <3>2. d \in Saved(s) /\ segs[s].hasDeletions
            BY <1>4, <3>1
        <3> QED
            BY <1>2, <1>6, <3>2 DEF Hidden, MarksOf, Saved
    <2>2. MemoryOnce'
        BY <1>1, <1>4, <1>6, <1>7, <1>10, <2>1 DEF Once, MemoryOnce
    <2>3. StorageOnce'
        BY <1>1, <1>2, <1>7 DEF Once, StorageOnce, MarksOf
    <2> QED
        BY <2>2, <2>3 DEF Once
<1>23. Searches'
    <2>1. SearchOfMemory'
        BY <1>2, <1>5 DEF SearchOfMemory
    <2>2. SearchOfCheckpoint'
        BY <1>2 DEF SearchOfCheckpoint
    <2> QED
        BY <2>1, <2>2 DEF Searches
<1> QED
    BY <1>20, <1>21, <1>22, <1>23 DEF LexInv

-----------------------------------------------------------------------------
(* Crashes and recovery.                                                   *)

\* A crash keeps what is on storage.
LEMMA CrashKeeps ==
    ASSUME LexInv, Crash
    PROVE  LexInv'
<1>1. /\ Types /\ LogShape /\ TodoShape /\ Numbers /\ Logged /\ SearchShape
      /\ Contents /\ Once
    BY DEF LexInv, Shape
<1>2. /\ up /\ ~up' /\ todo' = {} /\ replay' = 0 /\ writer' = NoWriter
      /\ segs' = <<>> /\ nextGen' = 0 /\ ckpt' = 0
      /\ holder' = "free" /\ call' = "none" /\ sources' = {}
      /\ ~building' /\ unread' = <<>> /\ found' = {}
      /\ searcher' = {} /\ ~hasSearcher' /\ asOf' = 0
      /\ UNCHANGED <<log, manifest, metadata, files, delmaps>>
    BY DEF Crash, diskVars
<1>3. /\ DOMAIN <<>> = {} /\ \A values : <<>> \in Maps(values)
      /\ \A s : At(<<>>, s, {}) = {}
    BY EmptyMap
<1>4. /\ DOMAIN segs' = {} /\ DOMAIN unread' = {}
      /\ DOMAIN writer'.pending = {} /\ DOMAIN writer'.marks = {}
      /\ writer'.pending = <<>> /\ ~writer'.open /\ ~writer'.manager
      /\ writer'.buffer = {} /\ writer'.known = {} /\ writer'.flushed = {}
      /\ writer'.dirty = {} /\ writer'.flips = {} /\ writer'.superseded = {}
      /\ writer'.seq = 0 /\ writer'.marks = <<>>
    BY <1>2, <1>3 DEF NoWriter
<1>5. NoWriter \in WriterRecord
    BY <1>3 DEF NoWriter, WriterRecord
<1>6. SegIds' = {}
    BY <1>4 DEF SegIds
<1>7. \A s : /\ DocsOf(s)' = DocsOf(s) /\ Saved(s)' = Saved(s)
             /\ Marks(s)' = {}
    BY <1>2, <1>3, <1>4 DEF DocsOf, Saved, Marks
<1>8. \A s : Marked(s)' \subseteq Marked(s) /\ Kept(s) \subseteq Kept(s)'
    BY <1>7 DEF Marked, Kept
<1>9. /\ Last' = Last /\ Live' = Live /\ Unsaved' = Unsaved
      /\ Drops(1..metadata)' = Drops(1..metadata)
      /\ Adds(1..Last)' = Adds(1..Last)
    BY <1>2, SameUnsaved DEF Adds, Last
<1>10. metadata \in Nat /\ Last \in Nat /\ nextGen \in Nat
    BY <1>1, TypeFacts DEF Types
<1>11. Types'
    <2>1. /\ up' \in BOOLEAN /\ building' \in BOOLEAN
          /\ hasSearcher' \in BOOLEAN
        BY DEF Crash
    <2>2. todo' \subseteq Task' /\ replay' \in 0..Last' /\ log' \in Seq(Record)
          /\ Last' <= MaxSeq
        BY <1>1, <1>2, <1>9, <1>10 DEF Types
    <2>3. /\ segs' \in Maps(Entry) /\ manifest' \in Maps(Entry)
          /\ unread' \in Maps(Entry)
          /\ files' \in Maps(SUBSET Docs) /\ delmaps' \in Maps(SUBSET Docs)
        BY <1>1, <1>2, <1>3 DEF Types
    <2>4. /\ nextGen' \in Nat /\ ckpt' \in Nat /\ metadata' \in Nat
          /\ asOf' \in Nat
          /\ holder' \in Steps /\ call' \in {"none", "commit", "optimize"}
          /\ sources' \subseteq Nat
          /\ found' \subseteq Docs /\ searcher' \subseteq Docs
        BY <1>2, <1>10 DEF Steps
    <2>5. writer' \in WriterRecord
        BY <1>2, <1>5
    <2> QED
        BY <2>1, <2>2, <2>3, <2>4, <2>5 DEF Types
<1>12. LogShape' /\ TodoShape'
    BY <1>1, <1>2, <1>4, <1>9, <1>10 DEF LogShape, TodoShape
<1>13. WriterShape' /\ BitmapShape'
    BY <1>2, <1>4, <1>7 DEF WriterShape, BitmapShape
<1>14. Phases' /\ Closed'
    BY <1>2, <1>4 DEF Phases, MergePhase, Closed
<1>15. Numbers'
    <2>1. 0..nextGen - 1 \subseteq 0..nextGen
        BY <1>10
    <2>2. DOMAIN manifest \cup Stems \subseteq 0..nextGen
        BY <1>1, <1>2, <2>1 DEF Numbers
    <2>3. Stems' = Stems
        BY <1>2 DEF Stems
    <2> QED
        BY <1>2, <1>10, <2>2, <2>3 DEF Numbers
<1>16. Logged' /\ SearchShape'
    BY <1>1, <1>2, <1>4, <1>7, <1>9, <1>10 DEF Logged, SearchShape
<1>17. Shape'
    BY <1>11, <1>12, <1>13, <1>14, <1>15, <1>16 DEF Shape
<1>18. Contents'
    <2>1. /\ MemoryHas' /\ MemoryHides' /\ FlagsIn(segs)'
          /\ FlagsIn(writer.pending)' /\ ManifestFlags' /\ ManifestHas'
          /\ ManifestFrom'
        BY <1>2 DEF MemoryHas, MemoryHides, FlagsIn, ManifestFlags,
                    ManifestHas, ManifestFrom
    <2>2. /\ FlaggedIn(segs)' /\ FlaggedIn(writer.pending)'
          /\ HidesIn(segs)' /\ HidesIn(writer.pending)'
        BY <1>4 DEF FlaggedIn, HidesIn
    <2>3. FlaggedIn(manifest)'
        BY <1>1, <1>2, <1>7, <1>8, <1>9 DEF Contents, FlaggedIn
    <2>4. HidesIn(manifest)'
        BY <1>1, <1>2, <1>7, <1>9 DEF Contents, HidesIn
    <2>5. CheckpointKept'
        BY <1>1, <1>2, <1>8, <1>9 DEF Contents, CheckpointKept
    <2>6. SupersededHeld'
        BY <1>4 DEF SupersededHeld
    <2> QED
        BY <2>1, <2>2, <2>3, <2>4, <2>5, <2>6 DEF Contents
<1>19. Once'
    <2>1. MemoryOnce'
        BY <1>6 DEF MemoryOnce
    <2>2. StorageOnce'
        BY <1>1, <1>2, <1>7 DEF Once, StorageOnce, MarksOf
    <2> QED
        BY <2>1, <2>2 DEF Once
<1>20. Searches'
    <2>1. SearchOfMemory'
        BY <1>2, <1>4 DEF SearchOfMemory
    <2>2. SearchOfCheckpoint'
        BY <1>2 DEF SearchOfCheckpoint
    <2> QED
        BY <2>1, <2>2 DEF Searches
<1> QED
    BY <1>17, <1>18, <1>19, <1>20 DEF LexInv

\* The generations that an open index reserves are above every one there is.
LEMMA DerivedFacts ==
    ASSUME Types, Numbers, ~up
    PROVE  /\ DerivedGen \in Nat
           /\ DOMAIN manifest \cup Stems \subseteq 0..DerivedGen - 1
<1> DEFINE E == DOMAIN manifest \cup Stems
           G == {0} \cup {g + 1 : g \in E}
<1>1. PICK k \in Nat : E \subseteq 0..k
    BY DEF Numbers
<1>2. /\ G \in SUBSET Nat /\ G # {} /\ k + 1 \in Nat
      /\ \A x \in G : x <= k + 1
    BY <1>1
<1>3. DerivedGen = Max(G)
    <2>1. G = {0} \cup {g + 1 : g \in DOMAIN manifest \cup Stems}
        OBVIOUS
    <2> QED
        BY <2>1 DEF DerivedGen
<1> HIDE DEF G
<1>4. Max(G) \in G /\ \A x \in G : x <= Max(G)
    BY <1>2, Largest
<1>5. DerivedGen \in Nat
    BY <1>2, <1>3, <1>4
<1>6. ASSUME NEW g \in E PROVE g \in 0..DerivedGen - 1
    <2>1. g \in Nat /\ g + 1 \in G
        BY <1>1 DEF G
    <2>2. g + 1 <= DerivedGen
        BY <1>3, <1>4, <2>1
    <2> QED
        BY <1>5, <2>1, <2>2
<1> QED
    BY <1>5, <1>6

\* What the replay has to do is all that the checkpoint leaves out.
LEMMA OpenFacts ==
    ASSUME LexInv, Open
    PROVE  /\ Last' = Last /\ Live' = Live /\ Adds(1..Last)' = Adds(1..Last)
           /\ OpenAdds' = Adds(metadata + 1..Last)
           /\ DoneDrops' = Drops(1..metadata)
           /\ Unreplayed' = Unsaved /\ Unsaved' = Unsaved
           /\ \A d \in Live \ OpenAdds' : d \in 1..metadata
           /\ \A s \in DOMAIN manifest :
                  DocsOf(s)' = DocsOf(s) /\ Saved(s)' = Saved(s)
           /\ \A s : DocsOf(s)' \subseteq DocsOf(s)
           /\ files' \in Maps(SUBSET Docs) /\ delmaps' \in Maps(SUBSET Docs)
           /\ Stems' \subseteq Stems
<1>1. Types /\ LogShape /\ TodoShape /\ Closed
    BY DEF LexInv, Shape
<1>2. /\ ~up /\ todo = {}
      /\ replay' = IF metadata < Last THEN metadata + 1 ELSE 0
      /\ UNCHANGED <<log, todo, metadata>>
    BY <1>1 DEF Open, Closed
<1>3. Last \in Nat /\ metadata \in Nat /\ metadata <= Last
    BY <1>1, TypeFacts DEF Types, TodoShape
<1>4. /\ Last' = Last /\ Live' = Live /\ Unsaved' = Unsaved
      /\ Adds(1..Last)' = Adds(1..Last) /\ Drops(1..Last)' = Drops(1..Last)
    BY <1>2, SameUnsaved DEF Adds, Drops, Last
<1>5. Adds({}) = {} /\ Drops({}) = {}
    BY <1>1, LogFacts
<1>6. /\ OpenAdds' = Adds(metadata + 1..Last)
      /\ OpenDrops' = Drops(metadata + 1..Last)
      /\ Unreplayed' = Unsaved
    <2>1. CASE metadata < Last
        <3>1. replay' = metadata + 1 /\ replay' # 0
            BY <1>2, <1>3, <2>1
        <3>2. PICK r : r = metadata + 1
            OBVIOUS
        <3>3. replay' = r /\ r # 0
            BY <3>1, <3>2
        <3>4. /\ OpenAdds' = Adds(r..Last)
              /\ OpenDrops' = Drops(r..Last)
              /\ Unreplayed' = Adds(r..Last) \cup Drops(r..Last)
            BY <1>2, <1>4, <3>3 DEF OpenAdds, OpenDrops, Unreplayed, Adds, Drops
        <3> QED
            BY <3>2, <3>4 DEF Unsaved
    <2>2. CASE ~(metadata < Last)
        <3>1. replay' = 0 /\ todo' = {}
            BY <1>2, <2>2
        <3>2. metadata + 1..Last = {}
            BY <1>3, <2>2
        <3>3. /\ OpenAdds' = {} /\ OpenDrops' = {} /\ Unreplayed' = {}
            BY <3>1 DEF OpenAdds, OpenDrops, Unreplayed
        <3> QED
            BY <1>5, <3>2, <3>3 DEF Unsaved
    <2> QED
        BY <2>1, <2>2
<1>7. /\ Drops(1..Last) = Drops(1..metadata) \cup Drops(metadata + 1..Last)
      /\ Drops(1..metadata) \cap Drops(metadata + 1..Last) = {}
      /\ Adds(metadata + 1..Last) = (metadata + 1..Last) \cap Adds(1..Last)
      /\ Adds(1..Last) \subseteq 1..Last
    BY <1>1, <1>3, LogSplit, LogFacts
<1>8. DoneDrops' = Drops(1..metadata)
    BY <1>4, <1>6, <1>7 DEF DoneDrops
<1>9. \A d \in Live \ OpenAdds' : d \in 1..metadata
    <2>1. \A d \in Adds(1..Last) \ Adds(metadata + 1..Last) : d \in 1..metadata
        BY <1>3, <1>7
    <2> QED
        BY <1>6, <2>1 DEF Live
<1>10. PICK swept \in SUBSET (Stems \ DOMAIN manifest) :
           /\ files' = Without(files, swept)
           /\ delmaps' = Without(delmaps, swept)
    BY DEF Open
<1>11. ASSUME NEW f \in Maps(SUBSET Docs)
       PROVE  /\ Without(f, swept) \in Maps(SUBSET Docs)
              /\ DOMAIN Without(f, swept) = DOMAIN f \ swept
              /\ \A u : At(Without(f, swept), u, {}) =
                            IF u \in swept THEN {} ELSE At(f, u, {})
    <2>1. PICK V : V = SUBSET Docs
        OBVIOUS
    <2>2. f \in Maps(V)
        BY <1>11, <2>1
    <2>3. Without(f, swept) \in Maps(V)
        BY <2>2, WithoutMembers
    <2>4. DOMAIN Without(f, swept) = DOMAIN f \ swept
        BY DEF Without
    <2>5. \A u : At(Without(f, swept), u, {}) =
                     IF u \in swept THEN {} ELSE At(f, u, {})
        BY DEF Without, At
    <2> QED
        BY <2>1, <2>3, <2>4, <2>5
<1>12. /\ files' \in Maps(SUBSET Docs) /\ delmaps' \in Maps(SUBSET Docs)
       /\ DOMAIN files' \subseteq DOMAIN files
       /\ DOMAIN delmaps' \subseteq DOMAIN delmaps
       /\ \A u : DocsOf(u)' = IF u \in swept THEN {} ELSE DocsOf(u)
       /\ \A u : Saved(u)' = IF u \in swept THEN {} ELSE Saved(u)
    <2>1. files \in Maps(SUBSET Docs) /\ delmaps \in Maps(SUBSET Docs)
        BY <1>1 DEF Types
    <2> QED
        BY <1>10, <1>11, <2>1 DEF DocsOf, Saved
<1>13. Stems' \subseteq Stems
    BY <1>12 DEF Stems
<1>14. \A s \in DOMAIN manifest : s \notin swept
    BY <1>10
<1> QED
    BY <1>4, <1>6, <1>8, <1>9, <1>12, <1>13, <1>14

\* The index that opens holds what the manifest does, and keeps the invariant.
LEMMA OpenKeeps ==
    ASSUME LexInv, Open
    PROVE  LexInv'
<1>1. /\ Types /\ LogShape /\ TodoShape /\ WriterShape /\ Phases /\ Closed
      /\ Numbers /\ Logged /\ SearchShape /\ Contents /\ Once
    BY DEF LexInv, Shape
<1>2. /\ ~up /\ up' /\ writer = NoWriter /\ writer' = NoWriter
      /\ todo = {} /\ todo' = {} /\ holder = "free" /\ holder' = "free"
      /\ segs' = manifest /\ ckpt' = metadata /\ nextGen' = DerivedGen
      /\ replay' = IF metadata < Last THEN metadata + 1 ELSE 0
      /\ sources = {} /\ sources' = {} /\ call' = call
      /\ ~building' /\ ~hasSearcher' /\ unread' = <<>> /\ found' = {}
      /\ searcher' = {} /\ asOf' = 0
      /\ building' = building /\ hasSearcher' = hasSearcher
      /\ UNCHANGED <<log, manifest, metadata>>
    <2>1. /\ ~up /\ writer = NoWriter /\ todo = {} /\ holder = "free"
          /\ ~building /\ ~hasSearcher
        BY <1>1 DEF Open, Closed
    <2>2. sources = {} /\ unread = <<>> /\ found = {} /\ searcher = {} /\ asOf = 0
        BY <1>1, <2>1 DEF Phases, SearchShape
    <2> QED
        BY <2>1, <2>2 DEF Open, holderVars, searchVars
<1>3. /\ DOMAIN <<>> = {} /\ \A values : <<>> \in Maps(values)
      /\ \A s : At(<<>>, s, {}) = {}
    BY EmptyMap
<1>4. /\ DOMAIN unread' = {}
      /\ DOMAIN writer'.pending = {} /\ DOMAIN writer'.marks = {}
      /\ writer'.pending = <<>> /\ ~writer'.open /\ ~writer'.manager
      /\ writer'.buffer = {} /\ writer'.known = {} /\ writer'.flushed = {}
      /\ writer'.dirty = {} /\ writer'.flips = {} /\ writer'.superseded = {}
      /\ writer'.seq = 0 /\ writer'.marks = <<>>
    BY <1>2, <1>3 DEF NoWriter
<1>5. SegIds' = DOMAIN manifest /\ DOMAIN segs' = DOMAIN manifest
    BY <1>2, <1>4 DEF SegIds
<1>6. /\ Last' = Last /\ Live' = Live /\ Adds(1..Last)' = Adds(1..Last)
      /\ DoneDrops' = Drops(1..metadata)
      /\ Unreplayed' = Unsaved /\ Unsaved' = Unsaved
      /\ \A d \in Live \ OpenAdds' : d \in 1..metadata
      /\ \A s \in DOMAIN manifest :
             DocsOf(s)' = DocsOf(s) /\ Saved(s)' = Saved(s)
      /\ \A s : DocsOf(s)' \subseteq DocsOf(s)
      /\ files' \in Maps(SUBSET Docs) /\ delmaps' \in Maps(SUBSET Docs)
      /\ Stems' \subseteq Stems
    BY OpenFacts
<1>7. \A s : Marks(s) = {} /\ Marks(s)' = {}
    BY <1>2, <1>3, <1>4 DEF Marks, NoWriter
<1>8. \A s \in DOMAIN manifest :
          /\ Marked(s)' = Marked(s) /\ Kept(s)' = Kept(s)
          /\ Marked(s) = Saved(s)
    BY <1>6, <1>7 DEF Marked, Kept
<1>9. Drops(1..metadata)' = Drops(1..metadata)
    BY <1>2 DEF Drops
<1>10. /\ metadata \in Nat /\ Last \in Nat /\ metadata <= Last
       /\ DerivedGen \in Nat
       /\ DOMAIN manifest \cup Stems \subseteq 0..DerivedGen - 1
    BY <1>1, <1>2, TypeFacts, DerivedFacts DEF Types, TodoShape
<1>11. Types'
    <2>1. replay' \in 0..Last
        BY <1>2, <1>10
    <2>2. todo' \subseteq Task' /\ replay' \in 0..Last' /\ log' \in Seq(Record)
          /\ Last' <= MaxSeq
        BY <1>1, <1>2, <1>6, <2>1 DEF Types
    <2>3. /\ segs' \in Maps(Entry) /\ manifest' \in Maps(Entry)
          /\ unread' \in Maps(Entry)
        BY <1>1, <1>2, <1>3 DEF Types
    <2>4. /\ nextGen' \in Nat /\ ckpt' \in Nat /\ metadata' \in Nat
          /\ asOf' \in Nat
          /\ holder' \in Steps
          /\ sources' \subseteq Nat
          /\ found' \subseteq Docs /\ searcher' \subseteq Docs
        BY <1>2, <1>10 DEF Steps
    <2>5. /\ writer' \in WriterRecord /\ call' \in {"none", "commit", "optimize"}
          /\ building' \in BOOLEAN /\ hasSearcher' \in BOOLEAN
        BY <1>1, <1>2 DEF Types
    <2>6. up' \in BOOLEAN
        BY DEF Open
    <2> QED
        BY <1>6, <2>2, <2>3, <2>4, <2>5, <2>6 DEF Types
<1>12. LogShape'
    BY <1>1, <1>2, <1>6 DEF LogShape
<1>13. TodoShape'
    <2>1. replay' # 0 => metadata < replay'
        BY <1>2, <1>10
    <2>2. replay' # 0 => 0 < replay'
        BY <1>2, <1>10
    <2> QED
        BY <1>2, <1>4, <1>6, <1>10, <2>1, <2>2 DEF TodoShape
<1>14. WriterShape' /\ BitmapShape'
    BY <1>2, <1>4, <1>7 DEF WriterShape, BitmapShape
<1>15. Phases' /\ Closed'
    BY <1>2, <1>4 DEF Phases, MergePhase, Closed
<1>16. Numbers'
    BY <1>2, <1>4, <1>6, <1>10 DEF Numbers
<1>17. Logged'
    BY <1>1, <1>2, <1>4, <1>6 DEF Logged
<1>18. SearchShape'
    BY <1>2, <1>4, <1>10 DEF SearchShape
<1>19. Shape'
    BY <1>11, <1>12, <1>13, <1>14, <1>15, <1>16, <1>17, <1>18 DEF Shape
<1>20. /\ FlaggedIn(manifest) /\ HidesIn(manifest) /\ CheckpointKept
       /\ StorageOnce
    BY <1>1 DEF Contents, Once
<1>21. Contents'
    <2>1. MemoryHas'
        BY <1>5, <1>6, <1>8, <1>20 DEF MemoryHas, CheckpointKept
    <2>2. MemoryHides'
        BY <1>2, <1>4, <1>5, <1>6, <1>8, <1>20 DEF MemoryHides, HidesIn
    <2>3. FlagsIn(segs)' /\ FlagsIn(writer.pending)'
        BY <1>2, <1>4, <1>6, <1>8, <1>20 DEF FlagsIn, FlaggedIn
    <2>4. ManifestFlags'
        BY <1>2, <1>6, <1>8, <1>20 DEF ManifestFlags, FlaggedIn, HidesIn
    <2>5. FlaggedIn(segs)' /\ FlaggedIn(writer.pending)' /\ FlaggedIn(manifest)'
        BY <1>2, <1>4, <1>6, <1>8, <1>20 DEF FlaggedIn
    <2>6. HidesIn(segs)' /\ HidesIn(writer.pending)' /\ HidesIn(manifest)'
        BY <1>2, <1>4, <1>6, <1>9, <1>20 DEF HidesIn
    <2>7. CheckpointKept'
        BY <1>2, <1>6, <1>8, <1>20 DEF CheckpointKept
    <2>8. ManifestHas' /\ ManifestFrom' /\ SupersededHeld'
        BY <1>2, <1>4 DEF ManifestHas, ManifestFrom, SupersededHeld
    <2> QED
        BY <2>1, <2>2, <2>3, <2>4, <2>5, <2>6, <2>7, <2>8 DEF Contents
<1>22. Once'
    <2>1. \A s \in DOMAIN manifest :
              MarksOf(s, manifest[s])' = MarksOf(s, manifest[s])
        BY <1>2, <1>6 DEF MarksOf, Saved
    <2>2. StorageOnce'
        BY <1>2, <1>6, <1>20, <2>1 DEF StorageOnce
    <2>3. \A s \in DOMAIN manifest : Hidden(s)' = MarksOf(s, manifest[s])
        BY <1>2, <1>4, <1>5, <2>1 DEF Hidden, MarksOf
    <2>4. MemoryOnce'
        BY <1>4, <1>5, <1>6, <1>20, <2>3 DEF MemoryOnce, StorageOnce
    <2> QED
        BY <2>2, <2>4 DEF Once
<1>23. Searches'
    <2>1. SearchOfMemory'
        BY <1>2, <1>4 DEF SearchOfMemory
    <2>2. SearchOfCheckpoint'
        BY <1>2 DEF SearchOfCheckpoint
    <2> QED
        BY <2>1, <2>2 DEF Searches
<1> QED
    BY <1>19, <1>21, <1>22, <1>23 DEF LexInv

-----------------------------------------------------------------------------
(* Every step keeps the invariant.                                         *)

\* One that changes nothing does.
LEMMA StutterKeeps ==
    ASSUME LexInv, UNCHANGED vars
    PROVE  LexInv'
<1>1. Types /\ Closed /\ Phases /\ Logged /\ SearchShape /\ Searches
    BY DEF LexInv, Shape
<1>2. UNCHANGED elsewhere
    BY DEF vars, elsewhere
<1>3. UNCHANGED <<building, unread, found, searcher, hasSearcher, asOf>>
    BY DEF vars, searchVars
<1>4. UNCHANGED <<up, log, todo, replay, writer, segs, nextGen, ckpt, metadata,
                  files, delmaps, holder>>
    BY <1>2 DEF elsewhere, logVars, memoryVars, diskVars, holderVars
<1>5. SearchShape'
    BY <1>1, <1>3, <1>4 DEF SearchShape
<1>6. Searches'
    BY <1>1, <1>3, <1>4, KeepSearches DEF SameWriting, MergePhase
<1>7. /\ unread' \in Maps(Entry) /\ asOf' \in Nat
      /\ building' \in BOOLEAN /\ hasSearcher' \in BOOLEAN
    BY <1>1, <1>3 DEF Types
<1>8. /\ found' \cup searcher' \subseteq Adds(1..Last)
      /\ (~up => ~building' /\ ~hasSearcher')
      /\ (holder = "delete" => sources \cap DOMAIN unread' = {})
    BY <1>1, <1>3 DEF Closed, Phases, Logged
<1> QED
    BY <1>2, <1>5, <1>6, <1>7, <1>8, SearchKeeps

\* The others, one operation after the other.
LEMMA NextLex ==
    ASSUME LexInv, [Next]_vars
    PROVE  LexInv'
<1>1. ASSUME NEW id \in Ids, LogPut(id)
      PROVE  LexInv'
    <2>1. PICK docs : docs = {Last + 1}
        OBVIOUS
    <2>2. docs \in {{}, {Last + 1}} /\ docs # {}
        BY <2>1
    <2>3. Mutate(id, docs) /\ writer' = Writer
        BY <1>1, <2>1 DEF LogPut
    <2> QED
        BY <2>2, <2>3, MutateKeeps
<1>2. ASSUME NEW id \in Ids, LogDelete(id)
      PROVE  LexInv'
    <2>1. PICK docs : docs = {}
        OBVIOUS
    <2>2. docs \in {{}, {Last + 1}}
        BY <2>1
    <2>3. Mutate(id, docs) /\ writer' = writer /\ Lookup(id) # {}
        BY <1>2, <2>1 DEF LogDelete
    <2> QED
        BY <2>2, <2>3, MutateKeeps
<1>3. ASSUME NEW t \in todo, DeleteVersion(t) \/ Insert(t)
      PROVE  LexInv'
    BY <1>3, MarksKeep
<1>4. CASE AutoFlush
    BY <1>4, FlushKeeps
<1>5. CASE Commit
    <2>1. CASE StartCommit \/ StartOptimize
        BY <2>1, StartKeeps
    <2>2. CASE Flush \/ FlushFails
        BY <2>2, FlushKeeps
    <2>3. CASE SaveMarks \/ SaveMarksFails
        BY <2>3, SaveMarksKeeps
    <2>4. CASE FlagDeletions \/ FlagDeletionsFails
        BY <2>4, FlagKeeps
    <2>5. CASE Publish \/ PublishFails
        BY <2>5, PublishKeeps
    <2>6. CASE Checkpoint \/ CheckpointFails
        BY <2>6, CheckpointKeeps
    <2>7. CASE \E S \in Windows : Merge(S) \/ MergeFails(S)
        BY <2>7, MergeKeeps
    <2>8. CASE NoMerge \/ Release \/ DeleteSources \/ DeleteSourcesFails
        BY <2>8, NoMergeKeeps, DeleteSourceKeeps
    <2>9. CASE Finish
        BY <2>9, FinishKeeps
    <2> QED
        BY <1>5, <2>1, <2>2, <2>3, <2>4, <2>5, <2>6, <2>7, <2>8, <2>9
           DEF Commit
<1>6. CASE BuildSearcher
    BY <1>6, StartBuildKeeps, ReadSegmentKeeps, FinishBuildKeeps
       DEF BuildSearcher
<1>7. CASE Crash \/ Open \/ ReplayRecord
    BY <1>7, CrashKeeps, OpenKeeps, MarksKeep
<1>8. CASE UNCHANGED vars
    BY <1>8, StutterKeeps
<1> QED
    BY <1>1, <1>2, <1>3, <1>4, <1>5, <1>6, <1>7, <1>8 DEF Next

-----------------------------------------------------------------------------
(* What the manifest's entries count.                                      *)

\* What a segment's bitmap hides of its documents, and what the one on
\* storage does.
Hides(s) == DocsOf(s) \cap Marked(s)
Stored(s) == DocsOf(s) \cap Saved(s)

\* An entry counts what is hidden, unless a record that is open does it again.
Tells(entry, hidden, open) ==
    entry.deleted = Cardinality(hidden) \/ hidden \cap open # {}

\* In memory, what the commit is not about to count again.
CountsIn(entries) ==
    up => \A s \in DOMAIN entries :
              s \in writer.flips \/ Tells(entries[s], Hides(s), Unreplayed)

\* The manifest lags memory only while a count is to be set.
ManifestCounts ==
    up /\ writer.flips = {} =>
        \A m \in DOMAIN manifest : Tells(manifest[m], Hides(m), Unreplayed)

\* What the commit counts again hides a document that a replay would hide.
FlipsUnsaved == \A s \in writer.flips : Hides(s) \cap Unsaved # {}

\* On storage, what a replay would not count again.
StorageCounts == \A m \in DOMAIN manifest : Tells(manifest[m], Stored(m), Unsaved)

Counts == /\ CountsIn(segs) /\ CountsIn(writer.pending) /\ ManifestCounts
          /\ FlipsUnsaved /\ StorageCounts

\* With nothing open, the counts are exact.
Exact(entries) ==
    \A s \in DOMAIN entries : entries[s].deleted = Cardinality(Hides(s))

\* A step that changes none of what is counted keeps the counts.
LEMMA KeepCounts ==
    ASSUME Counts, UNCHANGED <<up, segs, manifest>>,
           writer'.pending = writer.pending, writer'.flips = writer.flips,
           \A s \in DOMAIN segs \cup DOMAIN manifest \cup DOMAIN writer.pending
                    \cup writer.flips :
               /\ DocsOf(s)' = DocsOf(s) /\ Saved(s)' = Saved(s)
               /\ Marked(s)' = Marked(s),
           Unreplayed \subseteq Unreplayed', Unsaved \subseteq Unsaved'
    PROVE  Counts'
<1>1. \A s \in DOMAIN segs \cup DOMAIN manifest \cup DOMAIN writer.pending
                   \cup writer.flips :
          Hides(s)' = Hides(s) /\ Stored(s)' = Stored(s)
    BY DEF Hides, Stored
<1>2. ASSUME NEW entry, NEW hidden
      PROVE  /\ Tells(entry, hidden, Unreplayed) =>
                    Tells(entry, hidden, Unreplayed')
             /\ Tells(entry, hidden, Unsaved) => Tells(entry, hidden, Unsaved')
    BY DEF Tells
<1>3. CountsIn(segs)'
    BY <1>1, <1>2 DEF Counts, CountsIn
<1>4. CountsIn(writer.pending)'
    BY <1>1, <1>2 DEF Counts, CountsIn
<1>5. ManifestCounts'
    BY <1>1, <1>2 DEF Counts, ManifestCounts
<1>6. FlipsUnsaved'
    BY <1>1 DEF Counts, FlipsUnsaved
<1>7. StorageCounts'
    BY <1>1, <1>2 DEF Counts, StorageCounts
<1> QED
    BY <1>3, <1>4, <1>5, <1>6, <1>7 DEF Counts

\* Nor does one that changes neither the log, the bitmaps nor the entries.
LEMMA QuietCounts ==
    ASSUME Counts, SameWriting,
           UNCHANGED <<up, log, todo, replay, segs, manifest, metadata, files,
                       delmaps>>
    PROVE  Counts'
<1>1. \A s : /\ DocsOf(s)' = DocsOf(s) /\ Saved(s)' = Saved(s)
             /\ Marked(s)' = Marked(s)
    BY SameBitmaps DEF SameWriting
<1>2. Unreplayed' = Unreplayed /\ Unsaved' = Unsaved
    BY SameLog, SameUnsaved
<1> QED
    BY <1>1, <1>2, KeepCounts DEF SameWriting

\* A step that leaves exact counts keeps them.
LEMMA ExactCounts ==
    ASSUME writer'.flips = {}, Exact(segs)', Exact(writer.pending)',
           Exact(manifest)',
           \A m \in DOMAIN manifest' : Stored(m)' = Hides(m)'
    PROVE  Counts'
    BY DEF Counts, CountsIn, ManifestCounts, FlipsUnsaved, StorageCounts,
           Exact, Tells

\* With nothing to replay and no flag to set, they are exact.
LEMMA CountsExact ==
    ASSUME Counts, up, Unreplayed = {}, writer.flips = {}
    PROVE  Exact(segs) /\ Exact(writer.pending) /\ Exact(manifest)
    BY DEF Counts, CountsIn, ManifestCounts, Exact, Tells

\* There is nothing to count at first.
LEMMA InitCounts ==
    ASSUME Init
    PROVE  Counts
<1>1. /\ writer.flips = {} /\ DOMAIN segs = {} /\ DOMAIN manifest = {}
      /\ DOMAIN writer.pending = {}
    BY EmptyMap DEF Init, NoWriter
<1> QED
    BY <1>1 DEF Counts, CountsIn, ManifestCounts, FlipsUnsaved, StorageCounts
\* A mutation's record keeps the counts.
LEMMA MutateCounts ==
    ASSUME LexInv, Counts, NEW id \in Ids, NEW docs \in {{}, {Last + 1}},
           Mutate(id, docs), writer' = writer \/ writer' = Writer
    PROVE  Counts'
<1>1. Types /\ WriterShape
    BY DEF LexInv, Shape
<1>2. UNCHANGED <<up, segs, manifest, files, delmaps>>
    BY DEF Mutate, memoryVars, diskVars
<1>3. SameWriting
    BY <1>1, WriterFacts DEF SameWriting
<1>4. \A s : /\ DocsOf(s)' = DocsOf(s) /\ Saved(s)' = Saved(s)
             /\ Marked(s)' = Marked(s)
    BY <1>2, <1>3, SameBitmaps DEF SameWriting
<1>5. Unreplayed' = Unreplayed /\ Unsaved \subseteq Unsaved'
    BY MutateLog
<1> QED
    BY <1>2, <1>3, <1>4, <1>5, KeepCounts DEF SameWriting

\* So do the marks that a mutation or the replay sets: what it marks, it has
\* the commit count again.
LEMMA MarkingCounts ==
    ASSUME LexInv, Counts, NEW docs, NEW new, Marking(docs, new)
    PROVE  Counts'
<1>1. Shape /\ ManifestFrom
    BY DEF LexInv, Contents
<1>2. /\ up /\ docs \subseteq Unsaved
      /\ Unreplayed \subseteq Unreplayed' \cup docs
      /\ UNCHANGED <<up, log, segs, manifest, metadata, files, delmaps>>
    BY DEF Marking, memoryVars, diskVars
<1>3. PICK T : T = Touched(Writer, docs)
    OBVIOUS
<1>4. PICK W : W = Writer.known
    OBVIOUS
<1>5. /\ writer'.pending = writer.pending /\ writer'.flips = writer.flips \cup T
      /\ SegIds \subseteq W /\ DOMAIN writer.pending \subseteq W
      /\ \A s : /\ DocsOf(s)' = DocsOf(s) /\ Saved(s)' = Saved(s)
                /\ Marked(s)' = Marked(s) \cup
                       (IF s \in T THEN DocsOf(s) \cap docs ELSE {})
    BY <1>1, <1>3, <1>4, MarkingFacts
<1>6. T = {s \in W : DocsOf(s) \cap docs # {}}
    BY <1>3, <1>4 DEF Touched
<1>7. \A s : /\ Stored(s)' = Stored(s)
             /\ Hides(s)' = Hides(s) \cup
                    (IF s \in T THEN DocsOf(s) \cap docs ELSE {})
    BY <1>5 DEF Stored, Hides
<1>8. Unsaved' = Unsaved
    BY <1>2, SameUnsaved
<1>9. \A s \in DOMAIN segs \cup DOMAIN writer.pending : s \in W
    BY <1>5 DEF SegIds
<1>10. ASSUME NEW s, NEW entry, DocsOf(s) \cap docs = {},
              Tells(entry, Hides(s), Unreplayed)
       PROVE  Tells(entry, Hides(s), Unreplayed')
    <2>1. Hides(s) \cap docs = {}
        BY <1>10 DEF Hides
    <2> QED
        BY <1>2, <1>10, <2>1 DEF Tells
<1>11. CountsIn(segs)' /\ CountsIn(writer.pending)'
    <2>1. ASSUME NEW entries, DOMAIN entries \subseteq W, CountsIn(entries),
                 NEW s \in DOMAIN entries
          PROVE  s \in writer'.flips \/ Tells(entries[s], Hides(s)', Unreplayed')
        <3>1. CASE s \in writer'.flips
            BY <3>1
        <3>2. CASE s \notin writer'.flips
            <4>1. s \notin T /\ s \notin writer.flips
                BY <1>5, <3>2
            <4>2. DocsOf(s) \cap docs = {} /\ Hides(s)' = Hides(s)
                BY <1>6, <1>7, <2>1, <4>1
            <4>3. Tells(entries[s], Hides(s), Unreplayed)
                BY <1>2, <2>1, <4>1 DEF CountsIn
            <4> QED
                BY <1>10, <4>2, <4>3
        <3> QED
            BY <3>1, <3>2
    <2>2. DOMAIN segs \subseteq W /\ DOMAIN writer.pending \subseteq W
        BY <1>9
    <2>3. CountsIn(segs) /\ CountsIn(writer.pending)
        BY DEF Counts
    <2>4. \A s \in DOMAIN segs :
              s \in writer'.flips \/ Tells(segs[s], Hides(s)', Unreplayed')
        BY <2>1, <2>2, <2>3
    <2>5. \A s \in DOMAIN writer.pending :
              \/ s \in writer'.flips
              \/ Tells(writer.pending[s], Hides(s)', Unreplayed')
        BY <2>1, <2>2, <2>3
    <2> QED
        BY <1>2, <1>5, <2>4, <2>5 DEF CountsIn
<1>12. ManifestCounts'
    <2> SUFFICES ASSUME writer'.flips = {}, NEW m \in DOMAIN manifest
                 PROVE  Tells(manifest[m], Hides(m)', Unreplayed')
        BY <1>2 DEF ManifestCounts
    <2>1. T = {} /\ writer.flips = {}
        BY <1>5
    <2>2. DocsOf(m) \cap docs = {}
        <3> SUFFICES ASSUME NEW d \in DocsOf(m), d \in docs PROVE FALSE
            OBVIOUS
        <3>1. PICK s \in DOMAIN segs \cup DOMAIN writer.pending : d \in DocsOf(s)
            BY <1>1, <1>2 DEF ManifestFrom
        <3>2. s \in T
            BY <1>6, <1>9, <3>1
        <3> QED
            BY <2>1, <3>2
    <2>3. Tells(manifest[m], Hides(m), Unreplayed)
        BY <1>2, <2>1 DEF Counts, ManifestCounts
    <2>4. Hides(m)' = Hides(m)
        BY <1>7, <2>1
    <2> QED
        BY <1>10, <2>2, <2>3, <2>4
<1>13. FlipsUnsaved'
    <2>1. \A s \in T : Hides(s)' \cap Unsaved # {}
        BY <1>2, <1>6, <1>7
    <2>2. \A s \in writer.flips : Hides(s)' \cap Unsaved # {}
        <3>1. \A s \in writer.flips : Hides(s) \cap Unsaved # {}
            BY DEF Counts, FlipsUnsaved
        <3>2. \A s : Hides(s) \subseteq Hides(s)'
            BY <1>7
        <3> QED
            BY <3>1, <3>2
    <2> QED
        BY <1>5, <1>8, <2>1, <2>2 DEF FlipsUnsaved
<1>14. StorageCounts'
    BY <1>2, <1>7, <1>8 DEF Counts, StorageCounts
<1> QED
    BY <1>11, <1>12, <1>13, <1>14 DEF Counts
\* A new segment hides nothing, and its entry says so.
LEMMA FlushCounts ==
    ASSUME LexInv, Counts, Flushing
    PROVE  Counts'
<1>1. Shape /\ Types
    BY DEF LexInv, Shape
<1>2. /\ up /\ files' = With(files, nextGen, writer.buffer)
      /\ UNCHANGED <<up, log, todo, replay, segs, manifest, metadata, delmaps>>
      /\ writer' = FlushedWriter(writer) \/ writer' \in FailedFlushes(writer)
    BY DEF Flushing, WriteBuffer
<1>3. PICK g : g = nextGen
    OBVIOUS
<1>4. /\ g \notin DOMAIN segs /\ g \notin DOMAIN manifest
      /\ g \notin DOMAIN writer.pending /\ g \notin writer.flips
      /\ Marked(g) = {}
    BY <1>1, <1>2, <1>3, FreshGeneration
<1>5. \A s : s # g => DocsOf(s)' = DocsOf(s)
    BY <1>1, <1>2, <1>3, NewFiles, TypeFacts
<1>6. /\ writer'.marks = writer.marks /\ writer'.flips = writer.flips
      /\ \/ writer'.pending = writer.pending
         \/ /\ DOMAIN writer'.pending = DOMAIN writer.pending \cup {g}
            /\ writer'.pending[g] = NewEntry
            /\ \A s \in DOMAIN writer.pending :
                   s # g => writer'.pending[s] = writer.pending[s]
    BY <1>1, <1>2, <1>3, FlushedFacts
<1>7. \A s : Saved(s)' = Saved(s) /\ Marked(s)' = Marked(s)
    BY <1>2, <1>6 DEF Saved, Marks, Marked
<1>8. \A s : s # g => Hides(s)' = Hides(s) /\ Stored(s)' = Stored(s)
    BY <1>5, <1>7 DEF Hides, Stored
<1>9. Unreplayed' = Unreplayed /\ Unsaved' = Unsaved
    BY <1>2, SameLog, SameUnsaved
<1>10. CountsIn(segs)' /\ ManifestCounts' /\ FlipsUnsaved' /\ StorageCounts'
    <2>1. CountsIn(segs)'
        BY <1>2, <1>4, <1>6, <1>8, <1>9 DEF Counts, CountsIn
    <2>2. ManifestCounts' /\ StorageCounts'
        BY <1>2, <1>4, <1>6, <1>8, <1>9 DEF Counts, ManifestCounts, StorageCounts
    <2>3. FlipsUnsaved'
        BY <1>4, <1>6, <1>8, <1>9 DEF Counts, FlipsUnsaved
    <2> QED
        BY <2>1, <2>2, <2>3
<1>11. CountsIn(writer.pending)'
    <2>1. CountsIn(writer.pending)
        BY DEF Counts
    <2>2. \A s \in DOMAIN writer.pending :
              \/ s \in writer'.flips
              \/ Tells(writer.pending[s], Hides(s)', Unreplayed')
        BY <1>2, <1>4, <1>6, <1>8, <1>9, <2>1 DEF CountsIn
    <2>3. Tells(NewEntry, Hides(g)', Unreplayed')
        <3>1. Hides(g)' = {}
            BY <1>4, <1>7 DEF Hides
        <3>2. Cardinality({}) = 0
            BY FS_EmptySet
        <3> QED
            BY <3>1, <3>2 DEF Tells, NewEntry
    <2> QED
        BY <1>2, <1>4, <1>6, <2>2, <2>3 DEF CountsIn
<1> QED
    BY <1>10, <1>11 DEF Counts

\* A bitmap that is saved hides what the commit is to count again.
LEMMA SaveMarkCounts ==
    ASSUME LexInv, Counts, NEW s \in writer.dirty,
           delmaps' = With(delmaps, s, writer.marks[s]),
           writer' = [writer EXCEPT !.dirty = @ \ {s}],
           UNCHANGED <<up, log, todo, replay, segs, manifest, metadata, files>>
    PROVE  Counts'
<1>1. Shape /\ WriterShape
    BY DEF LexInv, Shape
<1>2. /\ writer'.pending = writer.pending /\ writer'.flips = writer.flips
      /\ writer.manager
      /\ \A u : /\ DocsOf(u)' = DocsOf(u) /\ Marks(u)' = Marks(u)
                /\ Saved(u)' = IF u = s THEN Marks(s) ELSE Saved(u)
                /\ Marked(u)' = Marked(u)
    BY <1>1, SavedFacts
<1>3. Unreplayed' = Unreplayed /\ Unsaved' = Unsaved
    BY SameLog, SameUnsaved
<1>4. \A u : Hides(u)' = Hides(u)
    BY <1>2 DEF Hides
<1>5. \A u : u # s => Stored(u)' = Stored(u)
    BY <1>2 DEF Stored
<1>6. /\ CountsIn(segs)' /\ CountsIn(writer.pending)' /\ ManifestCounts'
      /\ FlipsUnsaved'
    <2>1. CountsIn(segs)' /\ CountsIn(writer.pending)'
        BY <1>2, <1>3, <1>4 DEF Counts, CountsIn
    <2>2. ManifestCounts' /\ FlipsUnsaved'
        BY <1>2, <1>3, <1>4 DEF Counts, ManifestCounts, FlipsUnsaved
    <2> QED
        BY <2>1, <2>2
<1>7. Stored(s)' \cap Unsaved # {}
    <2>1. s \in writer.flips
        BY <1>1 DEF WriterShape
    <2>2. Hides(s) \cap Unsaved # {}
        BY <2>1 DEF Counts, FlipsUnsaved
    <2>3. Saved(s) \subseteq Marks(s)
        <3>1. CASE s \in DOMAIN delmaps
            BY <1>1, <1>2, <3>1 DEF Shape, BitmapShape
        <3>2. CASE s \notin DOMAIN delmaps
            BY <3>2 DEF Saved, At
        <3> QED
            BY <3>1, <3>2
    <2>4. Stored(s)' = Hides(s)
        BY <1>2, <2>3 DEF Stored, Hides, Marked
    <2> QED
        BY <2>2, <2>4
<1>8. StorageCounts'
    <2> SUFFICES ASSUME NEW m \in DOMAIN manifest
                 PROVE  Tells(manifest[m], Stored(m)', Unsaved)
        BY <1>3 DEF StorageCounts
    <2>1. CASE m = s
        BY <1>7, <2>1 DEF Tells
    <2>2. CASE m # s
        BY <1>5, <2>2 DEF Counts, StorageCounts
    <2> QED
        BY <2>1, <2>2
<1> QED
    BY <1>6, <1>8 DEF Counts
\* Where the manifest is to be saved, storage hides all that is hidden.
LEMMA StoredHides ==
    ASSUME LexInv, holder \in {"flags", "publish"}
    PROVE  /\ up /\ replay = 0 /\ Unreplayed = {}
           /\ DOMAIN segs \cup DOMAIN writer.pending \subseteq SegIds
           /\ \A s \in SegIds : Stored(s) = Hides(s)
<1>1. WriterShape /\ BitmapShape /\ Phases
    BY DEF LexInv, Shape
<1>2. up /\ replay = 0 /\ writer.dirty = {}
    BY <1>1 DEF Phases
<1>3. \A s \in SegIds : Marks(s) \subseteq Saved(s)
    BY <1>1, <1>2 DEF BitmapShape
<1>4. \A s \in SegIds : Stored(s) = Hides(s)
    BY <1>3 DEF Stored, Hides, Marked
<1> QED
    BY <1>1, <1>2, <1>4 DEF Unreplayed, SegIds, WriterShape

\* Entries that are exact are right once saved, whether memory takes them or
\* the step fails.
LEMMA PublishedCounts ==
    ASSUME LexInv, Counts, holder \in {"flags", "publish"}, NEW entries,
           DOMAIN entries \subseteq SegIds, Exact(entries),
           writer'.marks = writer.marks,
           UNCHANGED <<up, log, todo, replay, metadata, files, delmaps>>,
           manifest' = entries,
           \/ writer' = writer /\ segs' = segs
           \/ /\ writer'.flips = {} /\ segs' = entries
              /\ Exact(writer'.pending)
    PROVE  Counts'
<1>1. \A s \in SegIds : Stored(s) = Hides(s)
    BY StoredHides
<1>2. \A s : Hides(s)' = Hides(s) /\ Stored(s)' = Stored(s)
    BY SameBitmaps DEF Hides, Stored
<1>3. Unreplayed' = Unreplayed /\ Unsaved' = Unsaved
    BY SameLog, SameUnsaved
<1>4. /\ \A s \in DOMAIN entries : entries[s].deleted = Cardinality(Hides(s)')
      /\ \A s \in DOMAIN entries : entries[s].deleted = Cardinality(Stored(s)')
      /\ \A s \in DOMAIN entries : Stored(s)' = Hides(s)'
    BY <1>1, <1>2 DEF Exact
<1>5. CASE writer' = writer /\ segs' = segs
    <2>1. CountsIn(segs)' /\ CountsIn(writer.pending)'
        BY <1>2, <1>3, <1>5 DEF Counts, CountsIn
    <2>2. ManifestCounts' /\ StorageCounts'
        BY <1>4 DEF ManifestCounts, StorageCounts, Tells
    <2>3. FlipsUnsaved'
        BY <1>2, <1>3, <1>5 DEF Counts, FlipsUnsaved
    <2> QED
        BY <2>1, <2>2, <2>3 DEF Counts
<1>6. CASE writer'.flips = {} /\ segs' = entries /\ Exact(writer'.pending)
    <2>1. \A s \in DOMAIN writer'.pending :
              writer'.pending[s].deleted = Cardinality(Hides(s)')
        BY <1>2, <1>6 DEF Exact
    <2>2. Exact(segs)' /\ Exact(writer.pending)' /\ Exact(manifest)'
        BY <1>4, <1>6, <2>1 DEF Exact
    <2> QED
        BY <1>4, <1>6, <2>2, ExactCounts
<1> QED
    BY <1>5, <1>6

\* The entries that flush_deletions writes are exact.
LEMMA FlaggedExact ==
    ASSUME LexInv, Counts, holder = "flags", NEW entries \in Maps(Entry),
           CountsIn(entries)
    PROVE  Exact(Flagged(entries))
<1>1. Types /\ WriterShape /\ BitmapShape
    BY DEF LexInv, Shape
<1>2. up /\ Unreplayed = {}
    BY StoredHides
<1>3. DOMAIN Flagged(entries) = DOMAIN entries
    BY DEF Flagged
<1> SUFFICES ASSUME NEW s \in DOMAIN entries
             PROVE  Flagged(entries)[s].deleted = Cardinality(Hides(s))
    BY <1>3 DEF Exact
<1>4. CASE s \in writer.flips
    <2>1. Flagged(entries)[s].deleted =
              Cardinality(writer.marks[s] \cap DocsOf(s))
        BY <1>4 DEF Flagged
    <2>2. writer.marks[s] = Marks(s) /\ writer.manager
        BY <1>1, <1>4 DEF WriterShape, Marks, At
    <2>3. Saved(s) \subseteq Marks(s)
        <3>1. CASE s \in DOMAIN delmaps
            BY <1>1, <2>2, <3>1 DEF BitmapShape
        <3>2. CASE s \notin DOMAIN delmaps
            BY <3>2 DEF Saved, At
        <3> QED
            BY <3>1, <3>2
    <2>4. writer.marks[s] \cap DocsOf(s) = Hides(s)
        BY <2>2, <2>3 DEF Hides, Marked
    <2> QED
        BY <2>1, <2>4
<1>5. CASE s \notin writer.flips
    <2>1. Flagged(entries)[s] = entries[s]
        BY <1>5 DEF Flagged
    <2> QED
        BY <1>2, <1>5, <2>1 DEF CountsIn, Tells
<1> QED
    BY <1>4, <1>5

\* flush_deletions keeps the counts.
LEMMA FlagCounts ==
    ASSUME LexInv, Counts, FlagDeletions \/ FlagDeletionsFails
    PROVE  Counts'
<1>1. /\ holder = "flags"
      /\ UNCHANGED <<up, log, todo, replay, metadata, files, delmaps>>
    BY DEF FlagDeletions, FlagDeletionsFails, Fails, Step, logVars
<1>2. CASE UNCHANGED <<writer, segs, manifest>>
    BY <1>1, <1>2, QuietCounts DEF SameWriting
<1>3. CASE /\ manifest' = Flagged(segs)
           /\ \/ /\ segs' = Flagged(segs)
                 /\ writer' = [writer EXCEPT !.pending = Flagged(@), !.flips = {}]
              \/ segs' = segs /\ writer' = writer
    <2>1. segs \in Maps(Entry) /\ writer.pending \in Maps(Entry)
          /\ writer \in WriterRecord
        BY TypeFacts DEF LexInv, Shape, Types
    <2>2. PICK e : e = Flagged(segs)
        OBVIOUS
    <2>3. PICK p : p = Flagged(writer.pending)
        OBVIOUS
    <2>4. Exact(e) /\ Exact(p)
        BY <1>1, <2>1, <2>2, <2>3, FlaggedExact DEF Counts
    <2>5. DOMAIN e \subseteq SegIds
        BY <1>1, <2>2, StoredHides DEF Flagged
    <2>6. \/ /\ segs' = e
             /\ writer' = [writer EXCEPT !.pending = p, !.flips = {}]
          \/ segs' = segs /\ writer' = writer
        BY <1>3, <2>2, <2>3
    <2>7. /\ writer'.marks = writer.marks
          /\ \/ writer' = writer /\ segs' = segs
             \/ writer'.flips = {} /\ segs' = e /\ writer'.pending = p
        BY <2>1, <2>6 DEF WriterRecord
    <2>8. manifest' = e
        BY <1>3, <2>2
    <2> QED
        BY <1>1, <2>4, <2>5, <2>7, <2>8, PublishedCounts
<1>4. \/ UNCHANGED <<writer, segs, manifest>>
      \/ /\ manifest' = Flagged(segs)
         /\ \/ /\ segs' = Flagged(segs)
               /\ writer' = [writer EXCEPT !.pending = Flagged(@), !.flips = {}]
            \/ segs' = segs /\ writer' = writer
    <2>1. CASE FlagDeletions
        BY <2>1 DEF FlagDeletions, PublishAs
    <2>2. CASE FlagDeletionsFails
        BY <2>2 DEF FlagDeletionsFails, PublishFailsAs
    <2> QED
        BY <2>1, <2>2
<1> QED
    BY <1>2, <1>3, <1>4

\* So does publish_pending_segments.
LEMMA PublishCounts ==
    ASSUME LexInv, Counts, Publish \/ PublishFails
    PROVE  Counts'
<1>1. /\ holder = "publish"
      /\ UNCHANGED <<up, log, todo, replay, metadata, files, delmaps>>
    BY DEF Publish, PublishFails, Fails, Step, logVars
<1>2. CASE UNCHANGED <<writer, segs, manifest>>
    BY <1>1, <1>2, QuietCounts DEF SameWriting
<1>3. CASE /\ manifest' = Over(writer.pending, segs)
           /\ \/ /\ segs' = Over(writer.pending, segs)
                 /\ writer' = [writer EXCEPT !.pending = <<>>]
              \/ segs' = segs /\ writer' = writer
    <2>1. writer \in WriterRecord /\ Phases
        BY DEF LexInv, Shape, Types
    <2>2. up /\ Unreplayed = {} /\ writer.flips = {}
        BY <1>1, <2>1, StoredHides DEF Phases
    <2>3. Exact(segs) /\ Exact(writer.pending)
        BY <2>2, CountsExact
    <2>4. PICK e : e = Over(writer.pending, segs)
        OBVIOUS
    <2>5. DOMAIN e \subseteq SegIds
        BY <1>1, <2>4, StoredHides DEF Over
    <2>6. Exact(e)
        BY <2>3, <2>4 DEF Exact, Over
    <2>7. \/ segs' = e /\ writer' = [writer EXCEPT !.pending = <<>>]
          \/ segs' = segs /\ writer' = writer
        BY <1>3, <2>4
    <2>8. /\ writer'.marks = writer.marks
          /\ \/ writer' = writer /\ segs' = segs
             \/ writer'.flips = {} /\ segs' = e /\ writer'.pending = <<>>
        BY <2>1, <2>2, <2>7 DEF WriterRecord
    <2>9. Exact(<<>>)
        BY EmptyMap DEF Exact
    <2>10. manifest' = e
        BY <1>3, <2>4
    <2> QED
        BY <1>1, <2>5, <2>6, <2>8, <2>9, <2>10, PublishedCounts
<1>4. \/ UNCHANGED <<writer, segs, manifest>>
      \/ /\ manifest' = Over(writer.pending, segs)
         /\ \/ /\ segs' = Over(writer.pending, segs)
               /\ writer' = [writer EXCEPT !.pending = <<>>]
            \/ segs' = segs /\ writer' = writer
    <2>1. CASE Publish
        BY <2>1 DEF Publish, PublishAs
    <2>2. CASE PublishFails
        BY <2>2 DEF PublishFails, PublishFailsAs
    <2> QED
        BY <2>1, <2>2
<1> QED
    BY <1>2, <1>3, <1>4
\* The checkpoint comes when every count is exact.
LEMMA CheckpointingCounts ==
    ASSUME LexInv, Counts, NEW n, Checkpointing(n)
    PROVE  Counts'
<1>1. /\ up /\ Unreplayed = {} /\ writer.flips = {}
      /\ \A s \in DOMAIN segs \cup DOMAIN manifest : Marked(s) = Saved(s)
    BY CheckpointFacts
<1>2. Exact(segs) /\ Exact(manifest)
    BY <1>1, CountsExact
<1>3. UNCHANGED <<segs, manifest>>
    BY DEF Checkpointing
<1>4. /\ writer'.flips = {} /\ DOMAIN writer'.pending = {}
      /\ \A s : DocsOf(s)' = DocsOf(s) /\ Saved(s)' = Saved(s)
      /\ \A s \in DOMAIN segs \cup DOMAIN manifest : Marked(s)' = Marked(s)
    BY CheckpointWriter
<1>5. \A s \in DOMAIN segs \cup DOMAIN manifest :
          Hides(s)' = Hides(s) /\ Stored(s)' = Hides(s)
    BY <1>1, <1>4 DEF Hides, Stored
<1>6. Exact(segs)' /\ Exact(manifest)'
    BY <1>2, <1>3, <1>5 DEF Exact
<1>7. Exact(writer.pending)'
    BY <1>4 DEF Exact
<1> QED
    BY <1>3, <1>4, <1>5, <1>6, <1>7, ExactCounts

LEMMA CheckpointCounts ==
    ASSUME LexInv, Counts, Checkpoint \/ CheckpointFails
    PROVE  Counts'
<1>1. PICK n : n = Larger(ckpt, writer.seq)
    OBVIOUS
<1>2. call \in {"none", "commit", "optimize"}
    BY DEF LexInv, Shape, Types
<1>3. CASE Checkpoint
    <2>1. Checkpointing(n)
        BY <1>1, <1>2, <1>3
           DEF Checkpoint, Checkpointing, Step, logVars, searchVars
    <2> QED
        BY <2>1, CheckpointingCounts
<1>4. CASE CheckpointFails /\ metadata' = metadata
    BY <1>4, QuietCounts
       DEF CheckpointFails, SameWriting, logVars, memoryVars
<1>5. CASE CheckpointFails /\ metadata' = Larger(ckpt, writer.seq)
    <2>1. Checkpointing(n)
        BY <1>1, <1>5 DEF CheckpointFails, Fails, Checkpointing, Step, logVars,
                          memoryVars, searchVars
    <2> QED
        BY <2>1, CheckpointingCounts
<1> QED
    BY <1>3, <1>4, <1>5 DEF CheckpointFails

\* A merged segment starts with nothing hidden.
LEMMA MergedCounts ==
    ASSUME LexInv, Counts, NEW S, NEW e, Merged(S, e)
    PROVE  Counts'
<1>1. /\ Shape /\ MergePhase
      /\ DOMAIN e = (DOMAIN segs \ S) \cup {nextGen}
      /\ e[nextGen] = NewEntry /\ KeptEntries(S, e)
      /\ \A s : Saved(s)' = Saved(s) /\ Marked(s)' = Marked(s)
    BY MergedFacts DEF LexInv
<1>2. /\ up /\ Unreplayed = {} /\ writer.flips = {}
      /\ DOMAIN writer.pending = {}
      /\ \A s \in DOMAIN segs \cup DOMAIN manifest : Marked(s) = Saved(s)
    BY <1>1, MergeFacts
<1>3. Exact(segs) /\ Exact(manifest)
    BY <1>2, CountsExact
<1>4. PICK g : g = nextGen
    OBVIOUS
<1>5. g \notin DOMAIN segs /\ g \notin DOMAIN manifest /\ Marked(g) = {}
    BY <1>1, <1>2, <1>4, FreshGeneration
<1>6. /\ writer' = writer /\ segs' \in {segs, e} /\ manifest' \in {manifest, e}
      /\ \A s : s # g => DocsOf(s)' = DocsOf(s)
    BY <1>4 DEF Merged, MergeSaved
<1>7. \A s \in DOMAIN segs \cup DOMAIN manifest :
          Hides(s)' = Hides(s) /\ Stored(s)' = Hides(s)'
    BY <1>1, <1>2, <1>5, <1>6 DEF Hides, Stored
<1>8. Hides(g)' = {} /\ Stored(g)' = {}
    BY <1>1, <1>5 DEF Hides, Stored, Marked
<1>9. /\ \A s \in DOMAIN e : e[s].deleted = Cardinality(Hides(s)')
      /\ \A s \in DOMAIN e : Stored(s)' = Hides(s)'
    <2>1. e[g].deleted = Cardinality(Hides(g)')
        BY <1>1, <1>4, <1>8, FS_EmptySet DEF NewEntry
    <2>2. \A s \in DOMAIN segs \ S : e[s].deleted = Cardinality(Hides(s)')
        BY <1>1, <1>3, <1>7 DEF KeptEntries, Exact
    <2> QED
        BY <1>1, <1>4, <1>7, <1>8, <2>1, <2>2
<1>10. /\ \A s \in DOMAIN segs : segs[s].deleted = Cardinality(Hides(s)')
       /\ \A s \in DOMAIN manifest :
              manifest[s].deleted = Cardinality(Hides(s)')
    BY <1>3, <1>7 DEF Exact
<1>11. Exact(segs)' /\ Exact(manifest)' /\ Exact(writer.pending)'
    BY <1>2, <1>6, <1>9, <1>10 DEF Exact
<1>12. \A m \in DOMAIN manifest' : Stored(m)' = Hides(m)'
    BY <1>6, <1>7, <1>9
<1> QED
    BY <1>2, <1>6, <1>11, <1>12, ExactCounts

\* The files of a source that are deleted are counted nowhere.
LEMMA DeleteSourceCounts ==
    ASSUME LexInv, Counts, DeleteSources, sources # {}
    PROVE  Counts'
<1>1. Types /\ Phases
    BY DEF LexInv, Shape
<1>2. PICK s : s = Min(sources)
    OBVIOUS
<1>3. s \in sources
    <2>1. sources \in SUBSET Nat
        BY <1>1 DEF Types
    <2> QED
        BY <1>2, <2>1, Least
<1>4. /\ holder = "delete"
      /\ files' = Without(files, {s}) /\ delmaps' = Without(delmaps, {s})
      /\ UNCHANGED <<up, log, todo, replay, writer, segs, manifest, metadata>>
    BY <1>2 DEF DeleteSources, logVars, memoryVars
<1>5. writer.flips = {} /\ DOMAIN writer.pending = {}
    BY <1>4, MergeFacts DEF MergePhase
<1>6. s \notin DOMAIN segs /\ s \notin DOMAIN manifest
    BY <1>1, <1>3 DEF Phases
<1>7. \A u : u # s => /\ DocsOf(u)' = DocsOf(u) /\ Saved(u)' = Saved(u)
                      /\ Marked(u)' = Marked(u)
    <2>1. \A u : u # s => DocsOf(u)' = DocsOf(u)
        BY <1>4 DEF DocsOf, Without, At
    <2>2. \A u : u # s => Saved(u)' = Saved(u)
        BY <1>4 DEF Saved, Without, At
    <2>3. \A u : Marks(u)' = Marks(u)
        BY <1>4 DEF Marks
    <2> QED
        BY <2>1, <2>2, <2>3 DEF Marked
<1>8. Unreplayed' = Unreplayed /\ Unsaved' = Unsaved
    BY <1>4, SameLog, SameUnsaved
<1> QED
    BY <1>4, <1>5, <1>6, <1>7, <1>8, KeepCounts

\* The end of a commit forgets bitmaps that storage holds.
LEMMA FinishCounts ==
    ASSUME LexInv, Counts, Finish
    PROVE  Counts'
<1>1. WriterShape
    BY DEF LexInv, Shape
<1>2. /\ holder = "done"
      /\ writer' = IF writer.open THEN Invalidated(writer) ELSE writer
      /\ UNCHANGED <<up, log, todo, replay, segs, manifest, metadata, files,
                     delmaps>>
    BY DEF Finish, Step, logVars, memoryVars, diskVars
<1>3. /\ writer.flips = {} /\ DOMAIN writer.pending = {}
      /\ \A s \in DOMAIN segs \cup DOMAIN manifest : Marked(s) = Saved(s)
    BY <1>2, MergeFacts DEF MergePhase
<1>4. writer \in WriterRecord
    BY DEF LexInv, Shape, Types
<1>5. /\ writer'.flips = {} /\ writer'.pending = writer.pending
      /\ writer'.marks = <<>>
    <2>1. CASE writer.open
        <3>1. PICK D : D = DOMAIN segs
            OBVIOUS
        <3>2. writer' = [writer EXCEPT !.known = D, !.manager = FALSE,
                            !.marks = <<>>, !.dirty = {}, !.flips = {},
                            !.flushed = {}]
            BY <1>2, <2>1, <3>1 DEF Invalidated
        <3> QED
            BY <1>4, <3>2 DEF WriterRecord
    <2>2. CASE ~writer.open
        <3>1. writer' = NoWriter /\ writer = NoWriter
            BY <1>1, <1>2, <2>2 DEF WriterShape
        <3> QED
            BY <3>1 DEF NoWriter
    <2> QED
        BY <2>1, <2>2
<1>6. \A s : DocsOf(s)' = DocsOf(s) /\ Saved(s)' = Saved(s) /\ Marks(s)' = {}
    BY <1>2, <1>5, EmptyMap DEF DocsOf, Saved, Marks
<1>7. \A s \in DOMAIN segs \cup DOMAIN manifest : Marked(s)' = Marked(s)
    BY <1>3, <1>6 DEF Marked
<1>8. Unreplayed' = Unreplayed /\ Unsaved' = Unsaved
    BY <1>2, SameLog, SameUnsaved
<1> QED
    BY <1>2, <1>3, <1>5, <1>6, <1>7, <1>8, KeepCounts

\* A crash leaves what storage counts.
LEMMA CrashCounts ==
    ASSUME LexInv, Counts, Crash
    PROVE  Counts'
<1>1. /\ ~up' /\ writer' = NoWriter
      /\ UNCHANGED <<log, manifest, metadata, files, delmaps>>
    BY DEF Crash, diskVars
<1>2. writer'.flips = {}
    BY <1>1 DEF NoWriter
<1>3. \A s : Stored(s)' = Stored(s)
    BY <1>1 DEF Stored, DocsOf, Saved
<1>4. Unsaved' = Unsaved
    BY <1>1, SameUnsaved
<1>5. StorageCounts'
    BY <1>1, <1>3, <1>4 DEF Counts, StorageCounts
<1>6. FlipsUnsaved' /\ ManifestCounts'
    BY <1>1, <1>2 DEF FlipsUnsaved, ManifestCounts
<1>7. CountsIn(segs)' /\ CountsIn(writer.pending)'
    BY <1>1 DEF CountsIn
<1> QED
    BY <1>5, <1>6, <1>7 DEF Counts

\* The index opens with what they are, and replays what they may lack.
LEMMA OpenCounts ==
    ASSUME LexInv, Counts, Open
    PROVE  Counts'
<1>1. Closed
    BY DEF LexInv, Shape
<1>2. /\ ~up /\ up' /\ segs' = manifest
      /\ UNCHANGED <<log, todo, writer, manifest, metadata>>
    BY DEF Open
<1>3. writer' = NoWriter
    BY <1>1, <1>2 DEF Closed
<1>4. /\ writer'.flips = {} /\ DOMAIN writer'.pending = {}
      /\ \A s : Marks(s)' = {}
    BY <1>3, EmptyMap DEF NoWriter, Marks
<1>5. /\ Unreplayed' = Unsaved /\ Unsaved' = Unsaved
      /\ \A s \in DOMAIN manifest :
             DocsOf(s)' = DocsOf(s) /\ Saved(s)' = Saved(s)
    BY OpenFacts
<1>6. \A s \in DOMAIN manifest :
          Hides(s)' = Stored(s) /\ Stored(s)' = Stored(s)
    BY <1>4, <1>5 DEF Hides, Stored, Marked
<1>7. \A m \in DOMAIN manifest : Tells(manifest[m], Stored(m), Unsaved)
    BY DEF Counts, StorageCounts
<1>8. CountsIn(segs)' /\ ManifestCounts' /\ StorageCounts'
    BY <1>2, <1>5, <1>6, <1>7 DEF CountsIn, ManifestCounts, StorageCounts
<1>9. CountsIn(writer.pending)' /\ FlipsUnsaved'
    BY <1>4 DEF CountsIn, FlipsUnsaved
<1> QED
    BY <1>8, <1>9 DEF Counts
\* DeletionManager::flush keeps the counts.
LEMMA SaveMarksCounts ==
    ASSUME LexInv, Counts, SaveMarks \/ SaveMarksFails
    PROVE  Counts'
<1>1. CASE SaveMarks /\ writer.dirty # {}
    <2>1. PICK s \in writer.dirty :
              /\ delmaps' = With(delmaps, s, writer.marks[s])
              /\ writer' = [writer EXCEPT !.dirty = @ \ {s}]
        BY <1>1 DEF SaveMarks
    <2>2. UNCHANGED <<up, log, todo, replay, segs, manifest, metadata, files>>
        BY <1>1 DEF SaveMarks, logVars, memoryVars
    <2> QED
        BY <2>1, <2>2, SaveMarkCounts
<1>2. CASE SaveMarks /\ writer.dirty = {}
    BY <1>2, QuietCounts DEF SaveMarks, SameWriting, logVars, memoryVars
<1>3. CASE SaveMarksFails
    BY <1>3, QuietCounts
       DEF SaveMarksFails, SameWriting, logVars, memoryVars, diskVars
<1> QED
    BY <1>1, <1>2, <1>3

\* Every step keeps them.
LEMMA NextCounts ==
    ASSUME LexInv, Counts, [Next]_vars
    PROVE  Counts'
<1>1. ASSUME NEW id \in Ids, LogPut(id) \/ LogDelete(id)
      PROVE  Counts'
    <2>1. PICK docs \in {{}, {Last + 1}} :
              Mutate(id, docs) /\ (writer' = writer \/ writer' = Writer)
        BY <1>1 DEF LogPut, LogDelete
    <2> QED
        BY <2>1, MutateCounts
<1>2. CASE (\E t \in todo : DeleteVersion(t) \/ Insert(t)) \/ ReplayRecord
    <2>1. PICK docs, new : Marking(docs, new)
        BY <1>2, DeleteVersionMarks, InsertMarks, ReplayMarks
    <2> QED
        BY <2>1, MarkingCounts
<1>3. CASE AutoFlush \/ Flush \/ FlushFails
    <2>1. CASE Flushing
        BY <2>1, FlushCounts
    <2>2. CASE ~Flushing
        BY <1>3, <2>2, FlushIs, QuietCounts DEF SameWriting
    <2> QED
        BY <2>1, <2>2
<1>4. CASE Commit
    <2>1. CASE StartCommit \/ StartOptimize
        <3>1. SameWriting
            <4>1. writer \in WriterRecord
                BY DEF LexInv, Shape, Types
            <4>2. \/ writer' = writer
                  \/ writer' = [writer EXCEPT !.seq = Larger(@, Watermark)]
                BY <2>1 DEF StartCommit, StartOptimize
            <4> QED
                BY <4>1, <4>2 DEF SameWriting, WriterRecord
        <3> QED
            BY <2>1, <3>1, QuietCounts
               DEF StartCommit, StartOptimize, logVars, memoryVars, diskVars
    <2>2. CASE Flush \/ FlushFails
        BY <1>3, <2>2
    <2>3. CASE SaveMarks \/ SaveMarksFails
        BY <2>3, SaveMarksCounts
    <2>4. CASE FlagDeletions \/ FlagDeletionsFails
        BY <2>4, FlagCounts
    <2>5. CASE Publish \/ PublishFails
        BY <2>5, PublishCounts
    <2>6. CASE Checkpoint \/ CheckpointFails
        BY <2>6, CheckpointCounts
    <2>7. CASE \E S \in Windows : Merge(S) \/ MergeFails(S)
        BY <2>7, MergeIs, MergedCounts
    <2>8. CASE NoMerge \/ Release \/ DeleteSourcesFails
        BY <2>8, QuietCounts
           DEF NoMerge, Release, ReleaseReaders, DeleteSourcesFails,
               SameWriting, logVars, memoryVars, diskVars
    <2>9. CASE DeleteSources
        <3>1. CASE sources = {}
            BY <2>9, <3>1, QuietCounts
               DEF DeleteSources, SameWriting, logVars, memoryVars
        <3> QED
            BY <2>9, <3>1, DeleteSourceCounts
    <2>10. CASE Finish
        BY <2>10, FinishCounts
    <2> QED
        BY <1>4, <2>1, <2>2, <2>3, <2>4, <2>5, <2>6, <2>7, <2>8, <2>9, <2>10
           DEF Commit
<1>5. CASE BuildSearcher
    <2>1. UNCHANGED elsewhere
        BY <1>5 DEF BuildSearcher, StartBuild, ReadSegment, FinishBuild
    <2> QED
        BY <2>1, QuietCounts
           DEF elsewhere, SameWriting, logVars, memoryVars, diskVars
<1>6. CASE Crash \/ Open
    BY <1>6, CrashCounts, OpenCounts
<1>7. CASE UNCHANGED vars
    BY <1>7, QuietCounts DEF vars, SameWriting, logVars, memoryVars, diskVars
<1> QED
    BY <1>1, <1>2, <1>3, <1>4, <1>5, <1>6, <1>7 DEF Next

-----------------------------------------------------------------------------
(* The sum of the counts.                                                  *)

\* One of the set.
Pick(s) == CHOOSE x \in s : TRUE

\* What there is of a function that sums h, one element after the other.
SumTo(h, S, n, f) ==
    /\ f \in [SUBSET S -> Nat]
    /\ \A s \in SUBSET S : Cardinality(s) <= n =>
           f[s] = IF s = {} THEN 0 ELSE h[Pick(s)] + f[s \ {Pick(s)}]

\* There is one for the sets of any size.
LEMMA SumExists ==
    ASSUME NEW S, IsFiniteSet(S), NEW h \in [S -> Nat], NEW n \in Nat
    PROVE  \E f : SumTo(h, S, n, f)
<1> DEFINE Bad == {k \in Nat : ~ \E f : SumTo(h, S, k, f)}
<1> SUFFICES ASSUME Bad # {} PROVE FALSE
    OBVIOUS
<1>1. PICK k \in Bad : \A j \in Bad : k <= j
    BY Least
<1>2. \A s \in SUBSET S :
          /\ IsFiniteSet(s) /\ Cardinality(s) \in Nat
          /\ s # {} => Pick(s) \in s
    BY FS_Subset, FS_CardinalityType DEF Pick
<1>3. \A s \in SUBSET S : Cardinality(s) = 0 <=> s = {}
    BY <1>2, FS_EmptySet
<1>4. k # 0
    <2> SUFFICES ASSUME k = 0 PROVE FALSE
        OBVIOUS
    <2>1. PICK f : f = [s \in SUBSET S |-> 0]
        OBVIOUS
    <2>2. f \in [SUBSET S -> Nat] /\ \A s \in SUBSET S : f[s] = 0
        BY <2>1
    <2>3. \A s \in SUBSET S : Cardinality(s) <= 0 => s = {}
        BY <1>2, <1>3
    <2>4. SumTo(h, S, 0, f)
        BY <2>2, <2>3 DEF SumTo
    <2> QED
        BY <1>1, <2>4
<1>5. k - 1 \in Nat /\ k - 1 \notin Bad
    BY <1>1, <1>4
<1>6. PICK f : SumTo(h, S, k - 1, f)
    BY <1>5
<1>7. PICK g : g = [s \in SUBSET S |->
                       IF s = {} THEN 0 ELSE h[Pick(s)] + f[s \ {Pick(s)}]]
    OBVIOUS
<1>8. \A s \in SUBSET S :
          /\ g[s] \in Nat
          /\ g[s] = IF s = {} THEN 0 ELSE h[Pick(s)] + f[s \ {Pick(s)}]
    <2>1. ASSUME NEW s \in SUBSET S, s # {}
          PROVE  h[Pick(s)] \in Nat /\ f[s \ {Pick(s)}] \in Nat
        <3>1. Pick(s) \in S /\ s \ {Pick(s)} \in SUBSET S
            BY <1>2, <2>1
        <3> QED
            BY <1>6, <3>1 DEF SumTo
    <2> QED
        BY <1>7, <2>1
<1>9. \A s \in SUBSET S : Cardinality(s) <= k - 1 => g[s] = f[s]
    BY <1>6, <1>8 DEF SumTo
<1>10. ASSUME NEW s \in SUBSET S, Cardinality(s) <= k, s # {}
       PROVE  g[s \ {Pick(s)}] = f[s \ {Pick(s)}]
    <2>1. Pick(s) \in s /\ s \ {Pick(s)} \in SUBSET S /\ IsFiniteSet(s)
        BY <1>2, <1>10
    <2>2. Cardinality(s \ {Pick(s)}) = Cardinality(s) - 1
        BY <2>1, FS_RemoveElement
    <2>3. Cardinality(s) \in Nat
        BY <1>2
    <2> QED
        BY <1>1, <1>9, <1>10, <2>1, <2>2, <2>3
<1>11. g \in [SUBSET S -> Nat]
    BY <1>7, <1>8
<1>12. SumTo(h, S, k, g)
    BY <1>8, <1>10, <1>11 DEF SumTo
<1> QED
    BY <1>1, <1>12
\* With nothing under way and no writer, the documents that the segments keep
\* are the live ones, each in one place, and every entry counts what it hides.
LEMMA QuietMemory ==
    ASSUME LexInv, Counts, Serving, todo = {}, ~writer.open
    PROVE  /\ IsFiniteSet(DOMAIN segs)
           /\ UNION {Kept(s) : s \in DOMAIN segs} = Live
           /\ \A s, u \in DOMAIN segs : s # u => Kept(s) \cap Kept(u) = {}
           /\ \A s \in DOMAIN segs :
                  /\ IsFiniteSet(Kept(s))
                  /\ Cardinality(DocsOf(s)) - segs[s].deleted =
                         Cardinality(Kept(s))
<1>1. /\ Types /\ WriterShape /\ Numbers /\ Logged /\ MemoryHas /\ MemoryHides
      /\ MemoryOnce /\ up /\ replay = 0
    BY DEF LexInv, Shape, Contents, Once, Serving
<1>2. /\ writer.buffer = {} /\ writer.flushed = {} /\ ~writer.manager
      /\ writer.flips = {} /\ SegIds = DOMAIN segs
    <2>1. writer = NoWriter
        BY <1>1 DEF WriterShape
    <2>2. /\ writer.buffer = {} /\ writer.flushed = {} /\ ~writer.manager
          /\ writer.flips = {}
        BY <2>1 DEF NoWriter
    <2> QED
        BY <2>2 DEF SegIds
<1>3. /\ Unreplayed = {} /\ OpenAdds = {} /\ DoneDrops = Drops(1..Last)
    BY <1>1 DEF Unreplayed, OpenAdds, OpenDrops, DoneDrops
<1>4. IsFiniteSet(DOMAIN segs)
    <2>1. DOMAIN segs \subseteq 0..nextGen - 1 /\ nextGen \in Nat
        BY <1>1 DEF Numbers, Types
    <2>2. 0 \in Int /\ nextGen - 1 \in Int
        BY <2>1
    <2>3. IsFiniteSet(0..nextGen - 1)
        BY <2>2, FS_Interval
    <2> QED
        BY <2>1, <2>3, FS_Subset
<1>5. UNION {Kept(s) : s \in DOMAIN segs} = Live
    <2>1. ASSUME NEW s \in DOMAIN segs, NEW d \in Kept(s) PROVE d \in Live
        <3>1. d \in DocsOf(s) /\ d \notin Marked(s)
            BY DEF Kept
        <3>2. d \in Adds(1..Last)
            BY <1>1, <3>1 DEF Logged
        <3>3. d \notin Drops(1..Last)
            BY <1>1, <1>2, <1>3, <3>1 DEF MemoryHides
        <3> QED
            BY <3>2, <3>3 DEF Live
    <2>2. ASSUME NEW d \in Live PROVE \E s \in DOMAIN segs : d \in Kept(s)
        BY <1>1, <1>2, <1>3 DEF MemoryHas
    <2> QED
        BY <2>1, <2>2
<1>6. ASSUME NEW s \in DOMAIN segs, NEW u \in DOMAIN segs, s # u
      PROVE  Kept(s) \cap Kept(u) = {}
    <2>1. DocsOf(s) \cap DocsOf(u) \subseteq Hidden(s) \cup Hidden(u)
        BY <1>1, <1>2, <1>6 DEF MemoryOnce
    <2>2. Hidden(s) \subseteq Marked(s) /\ Hidden(u) \subseteq Marked(u)
        BY <1>2 DEF Hidden, MarksOf, Marked, Saved
    <2> QED
        BY <2>1, <2>2 DEF Kept
<1>7. ASSUME NEW s \in DOMAIN segs
      PROVE  /\ IsFiniteSet(Kept(s))
             /\ Cardinality(DocsOf(s)) - segs[s].deleted = Cardinality(Kept(s))
    <2>1. IsFiniteSet(DocsOf(s))
        <3>1. DocsOf(s) \subseteq 1..MaxSeq /\ MaxSeq \in Nat
            BY <1>1, TypeFacts DEF Docs
        <3>2. 1 \in Int /\ MaxSeq \in Int
            BY <3>1
        <3> QED
            BY <3>1, <3>2, FS_Interval, FS_Subset
    <2>2. Kept(s) = DocsOf(s) \ Hides(s) /\ Hides(s) = DocsOf(s) \cap Hides(s)
        BY DEF Kept, Hides
    <2>3. /\ IsFiniteSet(Kept(s))
          /\ Cardinality(Kept(s)) = Cardinality(DocsOf(s)) - Cardinality(Hides(s))
        BY <2>1, <2>2, FS_Difference
    <2>4. segs[s].deleted = Cardinality(Hides(s))
        BY <1>1, <1>2, <1>3, CountsExact DEF Exact
    <2> QED
        BY <2>3, <2>4
<1> QED
    BY <1>4, <1>5, <1>6, <1>7

\* A function that sums the sizes of the sets K, one after the other.
SumsSizes(K, S, f) ==
    \A s \in SUBSET S :
        f[s] = IF s = {} THEN 0
               ELSE Cardinality(K[Pick(s)]) + f[s \ {Pick(s)}]

\* A function that sums the sizes of disjoint sets gives the size of their
\* union.
LEMMA SumIsUnion ==
    ASSUME NEW S, IsFiniteSet(S), NEW K,
           \A x \in S : IsFiniteSet(K[x]),
           \A x, y \in S : x # y => K[x] \cap K[y] = {},
           NEW f, SumsSizes(K, S, f)
    PROVE  f[S] = Cardinality(UNION {K[x] : x \in S})
<1> DEFINE All(s) == UNION {K[x] : x \in s}
           Bad == {k \in Nat : \E s \in SUBSET S :
                       /\ Cardinality(s) = k
                       /\ ~ (/\ IsFiniteSet(All(s))
                             /\ f[s] = Cardinality(All(s)))}
<1>1. \A s \in SUBSET S :
          /\ IsFiniteSet(s) /\ Cardinality(s) \in Nat
          /\ s # {} => Pick(s) \in s
    BY FS_Subset, FS_CardinalityType DEF Pick
<1>2. Bad = {}
    <2> SUFFICES ASSUME Bad # {} PROVE FALSE
        OBVIOUS
    <2>1. PICK k \in Bad : \A j \in Bad : k <= j
        BY Least
    <2>2. PICK s \in SUBSET S :
              /\ Cardinality(s) = k
              /\ ~ (/\ IsFiniteSet(All(s)) /\ f[s] = Cardinality(All(s)))
        BY <2>1
    <2>3. CASE s = {}
        <3>1. All(s) = {} /\ f[s] = 0
            BY <2>3 DEF SumsSizes
        <3> QED
            BY <2>2, <3>1, FS_EmptySet
    <2>4. CASE s # {}
        <3>1. PICK p : p = Pick(s)
            OBVIOUS
        <3>2. PICK r : r = s \ {p}
            OBVIOUS
        <3>3. p \in s /\ p \in S /\ r \in SUBSET S /\ p \notin r
            BY <1>1, <2>4, <3>1, <3>2
        <3>4. Cardinality(r) = k - 1 /\ k - 1 \in Nat
            <4>1. Cardinality(r) = Cardinality(s) - 1
                BY <1>1, <3>2, <3>3, FS_RemoveElement
            <4> QED
                BY <1>1, <2>2, <3>3, <4>1
        <3>5. k - 1 \notin Bad
            <4>1. ~ (k <= k - 1)
                BY <3>4
            <4> HIDE DEF Bad
            <4> QED
                BY <2>1, <4>1
        <3>6. IsFiniteSet(All(r)) /\ f[r] = Cardinality(All(r))
            BY <3>3, <3>4, <3>5
        <3>7. f[s] = Cardinality(K[p]) + f[r]
            BY <2>4, <3>1, <3>2 DEF SumsSizes
        <3>8. All(s) = K[p] \cup All(r) /\ K[p] \cap All(r) = {}
            <4>1. s = {p} \cup r
                BY <3>2, <3>3
            <4>2. \A x \in r : x \in S /\ x # p
                BY <3>3
            <4> QED
                BY <3>3, <4>1, <4>2
        <3>9. /\ IsFiniteSet(K[p] \cup All(r))
              /\ Cardinality(K[p] \cup All(r)) =
                     Cardinality(K[p]) + Cardinality(All(r))
                         - Cardinality(K[p] \cap All(r))
            BY <3>3, <3>6, FS_Union
        <3>10. Cardinality(K[p]) \in Nat /\ Cardinality(All(r)) \in Nat
            BY <3>3, <3>6, FS_CardinalityType
        <3>11. Cardinality(K[p] \cap All(r)) = 0
            BY <3>8, FS_EmptySet
        <3>12. Cardinality(K[p] \cup All(r)) =
                   Cardinality(K[p]) + Cardinality(All(r))
            <4> HIDE DEF All
            <4> QED
                BY <3>9, <3>10, <3>11
        <3> QED
            BY <2>2, <3>6, <3>7, <3>8, <3>9, <3>12
    <2> QED
        BY <2>3, <2>4
<1>3. Cardinality(S) \notin Bad /\ Cardinality(S) \in Nat
    BY <1>1, <1>2
<1> QED
    BY <1>3

\* So the counts give the number of live documents.
LEMMA CountsSum ==
    ASSUME LexInv, Counts
    PROVE  CountsMatch
<1> SUFFICES ASSUME Serving, todo = {}, ~writer.open
             PROVE  MapThenSumSet(
                        LAMBDA s : Cardinality(DocsOf(s)) - segs[s].deleted,
                        DOMAIN segs) = Cardinality(Live)
    BY DEF CountsMatch
<1>1. PICK S : S = DOMAIN segs
    OBVIOUS
<1>2. PICK K : K = [s \in S |-> Kept(s)]
    OBVIOUS
<1>3. /\ IsFiniteSet(S)
      /\ UNION {K[s] : s \in S} = Live
      /\ \A s, u \in S : s # u => K[s] \cap K[u] = {}
      /\ \A s \in S : IsFiniteSet(K[s])
      /\ \A s \in S :
             Cardinality(DocsOf(s)) - segs[s].deleted = Cardinality(K[s])
    <2>1. \A s \in S : K[s] = Kept(s)
        BY <1>2
    <2>2. UNION {K[s] : s \in S} = UNION {Kept(s) : s \in S}
        BY <2>1
    <2> QED
        BY <1>1, <2>1, <2>2, QuietMemory
<1>4. PICK h : h = [s \in S |-> Cardinality(K[s])]
    OBVIOUS
<1>5. h \in [S -> Nat]
    BY <1>3, <1>4, FS_CardinalityType
<1>6. PICK n : n = Cardinality(S) /\ n \in Nat
    BY <1>3, FS_CardinalityType
<1>7. PICK f : SumTo(h, S, n, f)
    BY <1>3, <1>5, <1>6, SumExists
<1>8. \A s \in SUBSET S :
          f[s] = IF s = {} THEN 0
                 ELSE Cardinality(DocsOf(Pick(s))) - segs[Pick(s)].deleted
                          + f[s \ {Pick(s)}]
    <2>1. ASSUME NEW s \in SUBSET S
          PROVE  /\ Cardinality(s) <= n
                 /\ s # {} => Pick(s) \in S
        BY <1>3, <1>6, FS_Subset DEF Pick
    <2>2. \A s \in SUBSET S : s # {} =>
              h[Pick(s)] = Cardinality(DocsOf(Pick(s))) - segs[Pick(s)].deleted
        BY <1>3, <1>4, <2>1
    <2> QED
        BY <1>7, <2>1, <2>2 DEF SumTo
<1> DEFINE IsSum(iter) ==
               iter = [s \in SUBSET S |->
                          IF s = {} THEN 0
                          ELSE Cardinality(DocsOf(Pick(s)))
                                   - segs[Pick(s)].deleted
                                   + iter[s \ {Pick(s)}]]
           Iter == CHOOSE iter : IsSum(iter)
<1>9. IsSum(f)
    <2>1. f = [s \in SUBSET S |-> f[s]]
        BY <1>7 DEF SumTo
    <2> QED
        BY <1>8, <2>1
<1>10. IsSum(Iter)
    BY <1>9
<1>11. PICK g : g = Iter
    OBVIOUS
<1>12. g[S] = Cardinality(Live)
    <2>1. IsSum(g)
        BY <1>10, <1>11
    <2>2. \A s \in SUBSET S :
              g[s] = IF s = {} THEN 0
                     ELSE Cardinality(DocsOf(Pick(s))) - segs[Pick(s)].deleted
                              + g[s \ {Pick(s)}]
        BY <2>1
    <2>3. \A s \in SUBSET S : s # {} => Pick(s) \in S
        BY DEF Pick
    <2>4. SumsSizes(K, S, g)
        BY <1>3, <2>2, <2>3 DEF SumsSizes
    <2>5. /\ IsFiniteSet(S) /\ \A x \in S : IsFiniteSet(K[x])
          /\ \A x, y \in S : x # y => K[x] \cap K[y] = {}
        BY <1>3
    <2>6. g[S] = Cardinality(UNION {K[x] : x \in S})
        BY <2>4, <2>5, SumIsUnion
    <2> QED
        BY <1>3, <2>6
<1>13. MapThenSumSet(LAMBDA s : Cardinality(DocsOf(s)) - segs[s].deleted, S)
           = Iter[S]
    BY DEF MapThenSumSet, MapThenFoldSet, Pick
<1> QED
    BY <1>1, <1>11, <1>12, <1>13

-----------------------------------------------------------------------------
(* The theorems.                                                           *)

\* The inductive invariant: what the writer, the manifest in memory, the one
\* on storage and a searcher under construction hold of each document, at
\* every step of a commit, a merge, a failure, a crash and a recovery.
THEOREM LexicalInvariant == Spec => []LexInv
<1>1. Init => LexInv
    BY InitLex
<1>2. LexInv /\ [Next]_vars => LexInv'
    BY NextLex
<1> QED
    BY <1>1, <1>2, PTL DEF Spec

\* Every variable has its type, and what memory names as a segment has a
\* generation that was reserved (reserve_generation).
THEOREM LexicalTypes == Spec => []TypeOK
<1>1. LexInv => TypeOK
    BY ShapeTypes DEF LexInv
<1> QED
    BY <1>1, LexicalInvariant, PTL

\* A put or a delete that looks its id up finds exactly the version the log
\* leaves live, wherever flushes, commits and merges have put it
\* (find_doc_ids_by_term of LexicalStore and of the writer).
THEOREM LookupIsExact == Spec => []LookupExact
<1>1. LexInv => LookupExact
    BY LookupFacts DEF LookupExact
<1> QED
    BY <1>1, LexicalInvariant, PTL

\* A searcher shows the checkpoint that it was built after, in full, however
\* its construction falls between the steps of a commit or a merge.
THEOREM SearchersSeeCommits == Spec => []SearchesSeeCommit
<1>1. LexInv => SearchesSeeCommit
    BY SearcherFacts
<1> QED
    BY <1>1, LexicalInvariant, PTL

\* Whenever the process dies, the segments and bitmaps on storage and the
\* records above the checkpoint give back exactly the live documents.
THEOREM CrashesReopenLive == Spec => []ReopensLive
<1>1. LexInv => ReopensLive
    BY ReopenFacts
<1> QED
    BY <1>1, LexicalInvariant, PTL

\* No retried flush, repeated publication or replay leaves a document live in
\* two places.
THEOREM DocumentsLiveOnce == Spec => []OneCopy
<1>1. LexInv => OneCopy
    BY OneFacts
<1> QED
    BY <1>1, LexicalInvariant, PTL

\* The counts hold at every step: what a segment's entry counts is what its
\* bitmap hides, or the commit or a replay will count again.
THEOREM CountsInvariant == Spec => []Counts
<1>1. Init => Counts
    BY InitCounts
<1>2. LexInv /\ Counts /\ [Next]_vars => Counts'
    BY NextCounts
<1>3. Spec => []LexInv
    BY LexicalInvariant
<1> QED
    BY <1>1, <1>2, <1>3, PTL DEF Spec

\* Once nothing is buffered or under way, the counts of the manifest's
\* entries (index_counts) give the number of live documents, whatever marks,
\* failed commits, merges and crashes came before (flush_deletions).
THEOREM EntriesCountTheLive == Spec => []CountsMatch
<1>1. LexInv /\ Counts => CountsMatch
    BY CountsSum
<1> QED
    BY <1>1, LexicalInvariant, CountsInvariant, PTL

=============================================================================
