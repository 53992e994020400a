------------------------- MODULE EngineReplayProofs -------------------------
(***************************************************************************)
(* Theorems about the records of Engine and what its stores make of them:  *)
(* every crash reopens to what the log says, the log drops only what every *)
(* store holds, and concurrent upserts leave one version.                  *)
(***************************************************************************)
EXTENDS EngineProofs

-----------------------------------------------------------------------------
(* What records say of each other.                                         *)

\* A document is added once, under the id of its record.
AddedOnce(records) ==
    \A r \in records : \A e \in r.adds :
        /\ e.id = r.id
        /\ \A s \in records : \A f \in s.adds : e.doc = f.doc => r = s /\ e = f

\* A record deletes documents of its own id that earlier records added, and
\* that no other deletes.
KilledOnce(records) ==
    \A r \in records : \A d \in r.kills :
        /\ \E s \in records : /\ s.seq < r.seq /\ s.id = r.id
                              /\ \E e \in s.adds : e.doc = d
        /\ \A s \in records : d \in s.kills => r = s

\* A put or a delete leaves no document of its id that was there before.
Superseded(records) ==
    \A r \in records : r.kind # "add" =>
        /\ r.kind = "delete" => r.adds = {}
        /\ \A s \in records : s.seq < r.seq /\ s.id = r.id =>
               \A e \in s.adds :
                   \E t \in records : t.seq <= r.seq /\ e.doc \in t.kills

RecordsOrdered(records) ==
    AddedOnce(records) /\ KilledOnce(records) /\ Superseded(records)

\* An entry is live if a record adds it and none above that removes it.
LEMMA LiveEntry ==
    ASSUME NEW records, NEW e
    PROVE  e \in Live(records) <=>
               \E r \in records :
                   /\ e \in r.adds
                   /\ \A s \in records : s.seq > r.seq => ~Removes(s, e)
BY DEF Live, ReplayInto

\* What removes a document is of its id, and adds or deletes that document.
LEMMA TouchesOwnId ==
    ASSUME NEW records, AddedOnce(records), KilledOnce(records),
           NEW r \in records, NEW e \in AddsOf(records), Removes(r, e)
    PROVE  e.id = r.id /\ (e \in r.adds \/ e.doc \in r.kills)
<1>1. PICK s \in records : e \in s.adds
    BY DEF AddsOf
<1>2. CASE e.doc \in r.kills
    <2>1. PICK t \in records : t.id = r.id /\ \E f \in t.adds : f.doc = e.doc
        BY <1>2 DEF KilledOnce
    <2> QED
        BY <1>1, <1>2, <2>1 DEF AddedOnce
<1>3. CASE \E f \in r.adds : f.doc = e.doc
    BY <1>1, <1>3 DEF AddedOnce
<1> QED
    BY <1>2, <1>3 DEF Removes

\* A document is live if it was added and nothing deletes it.
LEMMA LiveIsAlive ==
    ASSUME NEW records \in SUBSET Records,
           AddedOnce(records), KilledOnce(records), NEW e
    PROVE  e \in Live(records) <=>
               e \in AddsOf(records) /\ \A s \in records : e.doc \notin s.kills
<1>1. \A r \in records : r.seq \in Nat
    BY DEF Records
<1>2. ASSUME e \in Live(records), NEW s \in records, e.doc \in s.kills
      PROVE  FALSE
    <2>1. PICK r \in records :
              e \in r.adds /\ \A t \in records : t.seq > r.seq => ~Removes(t, e)
        BY <1>2, LiveEntry
    <2>2. PICK t \in records :
              t.seq < s.seq /\ \E f \in t.adds : f.doc = e.doc
        BY <1>2 DEF KilledOnce
    <2>3. t = r
        BY <2>1, <2>2 DEF AddedOnce
    <2> QED
        BY <1>1, <1>2, <2>1, <2>2, <2>3 DEF Removes
<1>3. e \in Live(records) => e \in AddsOf(records)
    BY LiveEntry DEF AddsOf
<1>4. ASSUME e \in AddsOf(records), \A s \in records : e.doc \notin s.kills
      PROVE  e \in Live(records)
    <2>1. PICK r \in records : e \in r.adds
        BY <1>4 DEF AddsOf
    <2>2. ASSUME NEW s \in records, s.seq > r.seq PROVE ~Removes(s, e)
        BY <1>1, <1>4, <2>1, <2>2 DEF Removes, AddedOnce
    <2> QED
        BY <2>1, <2>2, LiveEntry
<1> QED
    BY <1>2, <1>3, <1>4

\* All of it holds of the records up to some number, if it does of all.
LEMMA PrefixOrdered ==
    ASSUME NEW records \in SUBSET Records, NEW first \in SUBSET records,
           RecordsOrdered(records),
           \A r \in first : \A s \in records : s.seq <= r.seq => s \in first
    PROVE  RecordsOrdered(first)
<1>1. \A r \in records : r.seq \in Nat
    BY DEF Records
<1>2. AddedOnce(first)
    BY DEF RecordsOrdered, AddedOnce
<1>3. KilledOnce(first)
    <2> SUFFICES ASSUME NEW r \in first, NEW d \in r.kills
                 PROVE  /\ \E s \in first : /\ s.seq < r.seq /\ s.id = r.id
                                            /\ \E e \in s.adds : e.doc = d
                        /\ \A s \in first : d \in s.kills => r = s
        BY DEF KilledOnce
    <2>1. PICK s \in records : /\ s.seq < r.seq /\ s.id = r.id
                               /\ \E e \in s.adds : e.doc = d
        BY DEF RecordsOrdered, KilledOnce
    <2>2. s \in first
        BY <1>1, <2>1
    <2> QED
        BY <2>1, <2>2 DEF RecordsOrdered, KilledOnce
<1>4. Superseded(first)
    BY DEF RecordsOrdered, Superseded
<1> QED
    BY <1>2, <1>3, <1>4 DEF RecordsOrdered

\* A record that comes last, adds a fresh document and deletes live ones of
\* its id, all of them unless it adds a version beside them, keeps all of it,
\* and changes nothing of the other ids.
LEMMA AppendedOrdered ==
    ASSUME NEW records \in SUBSET Records, RecordsOrdered(records),
           NEW new \in Records,
           \A r \in records : r.seq < new.seq,
           \A e \in new.adds :
               /\ e.id = new.id
               /\ \A f \in new.adds : f = e
               /\ \A f \in AddsOf(records) : f.doc # e.doc,
           new.kind = "delete" => new.adds = {},
           \A d \in new.kills :
               \E e \in Live(records) : e.doc = d /\ e.id = new.id,
           new.kind # "add" =>
               \A e \in Live(records) : e.id = new.id => e.doc \in new.kills
    PROVE  /\ RecordsOrdered(records \cup {new})
           /\ \A e : e.id # new.id =>
                  (e \in Live(records \cup {new}) <=> e \in Live(records))
<1> DEFINE more == records \cup {new}
<1>1. /\ \A r \in more : r.seq \in Nat
      /\ AddedOnce(records) /\ KilledOnce(records) /\ Superseded(records)
    BY DEF Records, RecordsOrdered
<1>2. \A e : e \in Live(records) <=>
          e \in AddsOf(records) /\ \A s \in records : e.doc \notin s.kills
    BY <1>1, LiveIsAlive
<1>3. AddedOnce(more)
    BY <1>1 DEF AddedOnce, AddsOf
<1>4. \A d \in new.kills :
          /\ \E s \in records : s.id = new.id /\ \E e \in s.adds : e.doc = d
          /\ \A s \in records : d \notin s.kills
    <2> SUFFICES ASSUME NEW d \in new.kills
                 PROVE  /\ \E s \in records :
                              s.id = new.id /\ \E e \in s.adds : e.doc = d
                        /\ \A s \in records : d \notin s.kills
        OBVIOUS
    <2>1. PICK e \in Live(records) : e.doc = d /\ e.id = new.id
        OBVIOUS
    <2>2. e \in AddsOf(records) /\ \A s \in records : d \notin s.kills
        BY <1>2, <2>1
    <2>3. PICK s \in records : e \in s.adds
        BY <2>2 DEF AddsOf
    <2>4. s.id = new.id
        BY <1>1, <2>1, <2>3 DEF AddedOnce
    <2> QED
        BY <2>1, <2>2, <2>3, <2>4
<1>5. KilledOnce(more)
    <2>1. \A r \in records : \A d \in r.kills :
              /\ \E s \in more : /\ s.seq < r.seq /\ s.id = r.id
                                 /\ \E e \in s.adds : e.doc = d
              /\ \A s \in more : d \in s.kills => r = s
        BY <1>1, <1>4 DEF KilledOnce
    <2>2. \A d \in new.kills :
              /\ \E s \in more : /\ s.seq < new.seq /\ s.id = new.id
                                 /\ \E e \in s.adds : e.doc = d
              /\ \A s \in more : d \in s.kills => new = s
        BY <1>4
    <2> QED
        BY <2>1, <2>2 DEF KilledOnce
<1>6. Superseded(more)
    <2>1. ASSUME NEW r \in records, r.kind # "add"
          PROVE  /\ r.kind = "delete" => r.adds = {}
                 /\ \A s \in more : s.seq < r.seq /\ s.id = r.id =>
                        \A e \in s.adds :
                            \E t \in more : t.seq <= r.seq /\ e.doc \in t.kills
        <3>1. r.seq < new.seq
            OBVIOUS
        <3>2. \A s \in more : s.seq < r.seq => s \in records
            BY <1>1, <3>1
        <3>3. \A s \in records : s.seq < r.seq /\ s.id = r.id =>
                  \A e \in s.adds :
                      \E t \in records : t.seq <= r.seq /\ e.doc \in t.kills
            BY <1>1, <2>1 DEF Superseded
        <3> QED
            BY <1>1, <2>1, <3>2, <3>3 DEF Superseded
    <2>2. ASSUME new.kind # "add", NEW s \in more, s.seq < new.seq,
                 s.id = new.id, NEW e \in s.adds
          PROVE  \E t \in more : t.seq <= new.seq /\ e.doc \in t.kills
        <3>1. s \in records
            BY <1>1, <2>2
        <3>2. e \in AddsOf(records) /\ e.id = new.id
            BY <1>1, <2>2, <3>1 DEF AddsOf, AddedOnce
        <3>3. CASE e \in Live(records)
            BY <1>1, <2>2, <3>2, <3>3
        <3>4. CASE e \notin Live(records)
            <4>1. PICK t \in records : e.doc \in t.kills
                BY <1>2, <3>2, <3>4
            <4>2. t.seq <= new.seq
                BY <1>1
            <4> QED
                BY <4>1, <4>2
        <3> QED
            BY <3>3, <3>4
    <2> QED
        BY <2>1, <2>2 DEF Superseded
<1>7. ASSUME NEW e, e.id # new.id
      PROVE  e \in Live(more) <=> e \in Live(records)
    <2>1. e \in Live(more) <=>
              e \in AddsOf(more) /\ \A s \in more : e.doc \notin s.kills
        BY <1>3, <1>5, LiveIsAlive
    <2>2. e \in AddsOf(more) <=> e \in AddsOf(records)
        BY <1>7 DEF AddsOf
    <2>3. e \in AddsOf(records) => e.doc \notin new.kills
        <3> SUFFICES ASSUME e \in AddsOf(records), e.doc \in new.kills
                     PROVE  FALSE
            OBVIOUS
        <3>1. PICK s \in records :
                  s.id = new.id /\ \E f \in s.adds : f.doc = e.doc
            BY <1>4
        <3>2. PICK t \in records : e \in t.adds
            BY DEF AddsOf
        <3> QED
            BY <1>1, <1>7, <3>1, <3>2 DEF AddedOnce
    <2> QED
        BY <1>2, <2>1, <2>2, <2>3
<1> QED
    BY <1>3, <1>5, <1>6, <1>7 DEF RecordsOrdered

-----------------------------------------------------------------------------
(* Stores and the records they follow.                                     *)

\* A store holds what the records leave live, but for the documents that the
\* pending ones add, replace or delete.
Tracks(store, records, pending) ==
    /\ store \subseteq AddsOf(records)
    /\ \A e \in AddsOf(records) :
           (\A r \in pending : ~Removes(r, e)) =>
               (e \in store <=> e \in Live(records))

\* Replaying onto a store the pending records, when they are the last ones,
\* gives what all the records leave live (Engine::recover).
LEMMA ReplayedIsLive ==
    ASSUME NEW store, NEW records \in SUBSET Records,
           NEW pending \in SUBSET records,
           Tracks(store, records, pending),
           \A r, s \in records : r.seq = s.seq => r = s,
           \A p \in pending : \A r \in records : r.seq > p.seq => r \in pending
    PROVE  ReplayInto(store, pending) = Live(records)
<1>1. \A r \in records : r.seq \in Nat
    BY DEF Records
<1>2. ASSUME NEW e \in ReplayInto(store, pending) PROVE e \in Live(records)
    <2>1. CASE e \in store /\ \A r \in pending : ~Removes(r, e)
        BY <2>1 DEF Tracks
    <2>2. CASE \E r \in pending :
                   /\ e \in r.adds
                   /\ \A s \in pending : s.seq > r.seq => ~Removes(s, e)
        BY <2>2, LiveEntry
    <2> QED
        BY <1>2, <2>1, <2>2 DEF ReplayInto
<1>3. ASSUME NEW e \in Live(records) PROVE e \in ReplayInto(store, pending)
    <2>1. PICK r \in records :
              /\ e \in r.adds
              /\ \A s \in records : s.seq > r.seq => ~Removes(s, e)
        BY <1>3, LiveEntry
    <2>2. CASE r \in pending
        BY <2>1, <2>2 DEF ReplayInto
    <2>3. CASE r \notin pending
        <3>1. \A p \in pending : p.seq > r.seq
            BY <1>1, <2>3
        <3>2. \A p \in pending : ~Removes(p, e)
            BY <2>1, <3>1
        <3>3. e \in store
            BY <1>3, <2>1, <3>2 DEF Tracks, AddsOf
        <3> QED
            BY <3>2, <3>3 DEF ReplayInto
    <2> QED
        BY <2>2, <2>3
<1> QED
    BY <1>2, <1>3

\* A store that follows the records follows more of them, when the new ones
\* come last and are pending (an append, a flush of the log).
LEMMA TracksMore ==
    ASSUME NEW store, NEW records, NEW pending,
           NEW more \in SUBSET Records, NEW morePending,
           Tracks(store, records, pending),
           records \subseteq more, pending \subseteq morePending,
           more \ records \subseteq morePending,
           \A r \in records : \A s \in more \ records : r.seq < s.seq
    PROVE  Tracks(store, more, morePending)
<1>1. store \subseteq AddsOf(more)
    BY DEF Tracks, AddsOf
<1>2. ASSUME NEW e \in AddsOf(more), \A r \in morePending : ~Removes(r, e)
      PROVE  e \in store <=> e \in Live(more)
    <2>1. \A r \in more \ records : ~Removes(r, e) /\ e \notin r.adds
        BY <1>2 DEF Removes
    <2>2. e \in AddsOf(records)
        BY <2>1 DEF AddsOf
    <2>3. e \in store <=> e \in Live(records)
        BY <1>2, <2>2 DEF Tracks
    <2>4. e \in Live(records) <=> e \in Live(more)
        BY <2>1, LiveEntry
    <2> QED
        BY <2>3, <2>4
<1> QED
    BY <1>1, <1>2 DEF Tracks

\* It goes on following when only what pending records touch changes.
LEMMA TracksChanged ==
    ASSUME NEW store, NEW records, NEW pending, NEW changed,
           Tracks(store, records, pending),
           changed \subseteq AddsOf(records),
           \A e \in AddsOf(records) :
               \/ e \in changed <=> e \in store
               \/ \E r \in pending : Removes(r, e)
    PROVE  Tracks(changed, records, pending)
BY DEF Tracks

\* With more records pending less is asked of it.
LEMMA TracksLess ==
    ASSUME NEW store, NEW records, NEW pending, NEW more,
           Tracks(store, records, pending), pending \subseteq more
    PROVE  Tracks(store, records, more)
BY DEF Tracks

\* Of two stores that follow the records, a mix follows them: what both have
\* and nothing that neither has (a commit that failed halfway).
LEMMA TracksPartly ==
    ASSUME NEW records, NEW pending, NEW store, NEW other, NEW mixed,
           Tracks(store, records, pending), Tracks(other, records, pending),
           store \cap other \subseteq mixed, mixed \subseteq store \cup other
    PROVE  Tracks(mixed, records, pending)
BY DEF Tracks

\* A replay of pending records, and of the deletes of any other, leaves a
\* store that follows the records (a replay that failed halfway).
LEMMA TracksReplayed ==
    ASSUME NEW store, NEW records \in SUBSET Records,
           AddedOnce(records), KilledOnce(records),
           NEW pending \in SUBSET records, NEW some \in SUBSET pending,
           NEW last \in records, Tracks(store, records, pending)
    PROVE  LET replayed == ReplayInto(store, some)
           IN  /\ Tracks(replayed, records, pending)
               /\ Tracks({e \in replayed : e.doc \notin last.kills},
                         records, pending)
<1> DEFINE replayed == ReplayInto(store, some)
<1>1. replayed \subseteq AddsOf(records)
    BY DEF Tracks, ReplayInto, AddsOf
<1>2. ASSUME NEW e \in AddsOf(records), \A r \in pending : ~Removes(r, e)
      PROVE  e \in replayed <=> e \in store
    BY <1>2 DEF ReplayInto, Removes
<1>3. Tracks(replayed, records, pending)
    BY <1>1, <1>2 DEF Tracks
<1>4. \A e \in Live(records) : e.doc \notin last.kills
    BY LiveIsAlive
<1> HIDE DEF replayed
<1>5. Tracks({e \in replayed : e.doc \notin last.kills}, records, pending)
    BY <1>3, <1>4 DEF Tracks
<1> QED
    BY <1>3, <1>5 DEF replayed

\* A record is no longer pending once a store has what it adds and nothing
\* that it deletes, if none of its id came after it.
LEMMA TracksFinished ==
    ASSUME NEW store, NEW records \in SUBSET Records,
           AddedOnce(records), KilledOnce(records),
           NEW pending, NEW done \in records,
           Tracks(store, records, pending),
           \A r \in records : r.id = done.id => r.seq <= done.seq,
           done.adds \subseteq store,
           \A e \in store : e.doc \notin done.kills
    PROVE  Tracks(store, records, pending \ {done})
<1>1. \A r \in records : r.seq \in Nat
    BY DEF Records
<1>2. ASSUME NEW e \in AddsOf(records),
             \A r \in pending \ {done} : ~Removes(r, e)
      PROVE  e \in store <=> e \in Live(records)
    <2>1. CASE ~Removes(done, e)
        BY <1>2, <2>1 DEF Tracks
    <2>2. CASE e.doc \in done.kills
        BY <2>2, LiveIsAlive
    <2>3. CASE Removes(done, e) /\ e \in done.adds
        <3>1. e.id = done.id
            BY <2>3, TouchesOwnId
        <3>2. ASSUME NEW r \in records, r.seq > done.seq PROVE ~Removes(r, e)
            <4>1. r.id # done.id
                BY <1>1, <3>2
            <4> QED
                BY <3>1, <4>1, TouchesOwnId
        <3>3. e \in Live(records)
            BY <2>3, <3>2, LiveEntry
        <3> QED
            BY <2>3, <3>3
    <2> QED
        BY <2>1, <2>2, <2>3, TouchesOwnId
<1> QED
    BY <1>2 DEF Tracks

-----------------------------------------------------------------------------
(* The inductive invariant.                                                *)

\* The instances of which the theorems speak: every append is synced before
\* its record is applied, no document segment is lost, and a machine that
\* may fail has syncs that do not.  Findings show what happens otherwise.
WritesThrough ==
    /\ SyncPolicy = "PerRecord" /\ ~Batches
    /\ "segment" \notin Faults
    /\ "power" \in CrashKinds => "sync" \notin Faults

\* The records that the end of the process does not take.
Durable == {r \in history : r.seq <= flushed}

\* A record that may still be lost belongs to a mutation that failed; none
\* is where syncs do not fail.
LostHaveFailed ==
    /\ \A r \in history :
           \/ r.seq <= flushed
           \/ /\ r \in wal /\ walOpen /\ Running
              /\ r.seq \in unfinished /\ r.id \in failed
    /\ \A r \in history : r \notin wal \/ "sync" \notin Faults =>
           r.seq <= flushed /\ r.seq <= synced

\* The log has assigned the numbers of all documents.
DocsNumbered ==
    Running => \A r \in history : \A e \in r.adds : e.doc < nextDoc

\* A closed log goes on above its history.
ClosedBelow == ~Running => \A r \in history : r.seq < nextSeq

RecordInv ==
    LostHaveFailed /\ DocsNumbered /\ ClosedBelow /\ RecordsOrdered(history)

\* What each store's files need not hold: the records above its checkpoint,
\* and above the snapshot of a ladder that has committed it.
LexCuts == {lexCkpt} \cup
    {snap[l] : l \in {k \in Ladders : lpc[k] \in {"vector", "docs", "truncate"}}}
VecCuts == {vecCkpt} \cup
    {snap[l] : l \in {k \in Ladders : lpc[k] \in {"docs", "truncate"}}}

DurableAbove(n) == {r \in Durable \cap wal : r.seq > n}
DurableUnfinished == {r \in Durable : r.seq \in unfinished}

FilesTrack ==
    /\ \A n \in LexCuts : Tracks(lexDisk, Durable, DurableAbove(n))
    /\ \A n \in VecCuts : Tracks(vecDisk, Durable, DurableAbove(n))

MemoryTracks ==
    Running =>
        /\ Tracks(lexMem, Durable, DurableUnfinished)
        /\ Tracks(vecMem, Durable, DurableUnfinished)

\* The document store's part.
DocumentsKept ==
    /\ \A r \in history \ wal : DocsOf(r.adds) \subseteq docDisk
    /\ \A l \in Ladders : lpc[l] = "truncate" =>
           \A r \in history : r.seq <= snap[l] => DocsOf(r.adds) \subseteq docDisk
    /\ Running =>
           /\ docDisk \subseteq docSegments
           /\ \A r \in history : r.seq \notin unfinished =>
                  DocsOf(r.adds) \subseteq docPending \cup docSegments

StoreInv == FilesTrack /\ MemoryTracks /\ DocumentsKept

\* A client about to append knows the documents of its id: all of them,
\* unless it adds one beside them.
Known(c) ==
    /\ \A d \in op[c].kills :
           \E e \in Live(history) : e.doc = d /\ e.id = op[c].id
    /\ op[c].kind # "add" =>
           \A e \in Live(history) : e.id = op[c].id => e.doc \in op[c].kills

\* A client that applies its record is the last of its id to have one, and
\* the stores hold as much of it as the client has done.
Applied(c) ==
    /\ op[c] \in wal /\ op[c].seq <= flushed
    /\ \A r \in history : r.id = op[c].id => r.seq <= op[c].seq
    /\ todo[c] \subseteq op[c].kills
    /\ pc[c] \notin {"deleteLexical", "deleteVector"} => todo[c] = {}
    /\ \A e \in lexMem : e.doc \in op[c].kills =>
           /\ e.doc \in todo[c]
           /\ pc[c] = "deleteVector" => ~IsNext(e.doc, todo[c])
    /\ \A e \in vecMem : e.doc \in op[c].kills => e.doc \in todo[c]
    /\ pc[c] \in {"insertVector", "finish"} => op[c].adds \subseteq lexMem
    /\ pc[c] = "finish" => op[c].adds \subseteq vecMem
    /\ pc[c] \in {"insertLexical", "insertVector", "finish"} =>
           DocsOf(op[c].adds) \subseteq docPending \cup docSegments

\* An unfinished record has a client that applies it, or one that failed.
UnfinishedOwned ==
    \A r \in history : r.seq \in unfinished =>
        \/ \E c \in Clients : pc[c] \in Applying /\ op[c] = r
        \/ r.id \in failed

ClientInv ==
    /\ \A c \in Clients : pc[c] \in {"prepared", "locked"} => Known(c)
    /\ \A c \in Clients : pc[c] \in Applying => Applied(c)
    /\ UnfinishedOwned

ReplayInv == LogInv /\ StopInv /\ RecordInv /\ StoreInv /\ ClientInv

-----------------------------------------------------------------------------
(* What the invariant says of one state.                                   *)

\* Types and order of the records.
LEMMA ReplayFacts ==
    ASSUME ReplayInv
    PROVE  /\ history \in SUBSET Records /\ Durable \in SUBSET Records
           /\ wal \subseteq history /\ \A r \in history : r.seq \in Nat
           /\ RecordsOrdered(history)
           /\ AddedOnce(history) /\ KilledOnce(history)
           /\ AddedOnce(Durable) /\ KilledOnce(Durable)
           /\ flushed \in Nat /\ synced \in Nat /\ nextSeq \in Nat
           /\ nextDoc \in Nat /\ watermark \in Nat /\ unfinished \subseteq Nat
           /\ lexCkpt \in Nat /\ vecCkpt \in Nat /\ vecPend \in Nat
           /\ lpc \in [Ladders -> LadderSteps] /\ snap \in [Ladders -> Nat]
           /\ pc \in [Clients -> Steps] /\ op \in [Clients -> Ops \cup {NoOp}]
           /\ todo \in [Clients -> SUBSET Nat]
<1>1. TypeOK /\ LogIsSuffix /\ RecordsOrdered(history)
    BY DEF ReplayInv, LogInv, CoverInv, RecordInv
<1>2. history \in SUBSET Records /\ \A r \in history : r.seq \in Nat
    BY <1>1 DEF TypeOK, EngineTypeOK, Records
<1>3. flushed \in Nat
    BY <1>1 DEF TypeOK, LogTypeOK
<1>4. RecordsOrdered(Durable)
    BY <1>1, <1>2, <1>3, PrefixOrdered DEF Durable
<1> QED
    BY <1>1, <1>2, <1>4
       DEF Durable, LogIsSuffix, RecordsOrdered, TypeOK, LogTypeOK,
           StoreTypeOK, TaskTypeOK, EngineTypeOK

\* An unfinished record is in the log, above what any commit has recorded;
\* a record that may be lost is unfinished.
LEMMA PendingAbove ==
    ASSUME ReplayInv
    PROVE  /\ \A r \in history : r.seq \in unfinished =>
                  Running /\ r \in wal /\ r.seq > watermark
           /\ \A l \in Ladders : snap[l] <= watermark
           /\ \A n \in LexCuts \cup VecCuts :
                  n \in Nat /\ (Running => n <= watermark)
           /\ \A r \in history \ Durable :
                  /\ r.seq > flushed /\ r \in wal /\ walOpen /\ Running
                  /\ r.seq \in unfinished /\ r.id \in failed
<1>1. /\ CoverInv /\ LogIsSuffix /\ LostHaveFailed
      /\ \A r \in history : r.seq \in Nat
      /\ mode \in {"closed", "recovering", "failed", "open"}
    BY ReplayFacts
       DEF ReplayInv, LogInv, RecordInv, CoverInv, TypeOK, EngineTypeOK
<1>2. /\ watermark \in Nat /\ flushed \in Nat /\ unfinished \subseteq Nat
      /\ lexCkpt \in Nat /\ vecCkpt \in Nat /\ snap \in [Ladders -> Nat]
    BY ReplayFacts
<1>3. ASSUME NEW r \in history, r.seq \in unfinished
      PROVE  Running /\ r \in wal /\ r.seq > watermark
    <2>1. Running
        BY <1>1, <1>3 DEF CoverInv, ClosedIsFresh, Running
    <2>2. r.seq > watermark
        BY <1>1, <1>2, <1>3 DEF CoverInv, NumbersAssigned
    <2>3. r \in wal
        BY <1>1, <1>2, <2>1, <2>2 DEF CoverInv, RecordedCovered, LogIsSuffix
    <2> QED
        BY <2>1, <2>2, <2>3
<1>4. \A l \in Ladders : snap[l] <= watermark
    BY <1>1 DEF CoverInv, RecordedCovered
<1>5. \A n \in LexCuts \cup VecCuts : n \in Nat /\ (Running => n <= watermark)
    BY <1>1, <1>2, <1>4 DEF LexCuts, VecCuts, CoverInv, RecordedCovered
<1>6. \A r \in history \ Durable :
          /\ r.seq > flushed /\ r \in wal /\ walOpen /\ Running
          /\ r.seq \in unfinished /\ r.id \in failed
    BY <1>1, <1>2 DEF Durable, LostHaveFailed
<1> QED
    BY <1>3, <1>4, <1>5, <1>6

\* What is pending for the stores in memory is pending for any files that a
\* commit wrote.
LEMMA UnfinishedAboveCuts ==
    ASSUME ReplayInv, Running, NEW n \in Nat, n <= watermark
    PROVE  DurableUnfinished \subseteq DurableAbove(n)
BY ReplayFacts, PendingAbove DEF DurableUnfinished, DurableAbove, Durable

\* Clients that apply their records, or are about to, have different ids.
LEMMA IdsApart ==
    ASSUME ReplayInv, NEW c \in Clients, NEW d \in Clients, c # d,
           pc[c] \in Applying \cup {"prepared", "locked"},
           pc[d] \in Applying \cup {"prepared", "locked"}
    PROVE  /\ op[c] \in Ops /\ op[d] \in Ops /\ op[c].id # op[d].id
<1>1. TypeOK /\ IdLocked
    BY DEF ReplayInv, StopInv
<1>2. /\ op[c] \in Ops /\ op[d] \in Ops
      /\ op[c].id \in Ids
    BY <1>1 DEF TypeOK, TaskTypeOK, Applying, Ops
<1>3. HoldsId(c, op[c].id)
    BY DEF HoldsId, Applying
<1>4. op[d].id = op[c].id => HoldsId(d, op[c].id)
    BY DEF HoldsId, Applying
<1> QED
    BY <1>1, <1>2, <1>3, <1>4 DEF IdLocked

\* So they add and delete different documents.
LEMMA DocsApart ==
    ASSUME ReplayInv, NEW c \in Clients, NEW d \in Clients, c # d,
           pc[c] \in Applying, pc[d] \in Applying
    PROVE  /\ op[c] \in history /\ op[d] \in history
           /\ \A e \in op[d].adds : ~Removes(op[c], e)
           /\ \A e \in op[c].adds : e.doc \notin op[d].kills
<1>1. op[c] \in history /\ op[d] \in history /\ op[c].id # op[d].id
    BY ReplayFacts, IdsApart DEF ReplayInv, ClientInv, Applied
<1>2. AddedOnce(history) /\ KilledOnce(history)
    BY ReplayFacts
<1>3. ASSUME NEW e \in op[d].adds, Removes(op[c], e) PROVE FALSE
    <2>1. e \in AddsOf(history) /\ e.id = op[d].id
        BY <1>1, <1>2 DEF AddsOf, AddedOnce
    <2> QED
        BY <1>1, <1>2, <1>3, <2>1, TouchesOwnId
<1>4. ASSUME NEW e \in op[c].adds, e.doc \in op[d].kills PROVE FALSE
    <2>1. e \in AddsOf(history) /\ e.id = op[c].id
        BY <1>1, <1>2 DEF AddsOf, AddedOnce
    <2> QED
        BY <1>1, <1>2, <1>4, <2>1, TouchesOwnId DEF Removes
<1> QED
    BY <1>1, <1>3, <1>4

-----------------------------------------------------------------------------
(* Steps that leave the records and the stores in memory alone.            *)

\* The synced part of the log grows over records that are still pending.
LEMMA DurableGrows ==
    ASSUME ReplayInv, Running, history' \in SUBSET Records,
           history \subseteq history',
           \A r \in history' \ history : r.seq >= nextSeq,
           Durable \subseteq Durable',
           NEW store, NEW pending, NEW morePending,
           Tracks(store, Durable, pending), pending \subseteq morePending,
           Durable' \ Durable \subseteq morePending
    PROVE  Tracks(store, Durable', morePending)
<1>1. \A r \in history : r.seq \in Nat /\ r.seq < nextSeq
    BY ReplayFacts DEF ReplayInv, LogInv, SeqsDistinct
<1>2. flushed \in Nat /\ nextSeq \in Nat /\ \A r \in history' : r.seq \in Nat
    BY ReplayFacts DEF Records
<1>3. Durable' \in SUBSET Records
    BY DEF Durable
<1>4. \A r \in Durable : \A s \in Durable' \ Durable : r.seq < s.seq
    BY <1>1, <1>2 DEF Durable
<1> QED
    BY <1>3, <1>4, TracksMore

\* A client's application goes on undisturbed by what leaves its record in
\* the log, its id alone, and in the stores what it added or deleted.
LEMMA AppliedGoesOn ==
    ASSUME ReplayInv, NEW d \in Clients, pc[d] \in Applying,
           pc'[d] = pc[d], op'[d] = op[d], todo'[d] = todo[d],
           op[d] \in wal', op[d].seq <= flushed',
           \A r \in history' \ history : r.id # op[d].id,
           \A e \in lexMem' \ lexMem : e.doc \notin op[d].kills,
           \A e \in vecMem' \ vecMem : e.doc \notin op[d].kills,
           op[d].adds \cap lexMem \subseteq lexMem',
           op[d].adds \cap vecMem \subseteq vecMem',
           docPending \cup docSegments \subseteq docPending' \cup docSegments'
    PROVE  Applied(d)'
<1>1. Applied(d)
    BY DEF ReplayInv, ClientInv
<1> QED
    BY <1>1 DEF Applied

\* The parts of the invariant about records, memory and clients, after a
\* step that may sync the log, drop finished records from it, fail or end a
\* mutation that is not applied yet.
LEMMA QuietParts ==
    ASSUME ReplayInv, StopInv', Running, Running',
           UNCHANGED <<history, lexMem, vecMem>>,
           nextDoc' \in Nat, nextDoc <= nextDoc',
           unfinished \subseteq unfinished',
           \A r \in history : r.seq \in unfinished' => r.seq \in unfinished,
           failed \subseteq failed',
           wal' \subseteq wal,
           \A r \in wal : r.seq \in unfinished => r \in wal',
           \/ /\ wal' = wal /\ (walOpen => walOpen')
              /\ UNCHANGED <<flushed, synced>>
           \/ flushed' = LastSeq /\ synced' = LastSeq,
           docPending \cup docSegments \subseteq docPending' \cup docSegments',
           \A d \in Clients : pc[d] \in Applying \/ pc'[d] \in Applying =>
               pc'[d] = pc[d] /\ op'[d] = op[d] /\ todo'[d] = todo[d],
           \A d \in Clients : pc'[d] \in {"prepared", "locked"} =>
               \/ Known(d)'
               \/ pc[d] \in {"prepared", "locked"} /\ op'[d] = op[d]
    PROVE  RecordInv' /\ MemoryTracks' /\ ClientInv'
<1>1. \A r \in history : r.seq \in Nat /\ r.seq < nextSeq
    BY ReplayFacts DEF ReplayInv, LogInv, SeqsDistinct
<1>2. /\ flushed \in Nat /\ synced \in Nat /\ nextSeq \in Nat
      /\ nextDoc \in Nat /\ history \in SUBSET Records /\ wal \subseteq history
    BY ReplayFacts
<1>3. \/ flushed' = flushed
      \/ flushed' = LastSeq /\ \A r \in history : r.seq <= flushed'
    BY <1>1, <1>2 DEF LastSeq
<1>4. Durable \subseteq Durable' /\ Durable' \ Durable \subseteq DurableUnfinished'
    BY <1>1, <1>2, <1>3, PendingAbove DEF Durable, DurableUnfinished
<1>5. LostHaveFailed'
    <2>1. CASE /\ wal' = wal /\ (walOpen => walOpen')
               /\ UNCHANGED <<flushed, synced>>
        BY <2>1 DEF ReplayInv, RecordInv, LostHaveFailed
    <2>2. CASE flushed' = LastSeq /\ synced' = LastSeq
        BY <1>1, <1>2, <2>2 DEF LostHaveFailed, LastSeq
    <2> QED
        BY <2>1, <2>2
<1>6. RecordInv'
    <2>1. \A r \in history : \A e \in r.adds : e.doc \in Nat /\ e.doc < nextDoc
        BY <1>2 DEF ReplayInv, RecordInv, DocsNumbered, Records, Entries
    <2>2. DocsNumbered'
        BY <1>2, <2>1 DEF DocsNumbered
    <2> QED
        BY <1>5, <2>2 DEF ReplayInv, RecordInv, ClosedBelow
<1>7. MemoryTracks'
    <2>1. DurableUnfinished \subseteq DurableUnfinished'
        BY <1>4 DEF DurableUnfinished
    <2>2. ASSUME NEW store, Tracks(store, Durable, DurableUnfinished)
          PROVE  Tracks(store, Durable', DurableUnfinished')
        <3>1. \A r \in Durable : \A s \in Durable' \ Durable : r.seq < s.seq
            BY <1>1, <1>2 DEF Durable
        <3>2. Durable' \in SUBSET Records
            BY <1>2 DEF Durable
        <3> QED
            BY <1>4, <2>1, <2>2, <3>1, <3>2, TracksMore
    <2> QED
        BY <2>2 DEF ReplayInv, StoreInv, MemoryTracks
<1>8. ASSUME NEW d \in Clients, pc'[d] \in {"prepared", "locked"}
      PROVE  Known(d)'
    BY <1>8 DEF ReplayInv, ClientInv, Known
<1>9. ASSUME NEW d \in Clients, pc'[d] \in Applying
      PROVE  Applied(d)'
    <2>1. pc'[d] = pc[d] /\ op'[d] = op[d] /\ todo'[d] = todo[d]
        BY <1>9
    <2>2. Applied(d) /\ op[d].seq \in unfinished
        BY <1>9, <2>1 DEF ReplayInv, ClientInv, LogInv, CoverInv, ApplyingLogged
    <2>3. op[d] \in wal' /\ op[d].seq <= flushed'
        BY <1>2, <1>3, <2>2 DEF Applied
    <2> QED
        BY <2>1, <2>2, <2>3 DEF Applied
<1>10. UnfinishedOwned'
    BY DEF ReplayInv, ClientInv, UnfinishedOwned
<1> QED
    BY <1>6, <1>7, <1>8, <1>9, <1>10 DEF ClientInv

\* The files go on following the records when the log grows or is synced, if
\* no commit gets further.
LEMMA FilesKept ==
    ASSUME ReplayInv, Running, history' \in SUBSET Records,
           history \subseteq history', history' \ history \subseteq wal',
           \A r \in history' \ history : r.seq >= nextSeq,
           Durable \subseteq Durable', wal \subseteq wal',
           UNCHANGED <<lexDisk, vecDisk>>,
           LexCuts' \subseteq LexCuts, VecCuts' \subseteq VecCuts
    PROVE  FilesTrack'
<1>1. /\ nextSeq \in Nat /\ watermark \in Nat /\ watermark < nextSeq
      /\ \A r \in history' : r.seq \in Nat
    BY ReplayFacts DEF ReplayInv, LogInv, CoverInv, NumbersAssigned, Records
<1>2. ASSUME NEW n \in LexCuts \cup VecCuts
      PROVE  /\ DurableAbove(n) \subseteq DurableAbove(n)'
             /\ Durable' \ Durable \subseteq DurableAbove(n)'
    <2>1. n \in Nat /\ n <= watermark
        BY PendingAbove
    <2>2. \A r \in Durable' \ Durable : r \in wal' /\ r.seq > watermark
        <3> SUFFICES ASSUME NEW r \in Durable' \ Durable
                     PROVE  r \in wal' /\ r.seq > watermark
            OBVIOUS
        <3>1. r \in history' /\ r.seq \in Nat
            BY <1>1 DEF Durable
        <3>2. CASE r \in history
            BY <3>2, PendingAbove
        <3>3. CASE r \notin history
            BY <1>1, <3>1, <3>3
        <3> QED
            BY <3>2, <3>3
    <2> QED
        BY <1>1, <2>1, <2>2 DEF DurableAbove, Durable
<1>3. ASSUME NEW store, NEW n \in LexCuts \cup VecCuts,
             Tracks(store, Durable, DurableAbove(n))
      PROVE  Tracks(store, Durable', DurableAbove(n)')
    BY <1>2, <1>3, DurableGrows
<1>4. \A n \in LexCuts : Tracks(lexDisk, Durable', DurableAbove(n)')
    BY <1>3 DEF ReplayInv, StoreInv, FilesTrack
<1>5. \A n \in VecCuts : Tracks(vecDisk, Durable', DurableAbove(n)')
    BY <1>3 DEF ReplayInv, StoreInv, FilesTrack
<1>6. \A n \in LexCuts' : Tracks(lexDisk, Durable, DurableAbove(n))'
    BY <1>4
<1>7. \A n \in VecCuts' : Tracks(vecDisk, Durable, DurableAbove(n))'
    BY <1>5
<1> QED
    BY <1>6, <1>7 DEF FilesTrack

\* So do the documents, whose buffer only grows.
LEMMA DocumentsStay ==
    ASSUME ReplayInv, Running, history' \in SUBSET Records,
           history \subseteq history', history' \ history \subseteq wal',
           \A r \in history' \ history :
               r.seq >= nextSeq /\ r.seq \in unfinished',
           \A r \in history : r.seq \in unfinished' \/ r.seq \notin unfinished
               \/ DocsOf(r.adds) \subseteq docPending \cup docSegments,
           wal \subseteq wal',
           UNCHANGED <<docDisk, docSegments>>, docPending \subseteq docPending',
           \A l \in Ladders : lpc'[l] = "truncate" =>
               lpc[l] = "truncate" /\ snap'[l] = snap[l]
    PROVE  DocumentsKept'
<1>1. DocumentsKept
    BY DEF ReplayInv, StoreInv
<1>2. /\ nextSeq \in Nat /\ watermark \in Nat /\ watermark < nextSeq
      /\ \A l \in Ladders : snap[l] \in Nat /\ snap[l] <= watermark
      /\ \A r \in history' : r.seq \in Nat
    BY ReplayFacts, PendingAbove
       DEF ReplayInv, LogInv, CoverInv, NumbersAssigned, Records
<1>3. \A r \in history' \ wal' : DocsOf(r.adds) \subseteq docDisk'
    BY <1>1 DEF DocumentsKept
<1>4. ASSUME NEW l \in Ladders, lpc'[l] = "truncate",
             NEW r \in history', r.seq <= snap'[l]
      PROVE  DocsOf(r.adds) \subseteq docDisk'
    BY <1>1, <1>2, <1>4 DEF DocumentsKept
<1>5. \A r \in history' : r.seq \notin unfinished' =>
          DocsOf(r.adds) \subseteq docPending' \cup docSegments'
    BY <1>1 DEF DocumentsKept
<1>6. docDisk' \subseteq docSegments'
    BY <1>1 DEF DocumentsKept
<1> QED
    BY <1>3, <1>4, <1>5, <1>6 DEF DocumentsKept

\* Ladders that have committed a store did before.
Stalled ==
    \A l \in Ladders : lpc'[l] \in {"vector", "docs", "truncate"} =>
        lpc'[l] = lpc[l] /\ snap'[l] = snap[l]

\* A step that neither logs nor applies nor commits anything keeps the
\* invariant.
LEMMA QuietReplay ==
    ASSUME ReplayInv, LogInv', StopInv', Running, Running', Stalled,
           UNCHANGED <<history, wal, lexMem, lexDisk, lexCkpt, vecMem, vecDisk,
                       vecCkpt, docVars>>,
           nextDoc' \in Nat, nextDoc <= nextDoc',
           unfinished \subseteq unfinished',
           \A r \in history : r.seq \in unfinished' => r.seq \in unfinished,
           failed \subseteq failed',
           \/ (walOpen => walOpen') /\ UNCHANGED <<flushed, synced>>
           \/ flushed' = LastSeq /\ synced' = LastSeq,
           \A d \in Clients : pc[d] \in Applying \/ pc'[d] \in Applying =>
               pc'[d] = pc[d] /\ op'[d] = op[d] /\ todo'[d] = todo[d],
           \A d \in Clients : pc'[d] \in {"prepared", "locked"} =>
               \/ Known(d)'
               \/ pc[d] \in {"prepared", "locked"} /\ op'[d] = op[d]
    PROVE  ReplayInv'
<1>1. UNCHANGED <<docPending, docSegments, docDisk>>
    BY DEF docVars
<1>2. RecordInv' /\ MemoryTracks' /\ ClientInv'
    <2>1. \/ /\ wal' = wal /\ (walOpen => walOpen')
             /\ UNCHANGED <<flushed, synced>>
          \/ flushed' = LastSeq /\ synced' = LastSeq
        OBVIOUS
    <2>2. wal' \subseteq wal /\ \A r \in wal : r.seq \in unfinished => r \in wal'
        OBVIOUS
    <2> QED
        BY <1>1, <2>1, <2>2, QuietParts
<1>3. FilesTrack'
    <2>1. LexCuts' \subseteq LexCuts /\ VecCuts' \subseteq VecCuts
        BY DEF Stalled, LexCuts, VecCuts
    <2>2. \A r \in history : r.seq \in Nat /\ r.seq < nextSeq
        BY ReplayFacts DEF ReplayInv, LogInv, SeqsDistinct
    <2>3. Durable \subseteq Durable'
        BY <2>2, ReplayFacts DEF Durable, LastSeq
    <2> QED
        BY <2>1, <2>3, ReplayFacts, FilesKept
<1>4. DocumentsKept'
    BY <1>1, ReplayFacts, DocumentsStay DEF Stalled
<1> QED
    BY <1>2, <1>3, <1>4 DEF ReplayInv, StoreInv

\* For an id that no client applies and none failed to write, both stores
\* hold in memory what the log says (Engine::lookup_doc_ids reads it).
LEMMA StoresLive ==
    ASSUME ReplayInv, Running, NEW id, id \notin failed,
           \A c \in Clients : pc[c] \in Applying => op[c].id # id,
           NEW e, e.id = id
    PROVE  (e \in lexMem <=> e \in Live(history))
           /\ (e \in vecMem <=> e \in Live(history))
<1>1. /\ AddedOnce(history) /\ KilledOnce(history) /\ history \in SUBSET Records
      /\ AddedOnce(Durable) /\ KilledOnce(Durable) /\ Durable \in SUBSET Records
      /\ Durable \subseteq history
    BY ReplayFacts DEF Durable
<1>2. \A r \in history \ Durable : r.id \in failed
    BY PendingAbove
<1>3. ASSUME NEW r \in DurableUnfinished, e \in AddsOf(Durable), Removes(r, e)
      PROVE  FALSE
    <2>1. r \in Durable /\ r.seq \in unfinished /\ r \in history
        BY <1>1 DEF DurableUnfinished
    <2>2. r.id = id
        BY <1>1, <1>3, <2>1, TouchesOwnId
    <2> QED
        BY <2>1, <2>2 DEF ReplayInv, ClientInv, UnfinishedOwned
<1>4. e \in AddsOf(history) => e \in AddsOf(Durable)
    BY <1>1, <1>2 DEF AddsOf, AddedOnce
<1>5. \A s \in history \ Durable : e \in AddsOf(history) => e.doc \notin s.kills
    BY <1>1, <1>2, TouchesOwnId DEF Removes
<1>6. e \in AddsOf(Durable) => e \in AddsOf(history)
    BY <1>1 DEF AddsOf
<1>7. e \in Live(history) <=> e \in Live(Durable)
    BY <1>1, <1>4, <1>5, <1>6, LiveIsAlive
<1>8. e \in Live(Durable) => e \in AddsOf(Durable)
    BY <1>1, LiveIsAlive
<1> QED
    BY <1>3, <1>7, <1>8 DEF ReplayInv, StoreInv, MemoryTracks, Tracks

-----------------------------------------------------------------------------
(* The steps of a mutation.                                                *)

\* A client's step outside the append and the application keeps the
\* invariant; a mutation that begins knows the documents of its id.
LEMMA MutateQuiet ==
    ASSUME ReplayInv, NEW c \in Clients,
           \/ \E kind \in Kinds, id \in Ids : Begin(c, kind, id)
           \/ Lock(c) \/ AppendRefused(c) \/ AppendFails(c)
           \/ Acknowledge(c) \/ AcknowledgeFails(c)
    PROVE  ReplayInv'
<1> USE DEF appliedVars, walVars, lexVars, vecVars, storeVars, ladderVars,
            engineVars, ghostVars
<1>1. Mutate(c)
    BY DEF Mutate
<1>2. LogInv' /\ StopInv'
    BY <1>1, MutateLog, MutateStop DEF ReplayInv
<1>3. /\ pc \in [Clients -> Steps] /\ op \in [Clients -> Ops \cup {NoOp}]
      /\ todo \in [Clients -> SUBSET Nat] /\ nextDoc \in Nat
      /\ \A r \in history : r.seq # nextSeq \/ ~Running
    BY ReplayFacts DEF ReplayInv, LogInv, SeqsDistinct
<1>4. \A d \in Clients : pc[d] # "idle" => Running
    BY DEF ReplayInv, LogInv, CoverInv, ClosedIsFresh, TypeOK, EngineTypeOK,
           Running
<1>5. ASSUME NEW kind \in Kinds, NEW id \in Ids, Begin(c, kind, id)
      PROVE  ReplayInv'
    <2>1. /\ Running /\ Running' /\ failed = {}
          /\ \A d \in Clients : pc[d] \in Applying => op[d].id # id
        BY <1>3, <1>5 DEF Begin, Running, Stopped, ReplayInv, StopInv, FailureStops,
                    IdFree, HoldsId, Applying
    <2>2. \A e : e.id = id => (e \in lexMem <=> e \in Live(history))
        BY <2>1, StoresLive
    <2>3. ASSUME pc'[c] = "prepared" PROVE Known(c)'
        <3>1. /\ op'[c].id = id /\ op'[c].kind = kind
              /\ op'[c].kills = IF kind = "add" THEN {} ELSE Lookup(id)
              /\ history' = history
            BY <1>3, <1>5 DEF Begin
        <3> QED
            BY <2>2, <3>1 DEF Known, Lookup, DocsOf
    <2> QED
        BY <1>2, <1>3, <1>5, <2>1, <2>3, QuietReplay DEF Begin, Applying, Stalled
<1>6. CASE Lock(c)
    BY <1>2, <1>3, <1>4, <1>6, QuietReplay
       DEF Lock, Leave, Applying, Running, Stalled
<1>7. CASE AppendRefused(c)
    BY <1>2, <1>3, <1>4, <1>7, QuietReplay
       DEF AppendRefused, StopWrites, Leave, Applying, Running, Stalled
<1>8. CASE AppendFails(c)
    <2>1. nextDoc' \in Nat /\ nextDoc <= nextDoc'
        BY <1>3, <1>8 DEF AppendFails, AssignNumbers
    <2> QED
        BY <1>2, <1>3, <1>4, <1>8, <2>1, QuietReplay
           DEF AppendFails, AssignNumbers, StopWrites, Leave, Applying,
               Running, Stalled
<1>9. CASE Acknowledge(c)
    BY <1>2, <1>3, <1>4, <1>9, QuietReplay
       DEF Acknowledge, EnsurePerRecordDurability, FlushWal, Leave, Applying,
           Running, Stalled
<1>10. CASE AcknowledgeFails(c)
    BY <1>2, <1>3, <1>4, <1>10, QuietReplay
       DEF AcknowledgeFails, Leave, Applying, Running, Stalled
<1> QED
    BY <1>5, <1>6, <1>7, <1>8, <1>9, <1>10

\* An append keeps the invariant: it logs a record that knows the documents
\* of its id, and nobody else's record or mutation has that id.
LEMMA AppendReplay ==
    ASSUME ReplayInv, WritesThrough, NEW c \in Clients,
           Append(c) \/ AppendUnsynced(c)
    PROVE  ReplayInv'
<1> USE DEF appliedVars, walVars, lexVars, vecVars, docVars, storeVars,
            ladderVars, engineVars, ghostVars
<1> DEFINE new == NewRecord(c)
<1>1. LogInv' /\ StopInv'
    BY MutateLog, MutateStop DEF ReplayInv, Mutate
<1>2. /\ pc[c] = "locked" /\ AssignNumbers(c) /\ walOpen'
      /\ history' = history \cup {new} /\ wal' = wal \cup {new}
      /\ UNCHANGED <<mode, lexMem, lexDisk, lexCkpt, vecMem, vecDisk, vecCkpt,
                     docPending, docSegments, docDisk, lpc, snap>>
      /\ \A d \in Clients \ {c} :
             pc'[d] = pc[d] /\ op'[d] = op[d] /\ todo'[d] = todo[d]
    BY ReplayFacts DEF Append, AppendUnsynced, StopWrites, Leave
<1>3. Running /\ Running'
    BY <1>2 DEF ReplayInv, LogInv, CoverInv, ClosedIsFresh, TypeOK,
                EngineTypeOK, Running
<1>4. /\ op[c] \in Ops /\ Known(c)
      /\ new \in Records /\ new.seq = nextSeq
      /\ new.id = op[c].id /\ new.kind = op[c].kind /\ new.kills = op[c].kills
      /\ new.adds = IF op[c].kind = "delete" THEN {}
                    ELSE {[doc |-> nextDoc, id |-> op[c].id]}
    <2>1. op[c] \in Ops /\ Known(c)
        BY <1>2 DEF ReplayInv, ClientInv, StopInv, TypeOK, TaskTypeOK
    <2>2. new \in Records /\ new.seq = nextSeq
          /\ new.id = op[c].id /\ new.kind = op[c].kind
        BY <2>1, NewRecordType DEF ReplayInv, StopInv
    <2> QED
        BY <2>1, <2>2 DEF NewRecord, Ops
<1> HIDE DEF new
<1>5. /\ \A r \in history : r.seq \in Nat /\ r.seq < nextSeq
      /\ \A e \in AddsOf(history) : e.doc \in Nat /\ e.doc < nextDoc
      /\ nextSeq \in Nat /\ nextDoc \in Nat
    <2>1. \A r \in history : r.seq \in Nat /\ r.seq < nextSeq
        BY <1>3, ReplayFacts DEF ReplayInv, LogInv, SeqsDistinct
    <2>2. \A r \in history : \A e \in r.adds : e.doc \in Nat /\ e.doc < nextDoc
        BY <1>3, ReplayFacts DEF ReplayInv, RecordInv, DocsNumbered, Records,
                                 Entries
    <2> QED
        BY <2>1, <2>2, ReplayFacts DEF AddsOf
<1>6. /\ RecordsOrdered(history')
      /\ \A e : e.id # new.id => (e \in Live(history') <=> e \in Live(history))
    <2>1. \A e \in new.adds :
              /\ e.id = new.id
              /\ \A f \in new.adds : f = e
              /\ \A f \in AddsOf(history) : f.doc # e.doc
        BY <1>4, <1>5
    <2>2. /\ new.kind = "delete" => new.adds = {}
          /\ \A d \in new.kills :
                 \E e \in Live(history) : e.doc = d /\ e.id = new.id
          /\ new.kind # "add" =>
                 \A e \in Live(history) : e.id = new.id => e.doc \in new.kills
        BY <1>4 DEF Known
    <2>3. history \in SUBSET Records /\ RecordsOrdered(history)
          /\ new \in Records /\ \A r \in history : r.seq < new.seq
        BY <1>4, <1>5, ReplayFacts
    <2>4. /\ RecordsOrdered(history \cup {new})
          /\ \A e : e.id # new.id =>
                 (e \in Live(history \cup {new}) <=> e \in Live(history))
        BY <2>1, <2>2, <2>3, AppendedOrdered
    <2> QED
        BY <1>2, <2>4
<1>7. /\ history' \in SUBSET Records
      /\ \A r \in history' \ history : r = new
    BY <1>2, <1>4, ReplayFacts
<1>8. /\ flushed' \in {flushed, nextSeq}
      /\ Append(c) => flushed' = nextSeq /\ synced' = nextSeq
      /\ AppendUnsynced(c) =>
             /\ UNCHANGED <<flushed, synced>> /\ "sync" \in Faults
             /\ failed' = failed \cup {op[c].id}
      /\ failed \subseteq failed'
      /\ nextSeq \in unfinished' /\ unfinished \subseteq unfinished'
      /\ unfinished' \subseteq unfinished \cup {nextSeq}
    BY <1>2 DEF Append, AppendUnsynced, SyncsAppend, WritesThrough, StopWrites,
           AssignNumbers
<1>9. Durable \subseteq Durable'
    BY <1>2, <1>5, <1>8, ReplayFacts DEF Durable
<1>10. LostHaveFailed'
    <2>1. CASE Append(c)
        BY <1>2, <1>4, <1>5, <1>8, <2>1 DEF LostHaveFailed
    <2>2. CASE AppendUnsynced(c)
        BY <1>2, <1>3, <1>4, <1>8, <2>2 DEF ReplayInv, RecordInv, LostHaveFailed
    <2> QED
        BY <2>1, <2>2
<1>11. RecordInv'
    <2>1. \A r \in history : \A e \in r.adds : e.doc \in Nat /\ e.doc < nextDoc
        BY <1>5 DEF AddsOf
    <2>2. DocsNumbered'
        BY <1>2, <1>4, <1>5, <2>1 DEF DocsNumbered, AssignNumbers
    <2> QED
        BY <1>3, <1>6, <1>10, <2>2 DEF RecordInv, ClosedBelow
<1>12. MemoryTracks'
    <2>1. /\ DurableUnfinished \subseteq DurableUnfinished'
          /\ Durable' \ Durable \subseteq DurableUnfinished'
        BY <1>4, <1>7, <1>8, <1>9, PendingAbove DEF DurableUnfinished, Durable
    <2>2. ASSUME NEW store, Tracks(store, Durable, DurableUnfinished)
          PROVE  Tracks(store, Durable', DurableUnfinished')
        BY <1>2, <1>3, <1>4, <1>5, <1>7, <1>9, <2>1, <2>2, DurableGrows
    <2> QED
        BY <1>2, <1>3, <2>2 DEF ReplayInv, StoreInv, MemoryTracks
<1>13. FilesTrack'
    <2>1. LexCuts' \subseteq LexCuts /\ VecCuts' \subseteq VecCuts
        BY <1>2 DEF LexCuts, VecCuts
    <2> QED
        BY <1>2, <1>3, <1>4, <1>5, <1>7, <1>9, <2>1, FilesKept
<1>14. DocumentsKept'
    BY <1>2, <1>3, <1>4, <1>5, <1>7, <1>8, DocumentsStay
<1>15. ASSUME NEW d \in Clients, pc'[d] \in {"prepared", "locked"}
       PROVE  Known(d)'
    <2>1. d # c
        BY <1>2, <1>15, ReplayFacts DEF Append, AppendUnsynced, StopWrites, Leave
    <2>2. Known(d) /\ op'[d] = op[d] /\ op[d].id # new.id
        BY <1>2, <1>4, <1>15, <2>1, IdsApart DEF ReplayInv, ClientInv
    <2> QED
        BY <1>6, <2>2 DEF Known
<1>16. ASSUME NEW d \in Clients \ {c}, pc'[d] \in Applying
       PROVE  Applied(d)'
    <2>1. /\ pc[d] \in Applying /\ op[d].id # new.id
          /\ op[d] \in wal /\ op[d].seq <= flushed
        BY <1>2, <1>4, <1>16, IdsApart DEF ReplayInv, ClientInv, Applied
    <2>2. op[d].seq <= flushed'
        BY <1>5, <1>8, <2>1, ReplayFacts
    <2> QED
        BY <1>2, <1>7, <2>1, <2>2, AppliedGoesOn
<1>17. ASSUME pc'[c] \in Applying PROVE Applied(c)' /\ op'[c] = new
    <2>1. Append(c)
        BY <1>2, <1>17, ReplayFacts
           DEF AppendUnsynced, StopWrites, Leave, Applying
    <2>2. /\ op'[c] = new /\ todo'[c] = new.kills
          /\ pc'[c] = IF new.kills = {} THEN "store" ELSE "deleteLexical"
        BY <1>4, <2>1, ReplayFacts DEF Append, new
    <2>3. flushed' = nextSeq /\ \A r \in history' : r.seq <= nextSeq
        BY <1>4, <1>5, <1>7, <1>8, <2>1
    <2> QED
        BY <1>2, <1>4, <2>2, <2>3 DEF Applied
<1>18. UnfinishedOwned'
    <2> SUFFICES ASSUME NEW r \in history', r.seq \in unfinished'
                 PROVE  \/ \E d \in Clients : pc'[d] \in Applying /\ op'[d] = r
                        \/ r.id \in failed'
        BY DEF UnfinishedOwned
    <2>1. CASE r \in history
        <3>1. r.seq \in unfinished
            BY <1>5, <1>8, <2>1
        <3>2. CASE r.id \in failed
            BY <1>8, <3>2
        <3>3. ASSUME NEW d \in Clients, pc[d] \in Applying, op[d] = r
              PROVE  pc'[d] \in Applying /\ op'[d] = r
            BY <1>2, <3>3 DEF Applying
        <3> QED
            BY <2>1, <3>1, <3>2, <3>3 DEF ReplayInv, ClientInv, UnfinishedOwned
    <2>2. CASE r = new
        <3>1. Append(c) => pc'[c] \in Applying
            BY ReplayFacts DEF Append, Applying
        <3> QED
            BY <1>4, <1>8, <1>17, <2>2, <3>1
    <2> QED
        BY <1>7, <2>1, <2>2
<1>19. ClientInv'
    BY <1>15, <1>16, <1>17, <1>18 DEF ClientInv
<1> QED
    BY <1>1, <1>11, <1>12, <1>13, <1>14, <1>19 DEF ReplayInv, StoreInv

\* A step of c's application changes the stores only where its own record
\* adds or deletes, and so keeps the invariant if c has done, or failed at,
\* what it goes on from.
LEMMA TouchReplay ==
    ASSUME ReplayInv, LogInv', StopInv', NEW c \in Clients, pc[c] \in Applying,
           UNCHANGED <<history, wal, flushed, synced, walOpen, mode,
                       unfinished, nextDoc, lexDisk, lexCkpt, vecDisk, vecCkpt,
                       docSegments, docDisk, lpc, snap>>,
           docPending \subseteq docPending', failed \subseteq failed',
           lexMem' \subseteq lexMem \cup op[c].adds,
           vecMem' \subseteq vecMem \cup op[c].adds,
           \A e \in lexMem \ lexMem' : Removes(op[c], e),
           \A e \in vecMem \ vecMem' : Removes(op[c], e),
           \A d \in Clients \ {c} :
               pc'[d] = pc[d] /\ op'[d] = op[d] /\ todo'[d] = todo[d],
           \/ pc'[c] \in Applying /\ op'[c] = op[c] /\ Applied(c)'
           \/ pc'[c] = "idle" /\ op[c].id \in failed'
    PROVE  ReplayInv'
<1>1. /\ Running /\ Running'
      /\ op[c] \in history /\ op[c] \in wal /\ op[c].seq <= flushed
      /\ op[c].seq \in unfinished
    <2>1. Running
        BY DEF ReplayInv, LogInv, CoverInv, ClosedIsFresh, TypeOK,
               EngineTypeOK, Running, Applying
    <2> QED
        BY <2>1, ReplayFacts DEF Running, ReplayInv, ClientInv, Applied,
               LogInv, CoverInv, ApplyingLogged
<1>2. RecordInv'
    BY <1>1 DEF ReplayInv, RecordInv, LostHaveFailed, DocsNumbered,
                ClosedBelow, Running
<1>3. MemoryTracks'
    <2>1. op[c] \in DurableUnfinished /\ op[c] \in Durable
        BY <1>1 DEF DurableUnfinished, Durable
    <2>2. op[c].adds \subseteq AddsOf(Durable)
        BY <2>1 DEF AddsOf
    <2>3. Durable' = Durable /\ DurableUnfinished' = DurableUnfinished
        BY DEF Durable, DurableUnfinished
    <2>4. ASSUME NEW store, NEW changed, Tracks(store, Durable, DurableUnfinished),
                 changed \subseteq store \cup op[c].adds,
                 \A e \in store \ changed : Removes(op[c], e)
          PROVE  Tracks(changed, Durable, DurableUnfinished)
        <3>1. changed \subseteq AddsOf(Durable)
            BY <2>2, <2>4 DEF Tracks
        <3>2. \A e \in AddsOf(Durable) :
                  (e \in changed <=> e \in store) \/ Removes(op[c], e)
            BY <2>4 DEF Removes
        <3> QED
            BY <2>1, <2>4, <3>1, <3>2, TracksChanged
    <2> QED
        BY <1>1, <2>3, <2>4 DEF ReplayInv, StoreInv, MemoryTracks
<1>4. FilesTrack'
    <2>1. LexCuts' = LexCuts /\ VecCuts' = VecCuts
        BY DEF LexCuts, VecCuts
    <2>2. Durable' = Durable
        BY DEF Durable
    <2> QED
        BY <1>1, <2>1, <2>2, ReplayFacts, FilesKept
<1>5. DocumentsKept'
    BY <1>1, ReplayFacts, DocumentsStay
<1>6. ASSUME NEW d \in Clients, pc'[d] \in {"prepared", "locked"}
      PROVE  Known(d)'
    <2>1. d # c
        BY <1>6 DEF Applying
    <2> QED
        BY <1>6, <2>1 DEF ReplayInv, ClientInv, Known
<1>7. ASSUME NEW d \in Clients \ {c}, pc'[d] \in Applying
      PROVE  Applied(d)'
    <2>1. /\ pc[d] \in Applying /\ op[d] \in wal /\ op[d].seq <= flushed
        BY <1>7 DEF ReplayInv, ClientInv, Applied
    <2>2. /\ \A e \in op[d].adds : ~Removes(op[c], e)
          /\ \A e \in op[c].adds : e.doc \notin op[d].kills
        BY <2>1, DocsApart
    <2>3. /\ \A e \in lexMem' \ lexMem : e.doc \notin op[d].kills
          /\ \A e \in vecMem' \ vecMem : e.doc \notin op[d].kills
          /\ op[d].adds \cap lexMem \subseteq lexMem'
          /\ op[d].adds \cap vecMem \subseteq vecMem'
        BY <2>2
    <2>4. docPending \cup docSegments \subseteq docPending' \cup docSegments'
        OBVIOUS
    <2> QED
        BY <1>7, <2>1, <2>3, <2>4, AppliedGoesOn
<1>8. UnfinishedOwned'
    <2> SUFFICES ASSUME NEW r \in history, r.seq \in unfinished
                 PROVE  \/ \E d \in Clients : pc'[d] \in Applying /\ op'[d] = r
                        \/ r.id \in failed'
        BY DEF UnfinishedOwned
    <2>1. ASSUME NEW d \in Clients, pc[d] \in Applying, op[d] = r
          PROVE  \/ pc'[d] \in Applying /\ op'[d] = r
                 \/ r.id \in failed'
        BY <2>1 DEF Applying
    <2> QED
        BY <2>1 DEF ReplayInv, ClientInv, UnfinishedOwned
<1>9. ClientInv'
    BY <1>6, <1>7, <1>8 DEF ClientInv, Applying
<1> QED
    BY <1>2, <1>3, <1>4, <1>5, <1>9 DEF ReplayInv, StoreInv

\* The next of some numbers is one only.
LEMMA NextIsOne ==
    ASSUME NEW docs \in SUBSET Nat, NEW doc, NEW other,
           IsNext(doc, docs), IsNext(other, docs)
    PROVE  doc = other
BY DEF IsNext

\* The steps of an application keep the invariant, also when they fail
\* (engine.rs, apply_put and apply_delete).
LEMMA ApplyReplay ==
    ASSUME ReplayInv, NEW c \in Clients,
           \/ DeleteLexical(c) \/ DeleteVector(c) \/ StoreDocument(c)
           \/ InsertLexical(c) \/ InsertVector(c) \/ ApplyFails(c)
    PROVE  ReplayInv'
<1> USE DEF appliedVars, walVars, lexVars, vecVars, docVars, storeVars,
            ladderVars, engineVars, ghostVars
<1>1. LogInv' /\ StopInv'
    BY MutateLog, MutateStop DEF ReplayInv, Mutate
<1>2. pc[c] \in Applying
    BY DEF DeleteLexical, DeleteVector, StoreDocument, InsertLexical,
           InsertVector, ApplyFails, Applying
<1>3. /\ Applied(c) /\ op[c] \in history /\ todo[c] \in SUBSET Nat
      /\ AddedOnce(history) /\ KilledOnce(history) /\ Superseded(history)
      /\ pc \in [Clients -> Steps] /\ op \in [Clients -> Ops \cup {NoOp}]
      /\ todo \in [Clients -> SUBSET Nat] /\ \A r \in history : r.seq \in Nat
    BY <1>2, ReplayFacts DEF ReplayInv, ClientInv, Applied, RecordsOrdered
<1>4. \A e \in op[c].adds : e.doc \notin op[c].kills
    BY <1>3 DEF AddedOnce, KilledOnce
<1>5. op[c].kind = "delete" => op[c].adds = {}
    BY <1>3 DEF Superseded
<1>6. CASE DeleteLexical(c)
    <2>1. PICK doc \in todo[c] : /\ IsNext(doc, todo[c])
                                 /\ lexMem' = {e \in lexMem : e.doc # doc}
        BY <1>6 DEF DeleteLexical, Without
    <2>2. /\ pc' = [pc EXCEPT ![c] = "deleteVector"]
          /\ UNCHANGED <<op, todo, vecMem, docPending, docSegments, wal,
                         flushed, history>>
        BY <1>6 DEF DeleteLexical
    <2>3. doc \in op[c].kills
        BY <1>3 DEF Applied
    <2>4. Applied(c)'
        BY <1>3, <2>1, <2>2, NextIsOne DEF Applied
    <2> QED
        BY <1>1, <1>2, <1>3, <1>6, <2>1, <2>2, <2>3, <2>4, TouchReplay
           DEF DeleteLexical, Removes, Applying
<1>7. CASE DeleteVector(c)
    <2>1. PICK doc \in todo[c] : /\ IsNext(doc, todo[c])
                                 /\ vecMem' = {e \in vecMem : e.doc # doc}
                                 /\ todo' = [todo EXCEPT ![c] = @ \ {doc}]
        BY <1>7 DEF DeleteVector, Without
    <2>2. /\ pc[c] = "deleteVector"
          /\ pc'[c] = IF todo'[c] # {} THEN "deleteLexical"
                      ELSE IF op[c].kind = "delete" THEN "finish" ELSE "store"
          /\ todo'[c] = todo[c] \ {doc}
          /\ UNCHANGED <<op, lexMem, docPending, docSegments, wal, flushed,
                         history>>
        BY <1>3, <1>7, <2>1 DEF DeleteVector
    <2>3. doc \in op[c].kills
        BY <1>3 DEF Applied
    <2>4. Applied(c)'
        <3>1. \A e \in lexMem : e.doc \in op[c].kills => e.doc \in todo'[c]
            BY <1>3, <2>1, <2>2 DEF Applied
        <3>2. \A e \in vecMem' : e.doc \in op[c].kills => e.doc \in todo'[c]
            BY <1>3, <2>1, <2>2 DEF Applied
        <3>3. todo'[c] \subseteq op[c].kills
            BY <1>3, <2>2 DEF Applied
        <3>4. pc'[c] = "finish" => op[c].adds = {}
            BY <1>5, <2>2
        <3> QED
            BY <1>3, <2>2, <3>1, <3>2, <3>3, <3>4 DEF Applied, DocsOf
    <2>5. pc'[c] \in Applying
        BY <2>2 DEF Applying
    <2> QED
        BY <1>1, <1>2, <1>3, <1>7, <2>1, <2>2, <2>3, <2>4, <2>5, TouchReplay
           DEF DeleteVector, Removes
<1>8. CASE StoreDocument(c)
    <2>1. Applied(c)'
        BY <1>3, <1>8 DEF StoreDocument, Applied
    <2> QED
        BY <1>1, <1>2, <1>3, <1>8, <2>1, TouchReplay DEF StoreDocument, Applying
<1>9. CASE InsertLexical(c)
    <2>1. /\ lexMem' \subseteq lexMem \cup op[c].adds
          /\ op[c].adds \subseteq lexMem'
          /\ \A e \in lexMem \ lexMem' : Removes(op[c], e)
        BY <1>9 DEF InsertLexical, With, Removes
    <2>2. Applied(c)'
        BY <1>3, <1>4, <1>9, <2>1 DEF InsertLexical, Applied
    <2> QED
        BY <1>1, <1>2, <1>3, <1>9, <2>1, <2>2, TouchReplay
           DEF InsertLexical, Applying
<1>10. CASE InsertVector(c)
    <2>1. /\ vecMem' \subseteq vecMem \cup op[c].adds
          /\ op[c].adds \subseteq vecMem'
          /\ \A e \in vecMem \ vecMem' : Removes(op[c], e)
        BY <1>10 DEF InsertVector, With, Removes
    <2>2. Applied(c)'
        BY <1>3, <1>4, <1>10, <2>1 DEF InsertVector, Applied
    <2> QED
        BY <1>1, <1>2, <1>3, <1>10, <2>1, <2>2, TouchReplay
           DEF InsertVector, Applying
<1>11. CASE ApplyFails(c)
    <2>1. /\ lexMem' \subseteq lexMem
          /\ \A e \in lexMem \ lexMem' : Removes(op[c], e)
        BY <1>11 DEF ApplyFails, Removes, DocsOf
    <2>2. pc'[c] = "idle" /\ op[c].id \in failed' /\ failed \subseteq failed'
        BY <1>3, <1>11 DEF ApplyFails, StopWrites, Leave
    <2> QED
        BY <1>1, <1>2, <1>3, <1>11, <2>1, <2>2, TouchReplay
           DEF ApplyFails, StopWrites, Leave
<1> QED
    BY <1>6, <1>7, <1>8, <1>9, <1>10, <1>11

\* A finished mutation is no longer pending: both stores have what it adds
\* and nothing that it deletes, and it is the last of its id.
LEMMA FinishReplay ==
    ASSUME ReplayInv, NEW c \in Clients, FinishMutation(c)
    PROVE  ReplayInv'
<1> USE DEF walVars, lexVars, vecVars, docVars, storeVars, ladderVars,
            engineVars
<1>1. LogInv' /\ StopInv'
    BY MutateLog, MutateStop DEF ReplayInv, Mutate
<1>2. /\ pc[c] = "finish" /\ unfinished' = unfinished \ {op[c].seq}
      /\ UNCHANGED <<history, wal, flushed, synced, walOpen, mode, nextDoc,
                     failed, lexMem, vecMem, lexDisk, lexCkpt, vecDisk,
                     vecCkpt, docPending, docSegments, docDisk, lpc, snap, op,
                     todo>>
      /\ pc'[c] = "acknowledge"
      /\ \A d \in Clients \ {c} : pc'[d] = pc[d]
    BY ReplayFacts DEF FinishMutation
<1>3. /\ Applied(c) /\ op[c] \in history /\ op[c].seq <= flushed
      /\ Running /\ Running'
    <2>1. Running
        BY <1>2 DEF ReplayInv, LogInv, CoverInv, ClosedIsFresh, TypeOK,
               EngineTypeOK, Running
    <2> QED
        BY <1>2, <2>1, ReplayFacts
           DEF Running, ReplayInv, ClientInv, Applied, Applying
<1>4. \A r \in history : r.seq = op[c].seq => r = op[c]
    BY <1>3 DEF ReplayInv, LogInv, SeqsDistinct
<1>5. RecordInv'
    <2>1. LostHaveFailed'
        BY <1>2, <1>3, <1>4 DEF ReplayInv, RecordInv, LostHaveFailed, Running
    <2> QED
        BY <1>2, <1>3, <2>1 DEF ReplayInv, RecordInv, DocsNumbered, ClosedBelow
<1>6. MemoryTracks'
    <2>1. Durable' = Durable /\ op[c] \in Durable
          /\ DurableUnfinished' = DurableUnfinished \ {op[c]}
        BY <1>2, <1>3, <1>4 DEF Durable, DurableUnfinished
    <2>2. /\ \A r \in Durable : r.id = op[c].id => r.seq <= op[c].seq
          /\ op[c].adds \subseteq lexMem /\ op[c].adds \subseteq vecMem
          /\ \A e \in lexMem \cup vecMem : e.doc \notin op[c].kills
        BY <1>2, <1>3 DEF Applied, Durable
    <2>3. Durable \in SUBSET Records /\ AddedOnce(Durable) /\ KilledOnce(Durable)
        BY ReplayFacts
    <2>4. ASSUME NEW store, Tracks(store, Durable, DurableUnfinished),
                 op[c].adds \subseteq store,
                 \A e \in store : e.doc \notin op[c].kills
          PROVE  Tracks(store, Durable, DurableUnfinished \ {op[c]})
        BY <2>1, <2>2, <2>3, <2>4, TracksFinished
    <2> QED
        BY <1>2, <1>3, <2>1, <2>2, <2>4 DEF ReplayInv, StoreInv, MemoryTracks
<1>7. FilesTrack'
    <2>1. LexCuts' = LexCuts /\ VecCuts' = VecCuts /\ Durable' = Durable
        BY <1>2 DEF LexCuts, VecCuts, Durable
    <2> QED
        BY <1>2, <1>3, <2>1, ReplayFacts, FilesKept
<1>8. DocumentsKept'
    <2>1. DocsOf(op[c].adds) \subseteq docPending \cup docSegments
        BY <1>2, <1>3 DEF Applied
    <2> QED
        BY <1>2, <1>3, <1>4, <2>1, ReplayFacts, DocumentsStay
<1>9. ASSUME NEW d \in Clients, pc'[d] \in {"prepared", "locked"}
      PROVE  Known(d)'
    <2>1. d # c
        BY <1>2, <1>9
    <2> QED
        BY <1>2, <1>9, <2>1 DEF ReplayInv, ClientInv, Known
<1>10. ASSUME NEW d \in Clients, pc'[d] \in Applying
       PROVE  Applied(d)'
    <2>1. d # c
        BY <1>2, <1>10 DEF Applying
    <2> QED
        BY <1>2, <1>10, <2>1 DEF ReplayInv, ClientInv, Applied
<1>11. UnfinishedOwned'
    <2> SUFFICES ASSUME NEW r \in history, r.seq \in unfinished'
                 PROVE  \/ \E d \in Clients : pc'[d] \in Applying /\ op'[d] = r
                        \/ r.id \in failed'
        BY <1>2 DEF UnfinishedOwned
    <2>1. r.seq \in unfinished /\ r # op[c]
        BY <1>2
    <2> QED
        BY <1>2, <2>1 DEF ReplayInv, ClientInv, UnfinishedOwned
<1>12. ClientInv'
    BY <1>9, <1>10, <1>11 DEF ClientInv
<1> QED
    BY <1>1, <1>5, <1>6, <1>7, <1>8, <1>12 DEF ReplayInv, StoreInv

-----------------------------------------------------------------------------
(* The steps of the commit ladder.                                         *)

\* A ladder runs in a process that goes on, and leaves clients, records and
\* the stores in memory alone.
LEMMA LadderFacts ==
    ASSUME ReplayInv, NEW l \in Ladders, Commit(l)
    PROVE  /\ LogInv' /\ StopInv' /\ Running /\ Running'
           /\ UNCHANGED <<history, lexMem, vecMem, nextDoc, unfinished, failed,
                          pc, op, todo>>
           /\ \A k \in Ladders \ {l} : lpc'[k] = lpc[k] /\ snap'[k] = snap[k]
           /\ snap[l] \in Nat /\ snap[l] <= watermark
           /\ \A d \in Clients : pc[d] \in Applying \/ pc'[d] \in Applying =>
                  pc'[d] = pc[d] /\ op'[d] = op[d] /\ todo'[d] = todo[d]
           /\ \A d \in Clients : pc'[d] \in {"prepared", "locked"} =>
                  pc[d] \in {"prepared", "locked"} /\ op'[d] = op[d]
<1> USE DEF walVars, lexVars, vecVars, docVars, storeVars, clientVars,
            engineVars, ghostVars
<1>1. LogInv' /\ StopInv'
    BY CommitLog, NextStop DEF ReplayInv, Next
<1>2. Running
    BY DEF ReplayInv, LogInv, CoverInv, ClosedIsFresh, Running, TypeOK,
           EngineTypeOK, Commit, LadderCheck, LadderSnapshot, LadderFlush,
           LadderLexical, LadderVector, LadderDocs, LadderTruncate
<1>3. /\ UNCHANGED <<history, lexMem, vecMem, nextDoc, unfinished, failed,
                     pc, op, todo>>
      /\ mode' \in {mode, "failed", "open"}
    BY DEF Commit, LadderCheck, LadderSnapshot, LadderFlush, LadderLexical,
           LadderVector, LadderDocs, LadderTruncate, LadderGoesOn,
           LadderReturns, LadderSucceeds, LadderGivesUp
<1>4. \A k \in Ladders \ {l} : lpc'[k] = lpc[k] /\ snap'[k] = snap[k]
    BY ReplayFacts
       DEF Commit, LadderCheck, LadderSnapshot, LadderFlush, LadderLexical,
           LadderVector, LadderDocs, LadderTruncate, LadderGoesOn,
           LadderReturns, LadderSucceeds, LadderGivesUp
<1>5. snap[l] \in Nat /\ snap[l] <= watermark
    BY ReplayFacts, PendingAbove
<1> QED
    BY <1>1, <1>2, <1>3, <1>4, <1>5 DEF Running

\* The steps that write no store keep the invariant.
LEMMA LadderQuiet ==
    ASSUME ReplayInv, NEW l \in Ladders,
           LadderCheck(l) \/ LadderSnapshot(l) \/ LadderFlush(l)
    PROVE  ReplayInv'
<1> USE DEF walVars, lexVars, vecVars, storeVars
<1>1. Commit(l)
    BY DEF Commit
<1>2. /\ LogInv' /\ StopInv' /\ Running /\ Running'
      /\ UNCHANGED <<history, lexMem, vecMem, nextDoc, unfinished, failed,
                     pc, op, todo>>
      /\ \A k \in Ladders \ {l} : lpc'[k] = lpc[k] /\ snap'[k] = snap[k]
      /\ \A d \in Clients : pc[d] \in Applying \/ pc'[d] \in Applying =>
             pc'[d] = pc[d] /\ op'[d] = op[d] /\ todo'[d] = todo[d]
      /\ \A d \in Clients : pc'[d] \in {"prepared", "locked"} =>
             pc[d] \in {"prepared", "locked"} /\ op'[d] = op[d]
    BY <1>1, LadderFacts
<1>3. lpc'[l] \notin {"vector", "docs", "truncate"}
    BY ReplayFacts
       DEF LadderCheck, LadderSnapshot, LadderFlush, LadderGoesOn,
           LadderReturns, LadderGivesUp
<1>4. Stalled
    BY <1>2, <1>3 DEF Stalled
<1>5. /\ UNCHANGED <<wal, walOpen, lexDisk, lexCkpt, vecDisk, vecCkpt, docVars>>
      /\ \/ (walOpen => walOpen') /\ UNCHANGED <<flushed, synced>>
         \/ flushed' = LastSeq /\ synced' = LastSeq
    BY DEF LadderCheck, LadderSnapshot, LadderFlush, FlushWal
<1>6. nextDoc \in Nat
    BY ReplayFacts
<1> QED
    BY <1>2, <1>4, <1>5, <1>6, QuietReplay

\* The parts of the invariant that a ladder's step keeps by leaving every
\* unfinished record in the log and every document in the document store.
LEMMA LadderParts ==
    ASSUME ReplayInv, NEW l \in Ladders, Commit(l),
           wal' \subseteq wal, Above(wal, snap[l]) \subseteq wal',
           \/ wal' = wal /\ UNCHANGED <<walOpen, flushed, synced>>
           \/ flushed' = LastSeq /\ synced' = LastSeq,
           docPending \cup docSegments \subseteq docPending' \cup docSegments'
    PROVE  RecordInv' /\ MemoryTracks' /\ ClientInv'
<1>1. \A r \in wal : r.seq \in unfinished => r \in wal'
    BY LadderFacts, PendingAbove, ReplayFacts DEF Above
<1>2. nextDoc \in Nat
    BY ReplayFacts
<1>3. \/ /\ wal' = wal /\ (walOpen => walOpen')
         /\ UNCHANGED <<flushed, synced>>
      \/ flushed' = LastSeq /\ synced' = LastSeq
    OBVIOUS
<1>4. /\ StopInv' /\ Running /\ Running'
      /\ UNCHANGED <<history, lexMem, vecMem, nextDoc, unfinished, failed>>
      /\ \A d \in Clients : pc[d] \in Applying \/ pc'[d] \in Applying =>
             pc'[d] = pc[d] /\ op'[d] = op[d] /\ todo'[d] = todo[d]
      /\ \A d \in Clients : pc'[d] \in {"prepared", "locked"} =>
             pc[d] \in {"prepared", "locked"} /\ op'[d] = op[d]
    BY LadderFacts
<1> QED
    BY <1>1, <1>2, <1>3, <1>4, QuietParts

\* What a store holds in memory, or a mix of that and what its files hold,
\* its files may hold: only unfinished mutations are missing from it.
LEMMA CommittedTracks ==
    ASSUME ReplayInv, Running, NEW n \in Nat, n <= watermark
    PROVE  /\ Tracks(lexMem, Durable, DurableAbove(n))
           /\ Tracks(vecMem, Durable, DurableAbove(n))
BY UnfinishedAboveCuts, TracksLess DEF ReplayInv, StoreInv, MemoryTracks

\* The lexical store's commit keeps the invariant, also when it fails after
\* part of the deletes.
LEMMA LexicalReplay ==
    ASSUME ReplayInv, NEW l \in Ladders, LadderLexical(l)
    PROVE  ReplayInv'
<1> USE DEF walVars, vecVars, docVars
<1>1. Commit(l)
    BY DEF Commit
<1>2. /\ LogInv' /\ StopInv' /\ Running /\ Running' /\ history' = history
      /\ \A k \in Ladders \ {l} : lpc'[k] = lpc[k] /\ snap'[k] = snap[k]
      /\ snap[l] \in Nat /\ snap[l] <= watermark
      /\ UNCHANGED <<lexMem, unfinished>>
    BY <1>1, LadderFacts
<1>3. UNCHANGED <<wal, walOpen, flushed, synced, vecDisk, vecCkpt, docPending,
                  docSegments, docDisk>>
    BY DEF LadderLexical
<1>4. Above(wal, snap[l]) \subseteq wal
    BY DEF Above
<1>5. RecordInv' /\ MemoryTracks' /\ ClientInv'
    BY <1>1, <1>3, <1>4, LadderParts
<1>6. /\ lpc'[l] \in {"vector", "idle"}
      /\ lpc'[l] = "vector" => snap'[l] = snap[l] /\ LexicalCommits(snap[l])
      /\ LexicalCommits(snap[l]) \/ LexicalCommitFails
    BY ReplayFacts DEF LadderLexical, LadderGoesOn, LadderGivesUp, LadderReturns
<1>7. VecCuts' \subseteq VecCuts
    BY <1>2, <1>3, <1>6 DEF VecCuts
<1>8. LexCuts' \subseteq LexCuts \cup {snap[l]}
    BY <1>2, <1>6 DEF LexCuts, LexicalCommits, LexicalCommitFails, Larger
<1>9. Durable' = Durable /\ \A n : DurableAbove(n)' = DurableAbove(n)
    BY <1>2, <1>3 DEF Durable, DurableAbove
<1>10. ASSUME NEW n \in LexCuts'
       PROVE  Tracks(lexDisk', Durable, DurableAbove(n))
    <2>1. n \in Nat /\ n <= watermark
        BY <1>2, <1>8, PendingAbove
    <2>2. Tracks(lexMem, Durable, DurableAbove(n))
        BY <1>2, <2>1, CommittedTracks
    <2>3. CASE lexDisk' = lexMem
        BY <2>2, <2>3
    <2>4. CASE lexDisk' # lexMem
        <3>1. /\ lexCkpt' = lexCkpt
              /\ lexDisk' \subseteq lexDisk /\ lexDisk \cap lexMem \subseteq lexDisk'
            BY <1>6, <2>4 DEF LexicalCommits, LexicalCommitFails
        <3>2. lpc'[l] = "idle"
            BY <1>6, <2>4 DEF LexicalCommits
        <3>3. n \in LexCuts
            BY <1>2, <3>1, <3>2 DEF LexCuts
        <3>4. Tracks(lexDisk, Durable, DurableAbove(n))
            BY <3>3 DEF ReplayInv, StoreInv, FilesTrack
        <3>5. lexDisk' \subseteq lexDisk \cup lexMem
            BY <3>1
        <3> QED
            BY <2>2, <3>1, <3>4, <3>5, TracksPartly
    <2> QED
        BY <2>3, <2>4
<1>11. FilesTrack'
    BY <1>3, <1>7, <1>9, <1>10 DEF ReplayInv, StoreInv, FilesTrack
<1>12. DocumentsKept'
    BY <1>2, <1>3, <1>6, ReplayFacts, DocumentsStay
<1> QED
    BY <1>2, <1>5, <1>11, <1>12 DEF ReplayInv, StoreInv

\* So does the vector store's.
LEMMA VectorReplay ==
    ASSUME ReplayInv, NEW l \in Ladders, LadderVector(l)
    PROVE  ReplayInv'
<1> USE DEF walVars, lexVars, docVars
<1>1. Commit(l)
    BY DEF Commit
<1>2. /\ LogInv' /\ StopInv' /\ Running /\ Running' /\ history' = history
      /\ \A k \in Ladders \ {l} : lpc'[k] = lpc[k] /\ snap'[k] = snap[k]
      /\ snap[l] \in Nat /\ snap[l] <= watermark
      /\ UNCHANGED <<vecMem, unfinished>>
    BY <1>1, LadderFacts
<1>3. UNCHANGED <<wal, walOpen, flushed, synced, lexDisk, lexCkpt, docPending,
                  docSegments, docDisk>>
    BY DEF LadderVector
<1>4. Above(wal, snap[l]) \subseteq wal
    BY DEF Above
<1>5. RecordInv' /\ MemoryTracks' /\ ClientInv'
    BY <1>1, <1>3, <1>4, LadderParts
<1>6. /\ lpc[l] = "vector" /\ lpc'[l] \in {"docs", "idle"}
      /\ lpc'[l] = "docs" => snap'[l] = snap[l] /\ VectorCommits
      /\ VectorCommits \/ VectorCommitFails
      /\ vecPend' = Larger(vecPend, snap[l])
    BY ReplayFacts DEF LadderVector, LadderGoesOn, LadderGivesUp, LadderReturns
<1>7. LexCuts' \subseteq LexCuts
    BY <1>2, <1>3, <1>6 DEF LexCuts
<1>8. VecCuts' \subseteq VecCuts \cup {snap[l], vecPend}
    BY <1>2, <1>6 DEF VecCuts, VectorCommits, VectorCommitFails, Larger
<1>9. Durable' = Durable /\ \A n : DurableAbove(n)' = DurableAbove(n)
    BY <1>2, <1>3 DEF Durable, DurableAbove
<1>10. vecPend \in Nat /\ vecPend <= watermark
    BY <1>2, ReplayFacts DEF ReplayInv, LogInv, CoverInv, RecordedCovered
<1>11. ASSUME NEW n \in VecCuts'
       PROVE  Tracks(vecDisk', Durable, DurableAbove(n))
    <2>1. n \in Nat /\ n <= watermark
        BY <1>2, <1>8, <1>10, PendingAbove
    <2>2. Tracks(vecMem, Durable, DurableAbove(n))
        BY <1>2, <2>1, CommittedTracks
    <2>3. CASE VectorCommits
        BY <2>2, <2>3 DEF VectorCommits
    <2>4. CASE ~VectorCommits
        <3>1. vecCkpt' = vecCkpt /\ lpc'[l] = "idle"
            BY <1>6, <2>4 DEF VectorCommitFails
        <3>2. n \in VecCuts
            BY <1>2, <3>1 DEF VecCuts
        <3>3. Tracks(vecDisk, Durable, DurableAbove(n))
            BY <3>2 DEF ReplayInv, StoreInv, FilesTrack
        <3>4. /\ vecDisk' \subseteq vecDisk \cup vecMem
              /\ vecDisk \cap vecMem \subseteq vecDisk'
            BY <1>6, <2>4 DEF VectorCommitFails
        <3> QED
            BY <2>2, <3>3, <3>4, TracksPartly
    <2> QED
        BY <2>3, <2>4
<1>12. FilesTrack'
    BY <1>3, <1>7, <1>9, <1>11 DEF ReplayInv, StoreInv, FilesTrack
<1>13. DocumentsKept'
    BY <1>2, <1>3, <1>6, ReplayFacts, DocumentsStay
<1> QED
    BY <1>2, <1>5, <1>12, <1>13 DEF ReplayInv, StoreInv

\* The document store's commit keeps the invariant: the manifest lists every
\* document that a finished mutation added.
LEMMA DocsReplay ==
    ASSUME ReplayInv, WritesThrough, NEW l \in Ladders, LadderDocs(l)
    PROVE  ReplayInv'
<1> USE DEF walVars, lexVars, vecVars
<1>1. Commit(l)
    BY DEF Commit
<1>2. /\ LogInv' /\ StopInv' /\ Running /\ Running' /\ history' = history
      /\ \A k \in Ladders \ {l} : lpc'[k] = lpc[k] /\ snap'[k] = snap[k]
      /\ snap[l] \in Nat /\ snap[l] <= watermark /\ unfinished' = unfinished
    BY <1>1, LadderFacts
<1>3. UNCHANGED <<wal, walOpen, flushed, synced, lexDisk, lexCkpt, vecDisk,
                  vecCkpt>>
    BY DEF LadderDocs
<1>4. Above(wal, snap[l]) \subseteq wal
    BY DEF Above
<1>5. /\ docSegments' = docSegments \cup docPending
      /\ docDisk' \in {docDisk, docSegments'}
      /\ lpc[l] = "docs" /\ lpc'[l] \in {"truncate", "idle"}
      /\ lpc'[l] = "truncate" => snap'[l] = snap[l] /\ docDisk' = docSegments'
    BY ReplayFacts
       DEF LadderDocs, WritesThrough, LadderGoesOn, LadderGivesUp, LadderReturns
<1>6. RecordInv' /\ MemoryTracks' /\ ClientInv'
    BY <1>1, <1>3, <1>4, <1>5, LadderParts
<1>7. FilesTrack'
    <2>1. LexCuts' \subseteq LexCuts /\ VecCuts' \subseteq VecCuts
        BY <1>2, <1>3, <1>5 DEF LexCuts, VecCuts
    <2>2. Durable' = Durable
        BY <1>2, <1>3 DEF Durable
    <2> QED
        BY <1>2, <1>3, <2>1, <2>2, ReplayFacts, FilesKept
<1>8. DocumentsKept'
    <2>1. DocumentsKept /\ docDisk \subseteq docDisk' /\ docDisk' \subseteq docSegments'
        BY <1>2, <1>5 DEF ReplayInv, StoreInv, DocumentsKept
    <2>2. ASSUME NEW k \in Ladders, lpc'[k] = "truncate",
                 NEW r \in history, r.seq <= snap'[k]
          PROVE  DocsOf(r.adds) \subseteq docDisk'
        <3>1. CASE k = l
            <4>1. r.seq <= snap[l] /\ docDisk' = docSegments \cup docPending
                BY <1>5, <2>2, <3>1
            <4>2. r.seq \notin unfinished
                BY <1>2, <4>1, ReplayFacts, PendingAbove
            <4> QED
                BY <1>2, <2>1, <4>1, <4>2 DEF DocumentsKept
        <3>2. CASE k # l
            BY <1>2, <2>1, <2>2, <3>2 DEF DocumentsKept
        <3> QED
            BY <3>1, <3>2
    <2>3. \A r \in history : r.seq \notin unfinished =>
              DocsOf(r.adds) \subseteq docPending' \cup docSegments'
        BY <1>2, <1>5, <2>1 DEF DocumentsKept
    <2> QED
        BY <1>2, <1>3, <2>1, <2>2, <2>3 DEF DocumentsKept
<1> QED
    BY <1>2, <1>6, <1>7, <1>8 DEF ReplayInv, StoreInv

\* The truncation keeps the invariant: it drops what both indexes have in
\* their files and the document store lists.
LEMMA TruncateReplay ==
    ASSUME ReplayInv, NEW l \in Ladders, LadderTruncate(l)
    PROVE  ReplayInv'
<1> USE DEF lexVars, vecVars, docVars, storeVars
<1>1. Commit(l)
    BY DEF Commit
<1>2. /\ LogInv' /\ StopInv' /\ Running /\ Running' /\ history' = history
      /\ \A k \in Ladders \ {l} : lpc'[k] = lpc[k] /\ snap'[k] = snap[k]
      /\ snap[l] \in Nat /\ snap[l] <= watermark /\ unfinished' = unfinished
    BY <1>1, LadderFacts
<1>3. /\ UNCHANGED <<lexDisk, lexCkpt, vecDisk, vecCkpt, docPending,
                     docSegments, docDisk>>
      /\ flushed' = LastSeq /\ synced' = LastSeq
      /\ lpc[l] = "truncate" /\ lpc'[l] = "idle"
      /\ wal' \in {wal, Above(wal, snap[l])}
    BY ReplayFacts
       DEF LadderTruncate, LadderSucceeds, LadderGivesUp, LadderReturns,
           Retained
<1>4. wal' \subseteq wal /\ Above(wal, snap[l]) \subseteq wal'
    BY <1>3 DEF Above
<1>5. RecordInv' /\ MemoryTracks' /\ ClientInv'
    BY <1>1, <1>3, <1>4, LadderParts
<1>6. /\ \A r \in history : r.seq \in Nat /\ r.seq < nextSeq
      /\ nextSeq \in Nat /\ flushed \in Nat /\ history \in SUBSET Records
    BY <1>2, ReplayFacts DEF ReplayInv, LogInv, SeqsDistinct
<1>7. Durable' = history /\ Durable \subseteq history
    BY <1>2, <1>3, <1>6 DEF Durable, LastSeq
<1>8. ASSUME NEW store, NEW n \in LexCuts \cup VecCuts,
             Tracks(store, Durable, DurableAbove(n))
      PROVE  Tracks(store, history, {r \in wal : r.seq > n})
    <2>1. n \in Nat /\ n <= watermark /\ watermark \in Nat
        BY <1>2, PendingAbove, ReplayFacts
    <2>2. Durable' \ Durable \subseteq {r \in wal : r.seq > n}
        BY <1>6, <1>7, <2>1, PendingAbove
    <2>3. DurableAbove(n) \subseteq {r \in wal : r.seq > n}
        BY DEF DurableAbove
    <2>4. Tracks(store, Durable', {r \in wal : r.seq > n})
        BY <1>2, <1>6, <1>7, <1>8, <2>2, <2>3, DurableGrows
    <2> QED
        BY <1>7, <2>4
<1>9. ASSUME NEW n \in Nat
      PROVE  \/ DurableAbove(n)' = {r \in wal : r.seq > n}
             \/ DurableAbove(n)' = {r \in wal : r.seq > snap[l]}
    <2>1. wal \subseteq history
        BY ReplayFacts
    <2>2. CASE wal' = wal
        BY <1>7, <2>1, <2>2 DEF DurableAbove
    <2>3. CASE wal' = Above(wal, snap[l]) /\ n <= snap[l]
        BY <1>2, <1>6, <1>7, <2>1, <2>3 DEF DurableAbove, Above
    <2>4. CASE wal' = Above(wal, snap[l]) /\ n > snap[l]
        BY <1>2, <1>6, <1>7, <2>1, <2>4 DEF DurableAbove, Above
    <2> QED
        BY <1>2, <1>3, <2>2, <2>3, <2>4
<1>10. FilesTrack'
    <2>1. /\ LexCuts' \subseteq LexCuts /\ VecCuts' \subseteq VecCuts
          /\ snap[l] \in LexCuts /\ snap[l] \in VecCuts
        BY <1>2, <1>3 DEF LexCuts, VecCuts
    <2>2. \A n \in LexCuts : Tracks(lexDisk, Durable, DurableAbove(n))
        BY DEF ReplayInv, StoreInv, FilesTrack
    <2>3. \A n \in VecCuts : Tracks(vecDisk, Durable, DurableAbove(n))
        BY DEF ReplayInv, StoreInv, FilesTrack
    <2>4. ASSUME NEW n \in LexCuts'
          PROVE  Tracks(lexDisk, Durable', DurableAbove(n)')
        <3>1. n \in LexCuts /\ n \in Nat
            BY <2>1, PendingAbove
        <3>2. /\ Tracks(lexDisk, history, {r \in wal : r.seq > n})
              /\ Tracks(lexDisk, history, {r \in wal : r.seq > snap[l]})
            BY <1>8, <2>1, <2>2, <3>1
        <3> QED
            BY <1>7, <1>9, <3>1, <3>2
    <2>5. ASSUME NEW n \in VecCuts'
          PROVE  Tracks(vecDisk, Durable', DurableAbove(n)')
        <3>1. n \in VecCuts /\ n \in Nat
            BY <2>1, PendingAbove
        <3>2. /\ Tracks(vecDisk, history, {r \in wal : r.seq > n})
              /\ Tracks(vecDisk, history, {r \in wal : r.seq > snap[l]})
            BY <1>8, <2>1, <2>3, <3>1
        <3> QED
            BY <1>7, <1>9, <3>1, <3>2
    <2> QED
        BY <1>3, <2>4, <2>5 DEF FilesTrack
<1>11. DocumentsKept'
    <2>1. DocumentsKept
        BY DEF ReplayInv, StoreInv
    <2>2. ASSUME NEW r \in history \ wal'
          PROVE  DocsOf(r.adds) \subseteq docDisk
        <3>1. CASE r \notin wal
            BY <2>1, <3>1 DEF DocumentsKept
        <3>2. CASE r \in wal
            <4>1. r.seq <= snap[l]
                BY <1>2, <1>4, <1>6, <2>2, <3>2 DEF Above
            <4> QED
                BY <1>3, <2>1, <4>1 DEF DocumentsKept
        <3> QED
            BY <3>1, <3>2
    <2> QED
        BY <1>2, <1>3, <2>1, <2>2 DEF DocumentsKept
<1> QED
    BY <1>2, <1>5, <1>10, <1>11 DEF ReplayInv, StoreInv

-----------------------------------------------------------------------------
(* The end of a process, and the next open.                                *)

\* What a new process starts with satisfies what the invariant asks of
\* clients, memory and documents, if the log keeps its end.
LEMMA FreshParts ==
    ASSUME ReplayInv, Volatile, history' \subseteq history,
           history' \ wal' \subseteq history \ wal
    PROVE  MemoryTracks' /\ ClientInv' /\ DocumentsKept' /\ DocsNumbered'
           /\ LexCuts' = {lexCkpt'} /\ VecCuts' = {vecCkpt} /\ ~Running'
<1>1. ~Running'
    BY DEF Volatile, Running
<1>2. /\ \A c \in Clients : pc'[c] = "idle"
      /\ \A l \in Ladders : lpc'[l] = "idle"
      /\ unfinished' = {} /\ UNCHANGED <<vecCkpt, docDisk>>
    BY DEF Volatile
<1>3. MemoryTracks' /\ DocsNumbered'
    BY <1>1 DEF MemoryTracks, DocsNumbered
<1>4. ClientInv'
    BY <1>2 DEF ClientInv, UnfinishedOwned, Applying
<1>5. DocumentsKept'
    BY <1>1, <1>2 DEF ReplayInv, StoreInv, DocumentsKept
<1>6. LexCuts' = {lexCkpt'} /\ VecCuts' = {vecCkpt}
    BY <1>2 DEF LexCuts, VecCuts
<1> QED
    BY <1>1, <1>3, <1>4, <1>5, <1>6

\* A crash takes records that were never acknowledged nor committed, and may
\* leave others in the log that the stores lack: both are pending.
LEMMA CrashReplay ==
    ASSUME ReplayInv, WritesThrough, NEW kind \in CrashKinds, Crash(kind)
    PROVE  ReplayInv'
<1>1. LogInv' /\ StopInv'
    BY EndLog, NextStop DEF ReplayInv, Next
<1> DEFINE lost(last) == Above(wal, last)
<1>2. PICK last \in Survivors(kind) :
          /\ wal' = wal \ lost(last) /\ history' = history \ lost(last)
          /\ nextSeq' = last + 1 /\ flushed' = last
          /\ synced' = IF kind = "process" THEN synced ELSE last
    BY DEF Crash
<1>3. Volatile /\ UNCHANGED <<lexDisk, lexCkpt, vecDisk, vecCkpt>>
    BY DEF Crash, Volatile
<1>4. /\ flushed \in Nat /\ synced \in Nat /\ nextSeq \in Nat
      /\ history \in SUBSET Records /\ wal \subseteq history
      /\ \A r \in history : r.seq \in Nat
      /\ kind \in {"process", "power"}
    BY ReplayFacts, CrashKindsAssumption
<1>5. last \in Nat /\ last >= (IF kind = "process" THEN flushed ELSE synced)
    BY <1>4 DEF Survivors, LastSeq
<1>6. \A r \in history :
          /\ r \notin wal => r.seq <= flushed /\ r.seq <= synced
          /\ kind = "power" => r.seq <= flushed /\ r.seq <= synced
    BY <1>4 DEF WritesThrough, ReplayInv, RecordInv, LostHaveFailed
<1>7. /\ history' = {r \in history : r.seq <= last}
      /\ wal' = {r \in wal : r.seq <= last}
      /\ Durable' = history' /\ Durable \subseteq history'
    BY <1>2, <1>4, <1>5, <1>6 DEF Above, Durable
<1>8. /\ MemoryTracks' /\ ClientInv' /\ DocumentsKept' /\ DocsNumbered'
      /\ LexCuts' = {lexCkpt} /\ VecCuts' = {vecCkpt} /\ ~Running'
    <2>1. history' \subseteq history /\ history' \ wal' \subseteq history \ wal
        BY <1>7
    <2> QED
        BY <1>3, <2>1, FreshParts
<1>9. LostHaveFailed'
    <2>1. \A r \in history' : r.seq <= flushed'
        BY <1>2, <1>7
    <2>2. \A r \in history' : r \notin wal' \/ "sync" \notin Faults =>
              r.seq <= synced'
        <3>1. \A r \in history' : r \notin wal' => r \notin wal
            BY <1>7
        <3>2. CASE kind = "power"
            BY <1>2, <1>7, <3>2
        <3>3. CASE kind = "process"
            BY <1>2, <1>7, <3>1, <3>3 DEF ReplayInv, RecordInv, LostHaveFailed
        <3> QED
            BY <1>4, <3>2, <3>3
    <2> QED
        BY <2>1, <2>2 DEF LostHaveFailed
<1>10. RecordsOrdered(history')
    <2>1. \A r \in history' : \A s \in history : s.seq <= r.seq => s \in history'
        BY <1>4, <1>5, <1>7
    <2>2. history' \in SUBSET history
        BY <1>7
    <2> QED
        BY <1>4, <2>1, <2>2, PrefixOrdered DEF ReplayInv, RecordInv
<1>11. ASSUME NEW store, NEW n \in LexCuts \cup VecCuts,
              Tracks(store, Durable, DurableAbove(n))
       PROVE  Tracks(store, Durable', DurableAbove(n)')
    <2>1. \A r \in Durable' \ Durable : r \in wal' /\ r.seq > n
        <3> SUFFICES ASSUME NEW r \in Durable' \ Durable
                     PROVE  r \in wal' /\ r.seq > n
            OBVIOUS
        <3>1. r \in history \ Durable
            BY <1>7
        <3>2. /\ r \in wal /\ r.seq \in unfinished /\ r.seq > watermark
              /\ Running
            BY <3>1, PendingAbove
        <3>3. n \in Nat /\ n <= watermark /\ watermark \in Nat /\ r.seq \in Nat
            BY <1>4, <3>1, <3>2, PendingAbove, ReplayFacts
        <3> QED
            BY <1>7, <3>2, <3>3
    <2>2. Durable' \ Durable \subseteq DurableAbove(n)'
        BY <2>1 DEF DurableAbove
    <2>3. DurableAbove(n) \subseteq DurableAbove(n)'
        BY <1>7 DEF DurableAbove, Durable
    <2>4. Durable' \in SUBSET Records /\ Durable \subseteq Durable'
        BY <1>4, <1>7
    <2>5. \A r \in Durable : \A s \in Durable' \ Durable : r.seq < s.seq
        BY <1>4, <1>7 DEF Durable
    <2> QED
        BY <1>11, <2>2, <2>3, <2>4, <2>5, TracksMore
<1>12. FilesTrack'
    <2>1. lexCkpt \in LexCuts /\ vecCkpt \in VecCuts
        BY DEF LexCuts, VecCuts
    <2> QED
        BY <1>3, <1>8, <1>11, <2>1 DEF ReplayInv, StoreInv, FilesTrack
<1>13. ClosedBelow'
    <2>1. nextSeq' = last + 1
        BY <1>2
    <2> QED
        BY <1>4, <1>5, <1>7, <2>1 DEF ClosedBelow
<1> QED
    BY <1>1, <1>8, <1>9, <1>10, <1>12, <1>13 DEF ReplayInv, RecordInv, StoreInv

\* Closing an engine that accepts writes commits a lexical store from which
\* nothing is missing.
LEMMA CloseReplay ==
    ASSUME ReplayInv, CloseEngine
    PROVE  ReplayInv'
<1>1. LogInv' /\ StopInv'
    BY EndLog, NextStop DEF ReplayInv, Next
<1>2. /\ Volatile /\ Quiet /\ ~stop /\ FlushWal /\ Running
      /\ UNCHANGED <<wal, history, vecDisk, vecCkpt>>
    BY DEF CloseEngine, Volatile, Stopped, Running
<1>3. /\ flushed \in Nat /\ synced \in Nat /\ nextSeq \in Nat
      /\ history \in SUBSET Records /\ wal \subseteq history
      /\ \A r \in history : r.seq \in Nat /\ r.seq < nextSeq
    BY <1>2, ReplayFacts DEF ReplayInv, LogInv, SeqsDistinct
<1>4. failed = {} /\ \A c \in Clients : pc[c] \notin Applying
    BY <1>2 DEF Quiet, Applying, ReplayInv, StopInv, FailureStops
<1>5. \A r \in history : r.seq \notin unfinished
    BY <1>4 DEF ReplayInv, ClientInv, UnfinishedOwned
<1>6. Durable = history /\ DurableUnfinished = {}
    BY <1>4, <1>5, PendingAbove DEF Durable, DurableUnfinished
<1>7. \A r \in history : r.seq <= flushed /\ r.seq <= flushed'
    BY <1>2, <1>3, <1>6 DEF Durable, FlushWal, LastSeq
<1>8. Durable' = history
    BY <1>2, <1>7 DEF Durable
<1>9. /\ MemoryTracks' /\ ClientInv' /\ DocumentsKept' /\ DocsNumbered'
      /\ LexCuts' = {lexCkpt'} /\ VecCuts' = {vecCkpt} /\ ~Running'
    BY <1>2, FreshParts
<1>10. LostHaveFailed'
    <2>1. \A r \in history : r \notin wal \/ "sync" \notin Faults =>
              r.seq <= synced'
        BY <1>2, <1>3 DEF FlushWal, LastSeq, ReplayInv, RecordInv,
                          LostHaveFailed
    <2> QED
        BY <1>2, <1>7, <2>1 DEF LostHaveFailed
<1>11. \A n : DurableAbove(n)' = DurableAbove(n)
    BY <1>2, <1>6, <1>8 DEF DurableAbove
<1>12. \A n : Tracks(lexMem, history, DurableAbove(n))
    BY <1>2, <1>6, TracksLess DEF ReplayInv, StoreInv, MemoryTracks
<1>13. Tracks(lexDisk', history, DurableAbove(lexCkpt'))
    <2>1. CASE lexDisk' = lexMem
        BY <1>12, <2>1
    <2>2. CASE lexDisk' # lexMem
        <3>1. /\ lexCkpt' = lexCkpt /\ lexDisk' \subseteq lexDisk \cup lexMem
              /\ lexDisk \cap lexMem \subseteq lexDisk'
            BY <2>2 DEF CloseEngine
        <3>2. Tracks(lexDisk, history, DurableAbove(lexCkpt))
            BY <1>6 DEF ReplayInv, StoreInv, FilesTrack, LexCuts
        <3> QED
            BY <1>12, <3>1, <3>2, TracksPartly
    <2> QED
        BY <2>1, <2>2
<1>14. Tracks(vecDisk, history, DurableAbove(vecCkpt))
    BY <1>6 DEF ReplayInv, StoreInv, FilesTrack, VecCuts
<1>15. FilesTrack'
    BY <1>2, <1>8, <1>9, <1>11, <1>13, <1>14 DEF FilesTrack
<1>16. RecordsOrdered(history)'
    BY <1>2 DEF ReplayInv, RecordInv
<1>17. ClosedBelow'
    BY <1>2, <1>3 DEF CloseEngine, ClosedBelow
<1> QED
    BY <1>1, <1>9, <1>10, <1>15, <1>16, <1>17 DEF ReplayInv, RecordInv, StoreInv

\* In a closed index every record is durable, and the pending ones are the
\* log's above each store's checkpoint.
LEMMA ClosedFacts ==
    ASSUME ReplayInv, mode = "closed"
    PROVE  /\ Durable = history /\ ~Running
           /\ \A n : DurableAbove(n) = Above(wal, n)
           /\ Tracks(lexDisk, history, Above(wal, lexCkpt))
           /\ Tracks(vecDisk, history, Above(wal, vecCkpt))
           /\ LexCuts = {lexCkpt} /\ VecCuts = {vecCkpt}
<1>1. ~Running
    BY DEF Running
<1>2. Durable = history
    BY <1>1, PendingAbove DEF Durable
<1>3. \A n : DurableAbove(n) = Above(wal, n)
    BY <1>2, ReplayFacts DEF DurableAbove, Above
<1>4. \A l \in Ladders : lpc[l] = "idle"
    BY DEF ReplayInv, LogInv, CoverInv, ClosedIsFresh
<1>5. LexCuts = {lexCkpt} /\ VecCuts = {vecCkpt}
    BY <1>4 DEF LexCuts, VecCuts
<1> QED
    BY <1>1, <1>2, <1>3, <1>5 DEF ReplayInv, StoreInv, FilesTrack

\* Replaying the end of the log above a checkpoint brings a store to what the
\* history says, if it followed it but for those records.
LEMMA ReplayedAbove ==
    ASSUME ReplayInv, NEW store, NEW n \in Nat,
           Tracks(store, history, Above(wal, n))
    PROVE  ReplayInto(store, Above(wal, n)) = Live(history)
<1>1. /\ Above(wal, n) \in SUBSET history /\ history \in SUBSET Records
      /\ \A r \in history : r.seq \in Nat
    BY ReplayFacts DEF Above
<1>2. \A r, s \in history : r.seq = s.seq => r = s
    BY DEF ReplayInv, LogInv, SeqsDistinct
<1>3. \A r \in Above(wal, n) : \A s \in history :
          s.seq > r.seq => s \in Above(wal, n)
    <2> SUFFICES ASSUME NEW r \in Above(wal, n), NEW s \in history,
                        s.seq > r.seq
                 PROVE  s \in Above(wal, n)
        OBVIOUS
    <2>1. r \in wal /\ r.seq > n /\ r.seq \in Nat /\ s.seq \in Nat
        BY <1>1 DEF Above
    <2>2. s \in wal
        BY <2>1 DEF ReplayInv, LogInv, LogIsSuffix
    <2> QED
        BY <2>1, <2>2 DEF Above
<1> QED
    BY <1>1, <1>2, <1>3, ReplayedIsLive

\* Recovery leaves both stores holding what the history says, and nothing
\* unfinished.
LEMMA OpenReplay ==
    ASSUME ReplayInv, Open
    PROVE  ReplayInv'
<1> USE DEF clientVars, ghostVars
<1>1. LogInv' /\ StopInv'
    BY EndLog, NextStop DEF ReplayInv, Next
<1>2. /\ mode = "closed" /\ mode' \in {"recovering", "open"} /\ Running'
      /\ UNCHANGED <<wal, history, unfinished, failed, pc, op, todo, lexDisk,
                     lexCkpt, vecDisk, vecCkpt, docDisk, snap>>
      /\ lexMem' = ReplayInto(lexDisk, Above(wal, lexCkpt))
      /\ vecMem' = ReplayInto(vecDisk, Above(wal, vecCkpt))
      /\ docPending' = DocsOf(AddsOf(wal)) /\ docSegments' = docDisk
    BY DEF Open, Running, ReplayFrom, Restored
<1>3. PICK top \in {lexCkpt, vecCkpt} \cup SeqsOf(wal) :
          /\ IsTop(top, {lexCkpt, vecCkpt} \cup SeqsOf(wal))
          /\ flushed' = top
          /\ synced' = IF torn \/ \A r \in wal : r.seq <= synced
                       THEN top ELSE synced
    BY DEF Open
<1>4. /\ Durable = history
      /\ Tracks(lexDisk, history, Above(wal, lexCkpt))
      /\ Tracks(vecDisk, history, Above(wal, vecCkpt))
      /\ LexCuts = {lexCkpt} /\ VecCuts = {vecCkpt}
      /\ \A n : DurableAbove(n) = Above(wal, n)
    BY <1>2, ClosedFacts
<1>5. /\ \A c \in Clients : pc[c] = "idle"
      /\ \A l \in Ladders : lpc[l] = "idle" /\ lpc'[l] \in {"idle", "snapshot"}
      /\ unfinished = {}
    BY <1>2, ReplayFacts
       DEF Open, ReplayInv, LogInv, CoverInv, ClosedIsFresh
<1>6. /\ history \in SUBSET Records /\ wal \subseteq history
      /\ \A r \in history : r.seq \in Nat
      /\ lexCkpt \in Nat /\ vecCkpt \in Nat
      /\ AddedOnce(history) /\ KilledOnce(history)
    BY ReplayFacts
<1>7. \A r \in history : r.seq <= top
    <2>1. top \in Nat /\ vecCkpt <= top /\ \A r \in wal : r.seq <= top
        BY <1>3, <1>6 DEF IsTop, SeqsOf
    <2> QED
        BY <1>6, <2>1 DEF ReplayInv, LogInv, LogIsSuffix
<1>8. Durable' = history
    BY <1>2, <1>3, <1>7 DEF Durable
<1>9. LostHaveFailed'
    BY <1>2, <1>3, <1>7 DEF ReplayInv, RecordInv, LostHaveFailed
<1>10. DocsNumbered'
    <2>1. PICK last \in {0} \cup DocsOf(AddsOf(wal)) \cup docDisk :
              /\ IsTop(last, DocsOf(AddsOf(wal)) \cup docDisk)
              /\ nextDoc' = last + 1
        BY DEF Open
    <2>2. DocsOf(AddsOf(wal)) \subseteq Nat /\ docDisk \subseteq Nat
        BY <1>6, DocsAreNumbers
           DEF ReplayInv, StopInv, TypeOK, StoreTypeOK
    <2>3. ASSUME NEW r \in history, NEW e \in r.adds
          PROVE  e.doc \in DocsOf(AddsOf(wal)) \cup docDisk
        <3>1. CASE r \in wal
            BY <3>1 DEF AddsOf, DocsOf
        <3>2. CASE r \notin wal
            <4>1. DocsOf(r.adds) \subseteq docDisk
                BY <3>2 DEF ReplayInv, StoreInv, DocumentsKept
            <4> QED
                BY <4>1 DEF DocsOf
        <3> QED
            BY <3>1, <3>2
    <2>4. last \in Nat /\ \A doc \in DocsOf(AddsOf(wal)) \cup docDisk : doc <= last
        BY <2>1, <2>2 DEF IsTop
    <2>5. history' = history
        BY <1>2
    <2>6. ASSUME NEW r \in history, NEW e \in r.adds
          PROVE  e.doc < nextDoc'
        <3>1. e.doc \in Nat /\ e.doc <= last
            BY <2>2, <2>3, <2>4
        <3> QED
            BY <2>1, <2>4, <3>1
    <2> QED
        BY <2>5, <2>6 DEF DocsNumbered
<1>11. RecordInv'
    BY <1>2, <1>9, <1>10 DEF ReplayInv, RecordInv, ClosedBelow
<1>12. MemoryTracks'
    <2>1. lexMem' = Live(history) /\ vecMem' = Live(history)
        BY <1>2, <1>4, <1>6, ReplayedAbove
    <2>2. Tracks(Live(history), history, {})
        BY <1>6, LiveIsAlive DEF Tracks
    <2>3. DurableUnfinished' = {}
        BY <1>2, <1>5 DEF DurableUnfinished
    <2> QED
        BY <1>8, <2>1, <2>2, <2>3 DEF MemoryTracks
<1>13. FilesTrack'
    <2>1. LexCuts' = {lexCkpt} /\ VecCuts' = {vecCkpt}
        BY <1>2, <1>5 DEF LexCuts, VecCuts
    <2>2. \A n : DurableAbove(n)' = Above(wal, n)
        BY <1>2, <1>6, <1>8 DEF DurableAbove, Above
    <2> QED
        BY <1>2, <1>4, <1>8, <2>1, <2>2 DEF FilesTrack
<1>14. DocumentsKept'
    <2>1. \A r \in wal : DocsOf(r.adds) \subseteq docPending'
        BY <1>2 DEF AddsOf, DocsOf
    <2>2. \A r \in history \ wal : DocsOf(r.adds) \subseteq docDisk
        BY DEF ReplayInv, StoreInv, DocumentsKept
    <2> QED
        BY <1>2, <1>5, <2>1, <2>2 DEF DocumentsKept
<1>15. ClientInv'
    BY <1>2, <1>5 DEF ClientInv, UnfinishedOwned, Applying
<1> QED
    BY <1>1, <1>11, <1>12, <1>13, <1>14, <1>15 DEF ReplayInv, StoreInv

\* An open that fails has replayed pending records only, and perhaps the
\* deletes of one that its store had.
LEMMA OpenFailsReplay ==
    ASSUME ReplayInv, OpenFails
    PROVE  ReplayInv'
<1> USE DEF clientVars, ghostVars, ladderVars, engineVars, docVars, vecVars
<1>1. LogInv' /\ StopInv'
    BY EndLog, NextStop DEF ReplayInv, Next
<1>2. /\ mode = "closed"
      /\ UNCHANGED <<mode, wal, history, unfinished, failed, pc, op, todo,
                     lexCkpt, vecDisk, vecCkpt, docDisk, docPending,
                     docSegments, lpc, snap, flushed, walOpen>>
      /\ synced' = IF torn THEN LastSeq ELSE synced
    BY DEF OpenFails
<1>3. /\ Durable = history /\ ~Running
      /\ Tracks(lexDisk, history, Above(wal, lexCkpt))
      /\ LexCuts = {lexCkpt} /\ VecCuts = {vecCkpt}
      /\ \A n : DurableAbove(n) = Above(wal, n)
    BY <1>2, ClosedFacts
<1>4. /\ history \in SUBSET Records /\ wal \subseteq history
      /\ AddedOnce(history) /\ KilledOnce(history)
      /\ \A r \in history : r.seq \in Nat
      /\ nextSeq \in Nat /\ flushed \in Nat /\ synced \in Nat
    BY ReplayFacts
<1>5. Tracks(lexDisk', history, Above(wal, lexCkpt))
    <2> DEFINE pending == Above(wal, lexCkpt)
               earlier(r) == {s \in pending : s.seq < r.seq}
               upTo(r) == {s \in pending : s.seq <= r.seq}
    <2>1. PICK r \in wal :
              \/ lexDisk' = ReplayInto(lexDisk, earlier(r))
              \/ lexDisk' = {e \in ReplayInto(lexDisk, earlier(r)) :
                                 e.doc \notin r.kills}
              \/ lexDisk' = ReplayInto(lexDisk, upTo(r))
        BY DEF OpenFails
    <2>2. /\ pending \in SUBSET history /\ r \in history
          /\ earlier(r) \in SUBSET pending /\ upTo(r) \in SUBSET pending
        BY <1>4 DEF Above
    <2>3. Tracks(lexDisk, history, pending)
        BY <1>3
    <2> HIDE DEF pending, earlier, upTo
    <2>4. ASSUME NEW some \in SUBSET pending
          PROVE  /\ Tracks(ReplayInto(lexDisk, some), history, pending)
                 /\ Tracks({e \in ReplayInto(lexDisk, some) :
                                e.doc \notin r.kills}, history, pending)
        <3>1. /\ history \in SUBSET Records /\ pending \in SUBSET history
              /\ AddedOnce(history) /\ KilledOnce(history)
              /\ r \in history
            BY <1>4, <2>2
        <3> QED
            BY <2>3, <3>1, TracksReplayed, Zenon
    <2>5. /\ Tracks(ReplayInto(lexDisk, earlier(r)), history, pending)
          /\ Tracks({e \in ReplayInto(lexDisk, earlier(r)) :
                         e.doc \notin r.kills}, history, pending)
          /\ Tracks(ReplayInto(lexDisk, upTo(r)), history, pending)
        BY <2>2, <2>4
    <2>6. Tracks(lexDisk', history, pending)
        BY <2>1, <2>5
    <2> QED
        BY <2>6 DEF pending
<1>6. FilesTrack'
    <2>1. /\ Durable' = history /\ LexCuts' = {lexCkpt} /\ VecCuts' = {vecCkpt}
          /\ \A n : DurableAbove(n)' = Above(wal, n)
        BY <1>2, <1>3 DEF Durable, DurableAbove, LexCuts, VecCuts
    <2>2. Tracks(vecDisk, history, Above(wal, vecCkpt))
        BY <1>2, ClosedFacts
    <2> QED
        BY <1>2, <1>5, <2>1, <2>2 DEF FilesTrack
<1>7. RecordInv'
    <2>1. \A r \in history : r.seq <= flushed
        BY <1>3 DEF Durable
    <2>2. \A r \in history : r \notin wal \/ "sync" \notin Faults =>
              r.seq <= synced'
        <3>1. CASE ~torn
            BY <1>2, <3>1 DEF ReplayInv, RecordInv, LostHaveFailed
        <3>2. CASE torn
            BY <1>2, <1>3, <1>4, <3>2
               DEF LastSeq, ReplayInv, RecordInv, ClosedBelow
        <3> QED
            BY <3>1, <3>2
    <2>3. LostHaveFailed'
        BY <1>2, <2>1, <2>2 DEF LostHaveFailed
    <2>4. DocsNumbered'
        BY <1>2, <1>3 DEF DocsNumbered, Running
    <2>5. ClosedBelow'
        BY <1>3 DEF OpenFails, ReplayInv, RecordInv, ClosedBelow
    <2> QED
        BY <1>2, <2>3, <2>4, <2>5 DEF ReplayInv, RecordInv
<1>8. MemoryTracks' /\ DocumentsKept'
    BY <1>2, <1>3 DEF MemoryTracks, ReplayInv, StoreInv, DocumentsKept, Running
<1>9. ClientInv'
    <2>1. \A c \in Clients : pc[c] = "idle"
        BY <1>2 DEF ReplayInv, LogInv, CoverInv, ClosedIsFresh
    <2>2. unfinished = {}
        BY <1>2 DEF ReplayInv, LogInv, CoverInv, ClosedIsFresh
    <2> QED
        BY <1>2, <2>1, <2>2 DEF ClientInv, UnfinishedOwned, Applying
<1> QED
    BY <1>1, <1>6, <1>7, <1>8, <1>9 DEF ReplayInv, StoreInv

-----------------------------------------------------------------------------
(* The invariant holds throughout.                                         *)

\* Every step keeps the invariant, where writes go through to the disk.
LEMMA NextReplay ==
    ASSUME WritesThrough
    PROVE  ReplayInv /\ [Next]_vars => ReplayInv'
<1> SUFFICES ASSUME ReplayInv, [Next]_vars PROVE ReplayInv'
    OBVIOUS
<1>1. LogInv' /\ StopInv'
    BY NextLog, NextStop DEF ReplayInv
<1>2. ASSUME NEW c \in Clients, Mutate(c) PROVE ReplayInv'
    BY <1>2, MutateQuiet, AppendReplay, ApplyReplay, FinishReplay DEF Mutate
<1>3. ASSUME NEW l \in Ladders, Commit(l) PROVE ReplayInv'
    BY <1>3, LadderQuiet, LexicalReplay, VectorReplay, DocsReplay,
       TruncateReplay DEF Commit
<1>4. CASE FlushCall
    <2> USE DEF storeVars, lexVars, vecVars, docVars, clientVars, ladderVars,
                engineVars, ghostVars
    <2>1. /\ UNCHANGED <<history, wal, lexMem, lexDisk, lexCkpt, vecMem,
                         vecDisk, vecCkpt, docVars, mode, nextDoc, unfinished,
                         failed, walOpen, pc, op, todo, lpc, snap>>
          /\ flushed' = LastSeq /\ synced' = LastSeq
          /\ mode = "open"
        BY <1>4 DEF FlushCall, FlushWal
    <2>2. Running /\ Running' /\ Stalled
        BY <2>1 DEF Running, Stalled, LexCuts, VecCuts
    <2>3. nextDoc' \in Nat /\ nextDoc <= nextDoc'
        BY <2>1, ReplayFacts
    <2> QED
        BY <1>1, <2>1, <2>2, <2>3, QuietReplay
<1>5. CASE UNCHANGED vars
    <2> USE DEF vars, appliedVars, walVars, storeVars, lexVars, vecVars,
                docVars, clientVars, ladderVars, engineVars, ghostVars
    <2>1. RecordInv'
        BY <1>5 DEF ReplayInv, RecordInv, LostHaveFailed, DocsNumbered,
                    ClosedBelow, Running
    <2>2. Durable' = Durable /\ DurableUnfinished' = DurableUnfinished
        BY <1>5 DEF Durable, DurableUnfinished
    <2>3. \A n : DurableAbove(n)' = DurableAbove(n)
        BY <1>5, <2>2 DEF DurableAbove
    <2>4. LexCuts' = LexCuts /\ VecCuts' = VecCuts
        BY <1>5 DEF LexCuts, VecCuts
    <2>5. FilesTrack' /\ MemoryTracks' /\ DocumentsKept'
        BY <1>5, <2>2, <2>3, <2>4
           DEF ReplayInv, StoreInv, FilesTrack, MemoryTracks, DocumentsKept,
               Running
    <2>6. ClientInv'
        BY <1>5 DEF ReplayInv, ClientInv, Known, Applied, UnfinishedOwned
    <2> QED
        BY <1>1, <2>1, <2>5, <2>6 DEF ReplayInv, StoreInv
<1> QED
    BY <1>2, <1>3, <1>4, <1>5, CrashReplay, CloseReplay, OpenReplay,
       OpenFailsReplay DEF Next

\* It holds of an empty index.
LEMMA InitReplay == Init => ReplayInv
<1> SUFFICES ASSUME Init PROVE ReplayInv
    OBVIOUS
<1>1. LogInv
    BY InitCover DEF Init, LogInv, LogIsSuffix, SeqsDistinct, Published,
                     Running
<1>2. StopInv
    BY InitType DEF Init, StopInv, IdLocked, FailureStops, HoldsId
<1>3. history = {} /\ wal = {} /\ ~Running /\ lexDisk = {} /\ vecDisk = {}
    BY DEF Init, Running
<1>4. RecordInv
    BY <1>3 DEF RecordInv, LostHaveFailed, DocsNumbered, ClosedBelow,
                RecordsOrdered, AddedOnce, KilledOnce, Superseded
<1>5. FilesTrack
    BY <1>3 DEF FilesTrack, Tracks, Durable, AddsOf
<1>6. MemoryTracks /\ DocumentsKept
    BY <1>3 DEF MemoryTracks, DocumentsKept
<1>7. \A c \in Clients : pc[c] = "idle"
    BY DEF Init
<1>8. ClientInv
    BY <1>3, <1>7 DEF ClientInv, Applying, UnfinishedOwned
<1> QED
    BY <1>1, <1>2, <1>4, <1>5, <1>6, <1>8 DEF ReplayInv, StoreInv

\* Memory and files follow the history up to the pending records, whatever
\* fails or crashes, where writes go through to the disk (engine.rs,
\* write_put, write_delete, run_commit_ladder, recover).
THEOREM ReplayInvariant ==
    ASSUME WritesThrough
    PROVE  Spec => []ReplayInv
<1>1. ReplayInv /\ [Next]_vars => ReplayInv'
    BY NextReplay
<1> QED
    BY <1>1, InitReplay, PTL DEF Spec

=============================================================================
