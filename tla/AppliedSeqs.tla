---------------------------- MODULE AppliedSeqs ----------------------------
(***************************************************************************)
(* The write-ahead-log sequence numbers whose mutation has finished        *)
(* applying (engine/applied_seqs.rs).  Mutations of different ids finish   *)
(* in any order; a commit may truncate the log and checkpoint the stores   *)
(* only through the watermark, the highest number at or below which every  *)
(* mutation finished.                                                      *)
(*                                                                         *)
(* The module has no specification of its own: Engine takes Finish and     *)
(* RaiseTo as steps of its actions, each one critical section of the       *)
(* struct's mutex.                                                         *)
(***************************************************************************)
EXTENDS Integers

VARIABLES
    watermark,      \* every sequence number at or below this one finished
    finishedAbove   \* finished numbers waiting for a gap below them to close

appliedVars == <<watermark, finishedAbove>>

AppliedInit == watermark = 0 /\ finishedAbove = {}

\* The watermark jumps to the number given, and no further.
AbsorbNothing(base) ==
    /\ watermark' = base
    /\ finishedAbove' = {m \in finishedAbove : m > base}

\* The watermark moves to base, and on through every finished number that
\* continues it without a gap.
AbsorbContiguous(base) ==
    \E end \in {base} \cup finishedAbove :
        /\ end >= base
        /\ \A m \in (base + 1)..end : m \in finishedAbove
        /\ end + 1 \notin finishedAbove
        /\ watermark' = end
        /\ finishedAbove' = {m \in finishedAbove : m > end}

\* The watermark follows the highest finished number, across the gaps.
FinishHighest(seq) ==
    /\ watermark' = IF seq > watermark THEN seq ELSE watermark
    /\ UNCHANGED finishedAbove

\* Every finished number waits for a gap below it, the next one too.
FinishWaits(seq) ==
    /\ finishedAbove' = finishedAbove \cup {seq}
    /\ UNCHANGED watermark

\* The mutation of record seq finished applying to both stores.
Finish(seq) ==
    \/ /\ seq = watermark + 1
       /\ AbsorbContiguous(seq)
    \/ /\ seq > watermark + 1
       /\ finishedAbove' = finishedAbove \cup {seq}
       /\ UNCHANGED watermark
    \/ /\ seq <= watermark
       /\ UNCHANGED appliedVars

\* Everything at or below seq is in both stores (recovery only).
RaiseTo(seq) ==
    IF seq > watermark THEN AbsorbContiguous(seq) ELSE UNCHANGED appliedVars

=============================================================================
