----------------------------- MODULE DurableLog -----------------------------
(***************************************************************************)
(* What a write-ahead log owes the engine that appends to it, without      *)
(* files, buffers or fsyncs.  Records are numbered.  A record is stored    *)
(* once appended and owed once the log has said it is durable; a crash may *)
(* take away the last stored records but none that is owed.  The engine    *)
(* releases the records that its stores' checkpoints cover.                *)
(***************************************************************************)
EXTENDS Naturals

VARIABLES
    stored,   \* the records above the checkpoint that an open would read
    owed,     \* the records above the checkpoint that it must read
    released  \* the checkpoint

logVars == <<stored, owed, released>>

Init == stored \in SUBSET Nat /\ owed = {} /\ released = 0

\* An append may make its record, and those before it, durable at once.
Write ==
    /\ \E r \in stored' :
           /\ r > released
           /\ \A s \in stored : s < r
           /\ stored' = stored \cup {r}
    /\ owed \subseteq owed'
    /\ owed' \subseteq stored'
    /\ UNCHANGED released

Promise ==
    /\ owed \subseteq owed'
    /\ owed' \subseteq stored
    /\ UNCHANGED <<stored, released>>

Release ==
    /\ released' > released
    /\ stored' = {r \in stored : r > released'}
    /\ owed' = {r \in owed : r > released'}

\* A crash: what is left is a prefix.
Lose ==
    /\ owed \subseteq stored'
    /\ stored' \subseteq stored
    /\ \A r \in stored', s \in stored : s < r => s \in stored'
    /\ UNCHANGED <<owed, released>>

Next == Write \/ Promise \/ Release \/ Lose

Spec == Init /\ [][Next]_logVars

=============================================================================
