------------------------- MODULE MCCommitGeneration -------------------------
(* CommitGeneration for TLC. *)
EXTENDS CommitGeneration

=============================================================================
