-------------------------- MODULE MCVectorSegments --------------------------
(* VectorSegments for TLC. *)
EXTENDS VectorSegments

=============================================================================
