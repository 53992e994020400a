-------------------------- MODULE MCSchemaChanges --------------------------
(* SchemaChanges for TLC. *)
EXTENDS SchemaChanges, TLC

Symmetry == Permutations(Fields) \cup Permutations(Dims)

=============================================================================
