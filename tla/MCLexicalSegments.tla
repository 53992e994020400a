------------------------- MODULE MCLexicalSegments -------------------------
(* LexicalSegments for TLC, with the symmetry of the ids. *)
EXTENDS LexicalSegments, TLC

IdSymmetry == Permutations(Ids)

=============================================================================
