----------------------------- MODULE MCEngine -------------------------------
(***************************************************************************)
(* Model values and symmetry for TLC's runs of Engine.                     *)
(***************************************************************************)
EXTENDS Engine, TLC

\* Clients, ids and ladders are interchangeable: no definition singles one
\* out.
Symmetry == Permutations(Clients) \cup Permutations(Ids)
                \cup Permutations(Ladders)

=============================================================================
