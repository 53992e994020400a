--------------------------- MODULE MCDocumentLog ---------------------------
(* DocumentLog for TLC. *)
EXTENDS DocumentLog

BothPolicies == {"PerRecord", "Group"}
BothCrashes == {"process", "power"}
AllFaults == {"append", "sync", "rewrite", "wipe"}

=============================================================================
