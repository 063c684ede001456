----------------------------- MODULE MCSession -----------------------------
(* Persistent sessions on small sets, for TLC. *)
EXTENDS Session, TLC

(* Processes, files and snapshot names are interchangeable; the properties
   checked with this symmetry are safety properties. *)
Symmetry ==
  Permutations(Procs) \cup Permutations(Files) \cup Permutations(Snapshots)
=============================================================================
