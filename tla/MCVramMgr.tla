----------------------------- MODULE MCVramMgr -----------------------------
(* Small instances of VramMgr for TLC. *)
EXTENDS VramMgr, TLC

\* Resources and blocks are interchangeable (the callers differ in type); used for safety only.
Symmetry == Permutations(Vres) \cup Permutations(Block)
=============================================================================
