------------------------------ MODULE MCGttMgr ------------------------------
(* Small instances of GttMgr for TLC. *)
EXTENDS GttMgr, TLC

\* Buffer objects are interchangeable; used for safety only.
Symmetry == Permutations(Bo)
=============================================================================
