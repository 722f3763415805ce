---------------------------- MODULE MCUsageStats ----------------------------
(* A small instance of UsageStats for TLC. *)
EXTENDS UsageStats, TLC

\* Buffer objects are interchangeable: their sizes are chosen by Init.
Symmetry == Permutations(Bo)
=============================================================================
