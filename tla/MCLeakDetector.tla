---------------------------- MODULE MCLeakDetector ----------------------------
(* Small instances of LeakDetector for TLC. *)
EXTENDS LeakDetector, TLC

\* Buffer objects and leak objects are interchangeable; used for safety only.
Symmetry == Permutations(Bo) \cup Permutations(LeakObj)
=============================================================================
