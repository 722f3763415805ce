------------------------------ MODULE MCGemBo -------------------------------
(* Small instances of GemBo for TLC. *)
EXTENDS GemBo, TLC

\* VRAM with the GTT to fall back to, and system memory alone.
Requests == {[domain |-> {"VRAM", "GTT"}, size |-> 1],
             [domain |-> {"VRAM"}, size |-> 2],
             [domain |-> {"CPU"}, size |-> 1]}

\* Structures and threads are interchangeable; used for safety only.
Symmetry == Permutations(Bo) \cup Permutations(Task)
=============================================================================
