--------------------------- MODULE MCPageWriters ---------------------------
(* Instances of PageWriters for TLC. *)
EXTENDS PageWriters, TLC

\* Connections, ops, bodies and requests are interchangeable, and so are
\* pages when all of them, or none, are spelled like their slug; for safety only.
PagesSymmetry ==
  Permutations(Pages) \cup Permutations(Conns) \cup Permutations(Ops)
    \cup Permutations(Bodies) \cup Permutations(Saves)
=============================================================================
