--------------------------- MODULE MCCrdtDocStore ---------------------------
(* Instances of CrdtDocStore for TLC. *)
EXTENDS CrdtDocStore, TLC

\* Pages, connections, ops and bodies are interchangeable; for safety only.
Symmetry ==
  Permutations(Pages) \cup Permutations(Conns) \cup Permutations(Ops)
    \cup Permutations(Bodies)
=============================================================================
