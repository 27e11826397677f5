---------------------------- MODULE MCVaultIndex ----------------------------
(* The instance of VaultIndex for TLC: a page with an SPL block under a     *)
(* heading, and what an editor makes of it: a typed link for the prose; the *)
(* same words with the predicate in bold, which is no typed link, and a     *)
(* blank line before the block; a section with a block that does not parse  *)
(* before it.                                                               *)
EXTENDS VaultIndex, TLC

CONSTANTS para, typedLink, bold, rule, broken

Heading(l) == [kind |-> "head", level |-> l]
Says(t)    == [kind |-> "prose", text |-> t]
Logic(r)   == [kind |-> "spl", logic |-> r]

MCTexts ==
  {<<Heading(1), Says(para), Logic(rule)>>,
   <<Heading(1), Says(typedLink), Logic(rule)>>,
   <<Heading(1), Says(bold), Blank, Logic(rule)>>,
   <<Heading(1), Heading(2), Logic(broken), Heading(1), Says(para), Logic(rule)>>}

\* Bold type is not hashed.
MCSaid == [t \in Prose |-> IF t = bold THEN typedLink ELSE t]

Symmetry == Permutations(Procs)
=============================================================================
