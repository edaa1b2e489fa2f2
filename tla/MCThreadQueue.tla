--------------------------- MODULE MCThreadQueue ----------------------------
(***************************************************************************)
(* Instances of ThreadQueue for TLC.                                       *)
(***************************************************************************)
EXTENDS ThreadQueue, TLC

QueueSymmetry ==
  Permutations(Reader) \cup Permutations(Writer) \cup Permutations(Item)
=============================================================================
