--------------------------- MODULE MCAsyncClient ----------------------------
(***************************************************************************)
(* Instances of AsyncClient for TLC.                                       *)
(***************************************************************************)
EXTENDS AsyncClient, TLC

TokenSymmetry ==
  Permutations(User) \cup Permutations(Library) \cup Permutations(Token)
=============================================================================
