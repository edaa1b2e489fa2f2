----------------------------- MODULE MCOptions ------------------------------
(* Small instances of Options.                                             *)
EXTENDS Options, TLC

\* Addresses and blocks are interchangeable.
Symmetric == Permutations(Object) \cup Permutations(Block)

\* At most m objects of class a and n of class b, together with what more names.
With(a, m, b, n, more) ==
  [c \in Class \cup {"token", "buffer"} |->
     IF c = a THEN m ELSE IF c = b THEN n ELSE IF c \in more THEN 1 ELSE 0]

Scenarios ==
  {With("will", 1, "connect", 2, {}), With("will", 2, "list", 1, {}),
   With("will", 2, "message", 1, {}), With("ssl", 1, "connect", 2, {}),
   With("ssl", 2, "will", 0, {}), With("connect", 1, "message", 1, {}),
   With("connect", 2, "list", 1, {}),
   With("connect", 2, "strings", 1, {}), With("connect", 3, "will", 0, {"token"}),
   With("connect", 2, "will", 0, {"buffer"}), With("message", 2, "list", 1, {}),
   With("disconnect", 2, "list", 2, {"token"}), With("list", 2, "property", 1, {}),
   With("list", 1, "property", 2, {}), With("strings", 3, "will", 0, {}),
   With("response", 2, "will", 0, {})}
=============================================================================
