------------------------------- MODULE MCBup --------------------------------
(***************************************************************************)
(* Instances of BupSystem for TLC.                                         *)
(***************************************************************************)
EXTENDS BupSystem, TLC

CONSTANTS c1, c2, u1, w1, h1, h2

UserOnly    == {<<u1>>}          \* the user name alone
UserAndPwd  == {<<u1, w1>>}      \* what the prompt asks for
BothLines   == UserOnly \cup UserAndPwd
\* The client is started for either of two user names.
TwoUsers    == {<<u1>>, <<w1>>} \cup UserAndPwd

AllKeyFiles == Client \X Word
NoKeyFile   == {}

HandlerSymmetry == Permutations(Handler)
=============================================================================
