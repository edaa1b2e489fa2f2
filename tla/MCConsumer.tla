----------------------------- MODULE MCConsumer -----------------------------
(* Small instances of MessageConsumer.                                     *)
EXTENDS MessageConsumer, TLC
=============================================================================
