---------------------------- MODULE MCSyncClient ----------------------------
(***************************************************************************)
(* Instances of SyncClient for TLC.                                        *)
(***************************************************************************)
EXTENDS SyncClient, TLC
=============================================================================
