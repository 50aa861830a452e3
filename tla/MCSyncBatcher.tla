---------------------------- MODULE MCSyncBatcher ----------------------------
(* Instances of SyncBatcher for TLC.                                       *)
EXTENDS SyncBatcher

CONSTANTS b0, b1, b2

MCBytes == {b0, b1, b2}
=============================================================================
