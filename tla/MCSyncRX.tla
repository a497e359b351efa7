------------------------------- MODULE MCSyncRX -------------------------------
(* Small instances of SyncRX for TLC.                                      *)
EXTENDS SyncRX
===============================================================================
