------------------------------- MODULE MCSyncTX -------------------------------
(* Small instances of SyncTX for TLC.                                      *)
EXTENDS SyncTX
===============================================================================
