------------------------------ MODULE MCSHLock ------------------------------
(***************************************************************************)
(* Small instances of SHLock for TLC.                                      *)
(***************************************************************************)
EXTENDS SHLock
=============================================================================
