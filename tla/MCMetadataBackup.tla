-------------------------- MODULE MCMetadataBackup --------------------------
(***************************************************************************)
(* Small instances of MetadataBackup for TLC.                              *)
(***************************************************************************)
EXTENDS MetadataBackup
=============================================================================
