--------------------------- MODULE MCJobsManager ---------------------------
(* Small instances of JobsManager for TLC.                                 *)
EXTENDS JobsManager
=============================================================================
