---------------------------- MODULE MCBookServer ----------------------------
(* Small instances of BookServer for TLC.                                  *)
EXTENDS BookServer
=============================================================================
