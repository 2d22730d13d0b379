-------------------------- MODULE MCLibraryBroker --------------------------
(* Instances of LibraryBroker for TLC.                                     *)
EXTENDS LibraryBroker, TLC

Symmetry == Permutations(Library) \cup Permutations(Handler)
=============================================================================
