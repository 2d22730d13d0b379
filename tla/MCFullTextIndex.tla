-------------------------- MODULE MCFullTextIndex --------------------------
(***************************************************************************)
(* Small instances of FullTextIndex for TLC: the contents in Blank have no *)
(* text, those in Alike the same one, and each of the others one of its    *)
(* own.                                                                    *)
(***************************************************************************)
EXTENDS FullTextIndex

CONSTANTS Blank, Alike

MCTextOf == [c \in Content |->
                IF c \in Blank THEN None
                ELSE IF c \in Alike THEN CHOOSE d \in Alike : TRUE ELSE c]

Symmetry == Permutations(Worker)
=============================================================================
