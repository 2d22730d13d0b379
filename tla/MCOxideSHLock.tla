--------------------------- MODULE MCOxideSHLock ---------------------------
(* Three threads are the least with which one is woken by another and      *)
(* finds that a third has taken the lock before it.                        *)
EXTENDS OxideSHLock

CONSTANTS t1, t2, t3
MCThread == {t1, t2, t3}
=============================================================================
