------------------------------- MODULE RWLock -------------------------------
(***************************************************************************)
(* What the pair of locks made by create_locks() (db/locking.py) promises  *)
(* to the code that uses them in with statements: how many read blocks and *)
(* how many write blocks each thread is inside.  Nothing here waits: a     *)
(* thread that must wait has simply not entered its block yet.             *)
(***************************************************************************)
EXTENDS Naturals

CONSTANT Thread            \* the threads of the process

VARIABLES reads,           \* reads[t]: read blocks thread t is inside
          writes           \* writes[t]: write blocks thread t is inside

vars == <<reads, writes>>

TypeOK ==
    /\ reads \in [Thread -> Nat]
    /\ writes \in [Thread -> Nat]

Init ==
    /\ reads = [t \in Thread |-> 0]
    /\ writes = [t \in Thread |-> 0]

(* "While the write_lock is held no other threads can acquire read locks"; *)
(* and a thread may not ask for a read lock while it holds the write lock. *)
EnterRead(t) ==
    /\ \A u \in Thread : writes[u] = 0
    /\ reads' = [reads EXCEPT ![t] = @ + 1]
    /\ UNCHANGED writes

(* "Only one thread can hold write_lock at a time, and only if there are   *)
(* no current read_locks"; it "can also be acquired multiple times by the  *)
(* same thread".                                                           *)
EnterWrite(t) ==
    /\ \A u \in Thread : reads[u] = 0
    /\ \A u \in Thread \ {t} : writes[u] = 0
    /\ writes' = [writes EXCEPT ![t] = @ + 1]
    /\ UNCHANGED reads

ExitRead(t) ==
    /\ reads[t] > 0
    /\ reads' = [reads EXCEPT ![t] = @ - 1]
    /\ UNCHANGED writes

ExitWrite(t) ==
    /\ writes[t] > 0
    /\ writes' = [writes EXCEPT ![t] = @ - 1]
    /\ UNCHANGED reads

Next == \E t \in Thread :
            EnterRead(t) \/ EnterWrite(t) \/ ExitRead(t) \/ ExitWrite(t)

Spec == Init /\ [][Next]_vars
=============================================================================
