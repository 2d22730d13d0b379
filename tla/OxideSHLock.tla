---------------------------- MODULE OxideSHLock ----------------------------
(***************************************************************************)
(* The lock of the Rust port, crates/calibre_db/src/locking.rs, with       *)
(* threads that hold it through the guards SafeReadLock and SafeWriteLock. *)
(* Unlike the lock it ports there is one Condvar, which wakes everybody,   *)
(* and no queue; a wrong call panics while the internal mutex is held,     *)
(* which poisons the mutex.  A section under the mutex is one action.      *)
(***************************************************************************)
EXTENDS Naturals, FiniteSets

CONSTANTS Thread,
          NoThread,        \* exclusive_owner = None
          MaxGuards        \* bound: guards a thread keeps at a time

ASSUME ThreadAssumption == NoThread \notin Thread
ASSUME MaxGuardsAssumption == MaxGuards \in Nat \ {0}

VARIABLES
    shared_owners,         \* 0 for an absent key
    exclusive_owner,
    exclusive_count,
    poisoned,              \* a thread panicked while it held the mutex
    aborted,               \* the process has ended
    asleep,                \* threads inside cond.wait()
    pc,                    \* what each thread is doing
    reads, writes          \* the guards each thread keeps

lockVars == <<shared_owners, exclusive_owner, exclusive_count>>
guardVars == <<reads, writes>>
vars == <<lockVars, poisoned, aborted, asleep, pc, guardVars>>

Wait == {"shared", "exclusive"}
Waiting(t) == pc[t] \in Wait

TypeOK ==
    /\ shared_owners \in [Thread -> Nat]
    /\ exclusive_owner \in Thread \cup {NoThread}
    /\ exclusive_count \in Nat
    /\ poisoned \in BOOLEAN
    /\ aborted \in BOOLEAN
    /\ asleep \subseteq {t \in Thread : Waiting(t)}
    /\ pc \in [Thread -> {"run", "shared", "exclusive", "unwind", "dead"}]
    /\ reads \in [Thread -> Nat]
    /\ writes \in [Thread -> Nat]

Init ==
    /\ shared_owners = [t \in Thread |-> 0]
    /\ exclusive_owner = NoThread
    /\ exclusive_count = 0
    /\ poisoned = FALSE
    /\ aborted = FALSE
    /\ asleep = {}
    /\ pc = [t \in Thread |-> "run"]
    /\ reads = [t \in Thread |-> 0]
    /\ writes = [t \in Thread |-> 0]

NoReaders == \A u \in Thread : shared_owners[u] = 0

-----------------------------------------------------------------------------
(* Making a guard: new() calls acquire_shared() or acquire_exclusive().    *)
Call(t, mode) ==
    /\ ~aborted
    /\ pc[t] = "run"
    /\ reads[t] + writes[t] < MaxGuards
    /\ pc' = [pc EXCEPT ![t] = mode]
    /\ UNCHANGED <<lockVars, poisoned, aborted, asleep, guardVars>>

(* The thread has the mutex, at the call or back from cond.wait().         *)
InLoop(t, mode) == ~aborted /\ ~poisoned /\ pc[t] = mode /\ t \notin asleep

(* Mutant: a reader takes no notice of a writer.                           *)
TakeSharedAnyway(t) ==
    /\ InLoop(t, "shared")
    /\ exclusive_owner # t
    /\ shared_owners' = [shared_owners EXCEPT ![t] = @ + 1]
    /\ reads' = [reads EXCEPT ![t] = @ + 1]
    /\ pc' = [pc EXCEPT ![t] = "run"]
    /\ UNCHANGED <<exclusive_owner, exclusive_count, poisoned, aborted, asleep, writes>>

TakeShared(t) ==
    /\ InLoop(t, "shared")
    /\ exclusive_owner = NoThread
    /\ shared_owners' = [shared_owners EXCEPT ![t] = @ + 1]
    /\ reads' = [reads EXCEPT ![t] = @ + 1]
    /\ pc' = [pc EXCEPT ![t] = "run"]
    /\ UNCHANGED <<exclusive_owner, exclusive_count, poisoned, aborted, asleep, writes>>

(* Mutant: the thread's own guards are counted from the start again.       *)
TakeExclusiveCountsOne(t) ==
    /\ InLoop(t, "exclusive")
    /\ exclusive_owner = t \/ (exclusive_owner = NoThread /\ NoReaders)
    /\ exclusive_owner' = t
    /\ exclusive_count' = 1
    /\ writes' = [writes EXCEPT ![t] = @ + 1]
    /\ pc' = [pc EXCEPT ![t] = "run"]
    /\ UNCHANGED <<shared_owners, poisoned, aborted, asleep, reads>>

TakeExclusive(t) ==
    /\ InLoop(t, "exclusive")
    /\ exclusive_owner = t \/ (exclusive_owner = NoThread /\ NoReaders)
    /\ exclusive_owner' = t
    /\ exclusive_count' = exclusive_count + 1
    /\ writes' = [writes EXCEPT ![t] = @ + 1]
    /\ pc' = [pc EXCEPT ![t] = "run"]
    /\ UNCHANGED <<shared_owners, poisoned, aborted, asleep, reads>>

(* Mutant: whoever the writer is.                                          *)
MisusedUnderAnyWriter(t) ==
    \/ pc[t] = "shared" /\ exclusive_owner # NoThread
    \/ pc[t] = "exclusive" /\ exclusive_owner = NoThread /\ shared_owners[t] > 0

(* A read guard asked for under a write guard, or the other way round.     *)
Misused(t) ==
    \/ pc[t] = "shared" /\ exclusive_owner = t
    \/ pc[t] = "exclusive" /\ exclusive_owner = NoThread /\ shared_owners[t] > 0

(* panic! with the MutexGuard in scope.                                    *)
Panic(t) ==
    /\ \E mode \in Wait : InLoop(t, mode)
    /\ Misused(t)
    /\ poisoned' = TRUE
    /\ pc' = [pc EXCEPT ![t] = "unwind"]
    /\ UNCHANGED <<lockVars, aborted, asleep, guardVars>>

MustWait(t) ==
    /\ ~Misused(t)
    /\ \/ exclusive_owner \notin {NoThread, t}
       \/ pc[t] = "exclusive" /\ exclusive_owner = NoThread /\ ~NoReaders

Sleep(t) ==
    /\ \E mode \in Wait : InLoop(t, mode)
    /\ MustWait(t)
    /\ asleep' = asleep \cup {t}
    /\ UNCHANGED <<lockVars, poisoned, aborted, pc, guardVars>>

(* A Condvar may wake a thread for no reason.                              *)
SpuriousWakeup(t) ==
    /\ ~aborted
    /\ t \in asleep
    /\ asleep' = asleep \ {t}
    /\ UNCHANGED <<lockVars, poisoned, aborted, pc, guardVars>>

-----------------------------------------------------------------------------
(* Dropping a guard.  That the lock is held in the guard's mode is a guard *)
(* of these steps, since it always is (CountsMatchGuards): the panic for a *)
(* lock that is not is out of reach of guards.                             *)

(* Mutant: whoever has been the last reader does not tell.                 *)
DropReadSilently(t) ==
    /\ ~aborted /\ ~poisoned
    /\ pc[t] = "run"
    /\ reads[t] > 0
    /\ shared_owners[t] > 0
    /\ shared_owners' = [shared_owners EXCEPT ![t] = @ - 1]
    /\ reads' = [reads EXCEPT ![t] = @ - 1]
    /\ UNCHANGED <<exclusive_owner, exclusive_count, poisoned, aborted, asleep, pc, writes>>

(* release_shared(): notify_all() when the last reader is gone.            *)
DropRead(t) ==
    /\ ~aborted /\ ~poisoned
    /\ pc[t] = "run"
    /\ reads[t] > 0
    /\ shared_owners[t] > 0
    /\ shared_owners' = [shared_owners EXCEPT ![t] = @ - 1]
    /\ asleep' = IF \A u \in Thread : shared_owners'[u] = 0 THEN {} ELSE asleep
    /\ reads' = [reads EXCEPT ![t] = @ - 1]
    /\ UNCHANGED <<exclusive_owner, exclusive_count, poisoned, aborted, pc, writes>>

(* Mutant: notify_one() that finds a writer to wake.                       *)
DropWriteWakesOne(t) ==
    /\ ~aborted /\ ~poisoned
    /\ pc[t] = "run"
    /\ writes[t] > 0
    /\ exclusive_owner = t
    /\ exclusive_count' = exclusive_count - 1
    /\ exclusive_owner' = IF exclusive_count = 1 THEN NoThread ELSE t
    /\ IF exclusive_count = 1 /\ asleep # {}
       THEN \E u \in asleep : asleep' = asleep \ {u}
       ELSE UNCHANGED asleep
    /\ writes' = [writes EXCEPT ![t] = @ - 1]
    /\ UNCHANGED <<shared_owners, poisoned, aborted, pc, reads>>

(* release_exclusive(): notify_all() when the count is back to zero.       *)
DropWrite(t) ==
    /\ ~aborted /\ ~poisoned
    /\ pc[t] = "run"
    /\ writes[t] > 0
    /\ exclusive_owner = t
    /\ exclusive_count' = exclusive_count - 1
    /\ exclusive_owner' = IF exclusive_count = 1 THEN NoThread ELSE t
    /\ asleep' = IF exclusive_count = 1 THEN {} ELSE asleep
    /\ writes' = [writes EXCEPT ![t] = @ - 1]
    /\ UNCHANGED <<shared_owners, poisoned, aborted, pc, reads>>

-----------------------------------------------------------------------------
(* After a panic.                                                          *)

(* lock().unwrap() and wait().unwrap() panic on a poisoned mutex, at the   *)
(* next call or inside the drop of a guard, which is then gone.            *)
MeetPoison(t) ==
    /\ ~aborted /\ poisoned
    /\ pc[t] \in {"run", "shared", "exclusive"} /\ t \notin asleep
    /\ \/ Waiting(t) /\ UNCHANGED guardVars
       \/ /\ pc[t] = "run" /\ reads[t] > 0
          /\ reads' = [reads EXCEPT ![t] = @ - 1]
          /\ UNCHANGED writes
       \/ /\ pc[t] = "run" /\ writes[t] > 0
          /\ writes' = [writes EXCEPT ![t] = @ - 1]
          /\ UNCHANGED reads
    /\ pc' = [pc EXCEPT ![t] = "unwind"]
    /\ UNCHANGED <<lockVars, poisoned, aborted, asleep>>

(* Unwinding drops the guards that are left.  The first one panics as well *)
(* and a second panic ends the process; with none left the thread ends.    *)
Unwind(t) ==
    /\ ~aborted
    /\ pc[t] = "unwind"
    /\ IF reads[t] + writes[t] > 0
       THEN aborted' = TRUE /\ UNCHANGED pc
       ELSE pc' = [pc EXCEPT ![t] = "dead"] /\ UNCHANGED aborted
    /\ UNCHANGED <<lockVars, poisoned, asleep, guardVars>>

-----------------------------------------------------------------------------
Iterate(t) == TakeShared(t) \/ TakeExclusive(t) \/ Panic(t) \/ Sleep(t)
Drop(t) == DropRead(t) \/ DropWrite(t)

Next == \E t \in Thread :
    \/ \E mode \in Wait : Call(t, mode)
    \/ Iterate(t) \/ SpuriousWakeup(t)
    \/ Drop(t)
    \/ MeetPoison(t) \/ Unwind(t)

Spec == Init /\ [][Next]_vars

(* Threads are scheduled and scopes end.  Nothing is assumed of who gets   *)
(* the mutex first after notify_all().                                     *)
Fairness == \A t \in Thread : WF_vars(Iterate(t)) /\ WF_vars(Drop(t)) /\ WF_vars(Unwind(t))

FairSpec == Spec /\ Fairness

-----------------------------------------------------------------------------
(* Properties.                                                             *)

(* Until something panics the lock's counts are those of the guards, the   *)
(* owner is the only thread with a guard, and release() finds its lock,    *)
(* so that its panic for an unheld lock never comes.                       *)
CountsMatchGuards ==
    ~poisoned =>
        /\ shared_owners = reads
        /\ exclusive_owner = NoThread => exclusive_count = 0 /\ \A t \in Thread : writes[t] = 0
        /\ exclusive_owner # NoThread =>
              /\ exclusive_count = writes[exclusive_owner] /\ exclusive_count > 0
              /\ \A t \in Thread : reads[t] = 0
              /\ \A t \in Thread \ {exclusive_owner} : writes[t] = 0

(* Whoever sleeps has another thread to wait for, which holds the lock now *)
(* and will tell: no wakeup is lost and no thread waits for itself.        *)
NoLostWakeup ==
    \A t \in asleep :
        \/ poisoned
        \/ \E u \in Thread \ {t} : \/ writes[u] > 0
                                   \/ pc[t] = "exclusive" /\ reads[u] > 0

(* A panic in the lock always ends the process: the thread that panics has *)
(* a guard to drop, whose drop panics again.  So no thread is left asleep  *)
(* on a lock whose owner is gone.                                          *)
PanicEndsProcess ==
    poisoned => aborted \/ \E t \in Thread : pc[t] = "unwind" /\ reads[t] + writes[t] > 0

(* What makes them inductive: a thread with a guard is never put to sleep. *)
SleepersHoldNothing == \A t \in asleep : reads[t] = 0 /\ writes[t] = 0

IInv ==
    /\ TypeOK
    /\ CountsMatchGuards
    /\ SleepersHoldNothing
    /\ NoLostWakeup
    /\ PanicEndsProcess

(* The guards keep the contract of the lock that was ported.               *)
RW == INSTANCE RWLock WITH reads <- reads, writes <- writes
Contract == RW!Spec

(* A thread that waits to read gets in once no more writers come, although *)
(* nothing keeps its place in a queue while they do.                       *)
ReadersGetIn ==
    \A t \in Thread : <>[](exclusive_owner = NoThread) => []<>(pc[t] # "shared" \/ aborted)
=============================================================================
