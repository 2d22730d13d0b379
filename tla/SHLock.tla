------------------------------- MODULE SHLock -------------------------------
(***************************************************************************)
(* The reader-writer lock of the library database, class SHLock of         *)
(* db/locking.py, with the clients that use it: threads inside nested with *)
(* blocks on the read lock, the write lock (RWLockWrapper) or a            *)
(* SafeReadLock.  Each critical section under the internal mutex _lock is  *)
(* one action; Condition.wait() gives the mutex up, so a call that waits   *)
(* is two actions (the call, then Resume), and the thread that releases    *)
(* hands the lock over in between.                                         *)
(*                                                                         *)
(* A waiter Condition is a number.  _free_waiters is a set here (which     *)
(* spare Condition is reused does not matter, only that it is spare).      *)
(***************************************************************************)
EXTENDS Naturals, Sequences, FiniteSets

CONSTANTS Thread,          \* the threads of the process
          NoThread,        \* _exclusive_owner = None
          MaxCalls         \* bound: acquire calls within one outermost with block

ASSUME ThreadAssumption == IsFiniteSet(Thread) /\ NoThread \notin Thread
ASSUME MaxCallsAssumption == MaxCalls \in Nat \ {0}

VARIABLES
    is_shared,             \* cumulative number of shared locks held
    shared_owners,         \* shared locks per thread, 0 for an absent key
    is_exclusive,          \* number of exclusive locks held
    exclusive_owner,
    shared_queue,          \* set of <<thread, waiter>>
    exclusive_queue,       \* sequence of <<thread, waiter>>
    free_waiters,          \* Conditions kept for reuse
    made,                  \* Conditions created so far are 1..made
    waiter,                \* waiter[t]: the Condition t took, 0 for none
    asleep,                \* threads inside Condition.wait(), not notified
    pc,                    \* what each thread is doing
    stack,                 \* the with blocks each thread is inside
    calls                  \* acquire calls since the thread held nothing

lockVars == <<is_shared, shared_owners, is_exclusive, exclusive_owner>>
queueVars == <<shared_queue, exclusive_queue>>
waiterVars == <<free_waiters, made, waiter>>
vars == <<lockVars, queueVars, waiterVars, asleep, pc, stack, calls>>

(* A with block on the read or the write lock, or the body of a            *)
(* SafeReadLock (or of a wrap_simple read function) that found the thread  *)
(* already holding the write lock and took no lock.                        *)
Block == {"read", "write", "noop"}
Status == {"run", "raise", "waitS", "waitX"}
Waiting(t) == pc[t] \in {"waitS", "waitX"}

TypeOK ==
    /\ is_shared \in Nat
    /\ shared_owners \in [Thread -> Nat]
    /\ is_exclusive \in Nat
    /\ exclusive_owner \in Thread \cup {NoThread}
    /\ shared_queue \subseteq Thread \X (1..made)
    /\ exclusive_queue \in Seq(Thread \X (1..made))
    /\ made \in Nat
    /\ free_waiters \subseteq 1..made
    /\ waiter \in [Thread -> 0..made]
    /\ asleep \subseteq Thread
    /\ pc \in [Thread -> Status]
    /\ stack \in [Thread -> Seq(Block)]
    /\ calls \in [Thread -> 0..MaxCalls]

Init ==
    /\ is_shared = 0
    /\ shared_owners = [t \in Thread |-> 0]
    /\ is_exclusive = 0
    /\ exclusive_owner = NoThread
    /\ shared_queue = {}
    /\ exclusive_queue = <<>>
    /\ made = 0
    /\ free_waiters = {}
    /\ waiter = [t \in Thread |-> 0]
    /\ asleep = {}
    /\ pc = [t \in Thread |-> "run"]
    /\ stack = [t \in Thread |-> <<>>]
    /\ calls = [t \in Thread |-> 0]

-----------------------------------------------------------------------------
(* The thread's side of a call.                                            *)

Call(t) ==
    /\ pc[t] = "run"
    /\ calls[t] < MaxCalls
    /\ calls' = [calls EXCEPT ![t] = @ + 1]

Enter(t, block) == stack' = [stack EXCEPT ![t] = Append(@, block)]

(* acquire() returns at once and the thread enters its block.              *)
Granted(t, block) ==
    /\ Enter(t, block)
    /\ UNCHANGED <<queueVars, waiterVars, asleep, pc>>

(* acquire() raises: every with block the thread is inside is left.        *)
Raises(t) ==
    /\ pc' = [pc EXCEPT ![t] = "raise"]
    /\ UNCHANGED <<lockVars, queueVars, waiterVars, asleep, stack>>

(* _take_waiter(): a spare Condition, or a new one when there is none.     *)
TakeWaiter(t, w) ==
    /\ waiter' = [waiter EXCEPT ![t] = w]
    /\ \/ w \in free_waiters /\ free_waiters' = free_waiters \ {w} /\ UNCHANGED made
       \/ free_waiters = {} /\ w = made + 1 /\ made' = w /\ UNCHANGED free_waiters

(* The queue entry is made and wait() releases the mutex.                  *)
Sleep(t, status) ==
    /\ asleep' = asleep \cup {t}
    /\ pc' = [pc EXCEPT ![t] = status]
    /\ UNCHANGED <<lockVars, stack>>

-----------------------------------------------------------------------------
(* _acquire_shared()                                                       *)

OwnsShared(t) == is_shared > 0 /\ shared_owners[t] > 0

(* Mutant: a queued writer does not stop readers.                          *)
SpokenForOnlyHeld == is_exclusive > 0
SpokenFor == is_exclusive > 0 \/ exclusive_queue # <<>>

AddShared(t) ==
    /\ is_shared' = is_shared + 1
    /\ shared_owners' = [shared_owners EXCEPT ![t] = @ + 1]
    /\ UNCHANGED <<is_exclusive, exclusive_owner>>

ReenterRead(t) ==
    /\ Call(t)
    /\ OwnsShared(t)
    /\ AddShared(t)
    /\ Granted(t, "read")

TakeRead(t) ==
    /\ Call(t)
    /\ ~OwnsShared(t)
    /\ ~SpokenFor
    /\ is_shared' = is_shared + 1
    /\ shared_owners' = [shared_owners EXCEPT ![t] = 1]
    /\ UNCHANGED <<is_exclusive, exclusive_owner>>
    /\ Granted(t, "read")

WaitRead(t) ==
    /\ Call(t)
    /\ ~OwnsShared(t)
    /\ SpokenFor
    /\ exclusive_owner # t
    /\ \E w \in 1..(made + 1) :
          /\ TakeWaiter(t, w)
          /\ shared_queue' = shared_queue \cup {<<t, w>>}
    /\ UNCHANGED exclusive_queue
    /\ Sleep(t, "waitS")

(* DowngradeLockError from the plain read lock ...                         *)
DowngradeError(t) ==
    /\ Call(t)
    /\ ~OwnsShared(t)
    /\ SpokenFor
    /\ exclusive_owner = t
    /\ Raises(t)

(* ... which SafeReadLock.acquire() and wrap_simple() swallow: the body    *)
(* runs under the write lock the thread has.                               *)
SafeReadSkips(t) ==
    /\ Call(t)
    /\ ~OwnsShared(t)
    /\ SpokenFor
    /\ exclusive_owner = t
    /\ Granted(t, "noop")
    /\ UNCHANGED lockVars

-----------------------------------------------------------------------------
(* _acquire_exclusive()                                                    *)

ReenterWrite(t) ==
    /\ Call(t)
    /\ exclusive_owner = t
    /\ is_exclusive' = is_exclusive + 1
    /\ UNCHANGED <<is_shared, shared_owners, exclusive_owner>>
    /\ Granted(t, "write")

UpgradeError(t) ==
    /\ Call(t)
    /\ exclusive_owner # t
    /\ OwnsShared(t)
    /\ Raises(t)

(* Mutant: readers are not looked at.                                      *)
TakeWriteOverReaders(t) ==
    /\ Call(t)
    /\ exclusive_owner # t
    /\ is_exclusive = 0
    /\ exclusive_owner' = t
    /\ is_exclusive' = is_exclusive + 1
    /\ UNCHANGED <<is_shared, shared_owners>>
    /\ Granted(t, "write")

TakeWrite(t) ==
    /\ Call(t)
    /\ exclusive_owner # t
    /\ is_shared = 0
    /\ is_exclusive = 0
    /\ exclusive_owner' = t
    /\ is_exclusive' = is_exclusive + 1
    /\ UNCHANGED <<is_shared, shared_owners>>
    /\ Granted(t, "write")

(* Mutant: a reader that wants to write queues instead of being refused.   *)
WaitWriteUpgrades(t) ==
    /\ Call(t)
    /\ exclusive_owner # t
    /\ is_shared > 0 \/ is_exclusive > 0
    /\ \E w \in 1..(made + 1) :
          /\ TakeWaiter(t, w)
          /\ exclusive_queue' = Append(exclusive_queue, <<t, w>>)
    /\ UNCHANGED shared_queue
    /\ Sleep(t, "waitX")

WaitWrite(t) ==
    /\ Call(t)
    /\ exclusive_owner # t
    /\ ~OwnsShared(t)
    /\ is_shared > 0 \/ is_exclusive > 0
    /\ \E w \in 1..(made + 1) :
          /\ TakeWaiter(t, w)
          /\ exclusive_queue' = Append(exclusive_queue, <<t, w>>)
    /\ UNCHANGED shared_queue
    /\ Sleep(t, "waitX")

(* wait() returns: the thread has been notified and has the mutex again.   *)
(* The finally clause gives the Condition back.                            *)
Resume(t) ==
    /\ Waiting(t)
    /\ t \notin asleep
    /\ free_waiters' = free_waiters \cup {waiter[t]}
    /\ waiter' = [waiter EXCEPT ![t] = 0]
    /\ Enter(t, IF pc[t] = "waitS" THEN "read" ELSE "write")
    /\ pc' = [pc EXCEPT ![t] = "run"]
    /\ UNCHANGED <<lockVars, queueVars, made, asleep, calls>>

-----------------------------------------------------------------------------
(* release(), called as the innermost with block is left.  The steps below *)
(* are those of a release() that raises nothing: ReleaseIsOwned says that  *)
(* the others are never reached.                                           *)

Top(t) == stack[t][Len(stack[t])]

Leave(t) ==
    /\ pc[t] \in {"run", "raise"}
    /\ stack[t] # <<>>
    /\ stack' = [stack EXCEPT ![t] = SubSeq(@, 1, Len(@) - 1)]
    /\ LET done == Len(stack[t]) = 1 IN
       /\ calls' = [calls EXCEPT ![t] = IF done THEN 0 ELSE @]
       /\ pc' = [pc EXCEPT ![t] = IF done THEN "run" ELSE @]
    /\ UNCHANGED waiterVars

(* notify(): the thread asleep on each of the Conditions ws wakes.         *)
Notify(ws) == asleep' = {t \in asleep : waiter[t] \notin ws}

(* Hand the lock to the writer at the head of the queue.                   *)
HandToWriter ==
    /\ exclusive_owner' = Head(exclusive_queue)[1]
    /\ is_exclusive' = 1
    /\ exclusive_queue' = Tail(exclusive_queue)
    /\ Notify({Head(exclusive_queue)[2]})
    /\ UNCHANGED shared_queue

(* Hand the lock to every queued reader.                                   *)
HandToReaders ==
    /\ is_shared' = is_shared + Cardinality(shared_queue)
    /\ shared_owners' = [t \in Thread |->
                            IF \E e \in shared_queue : e[1] = t
                            THEN 1 ELSE shared_owners[t]]
    /\ shared_queue' = {}
    /\ Notify({e[2] : e \in shared_queue})
    /\ UNCHANGED exclusive_queue

(* SafeReadLock.release() with acquired = False does nothing.              *)
LeaveSkipped(t) ==
    /\ Leave(t)
    /\ Top(t) = "noop"
    /\ UNCHANGED <<lockVars, queueVars, asleep>>

LastWrite(t) ==
    /\ Leave(t)
    /\ Top(t) # "noop"
    /\ is_exclusive = 1
    /\ exclusive_owner = t

ReleaseInnerWrite(t) ==
    /\ Leave(t)
    /\ Top(t) # "noop"
    /\ is_exclusive > 1
    /\ exclusive_owner = t
    /\ is_exclusive' = is_exclusive - 1
    /\ UNCHANGED <<is_shared, shared_owners, exclusive_owner, queueVars, asleep>>

ReleaseWriteToReaders(t) ==
    /\ LastWrite(t)
    /\ shared_queue # {}
    /\ exclusive_owner' = NoThread
    /\ is_exclusive' = 0
    /\ HandToReaders

ReleaseWriteToWriter(t) ==
    /\ LastWrite(t)
    /\ shared_queue = {}
    /\ exclusive_queue # <<>>
    /\ HandToWriter
    /\ UNCHANGED <<is_shared, shared_owners>>

ReleaseWriteFree(t) ==
    /\ LastWrite(t)
    /\ shared_queue = {}
    /\ exclusive_queue = <<>>
    /\ exclusive_owner' = NoThread
    /\ is_exclusive' = 0
    /\ UNCHANGED <<is_shared, shared_owners, queueVars, asleep>>

(* Mutant: the owner's count is not taken down.                            *)
DropSharedTotalOnly(t) ==
    /\ Leave(t)
    /\ Top(t) # "noop"
    /\ is_exclusive = 0
    /\ OwnsShared(t)
    /\ is_shared' = is_shared - 1
    /\ UNCHANGED shared_owners

DropShared(t) ==
    /\ Leave(t)
    /\ Top(t) # "noop"
    /\ is_exclusive = 0
    /\ OwnsShared(t)
    /\ shared_owners' = [shared_owners EXCEPT ![t] = @ - 1]
    /\ is_shared' = is_shared - 1

ReleaseInnerRead(t) ==
    /\ DropShared(t)
    /\ is_shared > 1
    /\ UNCHANGED <<is_exclusive, exclusive_owner, queueVars, asleep>>

ReleaseReadToWriter(t) ==
    /\ DropShared(t)
    /\ is_shared = 1
    /\ exclusive_queue # <<>>
    /\ HandToWriter

(* Mutant: the last reader does not look for a queued writer.              *)
ReleaseReadForgets(t) ==
    /\ DropShared(t)
    /\ is_shared = 1
    /\ UNCHANGED <<is_exclusive, exclusive_owner, queueVars, asleep>>

ReleaseReadFree(t) ==
    /\ DropShared(t)
    /\ is_shared = 1
    /\ exclusive_queue = <<>>
    /\ UNCHANGED <<is_exclusive, exclusive_owner, queueVars, asleep>>

-----------------------------------------------------------------------------
Acquire(t) ==
    \/ ReenterRead(t) \/ TakeRead(t) \/ WaitRead(t)
    \/ DowngradeError(t) \/ SafeReadSkips(t)
    \/ ReenterWrite(t) \/ UpgradeError(t) \/ TakeWrite(t) \/ WaitWrite(t)

Release(t) ==
    \/ LeaveSkipped(t)
    \/ ReleaseInnerWrite(t) \/ ReleaseWriteToReaders(t)
    \/ ReleaseWriteToWriter(t) \/ ReleaseWriteFree(t)
    \/ ReleaseInnerRead(t) \/ ReleaseReadToWriter(t) \/ ReleaseReadFree(t)

Next == \E t \in Thread : Acquire(t) \/ Resume(t) \/ Release(t)

Spec == Init /\ [][Next]_vars

(* The body of every with block ends, and a thread that was notified gets  *)
(* the mutex.  No thread has to acquire anything.                          *)
Fairness == \A t \in Thread : WF_vars(Resume(t)) /\ WF_vars(Release(t))

FairSpec == Spec /\ Fairness

-----------------------------------------------------------------------------
(* Properties.                                                             *)

(* How many blocks of a kind a thread is inside.                           *)
Places(s, block) == {i \in DOMAIN s : s[i] = block}
Count(s, block) == Cardinality(Places(s, block))
Reads(t) == Count(stack[t], "read")
Writes(t) == Count(stack[t], "write")

(* While a thread is inside a write block no other thread is inside any    *)
(* block: not a read one, and not a SafeReadLock body that took no lock.   *)
(* This is what every write_api function of the cache relies on.           *)
WriterIsAlone ==
    \A t, u \in Thread : t # u /\ Writes(t) > 0 => stack[u] = <<>>

(* A thread inside a block that asks for more (again, or the other kind)   *)
(* is answered or refused at once, and never made to wait: the deadlock    *)
(* with itself that the docstring of create_locks() could not exclude.     *)
HolderNeverWaits == \A t \in Thread : Waiting(t) => stack[t] = <<>>

(* release() looks at the lock's own mode, not at which of the two locks   *)
(* the with statement was on.  It must always find the lock held by the    *)
(* thread that leaves the block, so that it raises no LockingError and     *)
(* takes back a lock of the kind the block took.                           *)
ReleaseIsOwned ==
    \A t \in Thread :
        pc[t] \in {"run", "raise"} /\ stack[t] # <<>> =>
            /\ Top(t) = "read" => is_exclusive = 0 /\ is_shared > 0 /\ shared_owners[t] > 0
            /\ Top(t) = "write" => is_exclusive > 0 /\ exclusive_owner = t
            /\ Top(t) = "noop" => exclusive_owner = t

(* The three assert statements of the class: never both modes, no reader   *)
(* queued once the last reader left with no writer queued, and a woken     *)
(* reader finds no writer.                                                 *)
AssertionsHold ==
    /\ ~(is_shared > 0 /\ is_exclusive > 0)
    /\ shared_queue # {} => SpokenFor
    /\ \A t \in Thread : pc[t] = "waitS" /\ t \notin asleep => is_exclusive = 0

(* No wakeup is lost: nobody is queued on a free lock, a sleeping thread   *)
(* is always in a queue under the Condition it sleeps on, and a thread     *)
(* that was woken already owns what it asked for.                          *)
NoLostWakeup ==
    /\ is_shared = 0 /\ is_exclusive = 0 => shared_queue = {} /\ exclusive_queue = <<>>
    /\ \A t \in Thread :
          /\ pc[t] = "waitS" =>
                IF t \in asleep THEN <<t, waiter[t]>> \in shared_queue
                                ELSE shared_owners[t] = 1
          /\ pc[t] = "waitX" =>
                IF t \in asleep
                THEN \E i \in DOMAIN exclusive_queue : exclusive_queue[i] = <<t, waiter[t]>>
                ELSE exclusive_owner = t

(* Conditions are recycled, yet no two waiting threads share one and none  *)
(* in use is on the free list, so notify() wakes the thread it is for.     *)
WaitersDistinct ==
    \A t \in Thread : Waiting(t) =>
        /\ waiter[t] \in (1..made) \ free_waiters
        /\ \A u \in Thread : Waiting(u) /\ waiter[u] = waiter[t] => u = t

(* is_shared is the total of the per-thread counts, and no thread's count  *)
(* outlives the blocks it is inside: no lock is leaked when an exception   *)
(* unwinds nested blocks.                                                  *)
CountsMatchBlocks ==
    \A t \in Thread : ~Waiting(t) =>
        /\ shared_owners[t] = Reads(t)
        /\ (IF exclusive_owner = t THEN is_exclusive ELSE 0) = Writes(t)

(* "As best as I can tell, neither writer nor reader starvation should be  *)
(* possible" (docstring of SHLock): a queued thread gets into its block.   *)
NoStarvation == \A t \in Thread : Waiting(t) ~> pc[t] = "run"

(* The lock implements its contract: a thread has a lock once acquire()    *)
(* returned to it.                                                         *)
RW == INSTANCE RWLock WITH reads <- [t \in Thread |-> Reads(t)],
                           writes <- [t \in Thread |-> Writes(t)]
Contract == RW!Spec
-----------------------------------------------------------------------------
(* The inductive invariant behind the safety properties.                   *)

(* One element per shared lock held, so that their number is a cardinality.*)
HoldsOf(owners) == UNION {{t} \X (1..owners[t]) : t \in Thread}
Holds == HoldsOf(shared_owners)

ModeInv ==
    /\ is_exclusive > 0 <=> exclusive_owner # NoThread
    /\ is_exclusive > 0 => is_shared = 0
    /\ IsFiniteSet(Holds) /\ is_shared = Cardinality(Holds)

(* A running thread's counts are those of its blocks, and its read blocks  *)
(* contain nothing else; a sleeping thread has nothing but its queue       *)
(* entry; a woken one has been handed the lock.                            *)
ThreadInv(t) ==
    /\ ~Waiting(t) =>
          /\ t \notin asleep
          /\ shared_owners[t] = Reads(t)
          /\ (IF exclusive_owner = t THEN is_exclusive ELSE 0) = Writes(t)
          /\ stack[t] # <<>> => stack[t][1] # "noop"
          /\ Reads(t) > 0 => \A i \in DOMAIN stack[t] : stack[t][i] = "read"
    /\ Waiting(t) => stack[t] = <<>>
    /\ pc[t] = "waitS" =>
          /\ exclusive_owner # t
          /\ IF t \in asleep THEN shared_owners[t] = 0 /\ <<t, waiter[t]>> \in shared_queue
                             ELSE shared_owners[t] = 1
    /\ pc[t] = "waitX" =>
          /\ shared_owners[t] = 0
          /\ IF t \in asleep
             THEN /\ exclusive_owner # t
                  /\ \E i \in DOMAIN exclusive_queue : exclusive_queue[i] = <<t, waiter[t]>>
             ELSE exclusive_owner = t /\ is_exclusive = 1

QueueInv ==
    /\ \A e \in shared_queue :
          pc[e[1]] = "waitS" /\ e[1] \in asleep /\ waiter[e[1]] = e[2]
    /\ \A i \in DOMAIN exclusive_queue : LET e == exclusive_queue[i] IN
          pc[e[1]] = "waitX" /\ e[1] \in asleep /\ waiter[e[1]] = e[2]
    /\ \A i, j \in DOMAIN exclusive_queue :
          exclusive_queue[i][1] = exclusive_queue[j][1] => i = j
    /\ shared_queue # {} => SpokenFor
    /\ exclusive_queue # <<>> => is_shared > 0 \/ is_exclusive > 0

IInv ==
    /\ TypeOK
    /\ ModeInv
    /\ \A t \in Thread : ThreadInv(t)
    /\ QueueInv
    /\ WaitersDistinct
=============================================================================
