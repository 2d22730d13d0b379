------------------------- MODULE OxideSHLock_proofs -------------------------
(***************************************************************************)
(* Proofs about the lock of the Rust port, for any set of threads and any  *)
(* number of guards: the invariant IInv is inductive, and the guards of    *)
(* the threads implement the contract RWLock.                              *)
(***************************************************************************)
EXTENDS OxideSHLock, TLAPS

LEMMA InitInvariant == Init => IInv
  <1> SUFFICES ASSUME Init PROVE IInv
    OBVIOUS
  <1>1. TypeOK
    BY DEF Init, TypeOK
  <1>2. CountsMatchGuards
    BY DEF Init, CountsMatchGuards
  <1>3. SleepersHoldNothing /\ NoLostWakeup /\ PanicEndsProcess
    BY DEF Init, SleepersHoldNothing, NoLostWakeup, PanicEndsProcess
  <1> QED
    BY <1>1, <1>2, <1>3 DEF IInv

-----------------------------------------------------------------------------
(* A call, a wakeup for no reason and the steps after a panic leave the    *)
(* lock and its owners as they are.                                        *)
LEMMA CallStep ==
  ASSUME IInv, NEW t \in Thread, NEW mode \in Wait, Call(t, mode)
  PROVE  IInv'
  <1>1. TypeOK'
    BY DEF IInv, TypeOK, Call, lockVars, guardVars, Wait, Waiting
  <1>2. CountsMatchGuards'
    BY DEF IInv, CountsMatchGuards, Call, lockVars, guardVars
  <1>3. SleepersHoldNothing'
    BY DEF IInv, SleepersHoldNothing, Call, lockVars, guardVars
  <1>4. t \notin asleep
    BY DEF IInv, TypeOK, Call, Waiting, Wait
  <1>5. NoLostWakeup'
    BY <1>4 DEF IInv, TypeOK, NoLostWakeup, Call, lockVars, guardVars
  <1>6. PanicEndsProcess'
    BY DEF IInv, TypeOK, PanicEndsProcess, Call, lockVars, guardVars
  <1> QED
    BY <1>1, <1>2, <1>3, <1>5, <1>6 DEF IInv

LEMMA SpuriousWakeupStep ==
  ASSUME IInv, NEW t \in Thread, SpuriousWakeup(t)
  PROVE  IInv'
  BY DEF IInv, TypeOK, CountsMatchGuards, SleepersHoldNothing, NoLostWakeup, PanicEndsProcess,
         SpuriousWakeup, lockVars, guardVars, Waiting, Wait

LEMMA MeetPoisonStep ==
  ASSUME IInv, NEW t \in Thread, MeetPoison(t)
  PROVE  IInv'
  <1>1. TypeOK'
    BY DEF IInv, TypeOK, MeetPoison, lockVars, guardVars, Waiting, Wait
  <1>2. CountsMatchGuards' /\ NoLostWakeup'
    BY DEF IInv, TypeOK, CountsMatchGuards, NoLostWakeup, MeetPoison
  <1>3. SleepersHoldNothing'
    BY DEF IInv, TypeOK, SleepersHoldNothing, MeetPoison, guardVars
  <1>4. PanicEndsProcess'
    BY DEF IInv, TypeOK, PanicEndsProcess, MeetPoison, guardVars
  <1> QED
    BY <1>1, <1>2, <1>3, <1>4 DEF IInv

LEMMA UnwindStep ==
  ASSUME IInv, NEW t \in Thread, Unwind(t)
  PROVE  IInv'
  <1>1. TypeOK'
    BY DEF IInv, TypeOK, Unwind, lockVars, guardVars, Waiting, Wait
  <1>2. CountsMatchGuards' /\ SleepersHoldNothing'
    BY DEF IInv, TypeOK, CountsMatchGuards, SleepersHoldNothing, Unwind, lockVars, guardVars
  <1>3. t \notin asleep
    BY DEF IInv, TypeOK, Unwind, Waiting, Wait
  <1>4. NoLostWakeup'
    BY <1>3 DEF IInv, TypeOK, NoLostWakeup, Unwind, lockVars, guardVars
  <1>5. PanicEndsProcess'
    BY DEF IInv, TypeOK, PanicEndsProcess, Unwind, lockVars, guardVars
  <1> QED
    BY <1>1, <1>2, <1>4, <1>5 DEF IInv

-----------------------------------------------------------------------------
(* The sections under the mutex.                                           *)
LEMMA TakeSharedStep ==
  ASSUME IInv, NEW t \in Thread, TakeShared(t)
  PROVE  IInv'
  <1>1. TypeOK'
    BY DEF IInv, TypeOK, TakeShared, InLoop, Waiting, Wait
  <1>2. CountsMatchGuards'
    BY ThreadAssumption DEF IInv, TypeOK, CountsMatchGuards, TakeShared, InLoop
  <1>3. SleepersHoldNothing'
    BY DEF IInv, TypeOK, SleepersHoldNothing, TakeShared, InLoop
  <1>4. NoLostWakeup'
    BY DEF IInv, TypeOK, NoLostWakeup, TakeShared, InLoop
  <1>5. PanicEndsProcess'
    BY DEF TakeShared, InLoop, PanicEndsProcess
  <1> QED
    BY <1>1, <1>2, <1>3, <1>4, <1>5 DEF IInv

LEMMA TakeExclusiveStep ==
  ASSUME IInv, NEW t \in Thread, TakeExclusive(t)
  PROVE  IInv'
  <1>1. TypeOK'
    BY DEF IInv, TypeOK, TakeExclusive, InLoop, Waiting, Wait
  <1>2. CountsMatchGuards'
    BY ThreadAssumption DEF IInv, TypeOK, CountsMatchGuards, TakeExclusive, InLoop, NoReaders
  <1>3. SleepersHoldNothing'
    BY DEF IInv, TypeOK, SleepersHoldNothing, TakeExclusive, InLoop
  <1>4. NoLostWakeup'
    BY DEF IInv, TypeOK, NoLostWakeup, TakeExclusive, InLoop
  <1>5. PanicEndsProcess'
    BY DEF TakeExclusive, InLoop, PanicEndsProcess
  <1> QED
    BY <1>1, <1>2, <1>3, <1>4, <1>5 DEF IInv

(* The thread that panics has a guard of the other kind.                   *)
LEMMA PanicStep ==
  ASSUME IInv, NEW t \in Thread, Panic(t)
  PROVE  IInv'
  <1>1. ~poisoned /\ pc[t] \in Wait /\ t \notin asleep
    BY DEF Panic, InLoop
  <1>2. TypeOK'
    BY <1>1 DEF IInv, TypeOK, Panic, lockVars, guardVars, Waiting, Wait
  <1>3. CountsMatchGuards' /\ NoLostWakeup'
    BY DEF CountsMatchGuards, NoLostWakeup, Panic
  <1>4. SleepersHoldNothing'
    BY DEF IInv, SleepersHoldNothing, Panic, guardVars
  <1>5. reads[t] + writes[t] > 0
    BY <1>1, ThreadAssumption DEF IInv, TypeOK, CountsMatchGuards, Panic, Misused
  <1>6. PanicEndsProcess'
    BY <1>5 DEF IInv, TypeOK, PanicEndsProcess, Panic, guardVars
  <1> QED
    BY <1>2, <1>3, <1>4, <1>6 DEF IInv

(* The thread that goes to sleep has none, and another one has.            *)
LEMMA SleepStep ==
  ASSUME IInv, NEW t \in Thread, Sleep(t)
  PROVE  IInv'
  <1>1. ~poisoned /\ pc[t] \in Wait
    BY DEF Sleep, InLoop
  <1>2. TypeOK'
    BY <1>1 DEF IInv, TypeOK, Sleep, lockVars, guardVars, Waiting
  <1>3. CountsMatchGuards' /\ PanicEndsProcess'
    BY DEF IInv, CountsMatchGuards, PanicEndsProcess, Sleep, lockVars, guardVars
  <1>4. reads[t] = 0 /\ writes[t] = 0
    BY <1>1, ThreadAssumption DEF IInv, TypeOK, CountsMatchGuards, Sleep, MustWait, Misused, Wait
  <1>5. SleepersHoldNothing'
    BY <1>4 DEF IInv, SleepersHoldNothing, Sleep, guardVars
  <1>6. \E u \in Thread \ {t} : \/ writes[u] > 0
                                \/ pc[t] = "exclusive" /\ reads[u] > 0
    BY <1>1, <1>4, ThreadAssumption
    DEF IInv, TypeOK, CountsMatchGuards, Sleep, MustWait, NoReaders
  <1>7. NoLostWakeup'
    BY <1>6 DEF IInv, NoLostWakeup, Sleep, lockVars, guardVars
  <1> QED
    BY <1>2, <1>3, <1>5, <1>7 DEF IInv

(* A reader that is not the last leaves another one to wait for.           *)
LEMMA DropReadStep ==
  ASSUME IInv, NEW t \in Thread, DropRead(t)
  PROVE  IInv'
  <1>1. TypeOK'
    BY DEF IInv, TypeOK, DropRead, Waiting, Wait
  <1>2. CountsMatchGuards'
    BY ThreadAssumption DEF IInv, TypeOK, CountsMatchGuards, DropRead
  <1>3. SleepersHoldNothing'
    BY DEF IInv, TypeOK, SleepersHoldNothing, DropRead
  <1>4. NoLostWakeup'
    <2> SUFFICES ASSUME NEW s \in asleep, asleep' = asleep
                 PROVE  \E u \in Thread \ {s} : \/ writes'[u] > 0
                                                \/ pc'[s] = "exclusive" /\ reads'[u] > 0
      BY DEF NoLostWakeup, DropRead, IInv, TypeOK
    <2>1. s \in Thread /\ reads[s] = 0 /\ s # t
      BY DEF IInv, TypeOK, SleepersHoldNothing, DropRead
    <2>2. \A u \in Thread : writes[u] = 0
      BY ThreadAssumption DEF IInv, TypeOK, CountsMatchGuards, DropRead
    <2>3. pc[s] = "exclusive"
      BY <2>2 DEF IInv, TypeOK, NoLostWakeup, DropRead
    <2>4. PICK u \in Thread : shared_owners'[u] > 0
      <3>1. ~ \A u \in Thread : shared_owners'[u] = 0
        BY DEF DropRead
      <3> QED
        BY <1>1, <3>1 DEF TypeOK
    <2>5. reads'[u] > 0 /\ u # s
      BY <1>1, <1>2, <2>1, <2>4 DEF CountsMatchGuards, DropRead, TypeOK, IInv
    <2> QED
      BY <2>3, <2>5 DEF DropRead
  <1>5. PanicEndsProcess'
    BY DEF DropRead, PanicEndsProcess
  <1> QED
    BY <1>1, <1>2, <1>3, <1>4, <1>5 DEF IInv

LEMMA DropWriteStep ==
  ASSUME IInv, NEW t \in Thread, DropWrite(t)
  PROVE  IInv'
  <1>1. exclusive_owner = t /\ exclusive_count = writes[t] /\ exclusive_count > 0
    BY ThreadAssumption DEF IInv, CountsMatchGuards, DropWrite
  <1>2. TypeOK'
    BY <1>1 DEF IInv, TypeOK, DropWrite, Waiting, Wait
  <1>3. CountsMatchGuards'
    BY <1>1, ThreadAssumption DEF IInv, TypeOK, CountsMatchGuards, DropWrite
  <1>4. SleepersHoldNothing'
    BY DEF IInv, TypeOK, SleepersHoldNothing, DropWrite
  <1>5. NoLostWakeup'
    <2> SUFFICES ASSUME NEW s \in asleep, exclusive_count # 1, asleep' = asleep
                 PROVE  s # t /\ writes'[t] > 0
      BY DEF NoLostWakeup, DropWrite, IInv, TypeOK
    <2> QED
      BY <1>1 DEF IInv, TypeOK, SleepersHoldNothing, DropWrite
  <1>6. PanicEndsProcess'
    BY DEF DropWrite, PanicEndsProcess
  <1> QED
    BY <1>2, <1>3, <1>4, <1>5, <1>6 DEF IInv

-----------------------------------------------------------------------------
LEMMA NextInvariant == IInv /\ [Next]_vars => IInv'
  <1> SUFFICES ASSUME IInv, [Next]_vars PROVE IInv'
    OBVIOUS
  <1>1. CASE UNCHANGED vars
    BY <1>1 DEF vars, lockVars, guardVars, IInv, TypeOK, CountsMatchGuards, SleepersHoldNothing,
                NoLostWakeup, PanicEndsProcess, Waiting, Wait
  <1>2. CASE Next
    <2> PICK t \in Thread : \/ \E mode \in Wait : Call(t, mode)
                            \/ Iterate(t) \/ SpuriousWakeup(t)
                            \/ Drop(t)
                            \/ MeetPoison(t) \/ Unwind(t)
      BY <1>2 DEF Next
    <2> QED
      BY CallStep, SpuriousWakeupStep, MeetPoisonStep, UnwindStep, TakeSharedStep,
         TakeExclusiveStep, PanicStep, SleepStep, DropReadStep, DropWriteStep DEF Iterate, Drop
  <1> QED
    BY <1>1, <1>2

(* The invariant holds in every state.                                     *)
THEOREM Invariant == Spec => []IInv
  BY InitInvariant, NextInvariant, PTL DEF Spec

(* The lock's counts are those of the guards: exclusion, and release() is  *)
(* never called on a lock that is not held.                                *)
THEOREM CountsAreGuards == Spec => []CountsMatchGuards
  BY Invariant, PTL DEF IInv

(* Whoever sleeps waits for another thread, which holds the lock.          *)
THEOREM WakeupsArrive == Spec => []NoLostWakeup
  BY Invariant, PTL DEF IInv

(* A panic inside the lock is the end of the process and never leaves      *)
(* threads behind that sleep for ever.                                     *)
THEOREM PanicIsFatal == Spec => []PanicEndsProcess
  BY Invariant, PTL DEF IInv

-----------------------------------------------------------------------------
(* Each step enters or leaves a block, or is none of the contract's.       *)
LEMMA StepRefines == IInv /\ [Next]_vars => [RW!Next]_(RW!vars)
  <1> SUFFICES ASSUME IInv, [Next]_vars PROVE [RW!Next]_(RW!vars)
    OBVIOUS
  <1> USE DEF RW!vars
  <1>1. CASE UNCHANGED vars
    BY <1>1 DEF vars, guardVars
  <1>2. ASSUME NEW t \in Thread, TakeShared(t) PROVE RW!EnterRead(t)
    BY <1>2 DEF TakeShared, InLoop, IInv, CountsMatchGuards, RW!EnterRead
  <1>3. ASSUME NEW t \in Thread, TakeExclusive(t) PROVE RW!EnterWrite(t)
    BY <1>3, ThreadAssumption
    DEF TakeExclusive, InLoop, IInv, CountsMatchGuards, NoReaders, RW!EnterWrite
  <1>4. ASSUME NEW t \in Thread, DropRead(t) PROVE RW!ExitRead(t)
    BY <1>4 DEF DropRead, RW!ExitRead
  <1>5. ASSUME NEW t \in Thread, DropWrite(t) PROVE RW!ExitWrite(t)
    BY <1>5 DEF DropWrite, RW!ExitWrite
  <1>6. ASSUME NEW t \in Thread, MeetPoison(t)
        PROVE  RW!ExitRead(t) \/ RW!ExitWrite(t) \/ UNCHANGED RW!vars
    BY <1>6 DEF MeetPoison, guardVars, RW!ExitRead, RW!ExitWrite
  <1>7. ASSUME NEW t \in Thread,
               \/ \E mode \in Wait : Call(t, mode)
               \/ Panic(t) \/ Sleep(t) \/ SpuriousWakeup(t) \/ Unwind(t)
        PROVE  UNCHANGED RW!vars
    BY <1>7 DEF Call, Panic, Sleep, SpuriousWakeup, Unwind, guardVars
  <1> QED
    BY <1>1, <1>2, <1>3, <1>4, <1>5, <1>6, <1>7 DEF Next, Iterate, Drop, RW!Next

(* The guards implement the contract that db/locking.py states for its     *)
(* pair of locks.                                                          *)
THEOREM Refinement == Spec => Contract
  <1>1. Init => RW!Init
    BY DEF Init, RW!Init
  <1> QED
    BY <1>1, Invariant, StepRefines, PTL DEF Spec, Contract, RW!Spec

(* What the contract is for: while a thread has a write guard no other has *)
(* a guard of any kind, nor it a read guard, also after a panic, when the  *)
(* guards are dropped while the lock's counts stay as they were.           *)
THEOREM MutualExclusion ==
  Spec => [](\A t, u \in Thread :
                writes[t] > 0 => reads[u] = 0 /\ (u # t => writes[u] = 0))
  <1> DEFINE Alone == \A t, u \in Thread :
                         writes[t] > 0 => reads[u] = 0 /\ (u # t => writes[u] = 0)
             Exclusive == RW!TypeOK /\ Alone
  <1>1. RW!Init => Exclusive
    BY DEF RW!Init, RW!TypeOK
  <1>2. ASSUME Exclusive, [RW!Next]_(RW!vars) PROVE Exclusive'
    <2>1. reads \in [Thread -> Nat] /\ writes \in [Thread -> Nat]
      BY <1>2 DEF RW!TypeOK
    <2>2. ASSUME NEW t \in Thread, RW!EnterRead(t) PROVE Exclusive'
      BY <1>2, <2>1, <2>2 DEF RW!EnterRead, RW!TypeOK
    <2>3. ASSUME NEW t \in Thread, RW!EnterWrite(t) PROVE Exclusive'
      BY <1>2, <2>1, <2>3 DEF RW!EnterWrite, RW!TypeOK
    <2>4. ASSUME NEW t \in Thread, RW!ExitRead(t) PROVE Exclusive'
      BY <1>2, <2>1, <2>4 DEF RW!ExitRead, RW!TypeOK
    <2>5. ASSUME NEW t \in Thread, RW!ExitWrite(t) PROVE Exclusive'
      BY <1>2, <2>1, <2>5 DEF RW!ExitWrite, RW!TypeOK
    <2> QED
      BY <1>2, <2>2, <2>3, <2>4, <2>5 DEF RW!Next, RW!vars, RW!TypeOK
  <1>3. Exclusive => Alone
    OBVIOUS
  <1> QED
    BY <1>1, <1>2, <1>3, Refinement, PTL DEF Contract, RW!Spec
=============================================================================
