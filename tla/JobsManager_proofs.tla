------------------------- MODULE JobsManager_proofs -------------------------
(***************************************************************************)
(* Proofs about the jobs of the content server, for any number of jobs, of *)
(* worker processes and of time units: IInv is inductive, and the safety   *)
(* properties follow from it.                                              *)
(***************************************************************************)
EXTENDS JobsManager, FiniteSetTheorems, SequenceTheorems, TLAPS

In(x, s) == \E i \in DOMAIN s : s[i] = x

Distinct(s) == \A i, k \in DOMAIN s : s[i] = s[k] => i = k

(* The events, none of which is in the queue twice.                        *)
Event == ({"start", "done"} \X Job) \cup {<<"stop", 0>>}

(* A job that was asked for is an event, or the loop has it, or it waits.  *)
Coming(j) == In(<<"start", j>>, events)
Taken(j) == At("start") /\ hand = j
Waits(j) == In(j, waiting_jobs)

(* The end of a job is reported by an event, which the loop may have.      *)
Reported(j) == In(<<"done", j>>, events)
Ending(j) == At("done") /\ hand = j

OneEach ==
    /\ Distinct(events) /\ Distinct(waiting_jobs)
    /\ \A j \in Job : ~(Coming(j) /\ Taken(j)) /\ ~(Coming(j) /\ Waits(j)) /\ ~(Taken(j) /\ Waits(j))
    /\ In(<<"stop", 0>>, events) => shutting_down
    /\ loop \in {"start", "done"} => hand \in Job

Known ==
    /\ \A j \in Job : j \in waiting_job_ids <=> Coming(j) \/ Taken(j) \/ Waits(j)
    /\ 1..made = waiting_job_ids \cup jobs \cup finished_jobs \cup pruned
    /\ waiting_job_ids \cap jobs = {} /\ finished_jobs \cap pruned = {}
    /\ (waiting_job_ids \cup jobs) \cap (finished_jobs \cup pruned) = {}
    /\ \A j \in Job : monitor[j] \in {"run", "over"} => j \in jobs

Reports ==
    \A j \in Job :
        /\ Reported(j) \/ Ending(j) => j \in jobs /\ monitor[j] = "told"
        /\ ~(Reported(j) /\ Ending(j))

(* The slots are used; before the loop runs there is nothing to use them.  *)
Slots ==
    /\ Cardinality(jobs) <= max_jobs
    /\ loop = "off" => waiting_jobs = <<>> /\ jobs = {}
    /\ loop \in {"get", "start", "done", "block"} /\ waiting_jobs # <<>> =>
          Cardinality(jobs) = max_jobs
    /\ loop = "get" /\ (\E j \in jobs : InTime(j)) => max_block

IInv == TypeOK /\ OneEach /\ Known /\ Reports /\ Slots

-----------------------------------------------------------------------------
(* Sequences without repetitions.                                          *)
LEMMA Appended ==
  ASSUME NEW S, NEW s \in Seq(S), NEW e \in S
  PROVE  /\ Append(s, e) \in Seq(S)
         /\ \A x : In(x, Append(s, e)) <=> In(x, s) \/ x = e
         /\ Distinct(s) /\ ~In(e, s) => Distinct(Append(s, e))
  <1>1. /\ Append(s, e) \in Seq(S) /\ Len(Append(s, e)) = Len(s) + 1 /\ Len(s) \in Nat
        /\ DOMAIN s = 1..Len(s) /\ DOMAIN Append(s, e) = 1..(Len(s) + 1)
        /\ \A i \in 1..Len(s) : Append(s, e)[i] = s[i]
        /\ Append(s, e)[Len(s) + 1] = e
    BY AppendProperties, LenProperties
  <1>2. ASSUME NEW x PROVE In(x, Append(s, e)) <=> In(x, s) \/ x = e
    <2>1. ASSUME NEW i \in DOMAIN Append(s, e), Append(s, e)[i] = x PROVE In(x, s) \/ x = e
      <3>1. i \in 1..Len(s) \/ i = Len(s) + 1
        BY <1>1
      <3> QED
        BY <1>1, <2>1, <3>1 DEF In
    <2>2. ASSUME NEW i \in DOMAIN s, s[i] = x PROVE In(x, Append(s, e))
      <3>1. i \in DOMAIN Append(s, e)
        BY <1>1
      <3> QED
        BY <1>1, <2>2, <3>1 DEF In
    <2>3. In(e, Append(s, e))
      <3>1. Len(s) + 1 \in DOMAIN Append(s, e)
        BY <1>1
      <3> QED
        BY <1>1, <3>1 DEF In
    <2> QED
      BY <2>1, <2>2, <2>3 DEF In
  <1>3. ASSUME Distinct(s), ~In(e, s) PROVE Distinct(Append(s, e))
    <2> SUFFICES ASSUME NEW i \in 1..(Len(s) + 1), NEW k \in 1..(Len(s) + 1),
                        Append(s, e)[i] = Append(s, e)[k]
                 PROVE  i = k
      BY <1>1 DEF Distinct
    <2>1. \A n \in 1..(Len(s) + 1) : n \in 1..Len(s) \/ n = Len(s) + 1
      BY <1>1
    <2> QED
      BY <1>1, <1>3, <2>1 DEF Distinct, In
  <1> QED
    BY <1>1, <1>2, <1>3

LEMMA Tailed ==
  ASSUME NEW S, NEW s \in Seq(S), s # <<>>, Distinct(s)
  PROVE  /\ Tail(s) \in Seq(S) /\ Head(s) \in S /\ In(Head(s), s)
         /\ \A x : In(x, Tail(s)) <=> In(x, s) /\ x # Head(s)
         /\ Distinct(Tail(s))
  <1>1. /\ Tail(s) \in Seq(S) /\ Head(s) \in S /\ Head(s) = s[1] /\ Len(s) \in Nat /\ Len(s) > 0
        /\ DOMAIN s = 1..Len(s) /\ DOMAIN Tail(s) = 1..(Len(s) - 1)
        /\ \A i \in 1..(Len(s) - 1) : Tail(s)[i] = s[i + 1]
    BY HeadTailProperties, LenProperties, EmptySeq
  <1>2. \A i \in 1..(Len(s) - 1) : i + 1 \in 1..Len(s) /\ i + 1 # 1
    BY <1>1
  <1>3. \A i \in 1..Len(s) : i = 1 \/ (i - 1 \in 1..(Len(s) - 1) /\ (i - 1) + 1 = i)
    BY <1>1
  <1>4. 1 \in DOMAIN s
    BY <1>1
  <1>5. ASSUME NEW x PROVE In(x, Tail(s)) <=> In(x, s) /\ x # Head(s)
    <2>1. ASSUME NEW i \in DOMAIN Tail(s), Tail(s)[i] = x PROVE In(x, s) /\ x # Head(s)
      <3>1. i + 1 \in DOMAIN s /\ i + 1 # 1 /\ s[i + 1] = x
        BY <1>1, <1>2, <2>1
      <3> QED
        BY <1>1, <1>4, <3>1 DEF In, Distinct
    <2>2. ASSUME NEW i \in DOMAIN s, s[i] = x, x # Head(s) PROVE In(x, Tail(s))
      <3>1. i - 1 \in DOMAIN Tail(s) /\ Tail(s)[i - 1] = x
        BY <1>1, <1>3, <2>2
      <3> QED
        BY <3>1 DEF In
    <2> QED
      BY <2>1, <2>2 DEF In
  <1>6. Distinct(Tail(s))
    <2> SUFFICES ASSUME NEW i \in 1..(Len(s) - 1), NEW k \in 1..(Len(s) - 1),
                        Tail(s)[i] = Tail(s)[k]
                 PROVE  i = k
      BY <1>1 DEF Distinct
    <2>1. i + 1 \in DOMAIN s /\ k + 1 \in DOMAIN s /\ s[i + 1] = s[k + 1]
      BY <1>1, <1>2
    <2>2. i + 1 = k + 1
      BY <2>1 DEF Distinct
    <2> QED
      BY <2>2
  <1> QED
    BY <1>1, <1>4, <1>5, <1>6 DEF In

LEMMA Suffix ==
  ASSUME NEW S, NEW s \in Seq(S), Distinct(s), NEW n \in 0..Len(s)
  PROVE  LET r == SubSeq(s, n + 1, Len(s)) IN
         /\ r \in Seq(S) /\ Distinct(r) /\ (r # <<>> => n < Len(s))
         /\ \A x : In(x, r) <=> In(x, s) /\ \A i \in 1..n : s[i] # x
  <1> DEFINE r == SubSeq(s, n + 1, Len(s))
  <1>1. /\ Len(s) \in Nat /\ DOMAIN s = 1..Len(s)
        /\ r \in Seq(S) /\ DOMAIN r = 1..(Len(s) - n)
        /\ \A i \in 1..(Len(s) - n) : r[i] = s[n + i]
    <2>1. /\ Len(s) \in Nat /\ DOMAIN s = 1..Len(s) /\ n + 1 \in Int /\ Len(s) \in Int
          /\ \A i \in (n + 1)..Len(s) : i \in 1..Len(s)
      BY LenProperties
    <2>2. n + 1 \in 1..(Len(s) + 1) /\ Len(s) \in n..Len(s)
      BY <2>1
    <2> QED
      BY <2>1, <2>2
  <1> HIDE DEF r
  <1>2. \A i \in 1..(Len(s) - n) : n + i \in 1..Len(s) /\ ~(n + i \in 1..n)
    BY <1>1
  <1>3. \A k \in 1..Len(s) : k \in 1..n \/ (k - n \in 1..(Len(s) - n) /\ n + (k - n) = k)
    BY <1>1
  <1>4. \A k \in 1..n : k \in 1..Len(s)
    BY <1>1
  <1>5. ASSUME NEW x PROVE In(x, r) <=> In(x, s) /\ \A i \in 1..n : s[i] # x
    <2>1. ASSUME NEW i \in DOMAIN r, r[i] = x PROVE In(x, s) /\ \A k \in 1..n : s[k] # x
      <3>1. n + i \in DOMAIN s /\ s[n + i] = x /\ n + i \notin 1..n
        BY <1>1, <1>2, <2>1
      <3>2. \A k \in 1..n : s[k] # x
        BY <1>1, <1>4, <3>1 DEF Distinct
      <3> QED
        BY <3>1, <3>2 DEF In
    <2>2. ASSUME NEW k \in DOMAIN s, s[k] = x, \A i \in 1..n : s[i] # x PROVE In(x, r)
      <3>1. k - n \in DOMAIN r /\ r[k - n] = x
        BY <1>1, <1>3, <2>2
      <3> QED
        BY <3>1 DEF In
    <2> QED
      BY <2>1, <2>2 DEF In
  <1>6. Distinct(r)
    <2> SUFFICES ASSUME NEW i \in 1..(Len(s) - n), NEW k \in 1..(Len(s) - n), r[i] = r[k]
                 PROVE  i = k
      BY <1>1 DEF Distinct
    <2>1. n + i \in DOMAIN s /\ n + k \in DOMAIN s /\ s[n + i] = s[n + k]
      BY <1>1, <1>2
    <2>2. n + i = n + k
      BY <2>1 DEF Distinct
    <2> QED
      BY <2>2, <1>1
  <1>7. r # <<>> => n < Len(s)
    BY <1>1, EmptySeq
  <1> QED
    BY <1>1, <1>5, <1>6, <1>7 DEF r

(* As many jobs are started as there are free slots, the first ones.       *)
LEMMA Started ==
  ASSUME IInv, NEW queue \in Seq(Job), Distinct(queue), \A j \in Job : In(j, queue) => j \notin jobs,
         StartWaiting(queue, jobs)
  PROVE  \E new \in SUBSET Job :
            /\ waiting_jobs' \in Seq(Job) /\ Distinct(waiting_jobs')
            /\ \A j : In(j, waiting_jobs') <=> In(j, queue) /\ j \notin new
            /\ \A j \in new : In(j, queue)
            /\ jobs' = jobs \cup new /\ waiting_job_ids' = waiting_job_ids \ new
            /\ monitor' = [j \in Job |-> IF j \in new THEN "run" ELSE monitor[j]]
            /\ Cardinality(jobs') <= max_jobs
            /\ waiting_jobs' # <<>> => Cardinality(jobs') = max_jobs
  <1> DEFINE free == max_jobs - Cardinality(jobs)
             n == IF Len(queue) < free THEN Len(queue) ELSE free
             new == {queue[i] : i \in 1..n}
  <1>1. /\ waiting_jobs' = SubSeq(queue, n + 1, Len(queue))
        /\ jobs' = jobs \cup new
        /\ waiting_job_ids' = waiting_job_ids \ new
        /\ monitor' = [j \in Job |-> IF j \in new THEN "run" ELSE monitor[j]]
    BY DEF StartWaiting, FreeSlots
  <1>2. jobs \in SUBSET Job /\ IsFiniteSet(Job)
    BY FS_Interval, MaxStartsAssumption DEF IInv, TypeOK, Job
  <1>3. IsFiniteSet(jobs) /\ Cardinality(jobs) \in Nat /\ free \in Nat
    BY <1>2, FS_Subset, FS_CardinalityType, max_jobsAssumption DEF IInv, Slots
  <1>4. Len(queue) \in Nat /\ DOMAIN queue = 1..Len(queue)
    BY LenProperties
  <1>5. n \in 0..Len(queue) /\ n <= free /\ (n < Len(queue) => n = free)
    BY <1>3, <1>4
  <1> HIDE DEF free
  <1>6. \A i \in 1..n : i \in DOMAIN queue /\ queue[i] \in Job
    BY <1>4, <1>5, ElementOfSeq
  <1>7. IsFiniteSet(new) /\ Cardinality(new) = n
    <2> DEFINE f == [i \in 1..n |-> queue[i]]
    <2>1. f \in Bijection(1..n, new)
      BY <1>6 DEF Bijection, Injection, Surjection, IsInjective, Distinct
    <2>2. \A k \in Nat : IsFiniteSet(1..k) /\ Cardinality(1..k) = k
      <3> SUFFICES ASSUME NEW k \in Nat PROVE IsFiniteSet(1..k) /\ Cardinality(1..k) = k
        OBVIOUS
      <3>1. IsFiniteSet(1..k) /\ Cardinality(1..k) = IF 1 > k THEN 0 ELSE k - 1 + 1
        BY FS_Interval
      <3> QED
        BY <3>1
    <2>3. n \in Nat
      BY <1>4, <1>5
    <2> QED
      BY <2>1, <2>2, <2>3, FS_Bijection DEF ExistsBijection
  <1>8. new \in SUBSET Job /\ \A j \in new : In(j, queue)
    BY <1>6 DEF In
  <1>9. jobs \cap new = {}
    BY <1>8
  <1>10. Cardinality(jobs') = Cardinality(jobs) + n
    <2>1. Cardinality(jobs \cap new) = 0
      BY <1>9, FS_EmptySet
    <2>2. Cardinality(jobs \cup new) = Cardinality(jobs) + Cardinality(new) - Cardinality(jobs \cap new)
      BY <1>3, <1>7, FS_Union
    <2>3. n \in Nat
      BY <1>4, <1>5
    <2> HIDE DEF new, n
    <2> QED
      BY <1>1, <1>3, <1>7, <2>1, <2>2, <2>3
  <1>11. /\ waiting_jobs' \in Seq(Job) /\ Distinct(waiting_jobs')
         /\ waiting_jobs' # <<>> => n < Len(queue)
         /\ \A j : In(j, waiting_jobs') <=> In(j, queue) /\ j \notin new
    BY <1>1, <1>5, Suffix
  <1>12. /\ Cardinality(jobs') <= max_jobs
         /\ waiting_jobs' # <<>> => Cardinality(jobs') = max_jobs
    BY <1>3, <1>5, <1>10, <1>11, max_jobsAssumption DEF free
  <1> HIDE DEF new, n
  <1> QED
    BY <1>1, <1>8, <1>11, <1>12

-----------------------------------------------------------------------------
LEMMA InitInvariant == Init => IInv
  <1> SUFFICES ASSUME Init PROVE IInv
    OBVIOUS
  <1>1. TypeOK
    <2>1. made \in 0..MaxStarts /\ age \in [Job -> 0..Oldest]
      BY TimeAssumption, MaxStartsAssumption DEF Init, Oldest
    <2>2. events \in Seq(({"start", "done"} \X Job) \cup {<<"stop", 0>>}) /\ waiting_jobs \in Seq(Job)
      BY EmptySeq DEF Init
    <2>3. UNION {waiting_job_ids, jobs, finished_jobs, pruned} = {}
      BY DEF Init
    <2> QED
      BY <2>1, <2>2, <2>3 DEF Init, TypeOK
  <1>2. OneEach /\ Known /\ Reports
    BY DEF Init, OneEach, Known, Reports, Distinct, In, At, Coming, Taken, Waits, Reported, Ending
  <1>3. Slots
    BY FS_EmptySet, max_jobsAssumption DEF Init, Slots
  <1> QED
    BY <1>1, <1>2, <1>3 DEF IInv

(* What the types say of events.                                           *)
LEMMA EventTypes ==
  ASSUME TypeOK
  PROVE  /\ events \in Seq(Event)
         /\ \A j \in Job : <<"start", j>> \in Event /\ <<"done", j>> \in Event
         /\ <<"stop", 0>> \in Event
         /\ \A j, k : /\ <<"start", j>> # <<"done", k>> /\ <<"start", j>> # <<"stop", 0>>
                      /\ <<"done", j>> # <<"stop", 0>>
                      /\ <<"start", j>> = <<"start", k>> => j = k
                      /\ <<"done", j>> = <<"done", k>> => j = k
  BY DEF TypeOK, Event

LEMMA StartJobStep == IInv /\ StartJob => IInv'
  <1> SUFFICES ASSUME IInv, StartJob PROVE IInv'
    OBVIOUS
  <1> DEFINE j == made + 1
  <1> USE DEF StartJob, slotVars, jobVars
  <1>1. j \in Job /\ j \notin 1..made /\ 1..(made + 1) = (1..made) \cup {j}
    <2>1. made \in Nat /\ made < MaxStarts /\ MaxStarts \in Nat
      BY MaxStartsAssumption DEF IInv, TypeOK
    <2> QED
      BY <2>1 DEF Job
  <1>2. j \notin waiting_job_ids \cup jobs \cup finished_jobs \cup pruned
    BY <1>1 DEF IInv, Known
  <1>3. ~Coming(j) /\ ~Taken(j) /\ ~Waits(j)
    BY <1>1, <1>2 DEF IInv, Known
  <1>4. /\ events' \in Seq(Event) /\ Distinct(events')
        /\ \A x : In(x, events') <=> In(x, events) \/ x = <<"start", j>>
    <2>1. events \in Seq(Event) /\ <<"start", j>> \in Event /\ Distinct(events)
      BY <1>1, EventTypes DEF IInv, OneEach
    <2>2. events' = Append(events, <<"start", j>>) /\ ~In(<<"start", j>>, events)
      BY <1>3 DEF Coming
    <2> HIDE DEF j
    <2> QED
      BY <2>1, <2>2, Appended
  <1>5. loop' = loop \/ (loop = "off" /\ loop' = "get")
    OBVIOUS
  <1>6. /\ \A k : Coming(k)' <=> Coming(k) \/ k = j
        /\ \A k : Reported(k)' <=> Reported(k)
        /\ \A k : Taken(k)' <=> Taken(k)
        /\ \A k : Ending(k)' <=> Ending(k)
        /\ \A k : Waits(k)' <=> Waits(k)
    BY <1>4, <1>5, EventTypes DEF IInv, Coming, Reported, Taken, Ending, Waits, At
  <1>7. TypeOK'
    <2>1. made' \in 0..MaxStarts /\ waiting_job_ids' \subseteq Job
      BY <1>1, MaxStartsAssumption DEF IInv, TypeOK
    <2> QED
      BY <1>4, <2>1 DEF IInv, TypeOK, Event
  <1>8. OneEach'
    <2>1. In(<<"stop", 0>>, events') => shutting_down
      BY <1>4, EventTypes DEF IInv, OneEach
    <2> QED
      BY <1>3, <1>4, <1>5, <1>6, <2>1 DEF IInv, OneEach
  <1>9. Known'
    <2>1. 1..made' = waiting_job_ids' \cup jobs' \cup finished_jobs' \cup pruned'
      BY <1>1 DEF IInv, Known
    <2>2. /\ \A k \in Job : k \in waiting_job_ids' <=> Coming(k)' \/ Taken(k)' \/ Waits(k)'
      BY <1>6 DEF IInv, Known
    <2> QED
      BY <1>2, <2>1, <2>2 DEF IInv, Known
  <1>10. Reports'
    BY <1>6 DEF IInv, Reports
  <1>11. Slots'
    BY <1>5 DEF IInv, Slots, InTime
  <1> QED
    BY <1>7, <1>8, <1>9, <1>10, <1>11 DEF IInv

LEMMA ShutdownStep == IInv /\ Shutdown => IInv'
  <1> SUFFICES ASSUME IInv, Shutdown PROVE IInv'
    OBVIOUS
  <1> USE DEF Shutdown, slotVars, clientVars, loopVars
  <1>1. ~In(<<"stop", 0>>, events)
    BY DEF IInv, OneEach
  <1>2. /\ events' \in Seq(Event) /\ Distinct(events')
        /\ \A x : In(x, events') <=> In(x, events) \/ x = <<"stop", 0>>
    BY <1>1, EventTypes, Appended DEF IInv, OneEach
  <1>3. /\ \A k : Coming(k)' <=> Coming(k)
        /\ \A k : Reported(k)' <=> Reported(k)
        /\ \A k : Taken(k)' <=> Taken(k)
        /\ \A k : Ending(k)' <=> Ending(k)
        /\ \A k : Waits(k)' <=> Waits(k)
    BY <1>2, EventTypes DEF IInv, Coming, Reported, Taken, Ending, Waits, At
  <1>4. TypeOK' /\ \A k \in Job : abort[k] # "no" => abort'[k] # "no"
    BY <1>2 DEF IInv, TypeOK, Event, Aborted
  <1>5. OneEach' /\ Known' /\ Reports'
    BY <1>2, <1>3 DEF IInv, OneEach, Known, Reports
  <1>6. Slots'
    BY <1>4 DEF IInv, TypeOK, Slots, InTime
  <1> QED
    BY <1>4, <1>5, <1>6 DEF IInv

(* Steps that touch no queue and no slot: a job is aborted, or grows older,*)
(* or its thread goes on from "run", or the loop goes on.                  *)
LEMMA JobSteps ==
  ASSUME IInv, NEW j \in Job,
         UNCHANGED <<clientVars, events, slotVars, loopVars, shutting_down>>,
         abort' \in [Job -> {"no", "asked", "limit", "shutdown"}],
         \A k \in Job : abort[k] # "no" => abort'[k] # "no",
         age' \in [Job -> 0..Oldest],
         result' \in [Job -> {"none", "ended", "hung", "empty"}],
         \/ monitor' = monitor
         \/ monitor[j] = "run" /\ \E m \in {"over", "dead"} : monitor' = [monitor EXCEPT ![j] = m]
  PROVE  IInv'
  <1> USE DEF slotVars, clientVars, loopVars
  <1>1. /\ monitor' \in [Job -> {"none", "run", "over", "told", "dead"}]
        /\ \A k \in Job : monitor'[k] \in {"run", "over"} => monitor[k] \in {"run", "over"}
        /\ \A k \in Job : monitor[k] = "told" => monitor'[k] = "told"
        /\ \A k \in Job : monitor'[k] \in {"run", "dead"} => monitor[k] \in {"run", "dead"}
    <2>1. monitor \in [Job -> {"none", "run", "over", "told", "dead"}]
      BY DEF IInv, TypeOK
    <2>2. CASE monitor' = monitor
      BY <2>1, <2>2
    <2> QED
      BY <2>1, <2>2
  <1>2. TypeOK'
    BY <1>1 DEF IInv, TypeOK
  <1>3. OneEach' /\ Known' /\ Reports'
    BY <1>1 DEF IInv, OneEach, Known, Reports, Coming, Taken, Waits, Reported, Ending, At
  <1>4. Slots'
    BY <1>1 DEF IInv, TypeOK, Slots, InTime
  <1> QED
    BY <1>2, <1>3, <1>4 DEF IInv

LEMMA ThreadSteps ==
  ASSUME IInv, NEW j \in Job, AbortJob(j) \/ Ends(j) \/ CannotSpawn(j) \/ Tick(j)
  PROVE  IInv'
  <1>0. /\ abort \in [Job -> {"no", "asked", "limit", "shutdown"}] /\ age \in [Job -> 0..Oldest]
        /\ result \in [Job -> {"none", "ended", "hung", "empty"}]
    BY DEF IInv, TypeOK
  <1>1. CASE AbortJob(j)
    <2>1. /\ abort' \in [Job -> {"no", "asked", "limit", "shutdown"}]
          /\ \A k \in Job : abort[k] # "no" => abort'[k] # "no"
      BY <1>0, <1>1 DEF AbortJob, Aborted
    <2> QED
      BY <1>0, <1>1, <2>1, JobSteps DEF AbortJob
  <1>2. ASSUME NEW r \in {"ended", "hung", "empty"}, EndsWith(j, r) PROVE IInv'
    <2>1. result' \in [Job -> {"none", "ended", "hung", "empty"}]
      BY <1>0, <1>2 DEF EndsWith
    <2> QED
      BY <1>0, <1>2, <2>1, JobSteps DEF EndsWith, Running
  <1>3. CASE CannotSpawn(j)
    BY <1>0, <1>3, JobSteps DEF CannotSpawn, Running
  <1>4. CASE Tick(j)
    <2>1. age' \in [Job -> 0..Oldest]
      BY <1>0, <1>4, TimeAssumption DEF Tick, Oldest
    <2> QED
      BY <1>0, <1>4, <2>1, JobSteps DEF Tick
  <1> QED
    BY <1>1, <1>2, <1>3, <1>4 DEF Ends, Returns, IsAborted, TimesOut

LEMMA TellsStep ==
  ASSUME IInv, NEW j \in Job, Tells(j)
  PROVE  IInv'
  <1> USE DEF Tells, slotVars, clientVars, loopVars
  <1>1. j \in jobs /\ ~Reported(j) /\ ~Ending(j)
    BY DEF IInv, Known, Reports
  <1>2. /\ events' \in Seq(Event) /\ Distinct(events')
        /\ \A x : In(x, events') <=> In(x, events) \/ x = <<"done", j>>
    BY <1>1, EventTypes, Appended DEF IInv, OneEach, Reported
  <1>3. /\ \A k : Coming(k)' <=> Coming(k)
        /\ \A k : Reported(k)' <=> Reported(k) \/ k = j
        /\ \A k : Taken(k)' <=> Taken(k)
        /\ \A k : Ending(k)' <=> Ending(k)
        /\ \A k : Waits(k)' <=> Waits(k)
    BY <1>2, EventTypes DEF IInv, Coming, Reported, Taken, Ending, Waits, At
  <1>4. monitor \in [Job -> {"none", "run", "over", "told", "dead"}]
        /\ monitor' = [monitor EXCEPT ![j] = "told"]
    BY DEF IInv, TypeOK
  <1>5. TypeOK'
    BY <1>2, <1>4 DEF IInv, TypeOK, Event
  <1>6. OneEach'
    <2>1. In(<<"stop", 0>>, events') => shutting_down
      BY <1>2, EventTypes DEF IInv, OneEach
    <2> QED
      BY <1>2, <1>3, <2>1 DEF IInv, OneEach
  <1>7. Known' /\ Reports'
    BY <1>1, <1>3, <1>4 DEF IInv, Known, Reports
  <1>8. Slots'
    BY <1>4 DEF IInv, Slots, InTime, TypeOK
  <1> QED
    BY <1>5, <1>6, <1>7, <1>8 DEF IInv

-----------------------------------------------------------------------------
(* The event loop.                                                         *)
LEMMA ReceiveStep == IInv /\ Receive => IInv'
  <1> SUFFICES ASSUME IInv, Receive PROVE IInv'
    OBVIOUS
  <1> USE DEF Receive, slotVars, clientVars, jobVars
  <1> DEFINE e == Head(events)
  <1>1. /\ events' \in Seq(Event) /\ e \in Event /\ In(e, events)
        /\ \A x : In(x, events') <=> In(x, events) /\ x # e
        /\ Distinct(events')
    BY EventTypes, Tailed DEF IInv, OneEach
  <1>2. e # <<"stop", 0>>
    BY <1>1 DEF IInv, OneEach
  <1>3. PICK kind \in {"start", "done"}, j \in Job : e = <<kind, j>>
    BY <1>1, <1>2 DEF Event
  <1>4. loop' = kind /\ hand' = j /\ loop = "get"
    BY <1>3 DEF At
  <1>5. TypeOK'
    BY <1>1, <1>4 DEF IInv, TypeOK, Event
  <1>6. CASE kind = "start"
    <2>1. /\ Coming(j) /\ \A k \in Job : Coming(k)' <=> Coming(k) /\ k # j
          /\ \A k \in Job : Reported(k)' <=> Reported(k)
          /\ \A k \in Job : Taken(k)' <=> k = j
          /\ \A k \in Job : ~Ending(k)' /\ ~Ending(k) /\ ~Taken(k)
          /\ \A k \in Job : Waits(k)' <=> Waits(k)
      BY <1>1, <1>3, <1>4, <1>6, EventTypes
         DEF IInv, Coming, Reported, Taken, Ending, Waits, At
    <2>2. OneEach'
      BY <1>1, <1>4, <2>1 DEF IInv, OneEach
    <2>3. Known' /\ Reports'
      BY <2>1 DEF IInv, Known, Reports
    <2>4. Slots'
      BY <1>4, <1>6 DEF IInv, Slots
    <2> QED
      BY <1>5, <2>2, <2>3, <2>4 DEF IInv
  <1>7. CASE kind = "done"
    <2>1. /\ Reported(j) /\ \A k \in Job : Reported(k)' <=> Reported(k) /\ k # j
          /\ \A k \in Job : Coming(k)' <=> Coming(k)
          /\ \A k \in Job : Ending(k)' <=> k = j
          /\ \A k \in Job : ~Taken(k)' /\ ~Ending(k) /\ ~Taken(k)
          /\ \A k \in Job : Waits(k)' <=> Waits(k)
      BY <1>1, <1>3, <1>4, <1>7, EventTypes
         DEF IInv, Coming, Reported, Taken, Ending, Waits, At
    <2>2. OneEach'
      BY <1>1, <1>4, <2>1 DEF IInv, OneEach
    <2>3. Known' /\ Reports'
      BY <2>1 DEF IInv, Known, Reports
    <2>4. Slots'
      BY <1>4, <1>7 DEF IInv, Slots
    <2> QED
      BY <1>5, <2>2, <2>3, <2>4 DEF IInv
  <1> QED
    BY <1>6, <1>7

(* What start_waiting_jobs() does to the invariant: the queue are the jobs *)
(* that wait and, after a StartEvent, the one the loop has.                *)
LEMMA StartWaitingStep ==
  ASSUME IInv, loop \in {"start", "tidy"}, NEW queue \in Seq(Job), Distinct(queue),
         \A j \in Job : In(j, queue) <=> Waits(j) \/ Taken(j),
         StartWaiting(queue, jobs), loop' = "block", hand' = 0,
         UNCHANGED <<made, events, max_block, shutting_down, result, abort, age>>,
         finished_jobs' \subseteq Job, pruned' \subseteq Job,
         finished_jobs' \cap pruned' = {},
         finished_jobs' \cup pruned' = finished_jobs \cup pruned
  PROVE  IInv'
  <1>1. \A j \in Job : In(j, queue) => j \notin jobs
    BY DEF IInv, Known
  <1>2. PICK new \in SUBSET Job :
            /\ waiting_jobs' \in Seq(Job) /\ Distinct(waiting_jobs')
            /\ \A j : In(j, waiting_jobs') <=> In(j, queue) /\ j \notin new
            /\ \A j \in new : In(j, queue)
            /\ jobs' = jobs \cup new /\ waiting_job_ids' = waiting_job_ids \ new
            /\ monitor' = [j \in Job |-> IF j \in new THEN "run" ELSE monitor[j]]
            /\ Cardinality(jobs') <= max_jobs
            /\ waiting_jobs' # <<>> => Cardinality(jobs') = max_jobs
    BY <1>1, Started
  <1>3. \A j \in new : Waits(j) \/ Taken(j)
    BY <1>2
  <1>4. \A j \in new : j \in waiting_job_ids /\ j \notin jobs /\ ~Coming(j)
    BY <1>3 DEF IInv, OneEach, Known
  <1>5. \A j \in Job : /\ ~Taken(j)' /\ ~Ending(j)' /\ ~Ending(j)
                      /\ (Waits(j)' <=> (Waits(j) \/ Taken(j)) /\ j \notin new)
                      /\ (Coming(j)' <=> Coming(j))
                      /\ (Reported(j)' <=> Reported(j))
    BY <1>2 DEF Taken, Ending, Waits, Coming, Reported, At
  <1>6. TypeOK'
    BY <1>2 DEF IInv, TypeOK
  <1>7. OneEach'
    BY <1>2, <1>5 DEF IInv, OneEach
  <1>8. Known'
    <2>1. \A j \in Job : j \in waiting_job_ids' <=> Coming(j)' \/ Taken(j)' \/ Waits(j)'
      BY <1>2, <1>4, <1>5 DEF IInv, Known
    <2>2. \A j \in Job : monitor'[j] \in {"run", "over"} => j \in jobs'
      BY <1>2 DEF IInv, Known
    <2>3. 1..made' = waiting_job_ids' \cup jobs' \cup finished_jobs' \cup pruned'
      BY <1>2, <1>4 DEF IInv, Known
    <2>4. /\ waiting_job_ids' \cap jobs' = {}
          /\ (waiting_job_ids' \cup jobs') \cap (finished_jobs' \cup pruned') = {}
      BY <1>2, <1>4 DEF IInv, Known
    <2> QED
      BY <2>1, <2>2, <2>3, <2>4 DEF Known
  <1>9. Reports'
    <2>1. \A j \in Job : Reported(j) => j \in jobs /\ monitor[j] = "told" /\ j \notin new
      BY <1>4 DEF IInv, Reports
    <2> QED
      BY <1>2, <1>5, <2>1 DEF Reports
  <1>10. Slots'
    BY <1>2 DEF Slots
  <1> QED
    BY <1>6, <1>7, <1>8, <1>9, <1>10 DEF IInv

LEMMA TakeInStep == IInv /\ TakeIn => IInv'
  <1> SUFFICES ASSUME IInv, TakeIn PROVE IInv'
    OBVIOUS
  <1> USE DEF TakeIn, At
  <1>1. hand \in Job /\ ~Waits(hand) /\ waiting_jobs \in Seq(Job) /\ Distinct(waiting_jobs)
    BY DEF IInv, TypeOK, OneEach, Taken
  <1>2. /\ Append(waiting_jobs, hand) \in Seq(Job) /\ Distinct(Append(waiting_jobs, hand))
        /\ \A j : In(j, Append(waiting_jobs, hand)) <=> In(j, waiting_jobs) \/ j = hand
    BY <1>1, Appended DEF Waits
  <1>3. \A j \in Job : In(j, Append(waiting_jobs, hand)) <=> Waits(j) \/ Taken(j)
    BY <1>2 DEF Waits, Taken
  <1>4. finished_jobs \subseteq Job /\ pruned \subseteq Job /\ finished_jobs \cap pruned = {}
    BY DEF IInv, TypeOK, Known
  <1> QED
    BY <1>2, <1>3, <1>4, StartWaitingStep

LEMMA TidyStep == IInv /\ Tidy => IInv'
  <1> SUFFICES ASSUME IInv, Tidy PROVE IInv'
    OBVIOUS
  <1> USE DEF Tidy, At
  <1>1. PICK old \in SUBSET finished_jobs : /\ finished_jobs' = finished_jobs \ old
                                           /\ pruned' = pruned \cup old
    OBVIOUS
  <1>2. /\ finished_jobs' \subseteq Job /\ pruned' \subseteq Job /\ finished_jobs' \cap pruned' = {}
        /\ finished_jobs' \cup pruned' = finished_jobs \cup pruned
    BY <1>1 DEF IInv, TypeOK, Known
  <1>3. waiting_jobs \in Seq(Job) /\ Distinct(waiting_jobs)
        /\ \A j \in Job : In(j, waiting_jobs) <=> Waits(j) \/ Taken(j)
    BY DEF IInv, TypeOK, OneEach, Waits, Taken
  <1> QED
    BY <1>2, <1>3, StartWaitingStep

LEMMA JobFinishedStep == IInv /\ JobFinished => IInv'
  <1> SUFFICES ASSUME IInv, JobFinished PROVE IInv'
    OBVIOUS
  <1> USE DEF JobFinished, At, jobVars, clientVars
  <1>1. hand \in jobs /\ monitor[hand] = "told" /\ ~Reported(hand) /\ hand \in Job
    BY DEF IInv, OneEach, Reports, Ending
  <1>2. \A j \in Job : /\ ~Taken(j)' /\ ~Taken(j) /\ ~Ending(j)' /\ (Ending(j) <=> j = hand)
                      /\ (Waits(j)' <=> Waits(j)) /\ (Coming(j)' <=> Coming(j))
                      /\ (Reported(j)' <=> Reported(j))
    BY DEF Taken, Ending, Waits, Coming, Reported
  <1>3. TypeOK' /\ OneEach'
    BY <1>1, <1>2 DEF IInv, TypeOK, OneEach
  <1>4. Known'
    <2>1. 1..made' = waiting_job_ids' \cup jobs' \cup finished_jobs' \cup pruned'
      BY <1>1 DEF IInv, Known
    <2>2. /\ waiting_job_ids' \cap jobs' = {} /\ finished_jobs' \cap pruned' = {}
          /\ (waiting_job_ids' \cup jobs') \cap (finished_jobs' \cup pruned') = {}
      BY <1>1 DEF IInv, Known
    <2>3. \A j \in Job : monitor'[j] \in {"run", "over"} => j \in jobs'
      BY <1>1 DEF IInv, Known
    <2>4. \A j \in Job : j \in waiting_job_ids' <=> Coming(j)' \/ Taken(j)' \/ Waits(j)'
      BY <1>2 DEF IInv, Known
    <2> QED
      BY <2>1, <2>2, <2>3, <2>4 DEF Known
  <1>5. Reports'
    BY <1>1, <1>2 DEF IInv, Reports
  <1>6. Slots'
    <2>1. IsFiniteSet(jobs) /\ Cardinality(jobs) \in Nat
      <3>1. jobs \in SUBSET Job /\ IsFiniteSet(Job)
        BY FS_Interval, MaxStartsAssumption DEF IInv, TypeOK, Job
      <3> QED
        BY <3>1, FS_Subset, FS_CardinalityType
    <2>2. Cardinality(jobs') = Cardinality(jobs) - 1
      BY <1>1, <2>1, FS_RemoveElement
    <2> QED
      BY <2>1, <2>2, max_jobsAssumption DEF IInv, Slots
  <1> QED
    BY <1>3, <1>4, <1>5, <1>6 DEF IInv

(* Steps of the loop that only move it on.                                 *)
LEMMA LoopSteps ==
  ASSUME IInv, LoopEnds \/ CallbackReturns \/ UpdateMaxBlock
  PROVE  IInv'
  <1> USE DEF LoopEnds, CallbackReturns, UpdateMaxBlock, At, slotVars, clientVars, jobVars
  <1>1. \A j \in Job : /\ ~Taken(j)' /\ ~Taken(j) /\ ~Ending(j)' /\ ~Ending(j)
                      /\ (Waits(j)' <=> Waits(j)) /\ (Coming(j)' <=> Coming(j))
                      /\ (Reported(j)' <=> Reported(j))
    BY DEF Taken, Ending, Waits, Coming, Reported
  <1>2. TypeOK'
    BY DEF IInv, TypeOK
  <1>3. OneEach' /\ Known' /\ Reports'
    BY <1>1 DEF IInv, OneEach, Known, Reports
  <1>4. Slots'
    BY DEF IInv, Slots, InTime
  <1> QED
    BY <1>2, <1>3, <1>4 DEF IInv

LEMMA AbortHangingJobsStep == IInv /\ AbortHangingJobs => IInv'
  <1> SUFFICES ASSUME IInv, AbortHangingJobs PROVE IInv'
    OBVIOUS
  <1> USE DEF AbortHangingJobs, At, slotVars, clientVars
  <1> DEFINE hanging == {j \in jobs : InTime(j) /\ age[j] >= max_job_time}
  <1>1. /\ abort' = [j \in Job |-> IF j \in hanging /\ abort[j] = "no" THEN "limit" ELSE abort[j]]
        /\ max_block' = (hanging = {} \/ \E j \in jobs \ hanging : InTime(j))
        /\ UNCHANGED <<clientVars, events, slotVars, loop, hand, shutting_down, monitor, result, age>>
    BY DEF Aborted
  <1> HIDE DEF hanging
  <1>2. TypeOK'
    BY <1>1 DEF IInv, TypeOK
  <1>3. OneEach' /\ Known' /\ Reports'
    BY <1>1 DEF IInv, OneEach, Known, Reports, Coming, Taken, Waits, Reported, Ending
  <1>4. ASSUME NEW j \in jobs, InTime(j)' PROVE max_block'
    <2>1. InTime(j) /\ j \in Job
      BY <1>1, <1>4 DEF InTime, IInv, TypeOK
    <2>2. j \notin hanging
      BY <1>1, <1>4, <2>1 DEF InTime
    <2> QED
      BY <1>1, <2>1, <2>2
  <1>5. Slots'
    BY <1>1, <1>4 DEF IInv, Slots
  <1> QED
    BY <1>2, <1>3, <1>5 DEF IInv

LEMMA StepInvariant == IInv /\ [Next]_vars => IInv'
  <1> SUFFICES ASSUME IInv, [Next]_vars PROVE IInv'
    OBVIOUS
  <1>1. CASE UNCHANGED vars
    BY <1>1 DEF vars, slotVars, clientVars, loopVars, jobVars, IInv, TypeOK, OneEach, Known, Reports,
                Slots, Coming, Taken, Waits, Reported, Ending, At, InTime
  <1> QED
    BY <1>1, StartJobStep, ShutdownStep, ThreadSteps, TellsStep, ReceiveStep, TakeInStep, TidyStep,
       JobFinishedStep, LoopSteps, AbortHangingJobsStep DEF Next, LoopStep

(* The inductive invariant holds of every behaviour of the jobs manager.   *)
THEOREM Invariant == Spec => []IInv
  BY InitInvariant, StepInvariant, PTL DEF Spec

(* TypeOK, for any numbers of jobs, worker processes and time units.       *)
THEOREM TypeCorrect == Spec => []TypeOK
  <1>1. IInv => TypeOK
    BY DEF IInv
  <1> QED
    BY <1>1, Invariant, PTL

LEMMA InvariantMeans ==
  ASSUME IInv
  PROVE  EveryJobIsKnown /\ NothingIsForgotten
  <1>1. \A j : (\E i \in {k \in DOMAIN events : events[k][1] = "start"} : events[i][2] = j)
                <=> j \in Job /\ Coming(j)
    <2>1. events \in Seq(Event)
      BY EventTypes DEF IInv
    <2>2. ASSUME NEW i \in DOMAIN events, events[i][1] = "start"
          PROVE  events[i][2] \in Job /\ events[i] = <<"start", events[i][2]>>
      <3>1. events[i] \in Event
        BY <2>1, ElementOfSeq, LenProperties
      <3> QED
        BY <2>2, <3>1 DEF Event
    <2> QED
      BY <2>2 DEF Coming, In
  <1>2. \A j : (\E i \in DOMAIN waiting_jobs : waiting_jobs[i] = j) <=> j \in Job /\ Waits(j)
    <2>1. waiting_jobs \in Seq(Job)
      BY DEF IInv, TypeOK
    <2>2. \A i \in DOMAIN waiting_jobs : waiting_jobs[i] \in Job
      BY <2>1, ElementOfSeq, LenProperties
    <2> QED
      BY <2>2 DEF Waits, In
  <1>3. waiting_job_ids = Asked
    <2>1. \A j : j \in Asked <=> j \in Job /\ (Coming(j) \/ Taken(j) \/ Waits(j))
      BY <1>1, <1>2 DEF Asked, Taken
    <2> QED
      BY <2>1 DEF IInv, TypeOK, Known
  <1>4. EveryJobIsKnown
    BY <1>3 DEF IInv, Known, Slots, EveryJobIsKnown, Running
  <1>5. NothingIsForgotten
    BY DEF IInv, Slots, NothingIsForgotten, At
  <1> QED
    BY <1>4, <1>5

(* EveryJobIsKnown: whatever requests, ends, aborts and reports cross, a   *)
(* job is always in exactly one of the manager's records, and no more than *)
(* max_jobs run.                                                           *)
THEOREM NoJobIsLost == Spec => []EveryJobIsKnown
  <1>1. IInv => EveryJobIsKnown
    BY InvariantMeans
  <1> QED
    BY <1>1, Invariant, PTL

(* NothingIsForgotten: when the event loop waits, no job could be started  *)
(* and every job that has to be watched will wake it.                      *)
THEOREM LoopNeverForgets == Spec => []NothingIsForgotten
  <1>1. IInv => NothingIsForgotten
    BY InvariantMeans
  <1> QED
    BY <1>1, Invariant, PTL

LEMMA ReportsMean ==
  ASSUME IInv
  PROVE  DoneOnce
  <1> DEFINE reports(j) == {i \in DOMAIN events : events[i] = <<"done", j>>}
             handed(j) == IF At("done") /\ hand = j THEN 1 ELSE 0
  <1> SUFFICES ASSUME NEW j \in Job
               PROVE  /\ reports(j) # {} \/ (At("done") /\ hand = j) => j \in jobs /\ monitor[j] = "told"
                      /\ Cardinality(reports(j)) + handed(j) <= 1
    BY DEF DoneOnce
  <1>1. reports(j) # {} <=> Reported(j)
    BY DEF Reported, In
  <1>2. /\ Reported(j) \/ Ending(j) => j \in jobs /\ monitor[j] = "told"
        /\ ~(Reported(j) /\ Ending(j))
    BY DEF IInv, Reports
  <1>3. CASE ~Reported(j)
    <2>1. Cardinality(reports(j)) = 0
      BY <1>1, <1>3, FS_EmptySet
    <2> QED
      BY <1>1, <1>2, <2>1 DEF Ending
  <1>4. CASE Reported(j)
    <2>1. PICK i \in reports(j) : TRUE
      BY <1>1, <1>4
    <2>2. reports(j) = {i}
      BY <2>1 DEF IInv, OneEach, Distinct
    <2>3. Cardinality(reports(j)) = 1
      BY <2>2, FS_Singleton
    <2> QED
      BY <1>1, <1>2, <1>4, <2>3 DEF Ending
  <1> QED
    BY <1>3, <1>4

(* DoneOnce: job_finished() is called once for every job that ends, while  *)
(* it is in jobs, so the pop() in it never raises.                         *)
THEOREM JobsFinishOnce == Spec => []DoneOnce
  <1>1. IInv => DoneOnce
    BY ReportsMean
  <1> QED
    BY <1>1, Invariant, PTL

-----------------------------------------------------------------------------
(* The order in which jobs are started.                                    *)
Increasing(s) == \A i, k \in DOMAIN s : i < k => s[i] < s[k]

StartsIncrease(s) ==
    \A i, k \in DOMAIN s :
        s[i][1] = "start" /\ s[k][1] = "start" /\ i < k => s[i][2] < s[k][2]

(* Jobs go by age through the events, the loop's hand and waiting_jobs.    *)
ByAge ==
    /\ Increasing(waiting_jobs)
    /\ StartsIncrease(events)
    /\ \A j, k \in Job : Waits(j) /\ (Taken(k) \/ Coming(k)) => j < k
    /\ \A j, k \in Job : Taken(j) /\ Coming(k) => j < k
    /\ StartedInOrder

LEMMA JobsAreNumbers == Job \subseteq Nat
  BY MaxStartsAssumption DEF Job

(* Queueing keeps the order of what is newer than the rest, and of events  *)
(* that start nothing.                                                     *)
LEMMA IncreasingAppended ==
  ASSUME NEW s \in Seq(Job), Increasing(s), NEW e \in Job, \A j \in Job : In(j, s) => j < e
  PROVE  Increasing(Append(s, e))
  <1>1. /\ Len(s) \in Nat /\ DOMAIN s = 1..Len(s) /\ DOMAIN Append(s, e) = 1..(Len(s) + 1)
        /\ \A i \in 1..Len(s) : Append(s, e)[i] = s[i] /\ s[i] \in Job
        /\ Append(s, e)[Len(s) + 1] = e
    BY AppendProperties, LenProperties, ElementOfSeq
  <1>2. \A i \in 1..(Len(s) + 1) : i \in 1..Len(s) \/ i = Len(s) + 1
    BY <1>1
  <1> SUFFICES ASSUME NEW i \in 1..(Len(s) + 1), NEW k \in 1..(Len(s) + 1), i < k
               PROVE  Append(s, e)[i] < Append(s, e)[k]
    BY <1>1 DEF Increasing
  <1>3. i \in 1..Len(s)
    BY <1>1
  <1>4. CASE k \in 1..Len(s)
    BY <1>1, <1>3, <1>4 DEF Increasing
  <1>5. CASE k = Len(s) + 1
    BY <1>1, <1>3, <1>5 DEF In
  <1> QED
    BY <1>2, <1>4, <1>5

LEMMA EventAppended ==
  ASSUME NEW s \in Seq(Event), StartsIncrease(s), NEW e \in Event,
         e[1] = "start" => \A j \in Job : In(<<"start", j>>, s) => j < e[2]
  PROVE  StartsIncrease(Append(s, e))
  <1>1. /\ Len(s) \in Nat /\ DOMAIN s = 1..Len(s) /\ DOMAIN Append(s, e) = 1..(Len(s) + 1)
        /\ \A i \in 1..Len(s) : Append(s, e)[i] = s[i] /\ s[i] \in Event
        /\ Append(s, e)[Len(s) + 1] = e
    BY AppendProperties, LenProperties, ElementOfSeq
  <1>2. \A i \in 1..(Len(s) + 1) : i \in 1..Len(s) \/ i = Len(s) + 1
    BY <1>1
  <1> SUFFICES ASSUME NEW i \in 1..(Len(s) + 1), NEW k \in 1..(Len(s) + 1), i < k,
                      Append(s, e)[i][1] = "start", Append(s, e)[k][1] = "start"
               PROVE  Append(s, e)[i][2] < Append(s, e)[k][2]
    BY <1>1 DEF StartsIncrease
  <1>3. i \in 1..Len(s)
    BY <1>1
  <1>4. CASE k \in 1..Len(s)
    BY <1>1, <1>3, <1>4 DEF StartsIncrease
  <1>5. CASE k = Len(s) + 1
    <2>1. s[i] \in Event /\ s[i][1] = "start"
      BY <1>1, <1>3
    <2>2. s[i][2] \in Job /\ s[i] = <<"start", s[i][2]>>
      BY <2>1 DEF Event
    <2>3. In(<<"start", s[i][2]>>, s)
      BY <1>1, <1>3, <2>2 DEF In
    <2> QED
      BY <1>1, <1>3, <1>5, <2>2, <2>3
  <1> QED
    BY <1>2, <1>4, <1>5

LEMMA EventTaken ==
  ASSUME NEW s \in Seq(Event), s # <<>>, StartsIncrease(s), Distinct(s)
  PROVE  /\ StartsIncrease(Tail(s))
         /\ \A j, k \in Job : Head(s) = <<"start", j>> /\ In(<<"start", k>>, Tail(s)) => j < k
  <1>1. /\ Len(s) \in Nat /\ Len(s) > 0 /\ Head(s) = s[1]
        /\ DOMAIN s = 1..Len(s) /\ DOMAIN Tail(s) = 1..(Len(s) - 1)
        /\ \A i \in 1..(Len(s) - 1) : Tail(s)[i] = s[i + 1]
    BY HeadTailProperties, LenProperties, EmptySeq
  <1>2. \A i \in 1..(Len(s) - 1) : i + 1 \in 1..Len(s) /\ 1 < i + 1 /\ 1 \in 1..Len(s) /\ i \in Int
    BY <1>1
  <1>3. StartsIncrease(Tail(s))
    <2> SUFFICES ASSUME NEW i \in 1..(Len(s) - 1), NEW k \in 1..(Len(s) - 1), i < k,
                        s[i + 1][1] = "start", s[k + 1][1] = "start"
                 PROVE  s[i + 1][2] < s[k + 1][2]
      BY <1>1 DEF StartsIncrease
    <2>1. i + 1 \in DOMAIN s /\ k + 1 \in DOMAIN s /\ i + 1 < k + 1
      BY <1>1, <1>2
    <2> QED
      BY <2>1 DEF StartsIncrease
  <1>4. ASSUME NEW j \in Job, NEW k \in Job, Head(s) = <<"start", j>>, In(<<"start", k>>, Tail(s))
        PROVE  j < k
    <2>1. PICK i \in 1..(Len(s) - 1) : Tail(s)[i] = <<"start", k>>
      BY <1>1, <1>4 DEF In
    <2>2. s[1] = <<"start", j>> /\ s[i + 1] = <<"start", k>>
      BY <1>1, <1>4, <2>1
    <2>3. 1 \in DOMAIN s /\ i + 1 \in DOMAIN s /\ 1 < i + 1
      BY <1>1, <1>2
    <2> QED
      BY <2>2, <2>3 DEF StartsIncrease
  <1> QED
    BY <1>3, <1>4

(* The first jobs of the queue are started: all others are newer.          *)
LEMMA FirstStarted ==
  ASSUME IInv, NEW queue \in Seq(Job), Increasing(queue), StartWaiting(queue, jobs)
  PROVE  /\ Increasing(waiting_jobs')
         /\ \A j : In(j, waiting_jobs') => In(j, queue)
         /\ \E new \in SUBSET Job :
               /\ jobs' = jobs \cup new /\ waiting_job_ids' = waiting_job_ids \ new
               /\ \A k \in new : In(k, queue)
               /\ \A k \in new, j \in Job : In(j, queue) /\ j \notin new => k < j
  <1> DEFINE free == max_jobs - Cardinality(jobs)
             n == IF Len(queue) < free THEN Len(queue) ELSE free
             new == {queue[i] : i \in 1..n}
             r == SubSeq(queue, n + 1, Len(queue))
  <1>1. waiting_jobs' = r /\ jobs' = jobs \cup new /\ waiting_job_ids' = waiting_job_ids \ new
    BY DEF StartWaiting, FreeSlots
  <1>2. free \in Nat
    <2>1. jobs \in SUBSET Job /\ IsFiniteSet(Job)
      BY FS_Interval, MaxStartsAssumption DEF IInv, TypeOK, Job
    <2> QED
      BY <2>1, FS_Subset, FS_CardinalityType, max_jobsAssumption DEF IInv, Slots
  <1>3. /\ Len(queue) \in Nat /\ DOMAIN queue = 1..Len(queue)
        /\ \A i \in 1..Len(queue) : queue[i] \in Job
    BY LenProperties, ElementOfSeq
  <1> HIDE DEF free
  <1>4. n \in 0..Len(queue)
    BY <1>2, <1>3
  <1> HIDE DEF n
  <1>5. /\ DOMAIN r = 1..(Len(queue) - n)
        /\ \A i \in 1..(Len(queue) - n) : r[i] = queue[n + i]
    <2>1. n + 1 \in 1..(Len(queue) + 1) /\ Len(queue) \in n..Len(queue)
      BY <1>3, <1>4
    <2>2. \A i \in (n + 1)..Len(queue) : i \in 1..Len(queue)
      BY <1>3, <1>4
    <2> QED
      BY <1>3, <1>4, <2>1, <2>2
  <1> HIDE DEF r
  <1>6. \A i \in 1..(Len(queue) - n) : n + i \in 1..Len(queue) /\ i \in Int /\ n \in Int
    BY <1>3, <1>4
  <1>7. Increasing(r)
    <2> SUFFICES ASSUME NEW i \in 1..(Len(queue) - n), NEW k \in 1..(Len(queue) - n), i < k
                 PROVE  queue[n + i] < queue[n + k]
      BY <1>5 DEF Increasing
    <2>1. n + i \in DOMAIN queue /\ n + k \in DOMAIN queue /\ n + i < n + k
      BY <1>3, <1>6
    <2> QED
      BY <2>1 DEF Increasing
  <1>8. \A j : In(j, r) => In(j, queue)
    BY <1>3, <1>5, <1>6 DEF In
  <1>9. \A i \in 1..n : i \in DOMAIN queue
    BY <1>3, <1>4
  <1>10. new \in SUBSET Job /\ \A k \in new : In(k, queue)
    BY <1>3, <1>9 DEF In
  <1>11. ASSUME NEW k \in new, NEW j \in Job, In(j, queue), j \notin new PROVE k < j
    <2>1. PICK i \in 1..n : k = queue[i]
      OBVIOUS
    <2>2. PICK m \in DOMAIN queue : queue[m] = j
      BY <1>11 DEF In
    <2>3. m \notin 1..n
      BY <1>11, <2>2
    <2>4. i \in DOMAIN queue /\ i < m
      BY <1>3, <1>4, <1>9, <2>2, <2>3
    <2> QED
      BY <2>1, <2>2, <2>4 DEF Increasing
  <1> HIDE DEF new
  <1> QED
    BY <1>1, <1>7, <1>8, <1>10, <1>11

(* The jobs that were asked for are those that have their numbers.         *)
LEMMA AskedAreNumbered ==
  ASSUME IInv
  PROVE  /\ \A j \in Job : Coming(j) \/ Taken(j) \/ Waits(j) <=> j \in waiting_job_ids
         /\ waiting_job_ids \subseteq 1..made /\ jobs \cup finished_jobs \cup pruned \subseteq 1..made
         /\ made \in Nat /\ 1..made \subseteq Job
  <1>1. made \in Nat /\ 1..made \subseteq Job
    BY MaxStartsAssumption DEF IInv, TypeOK, Job
  <1> QED
    BY <1>1 DEF IInv, Known

LEMMA AgeStartJob == IInv /\ ByAge /\ StartJob => ByAge'
  <1> SUFFICES ASSUME IInv, ByAge, StartJob PROVE ByAge'
    OBVIOUS
  <1> DEFINE j == made + 1
  <1>1. /\ events' = Append(events, <<"start", j>>) /\ waiting_job_ids' = waiting_job_ids \cup {j}
        /\ UNCHANGED <<waiting_jobs, jobs, finished_jobs, pruned, hand>>
        /\ loop' = loop \/ (loop = "off" /\ loop' = "get")
    BY DEF StartJob, slotVars
  <1>2. j \in Job /\ \A k \in 1..made : k < j
    <2>1. made \in Nat /\ made < MaxStarts /\ MaxStarts \in Nat
      BY MaxStartsAssumption DEF StartJob, IInv, TypeOK
    <2> QED
      BY <2>1 DEF Job
  <1>3. \A k \in Job : Coming(k) \/ Taken(k) \/ Waits(k) => k < j
    BY <1>2, AskedAreNumbered
  <1>4. \A k \in jobs \cup finished_jobs \cup pruned : k < j
    BY <1>2, AskedAreNumbered
  <1> HIDE DEF j
  <1>5. /\ events \in Seq(Event) /\ <<"start", j>> \in Event
        /\ \A x : In(x, events') <=> In(x, events) \/ x = <<"start", j>>
    <2>1. events \in Seq(Event) /\ <<"start", j>> \in Event
      BY <1>2, EventTypes DEF IInv
    <2>2. events' = Append(events, <<"start", j>>)
      BY <1>1
    <2> QED
      BY <2>1, <2>2, Appended
  <1>6. \A k \in Job : /\ (Coming(k)' <=> Coming(k) \/ k = j)
                      /\ (Taken(k)' <=> Taken(k)) /\ (Waits(k)' <=> Waits(k))
    BY <1>1, <1>5 DEF Coming, Taken, Waits, At
  <1>7. StartsIncrease(events')
    BY <1>1, <1>3, <1>5, EventAppended DEF ByAge, Coming
  <1>8. StartedInOrder'
    BY <1>1, <1>4 DEF ByAge, StartedInOrder
  <1> QED
    BY <1>1, <1>3, <1>6, <1>7, <1>8 DEF ByAge

LEMMA AgeReceive == IInv /\ ByAge /\ Receive => ByAge'
  <1> SUFFICES ASSUME IInv, ByAge, Receive PROVE ByAge'
    OBVIOUS
  <1>1. /\ UNCHANGED <<waiting_job_ids, waiting_jobs, jobs, finished_jobs, pruned>>
        /\ events' = Tail(events) /\ events # <<>>
        /\ loop = "get" /\ loop' = Head(events)[1] /\ hand' = Head(events)[2]
    BY DEF Receive, clientVars, slotVars, At
  <1>2. /\ events \in Seq(Event) /\ Distinct(events) /\ Head(events) \in Event
        /\ In(Head(events), events)
        /\ \A x : In(x, events') <=> In(x, events) /\ x # Head(events)
    BY <1>1, EventTypes, Tailed DEF IInv, OneEach
  <1>3. /\ StartsIncrease(events')
        /\ \A j, k \in Job : Head(events) = <<"start", j>> /\ In(<<"start", k>>, events') => j < k
    BY <1>1, <1>2, EventTaken DEF ByAge
  <1>4. \A j \in Job : Taken(j)' => Head(events) = <<"start", j>>
    BY <1>1, <1>2 DEF Taken, At, Event
  <1>5. \A j \in Job : /\ (Coming(j)' => Coming(j)) /\ (Taken(j)' => Coming(j))
                      /\ (Waits(j)' <=> Waits(j))
    BY <1>1, <1>2, <1>4 DEF Coming, Waits
  <1>6. \A j, k \in Job : Taken(j)' /\ Coming(k)' => j < k
    BY <1>3, <1>4 DEF Coming
  <1> QED
    BY <1>1, <1>3, <1>5, <1>6 DEF ByAge, StartedInOrder

(* start_waiting_jobs(), for the jobs that wait and that the loop has.     *)
LEMMA AgeStartWaiting ==
  ASSUME IInv, ByAge, NEW queue \in Seq(Job), Increasing(queue), loop' = "block",
         \A j \in Job : In(j, queue) <=> Waits(j) \/ Taken(j),
         StartWaiting(queue, jobs), UNCHANGED events,
         finished_jobs' \cup pruned' = finished_jobs \cup pruned
  PROVE  ByAge'
  <1>1. PICK new \in SUBSET Job :
            /\ jobs' = jobs \cup new /\ waiting_job_ids' = waiting_job_ids \ new
            /\ \A k \in new : In(k, queue)
            /\ \A k \in new, j \in Job : In(j, queue) /\ j \notin new => k < j
    BY FirstStarted
  <1>2. Increasing(waiting_jobs') /\ \A j \in Job : Waits(j)' => Waits(j) \/ Taken(j)
    BY FirstStarted DEF Waits
  <1>3. \A j \in Job : ~Taken(j)' /\ (Coming(j)' <=> Coming(j))
    BY DEF Taken, Coming, At
  <1>4. ASSUME NEW j \in waiting_job_ids', NEW k \in jobs' \cup finished_jobs' \cup pruned'
        PROVE  k < j
    <2>1. j \in waiting_job_ids /\ j \notin new /\ j \in Job
      BY <1>1, <1>4 DEF IInv, TypeOK
    <2>2. CASE k \in new
      <3>1. In(j, queue) => k < j
        BY <1>1, <2>1, <2>2
      <3>2. Coming(j) => k < j
        BY <1>1, <2>1, <2>2 DEF ByAge
      <3> QED
        BY <2>1, <3>1, <3>2, AskedAreNumbered
    <2>3. CASE k \in jobs \cup finished_jobs \cup pruned
      BY <2>1, <2>3 DEF ByAge, StartedInOrder
    <2> QED
      BY <1>1, <1>4, <2>2, <2>3
  <1> QED
    BY <1>2, <1>3, <1>4 DEF ByAge, StartedInOrder

LEMMA AgeTakeIn == IInv /\ ByAge /\ TakeIn => ByAge'
  <1> SUFFICES ASSUME IInv, ByAge, TakeIn PROVE ByAge'
    OBVIOUS
  <1> DEFINE queue == Append(waiting_jobs, hand)
  <1>1. /\ loop = "start" /\ StartWaiting(queue, jobs) /\ loop' = "block"
        /\ UNCHANGED <<events, finished_jobs, pruned>>
    BY DEF TakeIn, At
  <1>2. hand \in Job /\ waiting_jobs \in Seq(Job) /\ Increasing(waiting_jobs) /\ Taken(hand)
    BY <1>1 DEF IInv, TypeOK, OneEach, ByAge, Taken, At
  <1>3. \A j \in Job : In(j, waiting_jobs) => j < hand
    BY <1>2 DEF ByAge, Waits
  <1>4. /\ queue \in Seq(Job) /\ Increasing(queue)
        /\ \A j \in Job : In(j, queue) <=> Waits(j) \/ Taken(j)
    BY <1>1, <1>2, <1>3, Appended, IncreasingAppended DEF Waits, Taken, At
  <1> HIDE DEF queue
  <1> QED
    BY <1>1, <1>4, AgeStartWaiting

LEMMA AgeTidy == IInv /\ ByAge /\ Tidy => ByAge'
  <1> SUFFICES ASSUME IInv, ByAge, Tidy PROVE ByAge'
    OBVIOUS
  <1>1. /\ loop = "tidy" /\ StartWaiting(waiting_jobs, jobs) /\ loop' = "block"
        /\ UNCHANGED events
    BY DEF Tidy, At
  <1>2. finished_jobs' \cup pruned' = finished_jobs \cup pruned
    BY DEF Tidy
  <1>3. /\ waiting_jobs \in Seq(Job) /\ Increasing(waiting_jobs)
        /\ \A j \in Job : In(j, waiting_jobs) <=> Waits(j) \/ Taken(j)
    BY <1>1 DEF IInv, TypeOK, ByAge, Waits, Taken, At
  <1> QED
    BY <1>1, <1>2, <1>3, AgeStartWaiting

LEMMA AgeJobFinished == IInv /\ ByAge /\ JobFinished => ByAge'
  <1> SUFFICES ASSUME IInv, ByAge, JobFinished PROVE ByAge'
    OBVIOUS
  <1>1. /\ loop = "done" /\ loop' = "callback" /\ hand \in jobs
        /\ UNCHANGED <<waiting_job_ids, events, waiting_jobs, pruned>>
        /\ jobs' \cup finished_jobs' = jobs \cup finished_jobs
    BY DEF JobFinished, clientVars, At, IInv, Reports, Ending, OneEach
  <1>2. \A j \in Job : ~Taken(j)' /\ (Coming(j)' <=> Coming(j)) /\ (Waits(j)' <=> Waits(j))
    BY <1>1 DEF Taken, Coming, Waits, At
  <1>3. StartedInOrder'
    BY <1>1 DEF ByAge, StartedInOrder
  <1> QED
    BY <1>1, <1>2, <1>3 DEF ByAge

(* The end of a job, and of the server, are events that start nothing.     *)
LEMMA AgeReports == IInv /\ ByAge /\ (Shutdown \/ \E j \in Job : Tells(j)) => ByAge'
  <1> SUFFICES ASSUME IInv, ByAge, Shutdown \/ \E j \in Job : Tells(j) PROVE ByAge'
    OBVIOUS
  <1>1. PICK e \in Event : events' = Append(events, e) /\ e[1] # "start"
    BY EventTypes DEF IInv, Shutdown, Tells
  <1>2. UNCHANGED <<waiting_job_ids, waiting_jobs, jobs, finished_jobs, pruned, loop, hand>>
    BY DEF Shutdown, Tells, clientVars, slotVars, loopVars
  <1>3. events \in Seq(Event) /\ \A x : In(x, events') <=> In(x, events) \/ x = e
    BY <1>1, EventTypes, Appended DEF IInv
  <1>4. StartsIncrease(events')
    BY <1>1, <1>3, EventAppended DEF ByAge
  <1>5. \A j \in Job : /\ (Taken(j)' <=> Taken(j)) /\ (Coming(j)' <=> Coming(j))
                      /\ (Waits(j)' <=> Waits(j))
    BY <1>1, <1>2, <1>3 DEF Taken, Coming, Waits, At
  <1> QED
    BY <1>2, <1>4, <1>5 DEF ByAge, StartedInOrder

LEMMA StepByAge == IInv /\ ByAge /\ [Next]_vars => ByAge'
  <1> SUFFICES ASSUME IInv, ByAge, [Next]_vars PROVE ByAge'
    OBVIOUS
  <1>1. ASSUME UNCHANGED <<waiting_job_ids, events, waiting_jobs, jobs, finished_jobs, pruned>>,
               loop' # "start" \/ UNCHANGED <<loop, hand>>
        PROVE  ByAge'
    <2>1. \A j \in Job : /\ (Taken(j)' => Taken(j)) /\ (Coming(j)' <=> Coming(j))
                        /\ (Waits(j)' <=> Waits(j))
      BY <1>1 DEF Taken, Coming, Waits, At
    <2> QED
      BY <1>1, <2>1 DEF ByAge, StartedInOrder
  <1>2. CASE UNCHANGED vars
    BY <1>1, <1>2 DEF vars, clientVars, slotVars, loopVars
  <1>3. ASSUME NEW j \in Job, AbortJob(j) \/ Ends(j) \/ CannotSpawn(j) \/ Tick(j) PROVE ByAge'
    BY <1>1, <1>3 DEF AbortJob, Ends, Returns, IsAborted, TimesOut, EndsWith, CannotSpawn, Tick,
                      clientVars, slotVars, loopVars
  <1>4. CASE LoopEnds \/ CallbackReturns \/ UpdateMaxBlock \/ AbortHangingJobs
    BY <1>1, <1>4 DEF LoopEnds, CallbackReturns, UpdateMaxBlock, AbortHangingJobs, clientVars, slotVars
  <1> QED
    BY <1>2, <1>3, <1>4, AgeStartJob, AgeReceive, AgeTakeIn, AgeTidy, AgeJobFinished, AgeReports
       DEF Next, LoopStep

(* Jobs are started in the order in which they were asked for, whichever   *)
(* of them end, are aborted or cannot be started meanwhile.                *)
THEOREM JobsStartInOrder == Spec => []StartedInOrder
  <1>1. Init => ByAge
    BY DEF Init, ByAge, Increasing, StartsIncrease, Waits, Taken, At, In, StartedInOrder
  <1>2. ByAge => StartedInOrder
    BY DEF ByAge
  <1> QED
    BY <1>1, <1>2, Invariant, StepByAge, PTL DEF Spec

(* Jobs that are started have waited.                                      *)
LEMMA StartedWaited ==
  ASSUME IInv, TakeIn \/ Tidy
  PROVE  \E new \in SUBSET waiting_job_ids :
            /\ jobs' = jobs \cup new
            /\ monitor' = [j \in Job |-> IF j \in new THEN "run" ELSE monitor[j]]
  <1> DEFINE queue == IF loop = "start" THEN Append(waiting_jobs, hand) ELSE waiting_jobs
  <1>1. /\ StartWaiting(queue, jobs)
        /\ loop = "start" => hand \in Job /\ Taken(hand) /\ ~Waits(hand)
    BY DEF TakeIn, Tidy, IInv, OneEach, Taken, At
  <1>2. waiting_jobs \in Seq(Job) /\ Distinct(waiting_jobs)
    BY DEF IInv, TypeOK, OneEach
  <1>3. /\ queue \in Seq(Job) /\ Distinct(queue)
        /\ \A j \in Job : In(j, queue) => Waits(j) \/ Taken(j)
    <2>1. CASE loop = "start"
      BY <1>1, <1>2, <2>1, Appended DEF Waits, Taken, At
    <2>2. CASE loop # "start"
      BY <1>2, <2>2 DEF Waits
    <2> QED
      BY <2>1, <2>2
  <1> HIDE DEF queue
  <1>4. \A j \in Job : In(j, queue) => j \in waiting_job_ids /\ j \notin jobs
    BY <1>3 DEF IInv, Known
  <1>5. PICK new \in SUBSET Job :
            /\ \A j \in new : In(j, queue)
            /\ jobs' = jobs \cup new
            /\ monitor' = [j \in Job |-> IF j \in new THEN "run" ELSE monitor[j]]
    BY <1>1, <1>3, <1>4, Started
  <1>6. new \in SUBSET waiting_job_ids
    BY <1>4, <1>5
  <1> QED
    BY <1>5, <1>6

(* A job goes one way: from jobs to finished_jobs, from there it is only   *)
(* pruned, and how it ended is decided once; as no job is in two records   *)
(* (EveryJobIsKnown) none is run or reported again.                        *)
THEOREM JobsGoOneWay ==
  Spec => [][/\ jobs \subseteq jobs' \cup finished_jobs'
             /\ finished_jobs \subseteq finished_jobs' \cup pruned'
             /\ pruned \subseteq pruned'
             /\ \A j \in Job : result[j] # "none" => result'[j] = result[j]]_vars
  <1> DEFINE Forward == /\ jobs \subseteq jobs' \cup finished_jobs'
                        /\ finished_jobs \subseteq finished_jobs' \cup pruned'
                        /\ pruned \subseteq pruned'
                        /\ \A j \in Job : result[j] # "none" => result'[j] = result[j]
             Undecided ==
                 \A j \in Job :
                     /\ result[j] = "none" \/ monitor[j] \in {"over", "told"}
                     /\ monitor[j] # "none" => j \in jobs \cup finished_jobs \cup pruned
  <1>1. Init => Undecided
    BY DEF Init
  <1>2. ASSUME IInv, [Next]_vars, Undecided PROVE Undecided' /\ Forward
    <2> USE DEF clientVars, slotVars, loopVars, jobVars
    <2>1. /\ monitor \in [Job -> {"none", "run", "over", "told", "dead"}]
          /\ result \in [Job -> {"none", "ended", "hung", "empty"}]
      BY <1>2 DEF IInv, TypeOK
    <2>2. ASSUME UNCHANGED <<slotVars, monitor, result>> PROVE Undecided' /\ Forward
      BY <1>2, <2>2
    <2>3. CASE UNCHANGED vars \/ StartJob \/ Shutdown \/ Receive \/ LoopEnds \/ UpdateMaxBlock
               \/ AbortHangingJobs \/ CallbackReturns
      BY <2>2, <2>3 DEF vars, StartJob, Shutdown, Receive, LoopEnds, UpdateMaxBlock,
                        AbortHangingJobs, CallbackReturns
    <2>4. ASSUME NEW j \in Job, AbortJob(j) \/ Tick(j) PROVE Undecided' /\ Forward
      BY <2>2, <2>4 DEF AbortJob, Tick
    <2>5. ASSUME NEW j \in Job, Ends(j) \/ CannotSpawn(j) \/ Tells(j) PROVE Undecided' /\ Forward
      BY <1>2, <2>1, <2>5 DEF Ends, Returns, IsAborted, TimesOut, EndsWith, CannotSpawn, Tells, Running
    <2>6. CASE JobFinished
      BY <1>2, <2>1, <2>6 DEF JobFinished
    <2>7. CASE TakeIn \/ Tidy
      <3>1. PICK new \in SUBSET waiting_job_ids :
                /\ jobs' = jobs \cup new
                /\ monitor' = [j \in Job |-> IF j \in new THEN "run" ELSE monitor[j]]
        BY <1>2, <2>7, StartedWaited
      <3>2. \A j \in new : result[j] = "none" /\ j \in Job
        BY <1>2 DEF IInv, TypeOK, Known
      <3>3. /\ finished_jobs \subseteq finished_jobs' \cup pruned' /\ pruned \subseteq pruned'
            /\ result' = result
        BY <2>7 DEF TakeIn, Tidy
      <3> QED
        BY <1>2, <2>1, <3>1, <3>2, <3>3
    <2> QED
      BY <1>2, <2>3, <2>4, <2>5, <2>6, <2>7 DEF Next, LoopStep
  <1> QED
    BY <1>1, <1>2, Invariant, PTL DEF Spec
=============================================================================
