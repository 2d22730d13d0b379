------------------------- MODULE WorkerPool_proofs --------------------------
(***************************************************************************)
(* Proofs about the worker pool, for any number of workers, jobs and       *)
(* rounds of common data and any disturbances: IInv is inductive, and the  *)
(* properties follow from it.                                              *)
(***************************************************************************)
EXTENDS WorkerPool, FiniteSetTheorems, SequenceTheorems, TLAPS

-----------------------------------------------------------------------------
(* Where a job is that has been queued.                                    *)
JobsIn(s) == {s[i].job : i \in {k \in DOMAIN s : s[k].kind = "job"}}
InHand == IF Handles("job") \/ At("pop") \/ At("send") THEN {hand.job} ELSE {}
Given == IF Handles("result") THEN {hand.job} ELSE {}
Reporting == IF At("report") THEN {hand.job} ELSE {}
Done == {results[i][1] : i \in DOMAIN results}
Owed == JobsIn(events) \cup InHand \cup Waiting \cup RunningJobs \cup Given

(* How the flags and the places of the threads go together.                *)
Control ==
    /\ At("pop") \/ At("send") => hand.kind = "job"
    /\ At("report") => hand.kind = "result"
    /\ popped # 0 <=> At("send")
    /\ terminal_failure => At("error") \/ At("end")
    /\ At("error") => terminal_failure
    /\ At("end") => terminal_failure \/ shutting_down
    /\ shutting_down => terminal_failure \/ down["client"] # "no"
    /\ \A t \in Thread : down[t] # "no" => shutting_down
    /\ At("pop") => shutting_down \/ available_workers # <<>>
    /\ \A w \in Worker : process[w] = "run" => doing[w] # 0

(* No place has a job twice ...                                            *)
Distinct ==
    /\ \A i, k \in DOMAIN events :
          /\ events[i].kind = "job"
          /\ events[k].kind = "job"
          /\ events[i].job = events[k].job
          => i = k
    /\ IsInjective(pending_jobs)
    /\ \A i, k \in DOMAIN results : results[i][1] = results[k][1] => i = k
    /\ \A v, w \in Busy : busy_workers[v] = busy_workers[w] => v = w
    /\ Handles("result") => \A w \in Worker : busy_workers[w] = hand.job => w = hand.worker

(* ... no job is in two places, and none before it is queued.              *)
Apart ==
    /\ JobsIn(events) \cap (InHand \cup Waiting \cup RunningJobs \cup Given) = {}
    /\ JobsIn(events) \cap (Reporting \cup Done) = {}
    /\ InHand \cap (Waiting \cup RunningJobs) = {}
    /\ Waiting \cap (RunningJobs \cup Given) = {}
    /\ Reporting \cap (Waiting \cup RunningJobs \cup Done) = {}
    /\ ~At("end") => Done \cap Owed = {}
    /\ Owed \cup Reporting \cup Done \subseteq 1..asked
    /\ Alive => 1..asked \subseteq Owed \cup Reporting \cup Done

(* The count of the tracker.                                               *)
Counts ==
    /\ tracker <= asked
    /\ ~At("end") => Cardinality(Owed) <= tracker
    /\ Cardinality(JobsIn(events) \cup Waiting) <= tracker
    /\ Alive => Cardinality(Owed) = tracker
    /\ idle => tracker = 0

(* As long as the pool is not shut down a worker is in one place only, and *)
(* that place tells what its process does.                                 *)
Stationed ==
    /\ IsInjective(available_workers)
    /\ Available \cap (Busy \cup {popped}) = {}
    /\ popped \notin Busy
    /\ \A w \in Worker : w \in Available \cup Busy \cup {popped} => process[w] # "none"
    /\ \A w \in Worker : process[w] = "run" => busy_workers[w] = doing[w]
    /\ \A i \in DOMAIN events : events[i].kind = "result" =>
          /\ busy_workers[events[i].worker] = events[i].job
          /\ process[events[i].worker] # "run"
    /\ \A i, k \in DOMAIN events :
          /\ events[i].kind = "result"
          /\ events[k].kind = "result"
          /\ events[i].worker = events[k].worker
          => i = k
    /\ Handles("result") =>
          /\ busy_workers[hand.worker] = hand.job
          /\ process[hand.worker] # "run"
          /\ \A i \in DOMAIN events : events[i].kind = "result" => events[i].worker # hand.worker

(* Jobs wait only when every worker is started.                            *)
AllStarted ==
    Alive /\ pending_jobs # <<>> =>
        /\ Worker \subseteq Available \cup Busy \cup {popped}
        /\ thread \in {"begin", "get", "event"} => available_workers = <<>>

(* The common data on its way to the workers: jobs queued and data follow  *)
(* each other, for the client waits in between.                            *)
IsData(i) == events[i].kind = "data"
Current == IF Handles("data") THEN hand.data ELSE common_data

DataInOrder ==
    /\ \A j \in JobsIn(events) \cup InHand \cup Waiting : wanted[j] = rounds
    /\ \A i, k \in DOMAIN events : events[i].kind = "job" /\ i < k => ~IsData(k)
    /\ InHand \cup Waiting \cup RunningJobs # {} =>
          ~Handles("data") /\ \A i \in DOMAIN events : ~IsData(i)
    /\ ~At("end") => Current = rounds \/ \E i \in DOMAIN events : IsData(i)
    /\ \A i \in DOMAIN events : IsData(i) =>
          \/ events[i].data = rounds
          \/ \E k \in DOMAIN events : i < k /\ IsData(k)

DataInWorkers ==
    /\ \A w \in Worker : w \in Available \cup {popped} => holds[w] = common_data
    /\ Handles("result") => holds[hand.worker] = common_data
    /\ ~shutting_down => \A w \in Busy : holds[w] = common_data

(* A job is not sent before it is at the head of its queue.                *)
NotSentYet ==
    \A j \in Job : got[j] # NotSent =>
        j <= asked /\ j \notin JobsIn(events) \cup InHand \cup Waiting

IInv ==
    /\ TypeOK
    /\ Control
    /\ Distinct
    /\ Apart
    /\ Counts
    /\ ~shutting_down => Stationed
    /\ AllStarted
    /\ DataInOrder
    /\ DataInWorkers
    /\ NotSentYet
    /\ CommonDataIsCurrent

-----------------------------------------------------------------------------
(* Sequences.                                                              *)
LEMMA Appended ==
  ASSUME NEW S, NEW s \in Seq(S), NEW e \in S
  PROVE  /\ Append(s, e) \in Seq(S) /\ Append(s, e) # <<>> /\ Len(s) \in Nat
         /\ DOMAIN s = 1..Len(s) /\ DOMAIN Append(s, e) = 1..(Len(s) + 1)
         /\ DOMAIN s \subseteq DOMAIN Append(s, e)
         /\ \A i \in DOMAIN Append(s, e) :
               \/ i \in DOMAIN s /\ Append(s, e)[i] = s[i] /\ i < Len(s) + 1
               \/ i = Len(s) + 1 /\ Append(s, e)[i] = e
         /\ Len(s) + 1 \in DOMAIN Append(s, e) /\ Append(s, e)[Len(s) + 1] = e
         /\ \A i \in DOMAIN s : Append(s, e)[i] = s[i]
         /\ Range(Append(s, e)) = Range(s) \cup {e}
         /\ IsInjective(s) /\ e \notin Range(s) => IsInjective(Append(s, e))
  <1>1. /\ Append(s, e) \in Seq(S) /\ Len(Append(s, e)) = Len(s) + 1 /\ Len(s) \in Nat
        /\ DOMAIN s = 1..Len(s) /\ DOMAIN Append(s, e) = 1..(Len(s) + 1) /\ Append(s, e) # <<>>
        /\ \A i \in 1..Len(s) : Append(s, e)[i] = s[i]
        /\ Append(s, e)[Len(s) + 1] = e
    BY AppendProperties, LenProperties
  <1>2. /\ \A n \in 1..(Len(s) + 1) : (n \in 1..Len(s) /\ n < Len(s) + 1) \/ n = Len(s) + 1
        /\ 1..Len(s) \subseteq 1..(Len(s) + 1) /\ Len(s) + 1 \in 1..(Len(s) + 1)
    BY <1>1
  <1>3. Range(Append(s, e)) = Range(s) \cup {e}
    BY <1>1, <1>2 DEF Range
  <1>4. IsInjective(s) /\ e \notin Range(s) => IsInjective(Append(s, e))
    BY <1>1, <1>2 DEF IsInjective, Range
  <1> QED
    BY <1>1, <1>2, <1>3, <1>4

LEMMA Popped ==
  ASSUME NEW S, NEW s \in Seq(S), s # <<>>
  PROVE  /\ SubSeq(s, 1, Len(s) - 1) \in Seq(S) /\ s[Len(s)] \in S /\ s[Len(s)] \in Range(s)
         /\ Range(s) = Range(SubSeq(s, 1, Len(s) - 1)) \cup {s[Len(s)]}
         /\ IsInjective(s) => /\ IsInjective(SubSeq(s, 1, Len(s) - 1))
                              /\ s[Len(s)] \notin Range(SubSeq(s, 1, Len(s) - 1))
  <1>1. Len(s) \in Nat /\ Len(s) > 0 /\ DOMAIN s = 1..Len(s) /\ \A i \in 1..Len(s) : s[i] \in S
    BY LenProperties, EmptySeq, ElementOfSeq
  <1>2. PICK n \in Nat : Len(s) = n + 1
    <2>1. Len(s) - 1 \in Nat /\ (Len(s) - 1) + 1 = Len(s)
      BY <1>1
    <2> QED
      BY <2>1
  <1>3. Len(s) - 1 = n
    BY <1>2
  <1> DEFINE t == SubSeq(s, 1, n)
  <1>4. /\ \A i \in 1..n : i \in 1..(n + 1) /\ i # n + 1
        /\ \A i \in 1..(n + 1) : i = n + 1 \/ i \in 1..n
        /\ n + 1 \in 1..(n + 1)
    BY <1>2
  <1>5. t \in Seq(S) /\ Len(t) = n /\ \A i \in 1..n : t[i] = s[i]
    <2>1. \A i \in 1..n : s[i] \in S
      BY <1>1, <1>2, <1>4
    <2>2. 1 \in Int /\ n \in Int
      BY <1>2
    <2>3. /\ SubSeq(s, 1, n) \in Seq(S)
          /\ Len(SubSeq(s, 1, n)) = IF 1 <= n THEN n - 1 + 1 ELSE 0
          /\ \A i \in 1..(n - 1 + 1) : SubSeq(s, 1, n)[i] = s[1 + i - 1]
      BY <2>1, <2>2, SubSeqProperties
    <2> QED
      BY <1>2, <2>3
  <1>6. DOMAIN t = 1..n
    BY <1>5, LenProperties
  <1> HIDE DEF t
  <1>7. Range(s) = Range(t) \cup {s[n + 1]}
    BY <1>1, <1>2, <1>4, <1>5, <1>6 DEF Range
  <1>8. IsInjective(s) => IsInjective(t) /\ s[n + 1] \notin Range(t)
    BY <1>1, <1>2, <1>4, <1>5, <1>6 DEF IsInjective, Range
  <1>9. s[n + 1] \in S /\ s[n + 1] \in Range(s)
    BY <1>1, <1>2, <1>4 DEF Range
  <1> QED
    BY <1>2, <1>3, <1>5, <1>7, <1>8, <1>9 DEF t

LEMMA Tailed ==
  ASSUME NEW S, NEW s \in Seq(S), s # <<>>
  PROVE  /\ Tail(s) \in Seq(S) /\ Head(s) \in S
         /\ 1 \in DOMAIN s /\ Head(s) = s[1]
         /\ DOMAIN Tail(s) \subseteq Nat /\ DOMAIN s \subseteq Nat
         /\ \A i \in DOMAIN Tail(s) : /\ i + 1 \in DOMAIN s /\ i + 1 # 1 /\ 1 < i + 1
                                      /\ Tail(s)[i] = s[i + 1]
         /\ \A i \in DOMAIN s : \/ i = 1
                                \/ /\ i - 1 \in DOMAIN Tail(s) /\ (i - 1) + 1 = i
                                   /\ Tail(s)[i - 1] = s[i]
  <1>1. /\ Tail(s) \in Seq(S) /\ Head(s) \in S /\ Head(s) = s[1] /\ Len(s) \in Nat /\ Len(s) > 0
        /\ DOMAIN s = 1..Len(s) /\ DOMAIN Tail(s) = 1..(Len(s) - 1)
        /\ \A i \in 1..(Len(s) - 1) : Tail(s)[i] = s[i + 1]
    BY HeadTailProperties, LenProperties, EmptySeq
  <1>2. \A i \in 1..(Len(s) - 1) : i \in Nat /\ i + 1 \in 1..Len(s) /\ i + 1 # 1 /\ 1 < i + 1
    BY <1>1
  <1>3. \A i \in 1..Len(s) : i \in Nat /\ (i = 1 \/ (i - 1 \in 1..(Len(s) - 1) /\ (i - 1) + 1 = i))
    BY <1>1
  <1>4. 1 \in 1..Len(s)
    BY <1>1
  <1> QED
    BY <1>1, <1>2, <1>3, <1>4

(* The events: what their jobs are after put() and after get().            *)
LEMMA JobsAre ==
  ASSUME NEW s, NEW j
  PROVE  j \in JobsIn(s) <=> \E i \in DOMAIN s : s[i].kind = "job" /\ s[i].job = j
  BY DEF JobsIn

LEMMA JobsPut ==
  ASSUME NEW s \in Seq(EventKind), NEW e \in EventKind
  PROVE  JobsIn(Append(s, e)) = JobsIn(s) \cup (IF e.kind = "job" THEN {e.job} ELSE {})
  <1>1. /\ \A i \in DOMAIN Append(s, e) :
               \/ i \in DOMAIN s /\ Append(s, e)[i] = s[i]
               \/ i = Len(s) + 1 /\ Append(s, e)[i] = e
        /\ Len(s) + 1 \in DOMAIN Append(s, e) /\ Append(s, e)[Len(s) + 1] = e
        /\ \A i \in DOMAIN s : i \in DOMAIN Append(s, e) /\ Append(s, e)[i] = s[i]
    BY Appended
  <1>2. JobsIn(s) \subseteq JobsIn(Append(s, e))
    BY <1>1 DEF JobsIn
  <1>3. e.kind = "job" => e.job \in JobsIn(Append(s, e))
    BY <1>1 DEF JobsIn
  <1>4. ASSUME NEW j \in JobsIn(Append(s, e)) PROVE j \in JobsIn(s) \/ (e.kind = "job" /\ e.job = j)
    BY <1>1 DEF JobsIn
  <1> QED
    BY <1>2, <1>3, <1>4

LEMMA JobsTaken ==
  ASSUME NEW s \in Seq(EventKind), s # <<>>
  PROVE  /\ Head(s).kind # "job" => JobsIn(Tail(s)) = JobsIn(s)
         /\ Head(s).kind = "job" => JobsIn(s) = JobsIn(Tail(s)) \cup {Head(s).job}
  <1>1. /\ 1 \in DOMAIN s /\ Head(s) = s[1]
        /\ \A i \in DOMAIN Tail(s) : i + 1 \in DOMAIN s /\ Tail(s)[i] = s[i + 1]
        /\ \A i \in DOMAIN s : i = 1 \/ (i - 1 \in DOMAIN Tail(s) /\ Tail(s)[i - 1] = s[i])
    BY Tailed
  <1>2. ASSUME NEW j, j \in JobsIn(Tail(s)) PROVE j \in JobsIn(s)
    <2>1. PICK i \in DOMAIN Tail(s) : Tail(s)[i].kind = "job" /\ Tail(s)[i].job = j
      BY <1>2, JobsAre
    <2>2. s[i + 1].kind = "job" /\ s[i + 1].job = j /\ i + 1 \in DOMAIN s
      BY <1>1, <2>1
    <2> QED
      BY <2>2, JobsAre
  <1>3. ASSUME NEW j, j \in JobsIn(s)
        PROVE  j \in JobsIn(Tail(s)) \/ (Head(s).kind = "job" /\ Head(s).job = j)
    <2>1. PICK i \in DOMAIN s : s[i].kind = "job" /\ s[i].job = j
      BY <1>3, JobsAre
    <2>2. CASE i = 1
      BY <1>1, <2>1, <2>2
    <2>3. CASE i - 1 \in DOMAIN Tail(s) /\ Tail(s)[i - 1] = s[i]
      <3>1. PICK k \in DOMAIN Tail(s) : Tail(s)[k] = s[i]
        BY <2>3
      <3>2. Tail(s)[k].kind = "job" /\ Tail(s)[k].job = j
        BY <2>1, <3>1
      <3> QED
        BY <3>2, JobsAre
    <2> QED
      BY <1>1, <2>2, <2>3
  <1>4. Head(s).kind = "job" => Head(s).job \in JobsIn(s)
    BY <1>1, JobsAre
  <1> QED
    BY <1>2, <1>3, <1>4

(* The order in which terminal_error() reports the jobs of a set.          *)
LEMMA Ordered ==
  ASSUME NEW S, IsFiniteSet(S), NEW n, n = Cardinality(S)
  PROVE  /\ SetToSeq(S) \in [1..n -> S] /\ n \in Nat
         /\ IsInjective(SetToSeq(S))
         /\ Range(SetToSeq(S)) = S
         /\ SetToSeq(S) \in Seq(S) /\ Len(SetToSeq(S)) = n
  <1>1. n \in Nat /\ ExistsBijection(1..n, S)
    BY FS_CardinalityType
  <1>2. \E f \in [1..n -> S] : IsInjective(f)
    BY <1>1 DEF ExistsBijection, Bijection, Injection
  <1>3. SetToSeq(S) \in [1..n -> S] /\ IsInjective(SetToSeq(S))
    BY <1>2 DEF SetToSeq
  <1>4. IsFiniteSet(1..n) /\ Cardinality(1..n) = n
    BY <1>1, FS_Interval
  <1>5. SetToSeq(S) \in Injection(1..n, S)
    BY <1>3 DEF Injection
  <1>6. SetToSeq(S) \in Surjection(1..n, S)
    BY <1>4, <1>5, FS_Injection
  <1>7. Range(SetToSeq(S)) = S
    BY <1>3, <1>6 DEF Surjection, Range
  <1>8. SetToSeq(S) \in Seq(S)
    BY <1>1, <1>3, SeqDef
  <1>9. Len(SetToSeq(S)) = n
    <2>1. DOMAIN SetToSeq(S) = 1..Len(SetToSeq(S)) /\ Len(SetToSeq(S)) \in Nat
      BY <1>8, LenProperties
    <2>2. DOMAIN SetToSeq(S) = 1..n
      BY <1>3
    <2>3. PICK m \in Nat : m = Len(SetToSeq(S))
      BY <2>1
    <2>4. Cardinality(1..m) = m
      BY FS_Interval
    <2> QED
      BY <1>4, <2>1, <2>2, <2>3, <2>4
  <1> QED
    BY <1>1, <1>3, <1>7, <1>8, <1>9

-----------------------------------------------------------------------------
(* The sets of jobs.                                                       *)
LEMMA SetsAreFinite ==
  ASSUME Apart, asked \in Nat
  PROVE  /\ IsFiniteSet(Owed) /\ Cardinality(Owed) \in Nat
         /\ \A S \in SUBSET Owed : /\ IsFiniteSet(S) /\ Cardinality(S) \in Nat
                                   /\ Cardinality(S) <= Cardinality(Owed)
  <1>1. IsFiniteSet(1..asked)
    BY FS_Interval
  <1>2. Owed \subseteq 1..asked
    BY DEF Apart
  <1>3. IsFiniteSet(Owed)
    BY <1>1, <1>2, FS_Subset
  <1> QED
    BY <1>3, FS_Subset, FS_CardinalityType

LEMMA PlacesOfJobs ==
  /\ JobsIn(events) \subseteq Owed /\ InHand \subseteq Owed /\ Waiting \subseteq Owed
  /\ RunningJobs \subseteq Owed /\ Given \subseteq Owed
  BY DEF Owed

LEMMA NoneOwed ==
  ASSUME IInv, idle, ~At("end")
  PROVE  Owed = {}
  <1>1. asked \in Nat /\ tracker = 0 /\ Cardinality(Owed) <= tracker /\ Apart
    BY BoundsAssumption DEF IInv, TypeOK, Counts
  <1>2. IsFiniteSet(Owed) /\ Cardinality(Owed) \in Nat
    BY <1>1, SetsAreFinite
  <1>3. Cardinality(Owed) = 0
    BY <1>1, <1>2
  <1> QED
    BY <1>2, <1>3, FS_EmptySet

(* The count of the tracker when no job is queued or done.                 *)
LEMMA CountsKept ==
  ASSUME IInv, UNCHANGED <<tracker, asked>>,
         Owed' \subseteq Owed, JobsIn(events)' \subseteq JobsIn(events),
         At("end") => At("end")' /\ Waiting' \subseteq Waiting, Alive' => Alive /\ Owed' = Owed,
         idle' => tracker = 0
  PROVE  Counts'
  <1>1. asked \in Nat /\ tracker \in Nat /\ Apart /\ Counts
    BY BoundsAssumption DEF IInv, TypeOK
  <1>2. /\ IsFiniteSet(Owed) /\ Cardinality(Owed) \in Nat
        /\ Cardinality(Owed') <= Cardinality(Owed) /\ Cardinality(Owed') \in Nat
    BY <1>1, SetsAreFinite
  <1>3. Cardinality((JobsIn(events) \cup Waiting)') <= tracker'
    <2>1. CASE At("end")
      <3>1. (JobsIn(events) \cup Waiting)' \subseteq JobsIn(events) \cup Waiting
        BY <2>1
      <3>2. /\ IsFiniteSet(JobsIn(events) \cup Waiting)
            /\ Cardinality(JobsIn(events) \cup Waiting) \in Nat
            /\ Cardinality(JobsIn(events) \cup Waiting) <= tracker
        BY <1>1, SetsAreFinite, PlacesOfJobs DEF Counts
      <3>3. /\ Cardinality((JobsIn(events) \cup Waiting)') \in Nat
            /\ Cardinality((JobsIn(events) \cup Waiting)') <= Cardinality(JobsIn(events) \cup Waiting)
        BY <3>1, <3>2, FS_Subset, FS_CardinalityType
      <3> QED
        BY <1>1, <3>2, <3>3
    <2>2. CASE ~At("end")
      <3>1. (JobsIn(events) \cup Waiting)' \subseteq Owed
        BY DEF Owed
      <3>2. /\ Cardinality((JobsIn(events) \cup Waiting)') \in Nat
            /\ Cardinality((JobsIn(events) \cup Waiting)') <= Cardinality(Owed)
        BY <1>1, <3>1, SetsAreFinite
      <3> QED
        BY <1>1, <1>2, <2>2, <3>2 DEF Counts
    <2> QED
      BY <2>1, <2>2
  <1>5. tracker' <= asked' /\ (idle' => tracker' = 0)
    BY <1>1 DEF Counts
  <1>6. ~At("end")' => Cardinality(Owed') <= tracker'
    BY <1>1, <1>2 DEF Counts
  <1>8. Alive' => Cardinality(Owed') = tracker'
    BY <1>1 DEF Counts
  <1> QED
    BY <1>3, <1>5, <1>6, <1>8 DEF Counts

(* A step that leaves every job where it is, or that fails and loses the   *)
(* one in hand.                                                            *)
JobsStay ==
    /\ UNCHANGED <<events, pending_jobs, busy_workers, results, asked>>
    /\ InHand' \subseteq InHand /\ Given' = Given /\ Reporting' = Reporting
    /\ Handles("result")' => Handles("result") /\ hand' = hand
    /\ At("end") => At("end")'
    /\ Alive' => Alive /\ InHand' = InHand

LEMMA JobsStayed ==
  ASSUME IInv, JobsStay
  PROVE  /\ Distinct' /\ Apart'
         /\ JobsIn(events)' = JobsIn(events) /\ Waiting' = Waiting
         /\ Busy' = Busy /\ RunningJobs' = RunningJobs /\ Done' = Done
         /\ InHand' \subseteq InHand
         /\ UNCHANGED tracker /\ (idle' => tracker = 0) => Counts'
  <1>1. JobsIn(events)' = JobsIn(events) /\ Waiting' = Waiting /\ Done' = Done
    BY DEF JobsStay, Waiting, Done
  <1>2. Busy' = Busy /\ RunningJobs' = RunningJobs
    BY DEF JobsStay, Busy, RunningJobs
  <1>3. InHand' \subseteq InHand /\ Owed' \subseteq Owed /\ (Alive' => Owed' = Owed)
    BY <1>1, <1>2 DEF JobsStay, Owed
  <1>4. Distinct'
    BY <1>2 DEF JobsStay, IInv, Distinct
  <1>5. Apart'
    BY <1>1, <1>2, <1>3 DEF JobsStay, IInv, Apart
  <1>6. UNCHANGED tracker /\ (idle' => tracker = 0) => Counts'
    BY <1>1, <1>3, CountsKept DEF JobsStay
  <1> QED
    BY <1>1, <1>2, <1>3, <1>4, <1>5, <1>6

(* The calls of the client.                                                *)
LEMMA WaitForTasksStep == IInv /\ WaitForTasks => IInv'
  <1> SUFFICES ASSUME IInv, WaitForTasks PROVE IInv'
    OBVIOUS
  <1> USE DEF listVars, outVars, threadVars, downVars, processVars
  <1>1. JobsStay
    BY DEF WaitForTasks, JobsStay, InHand, Given, Reporting, Handles, At, Alive
  <1>2. /\ Distinct' /\ Apart' /\ Counts' /\ JobsIn(events)' = JobsIn(events)
        /\ Waiting' = Waiting /\ Busy' = Busy /\ RunningJobs' = RunningJobs /\ InHand' \subseteq InHand
    BY <1>1, JobsStayed DEF WaitForTasks, IInv, Counts
  <1>3. TypeOK'
    BY DEF IInv, TypeOK, WaitForTasks
  <1>4. Control'
    BY DEF IInv, Control, At, WaitForTasks
  <1>5. Available' = Available
    BY DEF Available, WaitForTasks
  <1>6. ~shutting_down' => Stationed'
    BY <1>2, <1>5 DEF IInv, Stationed, Handles, At, WaitForTasks
  <1>7. AllStarted'
    BY <1>2, <1>5 DEF IInv, AllStarted, Alive, WaitForTasks
  <1>8. DataInOrder'
    BY <1>2 DEF IInv, DataInOrder, IsData, Current, Handles, At, WaitForTasks
  <1>9. DataInWorkers'
    BY <1>2, <1>5 DEF IInv, DataInWorkers, Handles, At, WaitForTasks
  <1>10. NotSentYet' /\ CommonDataIsCurrent'
    BY <1>2 DEF IInv, NotSentYet, CommonDataIsCurrent, NotSent, WaitForTasks
  <1> QED
    BY <1>2, <1>3, <1>4, <1>6, <1>7, <1>8, <1>9, <1>10 DEF IInv

-----------------------------------------------------------------------------
(* The calls that put an event.                                            *)
LEMMA EventPut ==
  ASSUME TypeOK, NEW e \in EventKind, Put(e)
  PROVE  /\ events' \in Seq(EventKind)
         /\ JobsIn(events)' = JobsIn(events) \cup (IF e.kind = "job" THEN {e.job} ELSE {})
         /\ \E n \in Nat :
               /\ n \in DOMAIN events' /\ events'[n] = e
               /\ \A i \in DOMAIN events :
                     i \in Nat /\ i < n /\ i \in DOMAIN events' /\ events'[i] = events[i]
               /\ \A i \in DOMAIN events' : i \in DOMAIN events \/ i = n
  <1>1. events \in Seq(EventKind) /\ events' = Append(events, e)
    BY DEF TypeOK, Put
  <1>2. /\ events' \in Seq(EventKind) /\ Len(events) + 1 \in Nat
        /\ Len(events) + 1 \in DOMAIN events' /\ events'[Len(events) + 1] = e
        /\ \A i \in DOMAIN events : i \in DOMAIN events' /\ events'[i] = events[i]
        /\ \A i \in DOMAIN events' : i \in DOMAIN events \/ i = Len(events) + 1
    BY <1>1, Appended
  <1>3. \A i \in DOMAIN events : i \in Nat /\ i < Len(events) + 1
    <2>1. DOMAIN events = 1..Len(events) /\ Len(events) \in Nat
      BY <1>1, LenProperties
    <2> QED
      BY <2>1
  <1>4. JobsIn(events)' = JobsIn(events) \cup (IF e.kind = "job" THEN {e.job} ELSE {})
    BY <1>1, JobsPut
  <1> QED
    BY <1>2, <1>3, <1>4

(* While the client may call, the pool is alive unless a worker is lost.   *)
LEMMA CallsAlive ==
  ASSUME IInv, Calls, ~terminal_failure
  PROVE  ~At("end") /\ ~At("error") /\ ~shutting_down /\ Alive
  BY DEF IInv, Control, Calls, Alive

LEMMA SetCommonDataStep == IInv /\ SetCommonData => IInv'
  <1> SUFFICES ASSUME IInv, SetCommonData PROVE IInv'
    OBVIOUS
  <1> USE DEF listVars, outVars, threadVars, downVars, processVars
  <1> DEFINE e == [kind |-> "data", data |-> rounds + 1]
  <1>1. e \in EventKind /\ e.kind = "data" /\ e.data = rounds + 1 /\ e # Stop
        /\ rounds + 1 \in 1..MaxRounds
    BY BoundsAssumption DEF SetCommonData, IInv, TypeOK, EventKind, Stop
  <1> HIDE DEF e
  <1>2. Put(e)
    BY DEF SetCommonData, e
  <1>3. /\ events' \in Seq(EventKind) /\ JobsIn(events)' = JobsIn(events)
    BY <1>1, <1>2, EventPut DEF IInv
  <1>4. PICK n \in Nat :
               /\ n \in DOMAIN events' /\ events'[n] = e
               /\ \A i \in DOMAIN events :
                     i \in Nat /\ i < n /\ i \in DOMAIN events' /\ events'[i] = events[i]
               /\ \A i \in DOMAIN events' : i \in DOMAIN events \/ i = n
    BY <1>1, <1>2, EventPut DEF IInv
  <1>5. ~At("end") /\ ~shutting_down /\ Owed = {}
    BY CallsAlive, NoneOwed DEF SetCommonData
  <1>6. /\ InHand' = InHand /\ Given' = Given /\ Reporting' = Reporting /\ Waiting' = Waiting
        /\ Busy' = Busy /\ RunningJobs' = RunningJobs /\ Done' = Done /\ Available' = Available
    BY DEF SetCommonData, InHand, Given, Reporting, Waiting, Busy, RunningJobs, Done, Available,
           Handles, At
  <1>7. Owed' = Owed
    BY <1>3, <1>6 DEF Owed
  <1>8. TypeOK'
    BY <1>1, <1>3 DEF SetCommonData, IInv, TypeOK
  <1>9. Control'
    BY <1>1, <1>4 DEF SetCommonData, IInv, Control, At
  <1>10. Distinct'
    BY <1>1, <1>4, <1>6 DEF SetCommonData, IInv, Distinct, Handles, At
  <1>11. Apart'
    BY <1>3, <1>6, <1>7 DEF SetCommonData, IInv, Apart, At, Alive
  <1>12. Counts'
    <2>1. idle' => tracker = 0
      BY DEF SetCommonData, IInv, Counts
    <2> QED
      BY <1>3, <1>6, <1>7, <2>1, CountsKept DEF SetCommonData, At, Alive
  <1>13. ~shutting_down' => Stationed'
    BY <1>1, <1>4, <1>5, <1>6 DEF SetCommonData, IInv, Stationed, Handles, At
  <1>14. AllStarted'
    BY <1>6 DEF SetCommonData, IInv, AllStarted, Alive
  <1>15. DataInOrder'
    <2>1. JobsIn(events)' = {} /\ InHand' = {} /\ Waiting' = {} /\ RunningJobs' = {}
      BY <1>3, <1>5, <1>6, PlacesOfJobs
    <2>2. \A i \in DOMAIN events' : events'[i].kind # "job"
      BY <2>1 DEF JobsIn
    <2> QED
      BY <1>1, <1>4, <2>1, <2>2 DEF SetCommonData, DataInOrder, IsData
  <1>16. DataInWorkers'
    BY <1>6 DEF SetCommonData, IInv, DataInWorkers, Handles, At
  <1>17. NotSentYet' /\ CommonDataIsCurrent'
    BY <1>3, <1>6 DEF SetCommonData, IInv, NotSentYet, CommonDataIsCurrent
  <1> QED
    BY <1>8, <1>9, <1>10, <1>11, <1>12, <1>13, <1>14, <1>15, <1>16, <1>17 DEF IInv

(* Data that ends the thread: no job is queued before it.                  *)
LEMMA SetUnfitDataStep == IInv /\ SetUnfitData => IInv'
  <1> SUFFICES ASSUME IInv, SetUnfitData PROVE IInv'
    OBVIOUS
  <1> USE DEF listVars, outVars, threadVars, downVars, processVars
  <1>1. PICK e \in EventKind : e.kind \in {"stop", "unpicklable"} /\ Put(e)
    BY DEF SetUnfitData, EventKind, Stop, Unpicklable
  <1>3. /\ events' \in Seq(EventKind) /\ JobsIn(events)' = JobsIn(events)
    BY <1>1, EventPut DEF IInv
  <1>4. PICK n \in Nat :
               /\ n \in DOMAIN events' /\ events'[n] = e
               /\ \A i \in DOMAIN events :
                     i \in Nat /\ i < n /\ i \in DOMAIN events' /\ events'[i] = events[i]
               /\ \A i \in DOMAIN events' : i \in DOMAIN events \/ i = n
    BY <1>1, EventPut DEF IInv
  <1>6. /\ InHand' = InHand /\ Given' = Given /\ Reporting' = Reporting /\ Waiting' = Waiting
        /\ Busy' = Busy /\ RunningJobs' = RunningJobs /\ Done' = Done /\ Available' = Available
    BY DEF SetUnfitData, InHand, Given, Reporting, Waiting, Busy, RunningJobs, Done, Available,
           Handles, At
  <1>7. Owed' = Owed
    BY <1>3, <1>6 DEF Owed
  <1>8. TypeOK'
    BY <1>1, <1>3 DEF SetUnfitData, IInv, TypeOK
  <1>9. Control'
    BY <1>1, <1>4 DEF SetUnfitData, IInv, TypeOK, Control, At, Thread
  <1>10. Distinct'
    BY <1>1, <1>4, <1>6 DEF SetUnfitData, IInv, Distinct, Handles, At
  <1>11. Apart'
    BY <1>3, <1>6, <1>7 DEF SetUnfitData, IInv, Apart, At, Alive
  <1>12. Counts'
    <2>1. idle' => tracker = 0
      BY DEF SetUnfitData, IInv, Counts
    <2> QED
      BY <1>3, <1>6, <1>7, <2>1, CountsKept DEF SetUnfitData, At, Alive
  <1>13. ~shutting_down' => Stationed'
    BY <1>1, <1>4, <1>6 DEF SetUnfitData, IInv, Stationed, Handles, At
  <1>14. AllStarted'
    BY <1>6 DEF SetUnfitData, IInv, AllStarted, Alive
  <1>15. DataInOrder'
    BY <1>1, <1>3, <1>4, <1>6, SMTT(30)
       DEF SetUnfitData, IInv, DataInOrder, IsData, Current, Handles, At
  <1>16. DataInWorkers'
    BY <1>6 DEF SetUnfitData, IInv, DataInWorkers, Handles, At
  <1>17. NotSentYet' /\ CommonDataIsCurrent'
    BY <1>3, <1>6 DEF SetUnfitData, IInv, NotSentYet, CommonDataIsCurrent
  <1> QED
    BY <1>8, <1>9, <1>10, <1>11, <1>12, <1>13, <1>14, <1>15, <1>16, <1>17 DEF IInv

LEMMA QueueJobStep == IInv /\ QueueJob => IInv'
  <1> SUFFICES ASSUME IInv, QueueJob PROVE IInv'
    OBVIOUS
  <1> USE DEF listVars, outVars, threadVars, downVars, processVars
  <1> DEFINE e == [kind |-> "job", job |-> asked + 1]
  <1>1. /\ asked \in Nat /\ asked + 1 \in Job /\ rounds \in 0..MaxRounds
        /\ \A j \in 1..asked : j \in Nat /\ j # asked + 1
        /\ 1..(asked + 1) = 1..asked \cup {asked + 1}
        /\ 1..asked \subseteq Job
    <2>1. /\ asked \in Nat /\ asked < MaxJobs /\ MaxJobs \in Nat /\ rounds \in 0..MaxRounds
      BY BoundsAssumption DEF QueueJob, IInv, TypeOK
    <2>2. asked + 1 \in Job /\ 1..asked \subseteq Job
      BY <2>1 DEF Job
    <2>3. /\ \A j \in 1..asked : j \in Nat /\ j # asked + 1
          /\ 1..(asked + 1) = 1..asked \cup {asked + 1}
      BY <2>1
    <2> QED
      BY <2>1, <2>2, <2>3
  <1>2. e \in EventKind /\ e.kind = "job" /\ e.job = asked + 1 /\ e # Stop
    BY <1>1 DEF EventKind, Stop
  <1> HIDE DEF e
  <1>3. Put(e)
    BY DEF QueueJob, e
  <1>4. /\ events' \in Seq(EventKind) /\ JobsIn(events)' = JobsIn(events) \cup {asked + 1}
    BY <1>2, <1>3, EventPut DEF IInv
  <1>5. PICK n \in Nat :
               /\ n \in DOMAIN events' /\ events'[n] = e
               /\ \A i \in DOMAIN events :
                     i \in Nat /\ i < n /\ i \in DOMAIN events' /\ events'[i] = events[i]
               /\ \A i \in DOMAIN events' : i \in DOMAIN events \/ i = n
    BY <1>2, <1>3, EventPut DEF IInv
  <1>6. ~At("end") /\ ~shutting_down
    BY CallsAlive DEF QueueJob
  <1>7. /\ InHand' = InHand /\ Given' = Given /\ Reporting' = Reporting /\ Waiting' = Waiting
        /\ Busy' = Busy /\ RunningJobs' = RunningJobs /\ Done' = Done /\ Available' = Available
    BY DEF QueueJob, InHand, Given, Reporting, Waiting, Busy, RunningJobs, Done, Available,
           Handles, At
  <1>8. /\ Owed' = Owed \cup {asked + 1}
        /\ asked + 1 \notin Owed \cup Reporting \cup Done
    BY <1>1, <1>4, <1>7 DEF Owed, IInv, Apart
  <1>9. TypeOK'
    <2>1. tracker' \in 0..MaxJobs /\ asked' \in 0..MaxJobs
      BY BoundsAssumption DEF QueueJob, IInv, TypeOK, Counts
    <2>2. wanted' \in [Job -> 0..MaxRounds]
      BY <1>1 DEF QueueJob, IInv, TypeOK
    <2> QED
      BY <1>4, <2>1, <2>2 DEF QueueJob, IInv, TypeOK
  <1>10. Control'
    BY <1>2, <1>5 DEF QueueJob, IInv, Control, At
  <1>11. Distinct'
    <2>1. \A i \in DOMAIN events : events[i].kind = "job" => events[i].job # asked + 1
      BY <1>8, PlacesOfJobs DEF JobsIn
    <2> QED
      BY <1>2, <1>5, <1>7, <2>1 DEF QueueJob, IInv, Distinct, Handles, At
  <1>12. Apart'
    BY <1>1, <1>4, <1>7, <1>8, PlacesOfJobs DEF QueueJob, IInv, Apart, At, Alive
  <1>13. Counts'
    <2>1. /\ IsFiniteSet(Owed) /\ Cardinality(Owed) \in Nat
          /\ IsFiniteSet(JobsIn(events) \cup Waiting) /\ Cardinality(JobsIn(events) \cup Waiting) \in Nat
      BY <1>1, SetsAreFinite, PlacesOfJobs DEF IInv
    <2>2. Cardinality(Owed)' = Cardinality(Owed) + 1
      BY <1>8, <2>1, FS_AddElement
    <2>3. Cardinality(JobsIn(events) \cup Waiting)' = Cardinality(JobsIn(events) \cup Waiting) + 1
      <3>1. /\ asked + 1 \notin JobsIn(events) \cup Waiting
            /\ (JobsIn(events) \cup Waiting)' = JobsIn(events) \cup Waiting \cup {asked + 1}
        BY <1>4, <1>7, <1>8, PlacesOfJobs
      <3> QED
        BY <2>1, <3>1, FS_AddElement
    <2>4. tracker \in Nat
      BY BoundsAssumption DEF IInv, TypeOK
    <2> QED
      BY <1>1, <2>1, <2>2, <2>3, <2>4 DEF QueueJob, IInv, Counts, At, Alive
  <1>14. ~shutting_down' => Stationed'
    BY <1>2, <1>5, <1>6, <1>7 DEF QueueJob, IInv, Stationed, Handles, At
  <1>15. AllStarted'
    BY <1>7 DEF QueueJob, IInv, AllStarted, Alive
  <1>16. DataInOrder'
    <2>1. \A j \in JobsIn(events)' \cup InHand' \cup Waiting' : wanted'[j] = rounds'
      <3>1. \A j \in JobsIn(events) \cup InHand \cup Waiting : j \in 1..asked /\ wanted[j] = rounds
        BY PlacesOfJobs DEF IInv, Apart, DataInOrder
      <3> QED
        BY <1>1, <1>4, <1>7, <3>1 DEF QueueJob, IInv, TypeOK
    <2>2. \A i, k \in DOMAIN events' : events'[i].kind = "job" /\ i < k => ~IsData(k)'
      BY <1>2, <1>5 DEF IInv, DataInOrder, IsData
    <2>3. InHand' \cup Waiting' \cup RunningJobs' # {} =>
             ~Handles("data")' /\ \A i \in DOMAIN events' : ~IsData(i)'
      BY <1>2, <1>5, <1>7 DEF QueueJob, IInv, DataInOrder, IsData, Handles, At
    <2>4. ~At("end")' => Current' = rounds' \/ \E i \in DOMAIN events' : IsData(i)'
      BY <1>2, <1>5 DEF QueueJob, IInv, DataInOrder, IsData, Handles, At, Current
    <2>5. \A i \in DOMAIN events' : IsData(i)' =>
             events'[i].data = rounds' \/ \E k \in DOMAIN events' : i < k /\ IsData(k)'
      BY <1>2, <1>5 DEF QueueJob, IInv, DataInOrder, IsData
    <2> QED
      BY <2>1, <2>2, <2>3, <2>4, <2>5 DEF DataInOrder
  <1>17. DataInWorkers'
    BY <1>7 DEF QueueJob, IInv, DataInWorkers, Handles, At
  <1>18. NotSentYet' /\ CommonDataIsCurrent'
    <2>1. \A j \in Job : got'[j] # NotSent => j \in Nat /\ j <= asked /\ j # asked + 1
      BY <1>1 DEF QueueJob, IInv, NotSentYet, Job
    <2>2. NotSentYet'
      BY <1>1, <1>4, <1>7, <2>1 DEF QueueJob, IInv, NotSentYet, NotSent
    <2>3. CommonDataIsCurrent'
      BY <1>1, <2>1 DEF QueueJob, IInv, TypeOK, CommonDataIsCurrent, NotSent
    <2> QED
      BY <2>2, <2>3
  <1> QED
    BY <1>9, <1>10, <1>11, <1>12, <1>13, <1>14, <1>15, <1>16, <1>17, <1>18 DEF IInv

LEMMA ShutdownCallStep == IInv /\ Shutdown => IInv'
  <1> SUFFICES ASSUME IInv, Shutdown PROVE IInv'
    OBVIOUS
  <1> USE DEF listVars, outVars, threadVars, downVars, processVars, clientVars
  <1>1. Stop \in EventKind /\ Stop.kind = "stop"
    BY DEF Stop, EventKind
  <1>2. Put(Stop)
    BY DEF Shutdown
  <1>3. /\ events' \in Seq(EventKind) /\ JobsIn(events)' = JobsIn(events)
    BY <1>1, <1>2, EventPut DEF IInv
  <1>4. PICK n \in Nat :
               /\ n \in DOMAIN events' /\ events'[n] = Stop
               /\ \A i \in DOMAIN events :
                     i \in Nat /\ i < n /\ i \in DOMAIN events' /\ events'[i] = events[i]
               /\ \A i \in DOMAIN events' : i \in DOMAIN events \/ i = n
    BY <1>1, <1>2, EventPut DEF IInv
  <1>6. /\ InHand' = InHand /\ Given' = Given /\ Reporting' = Reporting /\ Waiting' = Waiting
        /\ Busy' = Busy /\ RunningJobs' = RunningJobs /\ Done' = Done /\ Available' = Available
    BY DEF Shutdown, InHand, Given, Reporting, Waiting, Busy, RunningJobs, Done, Available,
           Handles, At
  <1>7. Owed' = Owed
    BY <1>3, <1>6 DEF Owed
  <1>8. TypeOK'
    BY <1>1, <1>3 DEF Shutdown, IInv, TypeOK, Thread
  <1>9. Control'
    BY <1>1, <1>4 DEF Shutdown, IInv, TypeOK, Control, At, Thread
  <1>10. Distinct'
    BY <1>1, <1>4, <1>6 DEF Shutdown, IInv, Distinct, Handles, At
  <1>11. Apart'
    BY <1>3, <1>6, <1>7 DEF Shutdown, IInv, Apart, At, Alive
  <1>12. Counts'
    <2>1. idle' => tracker = 0
      BY DEF Shutdown, IInv, Counts
    <2> QED
      BY <1>3, <1>6, <1>7, <2>1, CountsKept DEF Shutdown, At, Alive
  <1>13. shutting_down' /\ AllStarted'
    BY DEF Shutdown, AllStarted, Alive
  <1>15. DataInOrder'
    BY <1>1, <1>3, <1>4, <1>6, SMTT(30) DEF Shutdown, IInv, DataInOrder, IsData, Current, Handles, At
  <1>16. DataInWorkers'
    BY <1>6 DEF Shutdown, IInv, DataInWorkers, Handles, At
  <1>17. NotSentYet' /\ CommonDataIsCurrent'
    BY <1>3, <1>6 DEF Shutdown, IInv, NotSentYet, CommonDataIsCurrent
  <1> QED
    BY <1>8, <1>9, <1>10, <1>11, <1>12, <1>13, <1>15, <1>16, <1>17 DEF IInv

-----------------------------------------------------------------------------
(* shutdown_workers(), by either thread.                                   *)
LEMMA EndsOnly ==
  ASSUME IInv, NEW S \in SUBSET Worker, EndsProcesses(S)
  PROVE  /\ process' \in [Worker -> {"none", "idle", "run", "dead"}]
         /\ \A w \in Worker : process'[w] = "run" => doing[w] # 0
  BY DEF IInv, TypeOK, Control, EndsProcesses

LEMMA ListsAreOfWorkers ==
  ASSUME TypeOK
  PROVE  Busy \subseteq Worker /\ Available \subseteq Worker
  <1>1. \A i \in DOMAIN available_workers : available_workers[i] \in Worker
    BY LenProperties, ElementOfSeq DEF TypeOK
  <1> QED
    BY <1>1 DEF Busy, Available

LEMMA TerminateBusyStep == ASSUME IInv, NEW t \in Thread, TerminateBusy(t) PROVE IInv'
  <1> USE DEF listVars, outVars, threadVars, processVars, clientVars
  <1>1. shutting_down /\ shutting_down'
    BY DEF TerminateBusy, IInv, Control
  <1>2. JobsStay
    BY DEF TerminateBusy, JobsStay, InHand, Given, Reporting, Handles, At, Alive
  <1>3. idle' => tracker = 0
    BY DEF TerminateBusy, IInv, Counts
  <1>4. /\ Distinct' /\ Apart' /\ Counts' /\ JobsIn(events)' = JobsIn(events)
        /\ Waiting' = Waiting /\ Busy' = Busy /\ RunningJobs' = RunningJobs /\ InHand' \subseteq InHand
    BY <1>2, <1>3, JobsStayed DEF TerminateBusy
  <1>5. /\ process' \in [Worker -> {"none", "idle", "run", "dead"}]
        /\ \A w \in Worker : process'[w] = "run" => doing[w] # 0
    BY EndsOnly, ListsAreOfWorkers DEF TerminateBusy, IInv
  <1>6. TypeOK'
    BY <1>5 DEF TerminateBusy, IInv, TypeOK
  <1>7. Control'
    BY <1>1, <1>5 DEF TerminateBusy, IInv, TypeOK, Control, At
  <1>8. Available' = Available
    BY DEF Available, TerminateBusy
  <1>9. AllStarted'
    BY <1>1 DEF AllStarted, Alive
  <1>10. DataInOrder'
    BY <1>4 DEF IInv, DataInOrder, IsData, Current, Handles, At, TerminateBusy
  <1>11. DataInWorkers'
    BY <1>4, <1>8 DEF IInv, DataInWorkers, Handles, At, TerminateBusy
  <1>12. NotSentYet' /\ CommonDataIsCurrent'
    BY <1>4 DEF IInv, NotSentYet, CommonDataIsCurrent, NotSent, TerminateBusy
  <1> QED
    BY <1>1, <1>4, <1>6, <1>7, <1>9, <1>10, <1>11, <1>12 DEF IInv

LEMMA ListWorkersStep == ASSUME IInv, NEW t \in Thread, ListWorkers(t) PROVE IInv'
  <1> USE DEF listVars, outVars, threadVars, processVars, clientVars
  <1>1. shutting_down /\ shutting_down'
    BY DEF ListWorkers, IInv, Control
  <1>2. JobsStay
    BY DEF ListWorkers, JobsStay, InHand, Given, Reporting, Handles, At, Alive
  <1>3. idle' => tracker = 0
    BY DEF ListWorkers, IInv, Counts
  <1>4. /\ Distinct' /\ Apart' /\ Counts' /\ JobsIn(events)' = JobsIn(events)
        /\ Waiting' = Waiting /\ Busy' = Busy /\ RunningJobs' = RunningJobs /\ InHand' \subseteq InHand
    BY <1>2, <1>3, JobsStayed DEF ListWorkers
  <1>5. /\ process' \in [Worker -> {"none", "idle", "run", "dead"}]
        /\ \A w \in Worker : process'[w] = "run" => doing[w] # 0
    BY EndsOnly, ListsAreOfWorkers DEF ListWorkers, IInv
  <1>6. TypeOK'
    <2>1. Available \cup Busy \subseteq Worker
      BY ListsAreOfWorkers DEF IInv
    <2>2. doomed' \in [Thread -> SUBSET Worker]
      BY <2>1 DEF ListWorkers, IInv, TypeOK
    <2> QED
      BY <1>5, <2>2 DEF ListWorkers, IInv, TypeOK
  <1>7. Control'
    BY <1>1, <1>5 DEF ListWorkers, IInv, TypeOK, Control, At
  <1>8. Available' = Available
    BY DEF Available, ListWorkers
  <1>9. AllStarted'
    BY <1>1 DEF AllStarted, Alive
  <1>10. DataInOrder'
    BY <1>4 DEF IInv, DataInOrder, IsData, Current, Handles, At, ListWorkers
  <1>11. DataInWorkers'
    BY <1>4, <1>8 DEF IInv, DataInWorkers, Handles, At, ListWorkers
  <1>12. NotSentYet' /\ CommonDataIsCurrent'
    BY <1>4 DEF IInv, NotSentYet, CommonDataIsCurrent, NotSent, ListWorkers
  <1> QED
    BY <1>1, <1>4, <1>6, <1>7, <1>9, <1>10, <1>11, <1>12 DEF IInv

LEMMA KillListedStep == ASSUME IInv, NEW t \in Thread, KillListed(t) PROVE IInv'
  <1> USE DEF outVars, threadVars, processVars, clientVars
  <1>1. shutting_down /\ shutting_down'
    BY DEF KillListed, IInv, Control
  <1>2. /\ JobsIn(events)' = JobsIn(events) /\ InHand' = InHand /\ Given' = Given
        /\ Reporting' = Reporting /\ Waiting' = Waiting /\ Done' = Done
    BY DEF KillListed, InHand, Given, Reporting, Waiting, Done, Handles, At
  <1>3. Busy' = {} /\ RunningJobs' = {}
    BY DEF KillListed, Busy, RunningJobs
  <1>4. Available' = {}
    BY DEF KillListed, Available
  <1>5. Owed' \subseteq Owed
    BY <1>2, <1>3 DEF Owed
  <1>6. /\ process' \in [Worker -> {"none", "idle", "run", "dead"}]
        /\ \A w \in Worker : process'[w] = "run" => doing[w] # 0
    <2>1. doomed[t] \cup {w \in Available \cup Busy : process[w] = "idle"} \in SUBSET Worker
      BY ListsAreOfWorkers DEF IInv, TypeOK
    <2> QED
      BY <2>1, EndsOnly DEF KillListed
  <1>7. TypeOK'
    BY <1>6, EmptySeq DEF KillListed, IInv, TypeOK
  <1>8. Control'
    BY <1>1, <1>6 DEF KillListed, IInv, TypeOK, Control, At
  <1>9. Distinct'
    <2>1. Handles("result") => hand.job # 0
      BY DEF IInv, TypeOK, EventKind, Handles, Job
    <2> QED
      BY <1>3, <2>1 DEF KillListed, IInv, Distinct, Handles, At
  <1>10. Apart'
    BY <1>1, <1>2, <1>3, <1>5 DEF KillListed, IInv, Apart, At, Alive
  <1>11. Counts'
    <2>1. idle' => tracker = 0
      BY DEF KillListed, IInv, Counts
    <2> QED
      BY <1>1, <1>2, <1>5, <2>1, CountsKept DEF KillListed, At, Alive
  <1>12. AllStarted'
    BY <1>1 DEF AllStarted, Alive
  <1>13. DataInOrder'
    BY <1>2, <1>3 DEF IInv, DataInOrder, IsData, Current, Handles, At, KillListed
  <1>14. DataInWorkers'
    BY <1>1, <1>3, <1>4 DEF IInv, DataInWorkers, Handles, At, KillListed
  <1>15. NotSentYet' /\ CommonDataIsCurrent'
    BY <1>2 DEF IInv, NotSentYet, CommonDataIsCurrent, NotSent, KillListed
  <1> QED
    BY <1>1, <1>7, <1>8, <1>9, <1>10, <1>11, <1>12, <1>13, <1>14, <1>15 DEF IInv

-----------------------------------------------------------------------------
(* The processes: a job that ends, well or not, makes an event.            *)
LEMMA JobEnds ==
  ASSUME IInv, NEW w \in Worker, NEW crash \in BOOLEAN, NEW state \in {"idle", "dead"},
         process[w] = "run",
         process' = [process EXCEPT ![w] = state],
         Put([kind |-> "result", worker |-> w, job |-> doing[w], crash |-> crash]),
         UNCHANGED <<listVars, outVars, common_data, threadVars, downVars, doing,
                     holds, got, clientVars>>
  PROVE  IInv'
  <1> USE DEF listVars, outVars, threadVars, downVars, clientVars
  <1> DEFINE e == [kind |-> "result", worker |-> w, job |-> doing[w], crash |-> crash]
  <1>1. /\ e \in EventKind /\ e.kind = "result" /\ e.worker = w /\ e.job = doing[w] /\ e # Stop
        /\ doing[w] \in Job
    BY DEF IInv, TypeOK, Control, EventKind, Stop
  <1>2. Put(e)
    OBVIOUS
  <1> HIDE DEF e
  <1>3. /\ events' \in Seq(EventKind) /\ JobsIn(events)' = JobsIn(events)
    BY <1>1, <1>2, EventPut DEF IInv
  <1>4. PICK n \in Nat :
               /\ n \in DOMAIN events' /\ events'[n] = e
               /\ \A i \in DOMAIN events :
                     i \in Nat /\ i < n /\ i \in DOMAIN events' /\ events'[i] = events[i]
               /\ \A i \in DOMAIN events' : i \in DOMAIN events \/ i = n
    BY <1>1, <1>2, EventPut DEF IInv
  <1>5. /\ InHand' = InHand /\ Given' = Given /\ Reporting' = Reporting /\ Waiting' = Waiting
        /\ Busy' = Busy /\ RunningJobs' = RunningJobs /\ Done' = Done /\ Available' = Available
    BY DEF InHand, Given, Reporting, Waiting, Busy, RunningJobs, Done, Available, Handles, At
  <1>6. Owed' = Owed
    BY <1>3, <1>5 DEF Owed
  <1>7. /\ process' \in [Worker -> {"none", "idle", "run", "dead"}]
        /\ \A v \in Worker : process'[v] = IF v = w THEN state ELSE process[v]
    BY DEF IInv, TypeOK
  <1>8. TypeOK'
    BY <1>3, <1>7 DEF IInv, TypeOK
  <1>9. Control'
    BY <1>1, <1>4, <1>7 DEF IInv, Control, At
  <1>10. Distinct'
    BY <1>1, <1>4, <1>5 DEF IInv, Distinct, Handles, At
  <1>11. Apart'
    BY <1>3, <1>5, <1>6 DEF IInv, Apart, At, Alive
  <1>12. Counts'
    <2>1. idle' => tracker = 0
      BY DEF IInv, Counts
    <2> QED
      BY <1>3, <1>5, <1>6, <2>1, CountsKept DEF At, Alive
  <1>13. ~shutting_down' => Stationed'
    BY <1>1, <1>4, <1>5, <1>7 DEF IInv, Stationed, Handles, At
  <1>14. AllStarted'
    BY <1>5 DEF IInv, AllStarted, Alive
  <1>15. DataInOrder'
    BY <1>1, <1>3, <1>4, <1>5, SMTT(30) DEF IInv, DataInOrder, IsData, Current, Handles, At
  <1>16. DataInWorkers'
    BY <1>5 DEF IInv, DataInWorkers, Handles, At
  <1>17. NotSentYet' /\ CommonDataIsCurrent'
    BY <1>3, <1>5 DEF IInv, NotSentYet, CommonDataIsCurrent
  <1> QED
    BY <1>8, <1>9, <1>10, <1>11, <1>12, <1>13, <1>14, <1>15, <1>16, <1>17 DEF IInv

LEMMA FinishStep == ASSUME IInv, NEW w \in Worker, Finish(w) PROVE IInv'
  BY JobEnds DEF Finish

LEMMA CrashStep == ASSUME IInv, NEW w \in Worker, Crash(w) PROVE IInv'
  <1>1. CASE process[w] = "run"
    BY <1>1, JobEnds DEF Crash
  <1>2. CASE process[w] # "run"
    <2> USE DEF listVars, outVars, threadVars, downVars, clientVars
    <2>1. JobsStay
      BY <1>2 DEF Crash, JobsStay, InHand, Given, Reporting, Handles, At, Alive
    <2>2. idle' => tracker = 0
      BY DEF Crash, IInv, Counts
    <2>3. /\ Distinct' /\ Apart' /\ Counts' /\ JobsIn(events)' = JobsIn(events)
          /\ Waiting' = Waiting /\ Busy' = Busy /\ RunningJobs' = RunningJobs /\ InHand' \subseteq InHand
      BY <2>1, <2>2, JobsStayed DEF Crash
    <2>4. /\ process' \in [Worker -> {"none", "idle", "run", "dead"}]
          /\ \A v \in Worker : process'[v] = IF v = w THEN "dead" ELSE process[v]
          /\ process[w] # "none" /\ events' = events
      BY <1>2 DEF IInv, TypeOK, Crash
    <2>5. TypeOK'
      BY <2>4 DEF Crash, IInv, TypeOK
    <2>6. Control'
      BY <2>4 DEF Crash, IInv, Control, At
    <2>7. Available' = Available
      BY DEF Available, Crash
    <2>8. ~shutting_down' => Stationed'
      BY <2>3, <2>4, <2>7 DEF Crash, IInv, Stationed, Handles, At
    <2>9. AllStarted'
      BY <2>3, <2>7 DEF Crash, IInv, AllStarted, Alive
    <2>10. DataInOrder'
      BY <2>3, <2>4 DEF IInv, DataInOrder, IsData, Current, Handles, At, Crash
    <2>11. DataInWorkers'
      BY <2>3, <2>7 DEF IInv, DataInWorkers, Handles, At, Crash
    <2>12. NotSentYet' /\ CommonDataIsCurrent'
      BY <2>3 DEF IInv, NotSentYet, CommonDataIsCurrent, NotSent, Crash
    <2> QED
      BY <2>3, <2>5, <2>6, <2>8, <2>9, <2>10, <2>11, <2>12 DEF IInv
  <1> QED
    BY <1>1, <1>2

-----------------------------------------------------------------------------
(* start_worker().                                                         *)
LEMMA WorkerStarted ==
  ASSUME IInv, NEW next, StartWorker(next)
  PROVE  \/ /\ thread' = "error" /\ terminal_failure'
            /\ UNCHANGED <<available_workers, process, holds>>
         \/ /\ thread' = next /\ shutting_down
            /\ UNCHANGED <<available_workers, process, holds, terminal_failure>>
         \/ /\ thread' = next /\ ~shutting_down /\ UNCHANGED terminal_failure
            /\ available_workers' \in Seq(Worker) /\ available_workers' # <<>>
            /\ \E w \in Worker :
                  /\ process[w] = "none"
                  /\ Available' = Available \cup {w}
                  /\ IsInjective(available_workers) => IsInjective(available_workers)' \/ w \in Available
                  /\ process' = [process EXCEPT ![w] = "idle"]
                  /\ holds' = [holds EXCEPT ![w] = common_data]
  <1>1. CASE /\ ~shutting_down /\ thread' = next /\ UNCHANGED terminal_failure
             /\ \E w \in Worker :
                   /\ process[w] = "none"
                   /\ available_workers' = Append(available_workers, w)
                   /\ process' = [process EXCEPT ![w] = "idle"]
                   /\ holds' = [holds EXCEPT ![w] = common_data]
    <2>1. PICK w \in Worker :
                   /\ process[w] = "none"
                   /\ available_workers' = Append(available_workers, w)
                   /\ process' = [process EXCEPT ![w] = "idle"]
                   /\ holds' = [holds EXCEPT ![w] = common_data]
      BY <1>1
    <2>2. available_workers \in Seq(Worker)
      BY DEF IInv, TypeOK
    <2>3. /\ available_workers' \in Seq(Worker) /\ available_workers' # <<>>
          /\ Range(available_workers') = Range(available_workers) \cup {w}
          /\ IsInjective(available_workers) /\ w \notin Range(available_workers)
                => IsInjective(available_workers')
      BY <2>1, <2>2, Appended
    <2>4. Range(available_workers) = Available /\ Range(available_workers') = Available'
      BY DEF Range, Available
    <2> QED
      BY <1>1, <2>1, <2>3, <2>4
  <1> QED
    BY <1>1 DEF StartWorker, Fails

(* The worker started was in none of the lists.                            *)
LEMMA StartKeeps ==
  ASSUME IInv, NEW next \in {"get", "pop"}, StartWorker(next),
         next = "get" => At("begin"), next = "pop" => Handles("job"),
         UNCHANGED <<events, busy_workers, pending_jobs, results, tracker, common_data,
                     hand, popped, downVars, doing, got, clientVars>>
  PROVE  IInv'
  <1> USE DEF downVars, clientVars
  <1>1. /\ thread' = "error" \/ thread' = next
        /\ thread' = "error" => terminal_failure'
        /\ thread' # "error" => UNCHANGED terminal_failure
        /\ ~At("end") /\ ~At("error") /\ ~terminal_failure
    BY WorkerStarted DEF Handles, At, IInv, Control
  <1>2. /\ available_workers' \in Seq(Worker)
        /\ process' \in [Worker -> {"none", "idle", "run", "dead"}]
        /\ holds' \in [Worker -> 0..MaxRounds]
        /\ \A w \in Worker : process'[w] = "run" => doing[w] # 0
    <2>1. /\ available_workers \in Seq(Worker) /\ common_data \in 0..MaxRounds
          /\ process \in [Worker -> {"none", "idle", "run", "dead"}]
          /\ holds \in [Worker -> 0..MaxRounds]
          /\ \A w \in Worker : process[w] = "run" => doing[w] # 0
      BY DEF IInv, TypeOK, Control
    <2> QED
      BY <2>1, WorkerStarted
  <1>3. JobsStay
    BY <1>1 DEF JobsStay, InHand, Given, Reporting, Handles, At, Alive
  <1>4. /\ Distinct' /\ Apart' /\ Counts' /\ JobsIn(events)' = JobsIn(events)
        /\ Waiting' = Waiting /\ Busy' = Busy /\ RunningJobs' = RunningJobs
        /\ InHand' \subseteq InHand
    BY <1>3, JobsStayed DEF IInv, Counts
  <1>5. TypeOK'
    BY <1>1, <1>2 DEF IInv, TypeOK
  <1>6. Control'
    <2>1. thread' = "pop" => shutting_down \/ available_workers' # <<>>
      BY <1>1, WorkerStarted
    <2>2. thread' = "pop" => hand.kind = "job"
      BY <1>1 DEF Handles
    <2> QED
      BY <1>1, <1>2, <2>1, <2>2 DEF IInv, Control, At, Handles
  <1>7. ~shutting_down =>
          \/ /\ thread' = "error" /\ terminal_failure' /\ Available' = Available
             /\ UNCHANGED <<available_workers, process, holds>>
          \/ \E w \in Worker :
                /\ process[w] = "none" /\ w \notin Available \cup Busy \cup {popped}
                /\ IsInjective(available_workers)' /\ Available' = Available \cup {w}
                /\ process' = [process EXCEPT ![w] = "idle"]
                /\ holds' = [holds EXCEPT ![w] = common_data]
    <2>1. CASE UNCHANGED <<available_workers, process, holds>> /\ thread' = "error" /\ terminal_failure'
      BY <2>1 DEF Available
    <2>2. CASE ~shutting_down /\ \E w \in Worker :
                  /\ process[w] = "none"
                  /\ Available' = Available \cup {w}
                  /\ IsInjective(available_workers) => IsInjective(available_workers)' \/ w \in Available
                  /\ process' = [process EXCEPT ![w] = "idle"]
                  /\ holds' = [holds EXCEPT ![w] = common_data]
      BY <2>2 DEF IInv, Stationed
    <2> QED
      BY <2>1, <2>2, WorkerStarted
  <1>8. ~shutting_down' => Stationed'
    <2>1. CASE thread' = "error" /\ Available' = Available
               /\ UNCHANGED <<available_workers, process, holds>>
      BY <1>4, <2>1 DEF IInv, Stationed, Handles, At
    <2>2. ASSUME ~shutting_down, NEW w \in Worker,
                 process[w] = "none", w \notin Available \cup Busy \cup {popped},
                 IsInjective(available_workers)', Available' = Available \cup {w},
                 process' = [process EXCEPT ![w] = "idle"]
          PROVE  Stationed'
      <3>1. \A v \in Worker : process'[v] = IF v = w THEN "idle" ELSE process[v]
        BY <2>2 DEF IInv, TypeOK
      <3>2. ~Handles("result")'
        BY <1>1 DEF Handles, At
      <3>3. \A i \in DOMAIN events : events[i].kind = "result" => events[i].worker \in Worker
        <4>1. \A i \in DOMAIN events : events[i] \in EventKind
          BY LenProperties, ElementOfSeq DEF IInv, TypeOK
        <4> QED
          BY <4>1 DEF EventKind
      <3> QED
        BY <1>4, <2>2, <3>1, <3>2, <3>3 DEF IInv, Stationed
    <2> QED
      BY <1>7, <2>1, <2>2
  <1>9. AllStarted'
    <2>1. Alive' => ~shutting_down /\ Alive
      BY <1>1 DEF Alive
    <2>2. ASSUME Alive', pending_jobs' # <<>> PROVE FALSE
      <3>1. PICK w \in Worker : process[w] = "none" /\ w \notin Available \cup Busy \cup {popped}
        BY <1>7, <2>1, <2>2 DEF Alive
      <3> QED
        BY <2>1, <2>2, <3>1 DEF IInv, AllStarted
    <2> QED
      BY <2>2 DEF AllStarted
  <1>10. DataInOrder'
    BY <1>1, <1>4 DEF IInv, DataInOrder, IsData, Current, Handles, At
  <1>11. DataInWorkers'
    <2>1. CASE shutting_down
      <3>1. UNCHANGED <<available_workers, holds>> /\ Available' = Available
        BY <2>1, WorkerStarted DEF Available
      <3> QED
        BY <1>1, <1>4, <2>1, <3>1 DEF IInv, DataInWorkers, Handles, At
    <2>2. CASE ~shutting_down
      <3>1. /\ \A w \in Worker : w \in Available' \cup {popped'} => holds'[w] = common_data
            /\ \A w \in Busy : holds'[w] = common_data
        <4>1. /\ \A w \in Worker : w \in Available \cup {popped} => holds[w] = common_data
              /\ \A w \in Busy : holds[w] = common_data /\ w \in Worker
              /\ holds \in [Worker -> 0..MaxRounds]
          BY <2>2, ListsAreOfWorkers DEF IInv, TypeOK, DataInWorkers
        <4>2. CASE Available' = Available /\ holds' = holds
          BY <4>1, <4>2
        <4>3. ASSUME NEW w \in Worker, Available' = Available \cup {w},
                     holds' = [holds EXCEPT ![w] = common_data]
              PROVE  /\ \A v \in Worker : v \in Available' \cup {popped'} => holds'[v] = common_data
                     /\ \A v \in Busy : holds'[v] = common_data
          BY <4>1, <4>3
        <4> QED
          BY <1>7, <2>2, <4>2, <4>3
      <3>2. ~Handles("result")'
        BY <1>1 DEF Handles, At
      <3> QED
        BY <1>4, <3>1, <3>2 DEF DataInWorkers
    <2> QED
      BY <2>1, <2>2
  <1>12. NotSentYet' /\ CommonDataIsCurrent'
    BY <1>4 DEF IInv, NotSentYet, CommonDataIsCurrent, NotSent
  <1> QED
    BY <1>4, <1>5, <1>6, <1>8, <1>9, <1>10, <1>11, <1>12 DEF IInv

LEMMA BeginStep == IInv /\ Begin => IInv'
  <1> SUFFICES ASSUME IInv, Begin PROVE IInv'
    OBVIOUS
  <1>1. /\ StartWorker("get") /\ "get" \in {"get", "pop"}
        /\ UNCHANGED <<events, busy_workers, pending_jobs, results, tracker, common_data,
                       hand, popped, downVars, doing, got, clientVars>>
    BY DEF Begin
  <1>2. ("get" = "get" => At("begin")) /\ ("get" = "pop" => Handles("job"))
    BY DEF Begin
  <1> QED
    BY <1>1, <1>2, StartKeeps

LEMMA WorkerForJobStep == IInv /\ WorkerForJob => IInv'
  <1> SUFFICES ASSUME IInv, WorkerForJob PROVE IInv'
    OBVIOUS
  <1>1. /\ StartWorker("pop") /\ "pop" \in {"get", "pop"}
        /\ UNCHANGED <<events, busy_workers, pending_jobs, results, tracker, common_data,
                       hand, popped, downVars, doing, got, clientVars>>
    BY DEF WorkerForJob
  <1>2. ("pop" = "get" => At("begin")) /\ ("pop" = "pop" => Handles("job"))
    BY DEF WorkerForJob
  <1> QED
    BY <1>1, <1>2, StartKeeps

LEMMA TakeJobStep == IInv /\ TakeJob => IInv'
  <1> SUFFICES ASSUME IInv, TakeJob PROVE IInv'
    OBVIOUS
  <1> USE DEF listVars, outVars, downVars, processVars, clientVars
  <1>1. JobsStay
    BY DEF TakeJob, JobsStay, InHand, Given, Reporting, Handles, At, Alive
  <1>2. /\ Distinct' /\ Apart' /\ Counts' /\ JobsIn(events)' = JobsIn(events)
        /\ Waiting' = Waiting /\ Busy' = Busy /\ RunningJobs' = RunningJobs
        /\ InHand' \subseteq InHand
    BY <1>1, JobsStayed DEF TakeJob, IInv, Counts
  <1>3. TypeOK'
    BY DEF IInv, TypeOK, TakeJob
  <1>4. Control'
    BY DEF IInv, Control, Handles, At, TakeJob
  <1>5. Available' = Available
    BY DEF Available, TakeJob
  <1>6. ~shutting_down' => Stationed'
    BY <1>2, <1>5 DEF IInv, Stationed, Handles, At, TakeJob
  <1>7. AllStarted'
    BY <1>2, <1>5 DEF IInv, AllStarted, Alive, TakeJob
  <1>8. DataInOrder'
    BY <1>2 DEF IInv, DataInOrder, IsData, Current, Handles, At, TakeJob
  <1>9. DataInWorkers'
    BY <1>2, <1>5 DEF IInv, DataInWorkers, Handles, At, TakeJob
  <1>10. NotSentYet' /\ CommonDataIsCurrent'
    BY <1>2 DEF IInv, NotSentYet, CommonDataIsCurrent, NotSent, TakeJob
  <1> QED
    BY <1>2, <1>3, <1>4, <1>6, <1>7, <1>8, <1>9, <1>10 DEF IInv

-----------------------------------------------------------------------------
(* The thread Pool gets an event, ...                                      *)
LEMMA EventTypes ==
  ASSUME TypeOK
  PROVE  /\ \A i \in DOMAIN events :
               /\ events[i] \in EventKind
               /\ events[i].kind = "job" => events[i].job \in Job
               /\ events[i].kind = "result" => events[i].job \in Job /\ events[i].worker \in Worker
               /\ events[i].kind = "data" => events[i].data \in 1..MaxRounds
         /\ hand.kind = "job" => hand.job \in Job
         /\ hand.kind = "result" => hand.job \in Job /\ hand.worker \in Worker
         /\ hand.kind = "data" => hand.data \in 1..MaxRounds
         /\ \A j \in Job : j # 0
         /\ 0 \notin Worker /\ 0 \notin Busy /\ 0 \notin Available
  <1>1. \A i \in DOMAIN events : events[i] \in EventKind
    BY LenProperties, ElementOfSeq DEF TypeOK
  <1>2. \A e \in EventKind :
               /\ e.kind = "job" => e.job \in Job
               /\ e.kind = "result" => e.job \in Job /\ e.worker \in Worker
               /\ e.kind = "data" => e.data \in 1..MaxRounds
    BY DEF EventKind
  <1>3. hand \in EventKind
    BY DEF TypeOK
  <1>4. (\A j \in Job : j # 0) /\ 0 \notin Worker
    BY DEF Job, Worker
  <1>5. 0 \notin Busy /\ 0 \notin Available
    BY <1>4, ListsAreOfWorkers
  <1> QED
    BY <1>1, <1>2, <1>3, <1>4, <1>5

LEMMA ReceiveStep == IInv /\ Receive => IInv'
  <1> SUFFICES ASSUME IInv, Receive PROVE IInv'
    OBVIOUS
  <1> USE DEF listVars, outVars, downVars, processVars, clientVars
  <1>1. /\ At("get") /\ events \in Seq(EventKind) /\ events # <<>>
        /\ events' = Tail(events) /\ hand' = Head(events) /\ thread' \in {"end", "lost", "event"}
    BY DEF Receive, IInv, TypeOK
  <1>2. /\ events' \in Seq(EventKind) /\ hand' \in EventKind
        /\ 1 \in DOMAIN events /\ hand' = events[1]
        /\ DOMAIN events' \subseteq Nat /\ DOMAIN events \subseteq Nat
        /\ \A i \in DOMAIN events' : /\ i + 1 \in DOMAIN events /\ i + 1 # 1 /\ 1 < i + 1
                                     /\ events'[i] = events[i + 1]
        /\ \A i \in DOMAIN events : \/ i = 1
                                    \/ /\ i - 1 \in DOMAIN events' /\ (i - 1) + 1 = i
                                       /\ events'[i - 1] = events[i]
    BY <1>1, Tailed
  <1>3. /\ thread' = "end" => shutting_down
        /\ thread' = "lost" => hand'.kind = "stop"
    BY DEF Receive, Stop
  <1>4. thread' = "event" => ~shutting_down
    BY DEF Receive
  <1>5. InHand = {} /\ Given = {} /\ Reporting = {} /\ Reporting' = {}
    BY <1>1 DEF InHand, Given, Reporting, Handles, At
  <1>6. /\ Waiting' = Waiting /\ Busy' = Busy /\ RunningJobs' = RunningJobs /\ Done' = Done
        /\ Available' = Available
    BY DEF Receive, Waiting, Busy, RunningJobs, Done, Available
  <1>7. /\ hand'.kind # "job" => JobsIn(events)' = JobsIn(events)
        /\ hand'.kind = "job" => /\ JobsIn(events) = JobsIn(events)' \cup {hand'.job}
                                 /\ hand'.job \notin JobsIn(events)'
    <2>1. /\ hand'.kind # "job" => JobsIn(events)' = JobsIn(events)
          /\ hand'.kind = "job" => JobsIn(events) = JobsIn(events)' \cup {hand'.job}
      BY <1>1, JobsTaken
    <2>2. ASSUME hand'.kind = "job", hand'.job \in JobsIn(events)' PROVE FALSE
      <3>1. PICK i \in DOMAIN events' : events'[i].kind = "job" /\ events'[i].job = hand'.job
        BY <2>2 DEF JobsIn
      <3>2. i + 1 \in DOMAIN events /\ events[i + 1].kind = "job" /\ events[i + 1].job = events[1].job
            /\ i + 1 # 1
        BY <1>2, <3>1
      <3> QED
        BY <1>2, <2>2, <3>2 DEF IInv, Distinct
    <2> QED
      BY <2>1, <2>2
  <1>8. /\ InHand' = IF thread' = "event" /\ hand'.kind = "job" THEN {hand'.job} ELSE {}
        /\ Given' = IF thread' = "event" /\ hand'.kind = "result" THEN {hand'.job} ELSE {}
    BY <1>1 DEF InHand, Given, Handles, At
  <1>9. thread' = "event" /\ hand'.kind = "result" =>
           /\ busy_workers[hand'.worker] = hand'.job /\ hand'.worker \in Busy
           /\ hand'.job \in RunningJobs /\ process[hand'.worker] # "run"
           /\ hand'.job \in Job /\ hand'.worker \in Worker
    BY <1>2, <1>4, EventTypes DEF IInv, Stationed, Busy, RunningJobs
  <1>10. /\ JobsIn(events)' \subseteq JobsIn(events)
         /\ InHand' \subseteq JobsIn(events) /\ JobsIn(events)' \cap InHand' = {}
         /\ Given' \subseteq RunningJobs
         /\ thread' # "end" => JobsIn(events) = JobsIn(events)' \cup InHand'
    BY <1>1, <1>3, <1>7, <1>8, <1>9
  <1>11. Owed' \subseteq Owed /\ (thread' # "end" => Owed' = Owed)
    BY <1>5, <1>6, <1>10 DEF Owed
  <1>12. TypeOK'
    BY <1>1, <1>2 DEF Receive, IInv, TypeOK
  <1>13. Control'
    BY <1>1, <1>3 DEF Receive, IInv, Control, At
  <1>14. Distinct'
    <2>1. ASSUME NEW i \in DOMAIN events', NEW k \in DOMAIN events',
                 events'[i].kind = "job", events'[k].kind = "job", events'[i].job = events'[k].job
          PROVE  i = k
      <3>1. i + 1 = k + 1 /\ i \in Nat /\ k \in Nat
        BY <1>2, <2>1 DEF IInv, Distinct
      <3> QED
        BY <3>1
    <2>2. Handles("result")' => \A w \in Worker : busy_workers'[w] = hand'.job => w = hand'.worker
      <3> SUFFICES ASSUME Handles("result")', NEW w \in Worker, busy_workers[w] = hand'.job
                   PROVE  w = hand'.worker
        BY DEF Receive
      <3>1. /\ busy_workers[hand'.worker] = hand'.job /\ hand'.worker \in Busy
            /\ hand'.job # 0
        BY <1>9, EventTypes DEF Handles, At, IInv
      <3>2. w \in Busy
        BY <3>1 DEF Busy
      <3> QED
        BY <3>1, <3>2 DEF IInv, Distinct
    <2> QED
      BY <1>6, <2>1, <2>2 DEF Receive, IInv, Distinct
  <1>15. Apart'
    <2>1. ~At("end") /\ (~At("end")' => thread' # "end")
      BY <1>1 DEF At
    <2> QED
      BY <1>3, <1>5, <1>6, <1>10, <1>11, <2>1, PlacesOfJobs
         DEF Receive, IInv, Apart, At, Alive
  <1>16. Counts'
    <2>1. /\ idle' => tracker = 0
          /\ Alive' => Alive /\ thread' # "end"
          /\ ~At("end")
      BY <1>1, <1>3 DEF Receive, IInv, Counts, Alive, At
    <2> QED
      BY <1>10, <1>11, <2>1, CountsKept DEF Receive
  <1>17. ~shutting_down' => Stationed'
    <2> SUFFICES ASSUME ~shutting_down PROVE Stationed'
      BY DEF Receive
    <2>1. Stationed
      BY DEF IInv
    <2>2. \A i \in DOMAIN events' : events'[i].kind = "result" =>
             /\ busy_workers[events'[i].worker] = events'[i].job
             /\ process[events'[i].worker] # "run"
      BY <1>2, <2>1 DEF Stationed
    <2>3. ASSUME NEW i \in DOMAIN events', NEW k \in DOMAIN events',
                 events'[i].kind = "result", events'[k].kind = "result",
                 events'[i].worker = events'[k].worker
          PROVE  i = k
      <3>1. i + 1 = k + 1 /\ i \in Nat /\ k \in Nat
        BY <1>2, <2>1, <2>3 DEF Stationed
      <3> QED
        BY <3>1
    <2>4. Handles("result")' =>
             /\ busy_workers[hand'.worker] = hand'.job
             /\ process[hand'.worker] # "run"
             /\ \A i \in DOMAIN events' : events'[i].kind = "result" => events'[i].worker # hand'.worker
      BY <1>2, <1>9, <2>1 DEF Stationed, Handles, At
    <2> QED
      BY <1>6, <2>1, <2>2, <2>3, <2>4 DEF Receive, Stationed
  <1>18. AllStarted'
    BY <1>1, <1>6 DEF Receive, IInv, AllStarted, Alive, At
  <1>19. DataInOrder'
    <2>0. DataInOrder /\ Current = common_data /\ ~At("end")
      BY <1>1 DEF IInv, Current, Handles, At
    <2>1. \A j \in JobsIn(events)' \cup InHand' \cup Waiting' : wanted'[j] = rounds'
      BY <1>6, <1>10, <2>0 DEF Receive, DataInOrder
    <2>2. \A i, k \in DOMAIN events' : events'[i].kind = "job" /\ i < k => ~IsData(k)'
      <3> SUFFICES ASSUME NEW i \in DOMAIN events', NEW k \in DOMAIN events',
                          events'[i].kind = "job", i < k
                   PROVE  ~IsData(k)'
        OBVIOUS
      <3>1. i + 1 < k + 1
        BY <1>2
      <3> QED
        BY <1>2, <2>0, <3>1 DEF DataInOrder, IsData
    <2>3. InHand' \cup Waiting' \cup RunningJobs' # {} =>
             ~Handles("data")' /\ \A i \in DOMAIN events' : ~IsData(i)'
      <3>1. CASE Waiting \cup RunningJobs # {}
        BY <1>2, <2>0, <3>1 DEF DataInOrder, IsData, Handles, At
      <3>2. CASE InHand' # {}
        <4>1. hand'.kind = "job"
          BY <1>8, <3>2
        <4> QED
          BY <1>2, <2>0, <4>1 DEF DataInOrder, IsData, Handles, At
      <3> QED
        BY <1>6, <3>1, <3>2
    <2>4. ~At("end")' => Current' = rounds' \/ \E i \in DOMAIN events' : IsData(i)'
      <3> SUFFICES ASSUME ~At("end")', ~ \E i \in DOMAIN events' : IsData(i)' PROVE Current' = rounds
        BY DEF Receive
      <3>1. \A i \in DOMAIN events : IsData(i) => i = 1
        BY <1>2 DEF IsData
      <3>2. CASE hand'.kind = "data"
        <4>1. IsData(1) /\ Current' = events[1].data
          BY <1>1, <1>2, <1>3, <3>2 DEF IsData, Current, Handles, At
        <4>2. \A k \in DOMAIN events : 1 < k => ~IsData(k)
          BY <3>1
        <4> QED
          BY <1>2, <2>0, <4>1, <4>2 DEF DataInOrder
      <3>3. CASE hand'.kind # "data"
        <4>1. Current' = common_data
          BY <3>3 DEF Current, Handles, Receive
        <4>2. \A i \in DOMAIN events : ~IsData(i)
          BY <1>2, <3>1, <3>3 DEF IsData
        <4> QED
          BY <2>0, <4>1, <4>2 DEF DataInOrder
      <3> QED
        BY <3>2, <3>3
    <2>5. \A i \in DOMAIN events' : IsData(i)' =>
             events'[i].data = rounds' \/ \E k \in DOMAIN events' : i < k /\ IsData(k)'
      <3> SUFFICES ASSUME NEW i \in DOMAIN events', IsData(i)', events'[i].data # rounds
                   PROVE  \E k \in DOMAIN events' : i < k /\ IsData(k)'
        BY DEF Receive
      <3>1. i + 1 \in DOMAIN events /\ IsData(i + 1) /\ events[i + 1].data # rounds
        BY <1>2 DEF IsData
      <3>2. PICK k \in DOMAIN events : i + 1 < k /\ IsData(k)
        BY <2>0, <3>1 DEF DataInOrder
      <3>3. /\ k \in Nat /\ i \in Nat /\ k # 1
        BY <1>2, <3>2
      <3>4. k - 1 \in DOMAIN events' /\ events'[k - 1] = events[k] /\ i < k - 1
        BY <1>2, <3>2, <3>3
      <3> QED
        BY <3>2, <3>4 DEF IsData
    <2> QED
      BY <2>1, <2>2, <2>3, <2>4, <2>5 DEF DataInOrder
  <1>20. DataInWorkers'
    BY <1>4, <1>6, <1>9 DEF Receive, IInv, DataInWorkers, Handles, At
  <1>21. NotSentYet' /\ CommonDataIsCurrent'
    BY <1>6, <1>10 DEF Receive, IInv, NotSentYet, CommonDataIsCurrent, NotSent
  <1> QED
    BY <1>12, <1>13, <1>14, <1>15, <1>16, <1>17, <1>18, <1>19, <1>20, <1>21 DEF IInv

(* ... keeps a job, ...                                                    *)
LEMMA WorkerIsFinite == IsFiniteSet(Worker) /\ Cardinality(Worker) = max_workers
  BY max_workersAssumption, FS_Interval DEF Worker

LEMMA AllBusy ==
  /\ IsFiniteSet(Busy) /\ Cardinality(Busy) \in Nat /\ Cardinality(Busy) <= max_workers
  /\ Cardinality(Busy) >= max_workers => Busy = Worker
  <1>1. Busy \subseteq Worker
    BY DEF Busy
  <1>2. /\ IsFiniteSet(Busy) /\ Cardinality(Busy) <= Cardinality(Worker)
        /\ Cardinality(Busy) = Cardinality(Worker) => Busy = Worker
    BY <1>1, WorkerIsFinite, FS_Subset
  <1>3. Cardinality(Busy) \in Nat
    BY <1>2, FS_CardinalityType
  <1> QED
    BY <1>2, <1>3, WorkerIsFinite, max_workersAssumption

LEMMA KeepJobStep == IInv /\ KeepJob => IInv'
  <1> SUFFICES ASSUME IInv, KeepJob PROVE IInv'
    OBVIOUS
  <1> USE DEF outVars, downVars, processVars, clientVars
  <1>1. /\ At("event") /\ hand.kind = "job" /\ hand.job \in Job /\ thread' = "get"
        /\ InHand = {hand.job} /\ InHand' = {}
        /\ Given' = {} /\ Given = {} /\ Reporting' = {} /\ Reporting = {}
    BY EventTypes DEF KeepJob, Handles, At, IInv, InHand, Given, Reporting
  <1>2. hand.job \notin Waiting
    BY <1>1 DEF IInv, Apart
  <1>3. /\ pending_jobs' \in Seq(Job) /\ IsInjective(pending_jobs')
        /\ Waiting' = Waiting \cup {hand.job}
    <2>1. /\ pending_jobs \in Seq(Job) /\ pending_jobs' = Append(pending_jobs, hand.job)
          /\ IsInjective(pending_jobs)
      BY DEF KeepJob, IInv, TypeOK, Distinct
    <2>2. Range(pending_jobs) = Waiting /\ Range(pending_jobs') = Waiting'
      BY DEF Range, Waiting
    <2> QED
      BY <1>1, <1>2, <2>1, <2>2, Appended
  <1>4. /\ JobsIn(events)' = JobsIn(events) /\ Busy' = Busy /\ RunningJobs' = RunningJobs
        /\ Done' = Done /\ Available' = Available
    BY DEF KeepJob, Busy, RunningJobs, Done, Available
  <1>5. Owed' = Owed
    BY <1>1, <1>3, <1>4 DEF Owed
  <1>6. Busy = Worker /\ available_workers = <<>>
    BY AllBusy DEF KeepJob
  <1>7. TypeOK'
    BY <1>1, <1>3 DEF KeepJob, IInv, TypeOK
  <1>8. Control'
    BY <1>1 DEF KeepJob, IInv, Control, At
  <1>9. Distinct'
    BY <1>1, <1>3, <1>4 DEF KeepJob, IInv, Distinct, Handles, At
  <1>10. Apart'
    BY <1>1, <1>3, <1>4, <1>5 DEF KeepJob, IInv, Apart, At, Alive
  <1>11. Counts'
    <2>1. idle' => tracker = 0
      BY DEF KeepJob, IInv, Counts
    <2> QED
      BY <1>1, <1>4, <1>5, <2>1, CountsKept DEF KeepJob, At, Alive
  <1>12. ~shutting_down' => Stationed'
    BY <1>1, <1>4 DEF KeepJob, IInv, Stationed, Handles, At
  <1>13. AllStarted'
    BY <1>4, <1>6 DEF KeepJob, AllStarted
  <1>14. DataInOrder'
    BY <1>1, <1>3, <1>4 DEF KeepJob, IInv, DataInOrder, IsData, Current, Handles, At
  <1>15. DataInWorkers'
    BY <1>1, <1>4 DEF KeepJob, IInv, DataInWorkers, Handles, At
  <1>16. NotSentYet' /\ CommonDataIsCurrent'
    BY <1>1, <1>3, <1>4 DEF KeepJob, IInv, NotSentYet, CommonDataIsCurrent, NotSent
  <1> QED
    BY <1>7, <1>8, <1>9, <1>10, <1>11, <1>12, <1>13, <1>14, <1>15, <1>16 DEF IInv

-----------------------------------------------------------------------------
(* ... and runs one: run_job().                                            *)
LEMMA PopWorkerStep == IInv /\ PopWorker => IInv'
  <1> SUFFICES ASSUME IInv, PopWorker PROVE IInv'
    OBVIOUS
  <1> USE DEF outVars, downVars, processVars, clientVars
  <1>1. /\ At("pop") /\ hand.kind = "job" /\ popped = 0
        /\ available_workers \in Seq(Worker)
        /\ thread' \in {"end", "send"}
    BY DEF PopWorker, IInv, TypeOK, Control, At
  <1>2. CASE available_workers = <<>>
    <2>1. thread' = "end" /\ UNCHANGED <<available_workers, popped>> /\ shutting_down
      BY <1>1, <1>2 DEF PopWorker, IInv, Control
    <2>2. JobsStay
      BY <1>1, <2>1 DEF PopWorker, JobsStay, InHand, Given, Reporting, Handles, At, Alive
    <2>3. /\ Distinct' /\ Apart' /\ Counts' /\ JobsIn(events)' = JobsIn(events)
          /\ Waiting' = Waiting /\ Busy' = Busy /\ RunningJobs' = RunningJobs
          /\ InHand' \subseteq InHand
      BY <2>2, JobsStayed DEF PopWorker, IInv, Counts
    <2>4. TypeOK'
      BY <2>1 DEF PopWorker, IInv, TypeOK
    <2>5. Control'
      BY <1>1, <2>1 DEF PopWorker, IInv, Control, At
    <2>6. Available' = Available
      BY <2>1 DEF Available
    <2>7. shutting_down' /\ AllStarted'
      BY <2>1 DEF PopWorker, AllStarted, Alive
    <2>8. DataInOrder'
      BY <1>1, <2>1, <2>3 DEF PopWorker, IInv, DataInOrder, IsData, Current, Handles, At
    <2>9. DataInWorkers'
      BY <2>1, <2>3, <2>6 DEF PopWorker, IInv, DataInWorkers, Handles, At
    <2>10. NotSentYet' /\ CommonDataIsCurrent'
      BY <2>3 DEF PopWorker, IInv, NotSentYet, CommonDataIsCurrent, NotSent
    <2> QED
      BY <2>3, <2>4, <2>5, <2>7, <2>8, <2>9, <2>10 DEF IInv
  <1>3. CASE available_workers # <<>>
    <2>1. /\ thread' = "send"
          /\ popped' = available_workers[Len(available_workers)]
          /\ available_workers' = SubSeq(available_workers, 1, Len(available_workers) - 1)
      BY <1>3 DEF PopWorker
    <2>2. /\ available_workers' \in Seq(Worker) /\ popped' \in Worker
          /\ Available = Available' \cup {popped'}
          /\ IsInjective(available_workers) => IsInjective(available_workers)' /\ popped' \notin Available'
      <3>1. Range(available_workers) = Available /\ Range(available_workers') = Available'
        BY DEF Range, Available
      <3> QED
        BY <1>1, <1>3, <2>1, <3>1, Popped
    <2>3. JobsStay
      BY <1>1, <2>1 DEF PopWorker, JobsStay, InHand, Given, Reporting, Handles, At, Alive
    <2>4. /\ Distinct' /\ Apart' /\ Counts' /\ JobsIn(events)' = JobsIn(events)
          /\ Waiting' = Waiting /\ Busy' = Busy /\ RunningJobs' = RunningJobs
          /\ InHand' \subseteq InHand
      BY <2>3, JobsStayed DEF PopWorker, IInv, Counts
    <2>5. TypeOK'
      BY <2>1, <2>2 DEF PopWorker, IInv, TypeOK
    <2>6. Control'
      BY <1>1, <2>1, <2>2, EventTypes DEF PopWorker, IInv, Control, At
    <2>7. ~shutting_down' => Stationed'
      BY <1>1, <2>1, <2>2, <2>4 DEF PopWorker, IInv, Stationed, Handles, At
    <2>8. AllStarted'
      BY <2>1, <2>2, <2>4, <1>1, EventTypes DEF PopWorker, IInv, AllStarted, Alive
    <2>9. DataInOrder'
      BY <1>1, <2>1, <2>4 DEF PopWorker, IInv, DataInOrder, IsData, Current, Handles, At
    <2>10. DataInWorkers'
      BY <2>1, <2>2, <2>4 DEF PopWorker, IInv, DataInWorkers, Handles, At
    <2>11. NotSentYet' /\ CommonDataIsCurrent'
      BY <2>4 DEF PopWorker, IInv, NotSentYet, CommonDataIsCurrent, NotSent
    <2> QED
      BY <2>4, <2>5, <2>6, <2>7, <2>8, <2>9, <2>10, <2>11 DEF IInv
  <1> QED
    BY <1>2, <1>3

(* The job that is sent finds the common data it is to find.               *)
LEMMA SentData ==
  ASSUME IInv, At("send")
  PROVE  /\ popped \in Worker /\ hand.kind = "job" /\ hand.job \in Job
         /\ InHand = {hand.job} /\ Given = {} /\ Reporting = {}
         /\ holds[popped] = common_data /\ common_data = wanted[hand.job]
         /\ wanted[hand.job] \in 0..MaxRounds
  <1>1. popped \in Worker /\ hand.kind = "job" /\ hand.job \in Job
    BY EventTypes DEF IInv, TypeOK, Control
  <1>2. InHand = {hand.job} /\ Given = {} /\ Reporting = {}
    BY DEF InHand, Given, Reporting, Handles, At
  <1>3. holds[popped] = common_data
    BY <1>1 DEF IInv, DataInWorkers
  <1>4. Current = common_data /\ ~At("end")
    BY DEF Current, Handles, At
  <1>5. common_data = rounds /\ wanted[hand.job] = rounds
    BY <1>2, <1>4 DEF IInv, DataInOrder
  <1>6. wanted[hand.job] \in 0..MaxRounds
    BY <1>1 DEF IInv, TypeOK
  <1> QED
    BY <1>1, <1>2, <1>3, <1>5, <1>6

LEMMA SendJobStep == IInv /\ SendJob => IInv'
  <1> SUFFICES ASSUME IInv, SendJob PROVE IInv'
    OBVIOUS
  <1> USE DEF outVars, downVars, clientVars
  <1>1. /\ At("send") /\ popped \in Worker /\ hand.kind = "job" /\ hand.job \in Job /\ hand.job # 0
        /\ InHand = {hand.job} /\ Given = {} /\ Reporting = {}
        /\ process[popped] = "idle"
        /\ holds[popped] = common_data /\ common_data = wanted[hand.job]
        /\ wanted[hand.job] \in 0..MaxRounds
    BY SentData, EventTypes DEF SendJob, IInv
  <1>2. /\ InHand' = {} /\ Given' = {} /\ Reporting' = {}
        /\ popped' = 0 /\ thread' = "drain"
    BY DEF SendJob, InHand, Given, Reporting, Handles, At
  <1>3. /\ JobsIn(events)' = JobsIn(events) /\ Waiting' = Waiting /\ Done' = Done
        /\ Available' = Available
    BY DEF SendJob, Waiting, Done, Available
  <1>4. /\ busy_workers' \in [Worker -> Job \cup {0}] /\ busy_workers \in [Worker -> Job \cup {0}]
        /\ \A w \in Worker : busy_workers'[w] = IF w = popped THEN hand.job ELSE busy_workers[w]
    BY <1>1 DEF SendJob, IInv, TypeOK
  <1>5. Busy' = Busy \cup {popped}
    BY <1>1, <1>4 DEF Busy
  <1>6. /\ RunningJobs' \subseteq RunningJobs \cup {hand.job}
        /\ popped \notin Busy => RunningJobs' = RunningJobs \cup {hand.job}
    BY <1>1, <1>4, <1>5 DEF RunningJobs, Busy
  <1>7. ~shutting_down => popped \notin Busy /\ popped \notin Available
    BY DEF IInv, Stationed
  <1>8. /\ Owed' \subseteq Owed /\ (~shutting_down => Owed' = Owed)
        /\ hand.job \in Owed
    BY <1>1, <1>2, <1>3, <1>6, <1>7 DEF Owed
  <1>9. /\ process' \in [Worker -> {"none", "idle", "run", "dead"}]
        /\ doing' \in [Worker -> Job \cup {0}]
        /\ \A w \in Worker : /\ process'[w] = IF w = popped THEN "run" ELSE process[w]
                             /\ doing'[w] = IF w = popped THEN hand.job ELSE doing[w]
    BY <1>1 DEF SendJob, IInv, TypeOK
  <1>10. /\ got' \in [Job -> (0..MaxRounds) \cup {MaxRounds + 1}]
         /\ \A j \in Job : got'[j] = IF j = hand.job THEN wanted[j] ELSE got[j]
    BY <1>1 DEF SendJob, IInv, TypeOK
  <1>11. TypeOK'
    BY <1>2, <1>4, <1>9, <1>10 DEF SendJob, IInv, TypeOK
  <1>12. Control'
    BY <1>1, <1>2, <1>9 DEF SendJob, IInv, Control, At
  <1>13. Distinct'
    <2>1. hand.job \notin RunningJobs
      BY <1>1 DEF IInv, Apart
    <2>2. \A v, w \in Busy' : busy_workers'[v] = busy_workers'[w] => v = w
      <3>1. \A v \in Busy : v \in Worker /\ busy_workers[v] # hand.job
        BY <2>1 DEF RunningJobs, Busy
      <3>2. \A v, w \in Busy : busy_workers[v] = busy_workers[w] => v = w
        BY DEF IInv, Distinct
      <3> QED
        BY <1>1, <1>4, <1>5, <3>1, <3>2
    <2> QED
      BY <1>2, <2>2 DEF SendJob, IInv, Distinct, Handles, At
  <1>14. Apart'
    <2>1. ~At("end") /\ ~At("end")'
      BY <1>1, <1>2 DEF At
    <2> QED
      BY <1>1, <1>2, <1>3, <1>6, <1>8, <2>1 DEF SendJob, IInv, Apart, Alive
  <1>15. Counts'
    <2>1. /\ idle' => tracker = 0
          /\ Alive' => Alive /\ ~shutting_down
          /\ ~At("end")
      BY <1>1 DEF SendJob, IInv, Counts, Alive, At
    <2> QED
      BY <1>3, <1>8, <2>1, CountsKept DEF SendJob
  <1>16. ~shutting_down' => Stationed'
    <2> SUFFICES ASSUME ~shutting_down PROVE Stationed'
      BY DEF SendJob
    <2>1. Stationed
      BY DEF IInv
    <2>2. \A i \in DOMAIN events : events[i].kind = "result" =>
              /\ events[i].worker \in Worker /\ events[i].worker # popped
              /\ busy_workers[events[i].worker] = events[i].job
              /\ process[events[i].worker] # "run"
      BY <1>7, <2>1, EventTypes DEF IInv, Stationed, Busy
    <2>3. IsInjective(available_workers') /\ Available' \cap (Busy' \cup {popped'}) = {}
          /\ popped' \notin Busy'
      BY <1>1, <1>2, <1>3, <1>5, <1>7, <2>1, EventTypes DEF SendJob, IInv, Stationed
    <2>4. /\ \A w \in Worker : w \in Available' \cup Busy' \cup {popped'} => process'[w] # "none"
          /\ \A w \in Worker : process'[w] = "run" => busy_workers'[w] = doing'[w]
      BY <1>1, <1>2, <1>3, <1>4, <1>5, <1>9, <2>1, EventTypes DEF IInv, Stationed
    <2>5. \A i \in DOMAIN events' : events'[i].kind = "result" =>
              /\ busy_workers'[events'[i].worker] = events'[i].job
              /\ process'[events'[i].worker] # "run"
      BY <1>4, <1>9, <2>2 DEF SendJob
    <2>6. ~Handles("result")'
      BY <1>2 DEF Handles, At
    <2> QED
      BY <2>1, <2>3, <2>4, <2>5, <2>6 DEF SendJob, Stationed
  <1>17. AllStarted'
    BY <1>1, <1>2, <1>3, <1>5 DEF SendJob, IInv, AllStarted, Alive
  <1>18. DataInOrder'
    BY <1>1, <1>2, <1>3, <1>6 DEF SendJob, IInv, DataInOrder, IsData, Current, Handles, At
  <1>19. DataInWorkers'
    BY <1>1, <1>2, <1>3, <1>5, EventTypes DEF SendJob, IInv, DataInWorkers, Handles, At
  <1>20. CommonDataIsCurrent'
    BY <1>10 DEF SendJob, IInv, CommonDataIsCurrent
  <1>21. NotSentYet'
    <2>1. hand.job <= asked
      BY <1>8 DEF IInv, Apart
    <2>2. hand.job \notin JobsIn(events) \cup Waiting
      BY <1>1 DEF IInv, Apart
    <2> QED
      BY <1>1, <1>2, <1>3, <1>10, <2>1, <2>2 DEF SendJob, IInv, NotSentYet, NotSent
  <1> QED
    BY <1>11, <1>12, <1>13, <1>14, <1>15, <1>16, <1>17, <1>18, <1>19, <1>20, <1>21 DEF IInv

LEMMA SendFailsStep == IInv /\ SendFails => IInv'
  <1> SUFFICES ASSUME IInv, SendFails PROVE IInv'
    OBVIOUS
  <1> USE DEF listVars, downVars, clientVars
  <1>0. /\ process' \in [Worker -> {"none", "idle", "run", "dead"}]
        /\ \A w \in Worker : process[w] # "none" => process'[w] # "none"
        /\ \A w \in Worker : process'[w] = "run" => process[w] = "run"
    <2>1. /\ process \in [Worker -> {"none", "idle", "run", "dead"}]
          /\ process' = [process EXCEPT ![popped] = "dead"]
      BY DEF SendFails, IInv, TypeOK
    <2> QED
      BY <2>1
  <1>1. At("send") /\ thread' = "error" /\ terminal_failure' /\ popped' = 0
    BY DEF SendFails, Fails
  <1>2. JobsStay
    BY <1>1 DEF SendFails, JobsStay, InHand, Given, Reporting, Handles, At, Alive
  <1>3. /\ Distinct' /\ Apart' /\ Counts' /\ JobsIn(events)' = JobsIn(events)
        /\ Waiting' = Waiting /\ Busy' = Busy /\ RunningJobs' = RunningJobs
        /\ InHand' \subseteq InHand
    BY <1>2, JobsStayed DEF SendFails, IInv, Counts
  <1>4. TypeOK'
    BY <1>0, <1>1 DEF SendFails, Fails, IInv, TypeOK
  <1>5. Control'
    BY <1>0, <1>1 DEF SendFails, IInv, Control, At
  <1>6. Available' = Available /\ 0 \notin Busy /\ 0 \notin Available /\ 0 \notin Worker
    BY EventTypes DEF Available, SendFails, IInv
  <1>7. ~shutting_down' => Stationed'
    BY <1>0, <1>1, <1>3, <1>6, EventTypes DEF SendFails, IInv, Stationed, Handles, At
  <1>8. AllStarted'
    BY <1>1 DEF AllStarted, Alive
  <1>9. DataInOrder'
    BY <1>1, <1>3 DEF SendFails, IInv, DataInOrder, IsData, Current, Handles, At
  <1>10. DataInWorkers'
    BY <1>1, <1>3, <1>6 DEF SendFails, IInv, DataInWorkers, Handles, At
  <1>11. NotSentYet' /\ CommonDataIsCurrent'
    BY <1>3 DEF SendFails, IInv, NotSentYet, CommonDataIsCurrent, NotSent
  <1> QED
    BY <1>3, <1>4, <1>5, <1>7, <1>8, <1>9, <1>10, <1>11 DEF IInv

-----------------------------------------------------------------------------
(* A result: the worker is available again, the job done, ...              *)
LEMMA WorkerResultStep == IInv /\ WorkerResult => IInv'
  <1> SUFFICES ASSUME IInv, WorkerResult PROVE IInv'
    OBVIOUS
  <1> USE DEF downVars, processVars, clientVars
  <1>1. /\ At("event") /\ hand.kind = "result" /\ hand.worker \in Worker
        /\ hand.job \in Job /\ hand.job # 0 /\ hand' = hand
        /\ Handles("result") /\ popped' = popped
    BY EventTypes DEF WorkerResult, Handles, IInv
  <1>2. \/ thread' = "error" /\ terminal_failure'
        \/ thread' = "report" /\ UNCHANGED terminal_failure
    BY DEF WorkerResult, Fails
  <1>3. /\ InHand = {} /\ InHand' = {} /\ Given = {hand.job} /\ Given' = {}
        /\ Reporting = {} /\ Reporting' \subseteq {hand.job}
        /\ thread' = "report" => Reporting' = {hand.job}
    BY <1>1, <1>2 DEF InHand, Given, Reporting, Handles, At
  <1>4. /\ JobsIn(events)' = JobsIn(events) /\ Waiting' = Waiting /\ Done' = Done
    BY DEF WorkerResult, Waiting, Done
  <1>5. /\ available_workers' \in Seq(Worker) /\ available_workers' # <<>>
        /\ Available' = Available \cup {hand.worker}
        /\ IsInjective(available_workers) /\ hand.worker \notin Available
              => IsInjective(available_workers')
    <2>1. available_workers \in Seq(Worker) /\ available_workers' = Append(available_workers, hand.worker)
      BY DEF WorkerResult, IInv, TypeOK
    <2>2. Range(available_workers) = Available /\ Range(available_workers') = Available'
      BY DEF Range, Available
    <2> QED
      BY <1>1, <2>1, <2>2, Appended
  <1>6. /\ busy_workers' \in [Worker -> Job \cup {0}] /\ busy_workers \in [Worker -> Job \cup {0}]
        /\ \A w \in Worker : busy_workers'[w] = IF w = hand.worker THEN 0 ELSE busy_workers[w]
    BY <1>1 DEF WorkerResult, IInv, TypeOK
  <1>7. Busy' = Busy \ {hand.worker}
    BY <1>1, <1>6 DEF Busy
  <1>8. \A w \in Worker : busy_workers[w] = hand.job => w = hand.worker
    BY <1>1 DEF IInv, Distinct
  <1>9. RunningJobs' \subseteq RunningJobs \ {hand.job}
    BY <1>6, <1>7, <1>8 DEF RunningJobs, Busy
  <1>10. ~shutting_down => /\ busy_workers[hand.worker] = hand.job /\ hand.worker \in Busy
                           /\ RunningJobs' = RunningJobs \ {hand.job}
    <2> SUFFICES ASSUME ~shutting_down
                 PROVE  /\ busy_workers[hand.worker] = hand.job /\ hand.worker \in Busy
                        /\ RunningJobs \ {hand.job} \subseteq RunningJobs'
      BY <1>9
    <2>1. busy_workers[hand.worker] = hand.job /\ hand.worker \in Busy
      BY <1>1 DEF IInv, Stationed, Busy
    <2>2. ASSUME NEW j \in RunningJobs, j # hand.job PROVE j \in RunningJobs'
      <3>1. PICK w \in Busy : busy_workers[w] = j
        BY <2>2 DEF RunningJobs
      <3>2. w \in Worker /\ w # hand.worker
        BY <2>1, <2>2, <3>1 DEF Busy
      <3>3. w \in Busy' /\ busy_workers'[w] = j
        BY <1>6, <1>7, <3>1, <3>2
      <3> QED
        BY <3>3 DEF RunningJobs
    <2> QED
      BY <2>1, <2>2
  <1>11. /\ Owed' \subseteq Owed \ {hand.job} /\ hand.job \in Owed
         /\ ~shutting_down => Owed' = Owed \ {hand.job}
    <2>1. hand.job \notin JobsIn(events) \cup Waiting
      BY <1>3 DEF IInv, Apart
    <2> QED
      BY <1>3, <1>4, <1>9, <1>10, <2>1 DEF Owed
  <1>12. /\ IsFiniteSet(Owed) /\ Cardinality(Owed) \in Nat /\ tracker \in 0..MaxJobs
         /\ Cardinality(Owed \ {hand.job}) = Cardinality(Owed) - 1
         /\ Cardinality(Owed \ {hand.job}) \in Nat
         /\ Cardinality(Owed) <= tracker /\ Cardinality(Owed) > 0
    <2>1. asked \in Nat /\ Apart /\ tracker \in 0..MaxJobs /\ Cardinality(Owed) <= tracker
      BY <1>1, BoundsAssumption DEF IInv, TypeOK, Counts, At
    <2>2. IsFiniteSet(Owed) /\ Cardinality(Owed) \in Nat
      BY <2>1, SetsAreFinite
    <2>3. /\ IsFiniteSet(Owed \ {hand.job})
          /\ Cardinality(Owed \ {hand.job}) = Cardinality(Owed) - 1
      BY <1>11, <2>2, FS_RemoveElement
    <2>4. Cardinality(Owed \ {hand.job}) \in Nat
      BY <2>3, FS_CardinalityType
    <2>5. Cardinality(Owed) > 0
      BY <2>2, <2>3, <2>4
    <2> QED
      BY <2>1, <2>2, <2>3, <2>4, <2>5
  <1>13. tracker' = tracker - 1 /\ tracker' \in 0..MaxJobs
    BY <1>12, BoundsAssumption DEF WorkerResult
  <1>14. TypeOK'
    BY <1>2, <1>5, <1>6, <1>13 DEF WorkerResult, IInv, TypeOK
  <1>15. Control'
    BY <1>1, <1>2, <1>5 DEF WorkerResult, IInv, Control, At
  <1>16. Distinct'
    <2>1. \A v, w \in Busy' : busy_workers'[v] = busy_workers'[w] => v = w
      <3>1. \A v \in Busy' : v \in Busy /\ v \in Worker /\ v # hand.worker
        BY <1>7 DEF Busy
      <3> QED
        BY <1>6, <3>1 DEF IInv, Distinct
    <2>2. ~Handles("result")'
      BY <1>2 DEF Handles, At
    <2> QED
      BY <2>1, <2>2 DEF WorkerResult, IInv, Distinct
  <1>17. Apart'
    <2>1. ~At("end") /\ ~At("end")'
      BY <1>1, <1>2 DEF At
    <2>2. Alive' => Alive /\ thread' = "report" /\ ~shutting_down
      BY <1>2 DEF Alive, WorkerResult
    <2>3. hand.job \notin JobsIn(events) \cup Waiting \cup Done /\ hand.job \in 1..asked
      BY <1>3, <1>11, <2>1 DEF IInv, Apart
    <2> QED
      BY <1>3, <1>4, <1>9, <1>11, <2>1, <2>2, <2>3 DEF WorkerResult, IInv, Apart
  <1>18. Counts'
    <2>1. ~At("end") /\ Alive' => Alive /\ ~shutting_down
      BY <1>1, <1>2 DEF At, Alive, WorkerResult
    <2>2. /\ Cardinality(Owed') <= Cardinality(Owed) - 1 /\ Cardinality(Owed') \in Nat
          /\ (JobsIn(events) \cup Waiting)' \subseteq Owed'
          /\ IsFiniteSet(Owed')
      <3>1. IsFiniteSet(Owed \ {hand.job})
        BY <1>12, FS_RemoveElement
      <3>2. /\ IsFiniteSet(Owed') /\ Cardinality(Owed') <= Cardinality(Owed \ {hand.job})
        BY <1>11, <3>1, FS_Subset
      <3>3. Cardinality(Owed') \in Nat
        BY <3>2, FS_CardinalityType
      <3> QED
        BY <1>12, <3>2, <3>3 DEF Owed
    <2>3. /\ Cardinality((JobsIn(events) \cup Waiting)') <= Cardinality(Owed')
          /\ Cardinality((JobsIn(events) \cup Waiting)') \in Nat
      BY <2>2, FS_Subset, FS_CardinalityType
    <2>4. asked \in Nat /\ tracker <= asked /\ (idle => tracker = 0)
      BY BoundsAssumption DEF IInv, TypeOK, Counts
    <2>5. tracker' <= asked' /\ (idle' => tracker' = 0)
      BY <1>12, <1>13, <2>4 DEF WorkerResult
    <2>6. Cardinality(Owed') <= tracker' /\ Cardinality((JobsIn(events) \cup Waiting)') <= tracker'
      BY <1>12, <1>13, <2>2, <2>3
    <2>7. Alive' => Cardinality(Owed') = tracker'
      <3> SUFFICES ASSUME Alive' PROVE Cardinality(Owed') = tracker'
        OBVIOUS
      <3>1. Alive /\ ~shutting_down
        BY <1>2 DEF Alive, WorkerResult
      <3>2. Cardinality(Owed) = tracker
        BY <3>1 DEF IInv, Counts
      <3> QED
        BY <1>11, <1>12, <1>13, <3>1, <3>2
    <2> QED
      BY <2>5, <2>6, <2>7 DEF Counts
  <1>19. ~shutting_down' => Stationed'
    <2> SUFFICES ASSUME ~shutting_down PROVE Stationed'
      BY DEF WorkerResult
    <2>1. Stationed /\ hand.worker \in Busy /\ hand.worker \notin Available
      BY <1>10 DEF IInv, Stationed
    <2>2. \A i \in DOMAIN events : events[i].kind = "result" =>
              events[i].worker \in Worker /\ events[i].worker # hand.worker
      BY <1>1, <2>1, EventTypes DEF IInv, Stationed
    <2>3. popped # hand.worker
      BY <2>1 DEF Stationed
    <2>4. process[hand.worker] # "run"
      BY <1>1, <2>1 DEF Stationed
    <2>5. ~Handles("result")'
      BY <1>2 DEF Handles, At
    <2> QED
      BY <1>1, <1>5, <1>6, <1>7, <2>1, <2>2, <2>3, <2>4, <2>5 DEF WorkerResult, Stationed
  <1>20. AllStarted'
    BY <1>1, <1>2, <1>5, <1>7 DEF WorkerResult, IInv, AllStarted, Alive
  <1>21. DataInOrder'
    BY <1>1, <1>2, <1>3, <1>4, <1>9 DEF WorkerResult, IInv, DataInOrder, IsData, Current, Handles, At
  <1>22. DataInWorkers'
    BY <1>1, <1>2, <1>5, <1>7 DEF WorkerResult, IInv, DataInWorkers, Handles, At
  <1>23. NotSentYet' /\ CommonDataIsCurrent'
    BY <1>3, <1>4 DEF WorkerResult, IInv, NotSentYet, CommonDataIsCurrent, NotSent
  <1> QED
    BY <1>14, <1>15, <1>16, <1>17, <1>18, <1>19, <1>20, <1>21, <1>22, <1>23 DEF IInv

(* ... and reported.                                                       *)
LEMMA ReportStep == IInv /\ Report => IInv'
  <1> SUFFICES ASSUME IInv, Report PROVE IInv'
    OBVIOUS
  <1> USE DEF listVars, downVars, processVars, clientVars
  <1> DEFINE r == <<hand.job, FALSE>>
  <1>1. /\ At("report") /\ hand.kind = "result" /\ hand.job \in Job
        /\ thread' = "drain" /\ results \in Seq(Job \X BOOLEAN)
        /\ results' = Append(results, r) /\ r \in Job \X BOOLEAN /\ r[1] = hand.job
    BY EventTypes DEF Report, IInv, TypeOK, Control
  <1> HIDE DEF r
  <1>2. /\ results' \in Seq(Job \X BOOLEAN)
        /\ Len(results) + 1 \in DOMAIN results' /\ results'[Len(results) + 1] = r
        /\ \A i \in DOMAIN results : i \in DOMAIN results' /\ results'[i] = results[i]
        /\ \A i \in DOMAIN results' : i \in DOMAIN results \/ i = Len(results) + 1
    BY <1>1, Appended
  <1>3. Done' = Done \cup {hand.job}
    BY <1>1, <1>2 DEF Done
  <1>4. /\ InHand = {} /\ InHand' = {} /\ Given = {} /\ Given' = {}
        /\ Reporting = {hand.job} /\ Reporting' = {}
    BY <1>1 DEF InHand, Given, Reporting, Handles, At
  <1>5. /\ JobsIn(events)' = JobsIn(events) /\ Waiting' = Waiting
        /\ Busy' = Busy /\ RunningJobs' = RunningJobs /\ Available' = Available
    BY DEF Report, Waiting, Busy, RunningJobs, Available
  <1>6. Owed' = Owed
    BY <1>4, <1>5 DEF Owed
  <1>7. hand.job \notin Done /\ hand.job \notin Owed
    BY <1>4 DEF IInv, Apart, Owed
  <1>8. TypeOK'
    BY <1>1, <1>2 DEF Report, IInv, TypeOK
  <1>9. Control'
    BY <1>1 DEF Report, IInv, Control, At
  <1>10. Distinct'
    <2>1. \A i \in DOMAIN results : results[i][1] # hand.job
      BY <1>7 DEF Done
    <2>2. \A i, k \in DOMAIN results' : results'[i][1] = results'[k][1] => i = k
      BY <1>1, <1>2, <2>1 DEF IInv, Distinct
    <2> QED
      BY <1>1, <1>5, <2>2 DEF Report, IInv, Distinct, Handles, At
  <1>11. Apart'
    <2>1. ~At("end") /\ ~At("end")'
      BY <1>1 DEF At
    <2> QED
      BY <1>3, <1>4, <1>5, <1>6, <1>7, <2>1 DEF Report, IInv, Apart, Alive
  <1>12. Counts'
    <2>1. idle' => tracker = 0
      BY DEF Report, IInv, Counts
    <2> QED
      BY <1>1, <1>5, <1>6, <2>1, CountsKept DEF Report, At, Alive
  <1>13. ~shutting_down' => Stationed'
    BY <1>1, <1>5 DEF Report, IInv, Stationed, Handles, At
  <1>14. AllStarted'
    BY <1>1, <1>5 DEF Report, IInv, AllStarted, Alive
  <1>15. DataInOrder'
    BY <1>1, <1>4, <1>5 DEF Report, IInv, DataInOrder, IsData, Current, Handles, At
  <1>16. DataInWorkers'
    BY <1>1, <1>5 DEF Report, IInv, DataInWorkers, Handles, At
  <1>17. NotSentYet' /\ CommonDataIsCurrent'
    BY <1>4, <1>5 DEF Report, IInv, NotSentYet, CommonDataIsCurrent, NotSent
  <1> QED
    BY <1>8, <1>9, <1>10, <1>11, <1>12, <1>13, <1>14, <1>15, <1>16, <1>17 DEF IInv

(* Common data reaches all workers, for none of them runs a job.           *)
LEMMA NewCommonDataStep == IInv /\ NewCommonData => IInv'
  <1> SUFFICES ASSUME IInv, NewCommonData PROVE IInv'
    OBVIOUS
  <1> USE DEF listVars, downVars, clientVars
  <1>1. /\ At("event") /\ hand.kind = "data" /\ hand.data \in 1..MaxRounds /\ popped = 0
        /\ common_data' = hand.data /\ hand' = hand /\ popped' = popped
    BY EventTypes DEF NewCommonData, Handles, At, IInv, Control
  <1>2. \/ thread' = "error" /\ terminal_failure'
        \/ thread' = "drain" /\ UNCHANGED terminal_failure
    BY DEF NewCommonData, Fails
  <1>3. JobsStay
    BY <1>1, <1>2 DEF NewCommonData, JobsStay, InHand, Given, Reporting, Handles, At, Alive
  <1>4. /\ Distinct' /\ Apart' /\ Counts' /\ JobsIn(events)' = JobsIn(events)
        /\ Waiting' = Waiting /\ Busy' = Busy /\ RunningJobs' = RunningJobs
        /\ InHand' \subseteq InHand
    BY <1>3, JobsStayed DEF NewCommonData, IInv, Counts
  <1>5. RunningJobs = {} /\ Busy = {}
    BY DEF NewCommonData, IInv, DataInOrder, RunningJobs
  <1>6. /\ holds' \in [Worker -> 0..MaxRounds]
        /\ \A w \in Available : w \in Worker => holds'[w] = hand.data
    BY <1>1 DEF NewCommonData, IInv, TypeOK
  <1>7. hand.data \in 0..MaxRounds
    BY <1>1, BoundsAssumption
  <1>8. TypeOK'
    BY <1>1, <1>2, <1>6, <1>7 DEF NewCommonData, IInv, TypeOK
  <1>9. Control'
    BY <1>1, <1>2 DEF NewCommonData, IInv, Control, At
  <1>10. Available' = Available
    BY DEF Available, NewCommonData
  <1>11. ~shutting_down' => Stationed'
    BY <1>1, <1>2, <1>4, <1>10 DEF NewCommonData, IInv, Stationed, Handles, At
  <1>12. AllStarted'
    BY <1>1, <1>2, <1>4, <1>10 DEF NewCommonData, IInv, AllStarted, Alive
  <1>13. DataInOrder'
    <2>1. Current' = Current
      BY <1>1, <1>2 DEF Current, Handles, At
    <2>2. ~At("end") /\ ~Handles("data")'
      BY <1>1, <1>2 DEF Handles, At
    <2>3. InHand' \cup Waiting' \cup RunningJobs' = {}
      BY <1>4 DEF NewCommonData, IInv, DataInOrder
    <2> QED
      BY <1>4, <2>1, <2>2, <2>3 DEF NewCommonData, IInv, DataInOrder, IsData
  <1>14. DataInWorkers'
    <2>1. ~Handles("result")'
      BY <1>2 DEF Handles, At
    <2> QED
      BY <1>1, <1>4, <1>5, <1>6, <1>10, <2>1, EventTypes DEF IInv, DataInWorkers
  <1>15. NotSentYet' /\ CommonDataIsCurrent'
    BY <1>4 DEF NewCommonData, IInv, NotSentYet, CommonDataIsCurrent, NotSent
  <1> QED
    BY <1>4, <1>8, <1>9, <1>11, <1>12, <1>13, <1>14, <1>15 DEF IInv

(* Data that cannot be pickled: no job is anywhere.                        *)
LEMMA DataRaisesStep == IInv /\ DataRaises => IInv'
  <1> SUFFICES ASSUME IInv, DataRaises PROVE IInv'
    OBVIOUS
  <1> USE DEF listVars, outVars, downVars, processVars, clientVars
  <1>1. At("event") /\ hand.kind = "unpicklable" /\ thread' = "lost"
    BY DEF DataRaises, Handles, At
  <1>2. JobsStay
    BY <1>1 DEF DataRaises, JobsStay, InHand, Given, Reporting, Handles, At, Alive
  <1>3. /\ Distinct' /\ Apart' /\ Counts' /\ JobsIn(events)' = JobsIn(events)
        /\ Waiting' = Waiting /\ Busy' = Busy /\ RunningJobs' = RunningJobs
        /\ InHand' \subseteq InHand
    BY <1>2, JobsStayed DEF DataRaises, IInv, Counts
  <1>4. TypeOK'
    BY <1>1 DEF DataRaises, IInv, TypeOK
  <1>5. Control'
    BY <1>1 DEF DataRaises, IInv, Control, At
  <1>6. Available' = Available
    BY DEF Available, DataRaises
  <1>7. ~shutting_down' => Stationed'
    BY <1>1, <1>3, <1>6 DEF DataRaises, IInv, Stationed, Handles, At
  <1>8. AllStarted'
    BY <1>1, <1>3, <1>6 DEF DataRaises, IInv, AllStarted, Alive
  <1>9. DataInOrder'
    BY <1>1, <1>3 DEF DataRaises, IInv, DataInOrder, IsData, Current, Handles, At
  <1>10. DataInWorkers'
    BY <1>1, <1>3, <1>6 DEF DataRaises, IInv, DataInWorkers, Handles, At
  <1>11. NotSentYet' /\ CommonDataIsCurrent'
    BY <1>3 DEF DataRaises, IInv, NotSentYet, CommonDataIsCurrent, NotSent
  <1> QED
    BY <1>3, <1>4, <1>5, <1>7, <1>8, <1>9, <1>10, <1>11 DEF IInv

-----------------------------------------------------------------------------
(* The jobs kept, and a failure.                                           *)
LEMMA DrainStep == IInv /\ Drain => IInv'
  <1> SUFFICES ASSUME IInv, Drain PROVE IInv'
    OBVIOUS
  <1> USE DEF outVars, downVars, processVars, clientVars
  <1>1. /\ At("drain") /\ popped' = popped /\ popped = 0
        /\ InHand = {} /\ Given = {} /\ Reporting = {}
    BY DEF Drain, IInv, Control, InHand, Given, Reporting, Handles, At
  <1>2. /\ JobsIn(events)' = JobsIn(events) /\ Done' = Done /\ Busy' = Busy
        /\ RunningJobs' = RunningJobs /\ Available' = Available
    BY DEF Drain, Done, Busy, RunningJobs, Available
  <1>3. CASE pending_jobs # <<>> /\ available_workers # <<>>
    <2> DEFINE j == pending_jobs[Len(pending_jobs)]
    <2>1. /\ hand' = [kind |-> "job", job |-> j] /\ thread' = "pop"
          /\ pending_jobs' = SubSeq(pending_jobs, 1, Len(pending_jobs) - 1)
          /\ pending_jobs \in Seq(Job) /\ IsInjective(pending_jobs)
      BY <1>3 DEF Drain, IInv, TypeOK, Distinct
    <2>2. /\ pending_jobs' \in Seq(Job) /\ j \in Job /\ IsInjective(pending_jobs')
          /\ Waiting = Waiting' \cup {j} /\ j \notin Waiting'
      <3>1. Range(pending_jobs) = Waiting /\ Range(pending_jobs') = Waiting'
        BY DEF Range, Waiting
      <3> QED
        BY <1>3, <2>1, <3>1, Popped
    <2> HIDE DEF j
    <2>3. hand' \in EventKind /\ hand'.kind = "job" /\ hand'.job = j
      BY <2>1, <2>2 DEF EventKind
    <2>4. InHand' = {j} /\ Given' = {} /\ Reporting' = {}
      BY <2>1, <2>3 DEF InHand, Given, Reporting, Handles, At
    <2>5. Owed' = Owed
      BY <1>1, <1>2, <2>2, <2>4 DEF Owed
    <2>6. TypeOK'
      BY <2>1, <2>2, <2>3 DEF Drain, IInv, TypeOK
    <2>7. Control'
      BY <1>1, <1>3, <2>1, <2>3 DEF Drain, IInv, Control, At
    <2>8. Distinct'
      BY <1>2, <2>1, <2>2 DEF Drain, IInv, Distinct, Handles, At
    <2>9. Apart'
      <3>1. ~At("end") /\ ~At("end")'
        BY <1>1, <2>1 DEF At
      <3> QED
        BY <1>1, <1>2, <2>2, <2>4, <2>5, <3>1 DEF Drain, IInv, Apart, Alive
    <2>10. Counts'
      <3>1. idle' => tracker = 0
        BY DEF Drain, IInv, Counts
      <3> QED
        BY <1>1, <1>2, <2>5, <3>1, CountsKept DEF Drain, At, Alive
    <2>11. ~shutting_down' => Stationed'
      BY <1>1, <1>2, <2>1 DEF Drain, IInv, Stationed, Handles, At
    <2>12. AllStarted'
      BY <1>1, <1>2, <1>3, <2>1 DEF Drain, IInv, AllStarted, Alive
    <2>13. DataInOrder'
      BY <1>1, <1>2, <2>1, <2>2, <2>4 DEF Drain, IInv, DataInOrder, IsData, Current, Handles, At
    <2>14. DataInWorkers'
      BY <1>1, <1>2, <2>1 DEF Drain, IInv, DataInWorkers, Handles, At
    <2>15. NotSentYet' /\ CommonDataIsCurrent'
      BY <1>2, <2>2, <2>4 DEF Drain, IInv, NotSentYet, CommonDataIsCurrent, NotSent
    <2> QED
      BY <2>6, <2>7, <2>8, <2>9, <2>10, <2>11, <2>12, <2>13, <2>14, <2>15 DEF IInv
  <1>4. CASE ~(pending_jobs # <<>> /\ available_workers # <<>>)
    <2>1. thread' = "get" /\ UNCHANGED <<hand, pending_jobs>>
      BY <1>4 DEF Drain
    <2>2. JobsStay
      BY <1>1, <2>1 DEF Drain, JobsStay, InHand, Given, Reporting, Handles, At, Alive
    <2>3. Distinct' /\ Apart' /\ Counts' /\ Waiting' = Waiting /\ InHand' \subseteq InHand
      BY <2>2, JobsStayed DEF Drain, IInv, Counts
    <2>4. TypeOK'
      BY <2>1 DEF Drain, IInv, TypeOK
    <2>5. Control'
      BY <1>1, <2>1 DEF Drain, IInv, Control, At
    <2>6. ~shutting_down' => Stationed'
      BY <1>1, <1>2, <2>1 DEF Drain, IInv, Stationed, Handles, At
    <2>7. AllStarted'
      BY <1>1, <1>2, <1>4, <2>1 DEF Drain, IInv, AllStarted, Alive
    <2>8. DataInOrder'
      BY <1>1, <1>2, <2>1, <2>3 DEF Drain, IInv, DataInOrder, IsData, Current, Handles, At
    <2>9. DataInWorkers'
      BY <1>1, <1>2, <2>1 DEF Drain, IInv, DataInWorkers, Handles, At
    <2>10. NotSentYet' /\ CommonDataIsCurrent'
      BY <1>2, <2>3 DEF Drain, IInv, NotSentYet, CommonDataIsCurrent, NotSent
    <2> QED
      BY <2>3, <2>4, <2>5, <2>6, <2>7, <2>8, <2>9, <2>10 DEF IInv
  <1> QED
    BY <1>3, <1>4

LEMMA Joined ==
  ASSUME NEW S, NEW s \in Seq(S), NEW g \in Seq(S), NEW m, m = Len(s)
  PROVE  /\ (s \o g) \in Seq(S) /\ m \in Nat
         /\ \A i \in DOMAIN s : i \in DOMAIN (s \o g) /\ (s \o g)[i] = s[i]
         /\ \A k \in DOMAIN g : k + m \in DOMAIN (s \o g) /\ (s \o g)[k + m] = g[k]
         /\ \A i \in DOMAIN (s \o g) : i \in DOMAIN s \/ \E k \in DOMAIN g : i = k + m
  <1>1. PICK n \in Nat : n = Len(g)
    BY LenProperties
  <1>2. m \in Nat /\ DOMAIN s = 1..m /\ DOMAIN g = 1..n
    BY <1>1, LenProperties
  <1> DEFINE t == s \o g
  <1>3. /\ t \in Seq(S) /\ Len(t) = m + n
        /\ \A i \in 1..(m + n) : t[i] = IF i <= m THEN s[i] ELSE g[i - m]
    BY <1>1, ConcatProperties
  <1>4. DOMAIN t = 1..(m + n)
    BY <1>3, LenProperties
  <1> HIDE DEF t
  <1>5. \A i \in 1..m : i \in 1..(m + n) /\ i <= m
    BY <1>2
  <1>6. \A k \in 1..n : k + m \in 1..(m + n) /\ ~(k + m <= m) /\ (k + m) - m = k
    BY <1>2
  <1>7. \A i \in 1..(m + n) : i \in 1..m \/ (i - m \in 1..n /\ i = (i - m) + m)
    BY <1>2
  <1>8. \A i \in DOMAIN s : i \in DOMAIN t /\ t[i] = s[i]
    BY <1>2, <1>3, <1>4, <1>5
  <1>9. \A k \in DOMAIN g : k + m \in DOMAIN t /\ t[k + m] = g[k]
    BY <1>2, <1>3, <1>4, <1>6
  <1>10. \A i \in DOMAIN t : i \in DOMAIN s \/ \E k \in DOMAIN g : i = k + m
    BY <1>2, <1>4, <1>7
  <1> QED
    BY <1>2, <1>3, <1>8, <1>9, <1>10 DEF t

(* The jobs that have failed get one result each.                          *)
JobsOf(s) == {s[i][1] : i \in DOMAIN s}
OneOfEach(s) == \A i, k \in DOMAIN s : s[i][1] = s[k][1] => i = k

LEMMA FailedAreReported ==
  ASSUME NEW s \in Seq(Job \X BOOLEAN), NEW g \in Seq(Job \X BOOLEAN), NEW f, IsInjective(f),
         DOMAIN g = DOMAIN f, \A i \in DOMAIN g : g[i][1] = f[i]
  PROVE  /\ (s \o g) \in Seq(Job \X BOOLEAN)
         /\ JobsOf(s \o g) = JobsOf(s) \cup Range(f)
         /\ OneOfEach(s) /\ JobsOf(s) \cap Range(f) = {} => OneOfEach(s \o g)
  <1>1. DOMAIN g = DOMAIN f /\ \A i \in DOMAIN g : g[i][1] = f[i]
    OBVIOUS
  <1> DEFINE t == s \o g
  <1>2. PICK m : m = Len(s)
    OBVIOUS
  <1>3. /\ t \in Seq(Job \X BOOLEAN)
        /\ \A i \in DOMAIN s : i \in DOMAIN t /\ t[i] = s[i]
        /\ \A k \in DOMAIN g : k + m \in DOMAIN t /\ t[k + m] = g[k]
        /\ \A i \in DOMAIN t : i \in DOMAIN s \/ \E k \in DOMAIN g : i = k + m
    BY <1>2, Joined
  <1> HIDE DEF t
  <1>4. JobsOf(t) \subseteq JobsOf(s) \cup Range(f)
    BY <1>1, <1>3 DEF JobsOf, Range
  <1>5. JobsOf(s) \subseteq JobsOf(t)
    BY <1>3 DEF JobsOf
  <1>6. Range(f) \subseteq JobsOf(t)
    BY <1>1, <1>3 DEF JobsOf, Range
  <1>7. ASSUME OneOfEach(s), JobsOf(s) \cap Range(f) = {} PROVE OneOfEach(t)
    <2> SUFFICES ASSUME NEW i \in DOMAIN t, NEW k \in DOMAIN t, t[i][1] = t[k][1] PROVE i = k
      BY DEF OneOfEach
    <2>1. \A a \in DOMAIN s, b \in DOMAIN g : s[a][1] # g[b][1]
      <3>1. \A a \in DOMAIN s : s[a][1] \in JobsOf(s)
        BY DEF JobsOf
      <3>2. \A b \in DOMAIN g : g[b][1] \in Range(f)
        BY <1>1 DEF Range
      <3> QED
        BY <1>7, <3>1, <3>2
    <2>2. \A a, b \in DOMAIN g : g[a][1] = g[b][1] => a = b
      BY <1>1 DEF IsInjective
    <2>3. CASE i \in DOMAIN s /\ k \in DOMAIN s
      BY <1>3, <1>7, <2>3 DEF OneOfEach
    <2>4. CASE i \in DOMAIN s /\ k \notin DOMAIN s
      BY <1>3, <2>1, <2>4
    <2>5. CASE i \notin DOMAIN s /\ k \in DOMAIN s
      BY <1>3, <2>1, <2>5
    <2>6. CASE i \notin DOMAIN s /\ k \notin DOMAIN s
      BY <1>3, <2>2, <2>6
    <2> QED
      BY <2>3, <2>4, <2>5, <2>6
  <1> QED
    BY <1>3, <1>4, <1>5, <1>6, <1>7 DEF t

LEMMA TerminalErrorStep == IInv /\ TerminalError => IInv'
  <1> SUFFICES ASSUME IInv, TerminalError PROVE IInv'
    OBVIOUS
  <1> USE DEF processVars, clientVars
  <1>1. /\ At("error") /\ terminal_failure /\ thread' = "end" /\ terminal_failure'
        /\ UNCHANGED <<available_workers, busy_workers, common_data, hand, popped, doomed,
                       processVars, clientVars>>
    BY DEF TerminalError, IInv, Control
  <1>2. InHand = {} /\ InHand' = {} /\ Given = {} /\ Given' = {} /\ Reporting = {} /\ Reporting' = {}
    BY <1>1 DEF InHand, Given, Reporting, Handles, At
  <1>3. Busy' = Busy /\ RunningJobs' = RunningJobs /\ Available' = Available
    BY <1>1 DEF Busy, RunningJobs, Available
  <1>4. CASE shutting_down
    <2>1. UNCHANGED <<events, results, tracker, pending_jobs, down, shutting_down>>
      BY <1>4 DEF TerminalError
    <2>2. JobsStay
      BY <1>1, <1>2, <2>1 DEF JobsStay, Handles, At, Alive
    <2>3. /\ Distinct' /\ Apart' /\ Counts' /\ JobsIn(events)' = JobsIn(events) /\ Waiting' = Waiting
      BY <1>1, <2>1, <2>2, JobsStayed DEF IInv, Counts
    <2>4. TypeOK'
      BY <1>1, <2>1 DEF IInv, TypeOK
    <2>5. Control'
      BY <1>1, <2>1 DEF IInv, Control, At
    <2>6. AllStarted' /\ shutting_down'
      BY <1>1, <1>4, <2>1 DEF AllStarted, Alive
    <2>7. DataInOrder'
      BY <1>1, <1>2, <1>3, <2>1, <2>3 DEF IInv, DataInOrder, IsData, Current, Handles, At
    <2>8. DataInWorkers'
      BY <1>1, <1>3, <2>1 DEF IInv, DataInWorkers, Handles, At
    <2>9. NotSentYet' /\ CommonDataIsCurrent'
      BY <1>1, <1>2, <2>3 DEF IInv, NotSentYet, CommonDataIsCurrent, NotSent
    <2> QED
      BY <2>3, <2>4, <2>5, <2>6, <2>7, <2>8, <2>9 DEF IInv
  <1>5. CASE ~shutting_down
    <2> DEFINE lost == RunningJobs \cup Waiting
               failed == SetToSeq(lost)
    <2>1. /\ results' = results \o [i \in DOMAIN failed |-> <<failed[i], TRUE>>]
          /\ tracker' = tracker - Len(failed)
          /\ pending_jobs' = <<>>
          /\ shutting_down' /\ Put(Stop)
          /\ down' = [down EXCEPT !["pool"] = "terminate"]
      BY <1>5 DEF TerminalError
    <2>2. /\ IsFiniteSet(Owed) /\ Cardinality(Owed) \in Nat /\ lost \subseteq Owed
          /\ asked \in Nat /\ tracker \in 0..MaxJobs /\ Cardinality(Owed) <= tracker
          /\ 1..asked \subseteq Job
      <3>1. /\ asked \in Nat /\ asked <= MaxJobs /\ MaxJobs \in Nat /\ Apart
            /\ tracker \in 0..MaxJobs /\ Cardinality(Owed) <= tracker
        BY <1>1, BoundsAssumption DEF IInv, TypeOK, Counts, At
      <3>2. 1..asked \subseteq Job
        BY <3>1 DEF Job
      <3> QED
        BY <3>1, <3>2, SetsAreFinite, PlacesOfJobs
    <2>3. lost \subseteq Job
      BY <2>2 DEF IInv, Apart
    <2>4. IsFiniteSet(lost) /\ Cardinality(lost) \in Nat
      BY <2>2, FS_Subset, FS_CardinalityType
    <2>5. /\ failed \in Seq(Job) /\ IsInjective(failed) /\ Range(failed) = lost
          /\ Len(failed) = Cardinality(lost)
      <3> HIDE DEF lost
      <3>1. /\ failed \in Seq(lost) /\ IsInjective(failed) /\ Range(failed) = lost
            /\ Len(failed) = Cardinality(lost)
        BY <2>4, Ordered
      <3> QED
        BY <2>3, <3>1, SeqMonotonic
    <2>6. lost \cap Done = {} /\ lost \cap JobsIn(events) = {}
      BY <1>1 DEF IInv, Apart, Owed, At
    <2> HIDE DEF failed, lost
    <2>7. /\ results' \in Seq(Job \X BOOLEAN) /\ Done' = Done \cup lost
          /\ \A i, k \in DOMAIN results' : results'[i][1] = results'[k][1] => i = k
      <3>1. results \in Seq(Job \X BOOLEAN) /\ OneOfEach(results) /\ Done = JobsOf(results)
        BY DEF IInv, TypeOK, Distinct, OneOfEach, Done, JobsOf
      <3> DEFINE g == [i \in DOMAIN failed |-> <<failed[i], TRUE>>]
      <3> HIDE DEF g
      <3>2. /\ (results \o g) \in Seq(Job \X BOOLEAN)
            /\ JobsOf(results \o g) = Done \cup lost
            /\ OneOfEach(results \o g)
        <4>1. JobsOf(results) \cap Range(failed) = {}
          BY <2>5, <2>6, <3>1
        <4>2. PICK n \in Nat : DOMAIN failed = 1..n /\ \A i \in 1..n : failed[i] \in Job
          BY <2>5, LenProperties, ElementOfSeq
        <4>3. /\ g \in [1..n -> Job \X BOOLEAN] /\ DOMAIN g = DOMAIN failed
              /\ \A i \in DOMAIN g : g[i][1] = failed[i]
          BY <4>2 DEF g
        <4>4. g \in Seq(Job \X BOOLEAN)
          BY <4>3, SeqDef
        <4>5. IsInjective(failed) /\ Range(failed) = lost
          BY <2>5
        <4>6. /\ (results \o g) \in Seq(Job \X BOOLEAN)
              /\ JobsOf(results \o g) = JobsOf(results) \cup Range(failed)
              /\ OneOfEach(results \o g)
          BY <3>1, <4>1, <4>3, <4>4, <4>5, FailedAreReported
        <4> QED
          BY <3>1, <4>5, <4>6
      <3> QED
        BY <2>1, <3>2 DEF g, OneOfEach, JobsOf, Done
    <2>8. Stop \in EventKind /\ Stop.kind = "stop"
      BY DEF Stop, EventKind
    <2>9. /\ events' \in Seq(EventKind) /\ JobsIn(events)' = JobsIn(events)
      BY <2>1, <2>8, EventPut DEF IInv
    <2>10. PICK n \in Nat :
               /\ n \in DOMAIN events' /\ events'[n] = Stop
               /\ \A i \in DOMAIN events :
                     i \in Nat /\ i < n /\ i \in DOMAIN events' /\ events'[i] = events[i]
               /\ \A i \in DOMAIN events' : i \in DOMAIN events \/ i = n
      BY <2>1, <2>8, EventPut DEF IInv
    <2>11. Waiting' = {}
      BY <2>1 DEF Waiting
    <2>12. Owed' \subseteq Owed
      BY <1>2, <1>3, <2>9, <2>11 DEF Owed
    <2>13. /\ tracker' \in 0..MaxJobs /\ tracker' <= tracker
           /\ Cardinality(JobsIn(events)) <= tracker'
      <3>1. /\ IsFiniteSet(JobsIn(events)) /\ Cardinality(JobsIn(events)) \in Nat
        BY <2>2, FS_Subset, FS_CardinalityType, PlacesOfJobs
      <3>2. Cardinality(JobsIn(events) \cup lost) = Cardinality(JobsIn(events)) + Cardinality(lost)
        <4>1. Cardinality(JobsIn(events) \cap lost) = 0
          BY <2>6, FS_EmptySet
        <4>2. Cardinality(JobsIn(events) \cup lost)
                 = Cardinality(JobsIn(events)) + Cardinality(lost) - Cardinality(JobsIn(events) \cap lost)
          BY <2>4, <3>1, FS_Union
        <4> QED
          BY <2>4, <3>1, <4>1, <4>2
      <3>3. Cardinality(JobsIn(events) \cup lost) <= Cardinality(Owed)
        <4>1. JobsIn(events) \cup lost \subseteq Owed
          BY <2>2, PlacesOfJobs
        <4> QED
          BY <2>2, <4>1, FS_Subset
      <3> QED
        BY <2>1, <2>2, <2>4, <2>5, <3>1, <3>2, <3>3, BoundsAssumption
    <2>14. TypeOK'
      BY <1>1, <2>1, <2>7, <2>9, <2>13, EmptySeq DEF IInv, TypeOK, Thread
    <2>15. Control'
      BY <1>1, <2>1 DEF IInv, Control, At
    <2>16. Distinct'
      <3>1. IsInjective(pending_jobs')
        BY <2>1 DEF IsInjective
      <3> QED
        BY <1>1, <1>3, <2>7, <2>8, <2>10, <3>1 DEF IInv, Distinct, Handles, At
    <2>17. Apart'
      <3>1. At("end")' /\ ~Alive'
        BY <1>1 DEF At, Alive
      <3>2. JobsIn(events) \cap Done = {} /\ Owed \cup Done \subseteq 1..asked
        BY DEF IInv, Apart
      <3> QED
        BY <1>1, <1>2, <1>3, <2>2, <2>6, <2>7, <2>9, <2>11, <2>12, <3>1, <3>2 DEF IInv, Apart
    <2>18. Counts'
      <3>1. At("end")' /\ ~Alive' /\ (idle => tracker = 0) /\ tracker <= asked
        BY <1>1 DEF IInv, Counts, At, Alive
      <3>2. idle' => tracker' = 0
        BY <1>1, <2>2, <2>13, <3>1, BoundsAssumption
      <3>3. tracker' <= asked'
        BY <1>1, <2>2, <2>13, <3>1, BoundsAssumption
      <3> QED
        BY <2>9, <2>11, <2>13, <3>1, <3>2, <3>3 DEF Counts
    <2>19. AllStarted'
      BY <1>1 DEF AllStarted, Alive
    <2>20. DataInOrder'
      BY <1>1, <1>2, <1>3, <2>8, <2>9, <2>10, <2>11 DEF IInv, DataInOrder, IsData, Handles, At
    <2>21. DataInWorkers'
      BY <1>1, <1>3, <2>1 DEF IInv, DataInWorkers, Handles, At
    <2>22. NotSentYet' /\ CommonDataIsCurrent'
      BY <1>1, <1>2, <2>9, <2>11 DEF IInv, NotSentYet, CommonDataIsCurrent, NotSent
    <2> QED
      BY <2>1, <2>14, <2>15, <2>16, <2>17, <2>18, <2>19, <2>20, <2>21, <2>22 DEF IInv
  <1> QED
    BY <1>4, <1>5

-----------------------------------------------------------------------------
LEMMA InitInvariant == Init => IInv
  <1> SUFFICES ASSUME Init PROVE IInv
    OBVIOUS
  <1>1. /\ JobsIn(events) = {} /\ InHand = {} /\ Given = {} /\ Reporting = {} /\ Waiting = {}
        /\ Busy = {} /\ RunningJobs = {} /\ Done = {} /\ Available = {}
    BY DEF Init, JobsIn, InHand, Given, Reporting, Waiting, Busy, RunningJobs, Done, Available,
           Handles, At
  <1>2. Owed = {} /\ Cardinality(Owed) = 0 /\ Cardinality(JobsIn(events) \cup Waiting) = 0
    BY <1>1, FS_EmptySet DEF Owed
  <1>3. TypeOK
    <2>1. Stop \in EventKind /\ NotSent = MaxRounds + 1
      BY DEF Stop, EventKind, NotSent
    <2> QED
      <3>1. 0 \in 0..MaxJobs /\ 0 \in 0..MaxRounds
        BY BoundsAssumption
      <3>2. /\ events = <<>> /\ events \in Seq(EventKind)
            /\ available_workers \in Seq(Worker)
            /\ pending_jobs \in Seq(Job) /\ results \in Seq(Job \X BOOLEAN)
        BY EmptySeq DEF Init
      <3>3. /\ busy_workers \in [Worker -> Job \cup {0}]
            /\ doing \in [Worker -> Job \cup {0}]
            /\ process \in [Worker -> {"none", "idle", "run", "dead"}]
            /\ holds \in [Worker -> 0..MaxRounds]
            /\ wanted \in [Job -> 0..MaxRounds]
            /\ got \in [Job -> (0..MaxRounds) \cup {MaxRounds + 1}]
        BY <2>1, <3>1 DEF Init
      <3>4. /\ down \in [Thread -> {"no", "terminate", "list", "kill", "over"}]
            /\ doomed \in [Thread -> SUBSET Worker]
        BY DEF Init
      <3> QED
        BY <2>1, <3>1, <3>2, <3>3, <3>4 DEF Init, TypeOK
  <1>4. Control
    BY DEF Init, Control, At, Thread
  <1>5. Distinct
    BY <1>1 DEF Init, Distinct, IsInjective, Handles, At
  <1>6. Apart
    BY <1>1, <1>2 DEF Init, Apart
  <1>7. Counts
    BY <1>2 DEF Init, Counts
  <1>8. Stationed
    <2>1. 0 \notin Worker
      BY DEF Worker
    <2> QED
      BY <1>1, <2>1 DEF Init, Stationed, IsInjective, Handles, At
  <1>9. AllStarted
    BY DEF Init, AllStarted
  <1>10. DataInOrder
    BY <1>1 DEF Init, DataInOrder, IsData, Current, Handles, At
  <1>11. DataInWorkers
    BY <1>1 DEF Init, DataInWorkers, Handles, At
  <1>12. NotSentYet /\ CommonDataIsCurrent
    BY DEF Init, NotSentYet, CommonDataIsCurrent, NotSent
  <1> QED
    BY <1>3, <1>4, <1>5, <1>6, <1>7, <1>8, <1>9, <1>10, <1>11, <1>12 DEF IInv

LEMMA StutterInvariant == IInv /\ UNCHANGED vars => IInv'
  <1> SUFFICES ASSUME IInv, UNCHANGED vars PROVE IInv'
    OBVIOUS
  <1> USE DEF vars, listVars, outVars, threadVars, downVars, processVars, clientVars
  <1>1. /\ JobsIn(events)' = JobsIn(events) /\ InHand' = InHand /\ Given' = Given
        /\ Reporting' = Reporting /\ Waiting' = Waiting /\ Busy' = Busy
        /\ RunningJobs' = RunningJobs /\ Done' = Done /\ Available' = Available
    BY DEF InHand, Given, Reporting, Waiting, Busy, RunningJobs, Done, Available, Handles, At
  <1>2. Owed' = Owed
    BY <1>1 DEF Owed
  <1>3. TypeOK' /\ Control'
    BY DEF IInv, TypeOK, Control, At
  <1>4. Distinct'
    BY <1>1 DEF IInv, Distinct, Handles, At
  <1>5. Apart' /\ Counts'
    BY <1>1, <1>2 DEF IInv, Apart, Counts, At, Alive
  <1>6. ~shutting_down' => Stationed'
    BY <1>1 DEF IInv, Stationed, Handles, At
  <1>7. AllStarted'
    BY <1>1 DEF IInv, AllStarted, Alive
  <1>8. DataInOrder'
    BY <1>1 DEF IInv, DataInOrder, IsData, Current, Handles, At
  <1>9. DataInWorkers'
    BY <1>1 DEF IInv, DataInWorkers, Handles, At
  <1>10. NotSentYet' /\ CommonDataIsCurrent'
    BY <1>1 DEF IInv, NotSentYet, CommonDataIsCurrent, NotSent
  <1> QED
    BY <1>3, <1>4, <1>5, <1>6, <1>7, <1>8, <1>9, <1>10 DEF IInv

LEMMA StepInvariant == IInv /\ [Next]_vars => IInv'
  <1> SUFFICES ASSUME IInv, [Next]_vars PROVE IInv'
    OBVIOUS
  <1>1. ASSUME SetCommonData \/ SetUnfitData \/ QueueJob \/ WaitForTasks \/ Shutdown PROVE IInv'
    BY <1>1, SetCommonDataStep, SetUnfitDataStep, QueueJobStep, WaitForTasksStep, ShutdownCallStep
  <1>2. ASSUME NEW t \in Thread, ShutdownStep(t) PROVE IInv'
    BY <1>2, TerminateBusyStep, ListWorkersStep, KillListedStep DEF ShutdownStep
  <1>3. ASSUME NEW w \in Worker, Finish(w) \/ Crash(w) PROVE IInv'
    BY <1>3, FinishStep, CrashStep
  <1>4. ASSUME PoolStep PROVE IInv'
    <2>1. CASE Begin \/ Receive \/ Drain \/ KeepJob \/ WorkerForJob \/ TakeJob
      BY <2>1, BeginStep, ReceiveStep, DrainStep, KeepJobStep, WorkerForJobStep, TakeJobStep
    <2>2. CASE PopWorker \/ SendJob \/ SendFails
      BY <2>2, PopWorkerStep, SendJobStep, SendFailsStep
    <2>3. CASE WorkerResult \/ Report \/ NewCommonData \/ DataRaises \/ TerminalError
      BY <2>3, WorkerResultStep, ReportStep, NewCommonDataStep, DataRaisesStep, TerminalErrorStep
    <2> QED
      BY <1>4, <2>1, <2>2, <2>3 DEF PoolStep
  <1>5. CASE UNCHANGED vars
    BY <1>5, StutterInvariant
  <1> QED
    BY <1>1, <1>2, <1>3, <1>4, <1>5 DEF Next

(* The inductive invariant.                                                *)
THEOREM Invariant == Spec => []IInv
  <1> QED
    BY InitInvariant, StepInvariant, PTL DEF Spec

(* The types, among them the count of the tracker, which is never below 0: *)
(* task_done() is never called too often.                                  *)
THEOREM TypeCorrect == Spec => []TypeOK
  <1>1. IInv => TypeOK
    BY DEF IInv
  <1> QED
    BY <1>1, Invariant, PTL

(* A job finds the common data that was set last before it was queued, in  *)
(* whatever worker it runs.                                                *)
THEOREM JobsFindTheirData == Spec => []CommonDataIsCurrent
  <1>1. IInv => CommonDataIsCurrent
    BY DEF IInv
  <1> QED
    BY <1>1, Invariant, PTL

(* What the places of the jobs are called in the properties.               *)
LEMMA HeldAre == HeldJobs = InHand \cup JobsIn(events) \cup Waiting
  BY DEF HeldJobs, InHand, JobsIn

LEMMA OwedAre ==
  ASSUME IInv, Alive
  PROVE  Owed = HeldJobs \cup RunningJobs /\ HeldJobs \cap RunningJobs = {} /\ ~At("end")
  <1>1. Given \subseteq RunningJobs
    <2> SUFFICES ASSUME Handles("result") PROVE hand.job \in RunningJobs
      BY DEF Given
    <2>1. /\ hand.worker \in Worker /\ hand.job # 0
      BY EventTypes DEF IInv, Handles
    <2>2. busy_workers[hand.worker] = hand.job
      BY DEF IInv, Alive, Stationed
    <2> QED
      BY <2>1, <2>2 DEF RunningJobs, Busy
  <1>2. Owed = HeldJobs \cup RunningJobs
    BY <1>1, HeldAre DEF Owed
  <1>3. HeldJobs \cap RunningJobs = {}
    BY HeldAre DEF IInv, Apart
  <1>4. ~At("end")
    BY DEF IInv, Control, Alive
  <1> QED
    BY <1>2, <1>3, <1>4

(* tracker counts the jobs that are not done.                              *)
THEOREM TrackerIsRight == Spec => []TrackerCounts
  <1>1. IInv => TrackerCounts
    <2> SUFFICES ASSUME IInv PROVE TrackerCounts
      OBVIOUS
    <2>1. /\ asked \in Nat /\ tracker \in Nat /\ Apart /\ Counts
      BY BoundsAssumption DEF IInv, TypeOK
    <2>2. HeldJobs \subseteq Owed /\ RunningJobs \subseteq Owed
      BY HeldAre, PlacesOfJobs
    <2>3. /\ IsFiniteSet(HeldJobs) /\ Cardinality(HeldJobs) \in Nat
          /\ Cardinality(HeldJobs) <= Cardinality(Owed) /\ Cardinality(Owed) \in Nat
          /\ IsFiniteSet(RunningJobs) /\ Cardinality(RunningJobs) \in Nat
      BY <2>1, <2>2, SetsAreFinite
    <2>4. tracker >= Cardinality(HeldJobs)
      <3>1. CASE ~At("end")
        BY <2>1, <2>3, <3>1 DEF Counts
      <3>2. CASE At("end")
        <4>1. HeldJobs = JobsIn(events) \cup Waiting
          BY <3>2, HeldAre DEF InHand, Handles, At
        <4> QED
          BY <2>1, <2>3, <4>1 DEF Counts
      <3> QED
        BY <3>1, <3>2
    <2>5. Alive => tracker = Cardinality(HeldJobs) + Cardinality(RunningJobs)
      <3> SUFFICES ASSUME Alive
                   PROVE  tracker = Cardinality(HeldJobs) + Cardinality(RunningJobs)
        OBVIOUS
      <3>1. Owed = HeldJobs \cup RunningJobs /\ HeldJobs \cap RunningJobs = {}
        BY OwedAre
      <3>2. Cardinality(HeldJobs \cap RunningJobs) = 0
        BY <3>1, FS_EmptySet
      <3>3. Cardinality(HeldJobs \cup RunningJobs)
               = Cardinality(HeldJobs) + Cardinality(RunningJobs) - Cardinality(HeldJobs \cap RunningJobs)
        BY <2>3, FS_Union
      <3>4. Cardinality(Owed) = tracker
        BY <2>1 DEF Counts
      <3> QED
        BY <2>3, <3>1, <3>2, <3>3, <3>4
    <2> QED
      BY <2>4, <2>5 DEF TrackerCounts
  <1> QED
    BY <1>1, Invariant, PTL

(* Each job is run once and has one result.                                *)
THEOREM EachJobHasOneResult == Spec => []OneResultEach
  <1>1. IInv => OneResultEach
    <2> SUFFICES ASSUME IInv PROVE OneResultEach
      OBVIOUS
    <2> DEFINE reported == Done \cup Reporting
    <2>1. \A i, k \in DOMAIN results : results[i][1] = results[k][1] => i = k
      BY DEF IInv, Distinct
    <2>2. HeldJobs \cap RunningJobs = {}
      BY HeldAre DEF IInv, Apart
    <2>3. reported \subseteq Job
      <3>1. reported \subseteq 1..asked /\ asked \in 0..MaxJobs
        BY DEF IInv, Apart, TypeOK
      <3> QED
        BY <3>1, BoundsAssumption DEF Job
    <2>4. Alive => reported \cap (HeldJobs \cup RunningJobs) = {}
      <3>1. JobsIn(events) \cap (Reporting \cup Done) = {}
        BY DEF IInv, Apart
      <3>2. Alive => Done \cap Owed = {} /\ HeldJobs \cup RunningJobs = Owed
        BY OwedAre DEF IInv, Apart
      <3>3. Reporting \cap (Waiting \cup RunningJobs) = {}
        BY DEF IInv, Apart
      <3>4. Reporting \cap InHand = {}
        BY DEF Reporting, InHand, Handles, At
      <3> QED
        BY <3>1, <3>2, <3>3, <3>4, HeldAre
    <2>5. Alive => 1..asked = HeldJobs \cup RunningJobs \cup reported
      BY OwedAre DEF IInv, Apart
    <2> QED
      BY <2>1, <2>2, <2>3, <2>4, <2>5 DEF OneResultEach, Done, Reporting
  <1> QED
    BY <1>1, Invariant, PTL

(* The thread sleeps while jobs wait only if all workers are busy.         *)
THEOREM NoJobWaitsForNothing == Spec => []NothingWaits
  <1>1. IInv => NothingWaits
    <2> SUFFICES ASSUME IInv, Alive, At("get"), pending_jobs # <<>>
                 PROVE  available_workers = <<>> /\ Cardinality(Busy) = max_workers
      BY DEF NothingWaits
    <2>1. available_workers = <<>> /\ Worker \subseteq Available \cup Busy \cup {popped}
      BY DEF IInv, AllStarted, At
    <2>2. popped = 0 /\ 0 \notin Worker
      BY DEF IInv, Control, At, Worker
    <2>3. Available = {}
      BY <2>1 DEF Available
    <2>4. Busy = Worker
      BY <2>1, <2>2, <2>3 DEF Busy
    <2> QED
      BY <2>1, <2>4, WorkerIsFinite
  <1> QED
    BY <1>1, Invariant, PTL

(* No job is sent to a second worker: what it found in the first one stays *)
(* what it found, also after failures and when the pool is shut down.      *)
THEOREM NoJobIsSentTwice ==
  Spec => [][\A j \in Job : got[j] # NotSent => got'[j] = got[j]]_vars
  <1> DEFINE Kept == \A j \in Job : got[j] # NotSent => got'[j] = got[j]
  <1>1. ASSUME IInv, SendJob PROVE Kept
    <2> SUFFICES ASSUME NEW j \in Job, got[j] # NotSent PROVE got'[j] = got[j]
      OBVIOUS
    <2>1. j # hand.job
      BY <1>1 DEF SendJob, IInv, NotSentYet, InHand
    <2> QED
      BY <1>1, <2>1 DEF SendJob, IInv, TypeOK
  <1>2. ASSUME SetCommonData \/ SetUnfitData \/ QueueJob \/ WaitForTasks \/ Shutdown PROVE Kept
    BY <1>2 DEF SetCommonData, SetUnfitData, QueueJob, WaitForTasks, Shutdown, processVars
  <1>3. ASSUME NEW t \in Thread, ShutdownStep(t) PROVE Kept
    BY <1>3 DEF ShutdownStep, TerminateBusy, ListWorkers, KillListed
  <1>4. ASSUME NEW w \in Worker, Finish(w) \/ Crash(w) PROVE Kept
    BY <1>4 DEF Finish, Crash
  <1>5. ASSUME Begin \/ Receive \/ Drain \/ KeepJob \/ WorkerForJob \/ TakeJob PROVE Kept
    BY <1>5 DEF Begin, Receive, Drain, KeepJob, WorkerForJob, TakeJob, processVars
  <1>6. ASSUME \/ PopWorker \/ SendFails \/ WorkerResult \/ Report \/ NewCommonData
               \/ DataRaises \/ TerminalError
        PROVE  Kept
    BY <1>6 DEF PopWorker, SendFails, WorkerResult, Report, NewCommonData, DataRaises,
                TerminalError, processVars
  <1>7. IInv /\ [Next]_vars => [Kept]_vars
    BY <1>1, <1>2, <1>3, <1>4, <1>5, <1>6 DEF Next, PoolStep
  <1> QED
    BY <1>7, Invariant, PTL DEF Spec

(* When wait_for_tasks() has returned, and nothing failed, the results of  *)
(* all jobs are in the queue but for the one the thread is about to put    *)
(* there (ResultsAreIn, without this exception, does not hold).            *)
THEOREM OneResultMayBeMissing ==
  Spec => [](idle /\ Alive => \A j \in 1..asked :
                 (\E i \in DOMAIN results : results[i][1] = j) \/ (At("report") /\ hand.job = j))
  <1>1. ASSUME IInv, idle, Alive, NEW j \in 1..asked
        PROVE  (\E i \in DOMAIN results : results[i][1] = j) \/ (At("report") /\ hand.job = j)
    <2>1. Owed = {}
      BY <1>1, OwedAre, NoneOwed
    <2>2. j \in Done \cup Reporting
      BY <1>1, <2>1 DEF IInv, Apart
    <2> QED
      BY <2>2 DEF Done, Reporting
  <1>2. IInv => (idle /\ Alive => \A j \in 1..asked :
                    (\E i \in DOMAIN results : results[i][1] = j) \/ (At("report") /\ hand.job = j))
    BY <1>1
  <1> QED
    BY <1>2, Invariant, PTL

-----------------------------------------------------------------------------
(* What shutdown() leaves alive.  This rests on a second invariant, for    *)
(* Stationed says nothing once the lists may be cleared by another thread: *)
(* a worker on the stack, or taken from there, runs no job, and neither    *)
(* does one whose result is on its way, which is not on the stack.         *)
Live == {w \in Worker : process[w] \in {"idle", "run"}}
Resting(w) == process[w] \notin {"none", "run"}

Placed ==
    /\ IsInjective(available_workers)
    /\ popped \notin Available
    /\ \A w \in Worker : w \in Available \cup {popped} => Resting(w)
    /\ \A i \in DOMAIN events : events[i].kind = "result" =>
          Resting(events[i].worker) /\ events[i].worker \notin Available \cup {popped}
    /\ \A i, k \in DOMAIN events :
          /\ events[i].kind = "result"
          /\ events[k].kind = "result"
          /\ events[i].worker = events[k].worker
          => i = k
    /\ Handles("result") =>
          /\ Resting(hand.worker) /\ hand.worker \notin Available
          /\ \A i \in DOMAIN events : events[i].kind = "result" => events[i].worker # hand.worker

(* A process that lives is in one of the lists or held by run_job(), until *)
(* the lists are cleared: then all of those that were listed have ended.   *)
AtMostOne(S) == \A v, w \in S : v = w

Leftovers ==
    /\ (\A t \in Thread : down[t] # "over") => Live \subseteq Available \cup Busy \cup {popped}
    /\ \A t \in Thread :
          /\ down[t] = "kill" => AtMostOne(Live \ doomed[t])
          /\ down[t] = "over" => AtMostOne(Live)
    /\ down["pool"] # "no" =>
          /\ At("end")
          /\ \A t \in Thread : /\ down[t] = "kill" => Live \subseteq doomed[t]
                               /\ down[t] = "over" => Live = {}

LInv == IInv /\ Placed /\ Leftovers

(* A step that puts no result and takes no worker.                         *)
LEMMA PlacedKept ==
  ASSUME IInv, Placed, IsInjective(available_workers'), Available' \subseteq Available,
         popped' \in {popped, 0}, \A w \in Worker : Resting(w) => Resting(w)',
         \A i \in DOMAIN events' : events'[i].kind = "result" =>
             i \in DOMAIN events /\ events'[i] = events[i],
         Handles("result")' => Handles("result") /\ hand' = hand
  PROVE  Placed'
  <1>1. /\ \A i \in DOMAIN events : events[i].kind = "result" => events[i].worker \in Worker
        /\ hand.kind = "result" => hand.worker \in Worker
        /\ 0 \notin Worker /\ 0 \notin Available
    BY EventTypes DEF IInv
  <1>2. IsInjective(available_workers)' /\ popped' \notin Available'
    BY <1>1 DEF Placed
  <1>3. \A w \in Worker : w \in Available' \cup {popped'} => Resting(w)'
    BY <1>1 DEF Placed
  <1>4. \A i \in DOMAIN events' : events'[i].kind = "result" =>
           Resting(events[i].worker)' /\ events'[i].worker \notin Available' \cup {popped'}
    <2> SUFFICES ASSUME NEW i \in DOMAIN events', events'[i].kind = "result"
                 PROVE  Resting(events[i].worker)' /\ events'[i].worker \notin Available' \cup {popped'}
      OBVIOUS
    <2>1. PICK w \in Worker : w = events'[i].worker /\ Resting(w) /\ w \notin Available \cup {popped}
      BY <1>1 DEF Placed
    <2>2. Resting(w)' /\ w \notin Available' \cup {popped'}
      BY <1>1, <2>1
    <2> QED
      BY <2>1, <2>2 DEF Resting
  <1>5. \A i, k \in DOMAIN events' :
           /\ events'[i].kind = "result"
           /\ events'[k].kind = "result"
           /\ events'[i].worker = events'[k].worker
           => i = k
    BY DEF Placed
  <1>6. Handles("result")' =>
           /\ Resting(hand.worker)' /\ hand'.worker \notin Available'
           /\ \A i \in DOMAIN events' : events'[i].kind = "result" => events'[i].worker # hand'.worker
    <2> SUFFICES ASSUME Handles("result")'
                 PROVE  /\ Resting(hand.worker)' /\ hand'.worker \notin Available'
                        /\ \A i \in DOMAIN events' : events'[i].kind = "result" => events'[i].worker # hand'.worker
      OBVIOUS
    <2>1. PICK w \in Worker : w = hand'.worker /\ Resting(w) /\ w \notin Available
      BY <1>1 DEF Placed, Handles
    <2>2. Resting(w)' /\ w \notin Available'
      BY <2>1
    <2>3. \A i \in DOMAIN events' : events'[i].kind = "result" => events'[i].worker # hand'.worker
      BY DEF Placed
    <2> QED
      BY <2>1, <2>2, <2>3 DEF Resting
  <1> QED
    BY <1>2, <1>3, <1>4, <1>5, <1>6 DEF Placed

(* A step of neither shutdown: no process that lives is lost from sight,   *)
(* and none is started when the pool is shut down.                         *)
LEMMA FewerLeft ==
  ASSUME IInv, Leftovers, UNCHANGED downVars,
         Live \subseteq Available \cup Busy \cup {popped}
            => Live' \subseteq Available' \cup Busy' \cup {popped'},
         shutting_down => Live' \subseteq Live,
         down["pool"] # "no" => At("end")'
  PROVE  Leftovers'
  <1> USE DEF downVars
  <1>1. CASE shutting_down
    BY <1>1 DEF Leftovers, AtMostOne
  <1>2. CASE ~shutting_down
    <2>1. \A t \in Thread : down[t] = "no"
      BY <1>2 DEF IInv, Control
    <2> QED
      BY <2>1 DEF Leftovers, Thread
  <1> QED
    BY <1>1, <1>2

-----------------------------------------------------------------------------
(* The client's calls.                                                     *)
LEMMA PutKeepsPlaced ==
  ASSUME LInv, NEW e \in EventKind, Put(e), e.kind # "result",
         UNCHANGED <<available_workers, popped, process, hand>>,
         Handles("result")' => Handles("result")
  PROVE  Placed' /\ Available' = Available /\ Live' = Live
  <1>1. PICK n \in Nat :
               /\ n \in DOMAIN events' /\ events'[n] = e
               /\ \A i \in DOMAIN events :
                     i \in Nat /\ i < n /\ i \in DOMAIN events' /\ events'[i] = events[i]
               /\ \A i \in DOMAIN events' : i \in DOMAIN events \/ i = n
    BY EventPut DEF LInv, IInv
  <1>2. \A i \in DOMAIN events' : events'[i].kind = "result" =>
             i \in DOMAIN events /\ events'[i] = events[i]
    BY <1>1
  <1>3. Available' = Available /\ Live' = Live
    BY DEF Available, Live
  <1>4. IsInjective(available_workers') /\ \A w \in Worker : Resting(w) => Resting(w)'
    BY DEF LInv, Placed, Resting
  <1> QED
    BY <1>2, <1>3, <1>4, PlacedKept DEF LInv

LEMMA ClientLeaves ==
  ASSUME LInv, SetCommonData \/ SetUnfitData \/ QueueJob \/ WaitForTasks \/ Shutdown
  PROVE  Placed' /\ Leftovers'
  <1> USE DEF listVars, outVars, threadVars, downVars, processVars, clientVars
  <1>1. PICK e \in EventKind : e.kind # "result" /\ (Put(e) \/ UNCHANGED events)
    <2>1. CASE SetCommonData
      <3>1. [kind |-> "data", data |-> rounds + 1] \in EventKind
        BY <2>1, BoundsAssumption DEF SetCommonData, LInv, IInv, TypeOK, EventKind
      <3> QED
        BY <2>1, <3>1 DEF SetCommonData
    <2>2. CASE QueueJob
      <3>1. [kind |-> "job", job |-> asked + 1] \in EventKind
        BY <2>2, BoundsAssumption DEF QueueJob, LInv, IInv, TypeOK, EventKind, Job
      <3> QED
        BY <2>2, <3>1 DEF QueueJob
    <2>3. Stop \in EventKind /\ Stop.kind # "result"
      BY DEF Stop, EventKind
    <2>4. CASE WaitForTasks
      BY <2>3, <2>4 DEF WaitForTasks
    <2>5. CASE Shutdown
      BY <2>3, <2>5 DEF Shutdown
    <2>6. CASE SetUnfitData
      BY <2>6 DEF SetUnfitData, EventKind, Stop, Unpicklable
    <2> QED
      BY <2>1, <2>2, <2>4, <2>5, <2>6
  <1>2. UNCHANGED <<available_workers, busy_workers, popped, process, hand, thread, doomed>>
    BY DEF SetCommonData, SetUnfitData, QueueJob, WaitForTasks, Shutdown
  <1>3. Available' = Available /\ Busy' = Busy /\ Live' = Live /\ (At("end") => At("end")')
    BY <1>2 DEF Available, Busy, Live, At
  <1>4. Placed'
    <2>1. Handles("result")' => Handles("result")
      BY <1>2 DEF Handles, At
    <2>2. CASE Put(e)
      BY <1>1, <1>2, <2>1, <2>2, PutKeepsPlaced
    <2>3. CASE UNCHANGED events
      <3>1. IsInjective(available_workers') /\ \A w \in Worker : Resting(w) => Resting(w)'
        BY <1>2 DEF LInv, Placed, Resting
      <3> QED
        BY <1>2, <1>3, <2>1, <2>3, <3>1, PlacedKept DEF LInv
    <2> QED
      BY <1>1, <2>2, <2>3
  <1>5. CASE SetCommonData \/ SetUnfitData \/ QueueJob \/ WaitForTasks
    <2>1. UNCHANGED downVars
      BY <1>5 DEF SetCommonData, SetUnfitData, QueueJob, WaitForTasks
    <2> QED
      BY <1>2, <1>3, <1>4, <2>1, FewerLeft DEF LInv, Leftovers
  <1>6. CASE Shutdown
    <2>1. /\ down["client"] = "no" /\ down'["client"] = "terminate" /\ down'["pool"] = down["pool"]
          /\ \A t \in Thread : t \in {"client", "pool"}
      BY <1>6 DEF Shutdown, Calls, LInv, IInv, TypeOK, Thread
    <2> QED
      BY <1>2, <1>3, <1>4, <2>1 DEF LInv, Leftovers, AtMostOne, Thread
  <1> QED
    BY <1>5, <1>6

(* shutdown_workers().                                                     *)
LEMMA EndsMeans ==
  ASSUME IInv, NEW S \in SUBSET Worker, EndsProcesses(S)
  PROVE  /\ Live' = Live \ S
         /\ \A w \in Worker : Resting(w) => Resting(w)'
  <1>1. /\ process \in [Worker -> {"none", "idle", "run", "dead"}]
        /\ \A w \in Worker : process'[w] = IF w \in S THEN "dead" ELSE process[w]
    BY DEF IInv, TypeOK, EndsProcesses
  <1> QED
    BY <1>1 DEF Live, Resting

LEMMA ShutdownLeaves ==
  ASSUME LInv, NEW t \in Thread, ShutdownStep(t)
  PROVE  Placed' /\ Leftovers'
  <1> USE DEF listVars, outVars, threadVars, processVars, clientVars
  <1>1. Busy \subseteq Worker /\ Available \subseteq Worker /\ doomed[t] \subseteq Worker
    BY ListsAreOfWorkers DEF LInv, IInv, TypeOK
  <1>2. UNCHANGED <<events, thread, hand, popped>>
    BY DEF ShutdownStep, TerminateBusy, ListWorkers, KillListed
  <1>3. /\ \A s \in Thread : down'[s] = IF s = t THEN down'[t] ELSE down[s]
        /\ down'[t] \in {"list", "kill", "over"} /\ down[t] # "no" /\ down[t] # "over"
    BY DEF ShutdownStep, TerminateBusy, ListWorkers, KillListed, LInv, IInv, TypeOK
  <1>4. "pool" \in Thread
    BY DEF Thread
  <1>5. At("end")' <=> At("end")
    BY <1>2 DEF At
  <1>6. At("end") => popped = 0 /\ 0 \notin Worker
    BY DEF LInv, IInv, Control, At, Worker
  <1>7. CASE TerminateBusy(t)
    <2>1. Available' = Available /\ Busy' = Busy /\ IsInjective(available_workers')
      BY <1>7 DEF TerminateBusy, Available, Busy, LInv, Placed
    <2>2. Live' = Live \ Busy /\ \A w \in Worker : Resting(w) => Resting(w)'
      BY <1>1, <1>7, EndsMeans DEF TerminateBusy, LInv
    <2>3. Placed'
      BY <1>2, <2>1, <2>2, PlacedKept DEF LInv, Handles, At
    <2>4. down'[t] = "list" /\ doomed' = doomed
      BY <1>7 DEF TerminateBusy, LInv, IInv, TypeOK
    <2>5. Leftovers'
      BY <1>2, <1>3, <1>4, <1>5, <2>1, <2>2, <2>4 DEF LInv, Leftovers, AtMostOne
    <2> QED
      BY <2>3, <2>5
  <1>8. CASE ListWorkers(t)
    <2>1. Available' = Available /\ Busy' = Busy /\ IsInjective(available_workers')
      BY <1>8 DEF ListWorkers, Available, Busy, LInv, Placed
    <2>2. Live' = Live \ Available /\ \A w \in Worker : Resting(w) => Resting(w)'
      BY <1>1, <1>8, EndsMeans DEF ListWorkers, LInv
    <2>3. Placed'
      BY <1>2, <2>1, <2>2, PlacedKept DEF LInv, Handles, At
    <2>4. down'[t] = "kill" /\ \A s \in Thread : doomed'[s] = IF s = t THEN Available \cup Busy ELSE doomed[s]
      BY <1>8 DEF ListWorkers, LInv, IInv, TypeOK
    <2>5. \/ \A v \in Live' \ doomed'[t] : v = popped
          \/ AtMostOne(Live)
      BY <2>2, <2>4, <1>3 DEF LInv, Leftovers
    <2>6. AtMostOne(Live' \ doomed'[t])
      BY <2>2, <2>5 DEF AtMostOne
    <2>7. down["pool"] # "no" => Live' \subseteq doomed'[t]
      <3> SUFFICES ASSUME down["pool"] # "no" PROVE Live' \subseteq doomed'[t]
        OBVIOUS
      <3>1. popped = 0 /\ 0 \notin Live
        BY <1>6 DEF LInv, Leftovers, Live
      <3> QED
        BY <2>2, <2>4, <3>1 DEF LInv, Leftovers
    <2>8. \A s \in Thread : s # t => /\ down'[s] = "kill" => AtMostOne(Live' \ doomed'[s])
                                     /\ down'[s] = "over" => AtMostOne(Live')
      BY <1>3, <2>2, <2>4 DEF LInv, Leftovers, AtMostOne
    <2>9. (\A s \in Thread : down'[s] # "over") => Live' \subseteq Available' \cup Busy' \cup {popped'}
      BY <1>2, <1>3, <2>1, <2>2 DEF LInv, Leftovers
    <2>10. down'["pool"] # "no" => down["pool"] # "no"
      BY <1>3, <1>4
    <2>11. down["pool"] # "no" =>
             \A s \in Thread : s # t => /\ down'[s] = "kill" => Live' \subseteq doomed'[s]
                                        /\ down'[s] = "over" => Live' = {}
      BY <1>3, <2>2, <2>4 DEF LInv, Leftovers
    <2>12. down["pool"] # "no" => At("end")'
      BY <1>5 DEF LInv, Leftovers
    <2> QED
      BY <2>3, <2>4, <2>6, <2>7, <2>8, <2>9, <2>10, <2>11, <2>12 DEF Leftovers
  <1>9. CASE KillListed(t)
    <2>1. Available' = {} /\ available_workers' = <<>>
      BY <1>9 DEF KillListed, Available
    <2>2. PICK S \in SUBSET Worker : doomed[t] \subseteq S /\ EndsProcesses(S)
      BY <1>1, <1>9 DEF KillListed
    <2>3. Live' = Live \ S /\ \A w \in Worker : Resting(w) => Resting(w)'
      BY <1>1, <2>2, EndsMeans DEF LInv
    <2>4. Placed'
      <3>1. IsInjective(available_workers')
        BY <2>1 DEF IsInjective
      <3> QED
        BY <1>2, <2>1, <2>3, <3>1, PlacedKept DEF LInv, Handles, At
    <2>5. down[t] = "kill" /\ down'[t] = "over" /\ doomed' = doomed
      BY <1>9 DEF KillListed, LInv, IInv, TypeOK
    <2>6. AtMostOne(Live') /\ (down["pool"] # "no" => Live' = {})
      BY <2>2, <2>3, <2>5 DEF LInv, Leftovers, AtMostOne
    <2>7. \A s \in Thread : s # t => /\ down'[s] = "kill" => AtMostOne(Live' \ doomed'[s])
                                     /\ down'[s] = "over" => AtMostOne(Live')
      BY <2>6 DEF AtMostOne
    <2>8. ~\A s \in Thread : down'[s] # "over"
      BY <2>5
    <2>9. down'["pool"] # "no" => down["pool"] # "no"
      BY <1>3, <1>4
    <2>10. down["pool"] # "no" => At("end")'
      BY <1>5 DEF LInv, Leftovers
    <2> QED
      BY <2>4, <2>5, <2>6, <2>7, <2>8, <2>9, <2>10 DEF Leftovers
  <1> QED
    BY <1>7, <1>8, <1>9 DEF ShutdownStep

(* The processes.                                                          *)
LEMMA ResultPut ==
  ASSUME LInv, NEW w \in Worker, NEW crash \in BOOLEAN, NEW state \in {"idle", "dead"},
         process[w] = "run",
         process' = [process EXCEPT ![w] = state],
         Put([kind |-> "result", worker |-> w, job |-> doing[w], crash |-> crash]),
         UNCHANGED <<listVars, threadVars>>
  PROVE  Placed'
  <1> USE DEF listVars, threadVars
  <1> DEFINE e == [kind |-> "result", worker |-> w, job |-> doing[w], crash |-> crash]
  <1>1. e \in EventKind /\ e.kind = "result" /\ e.worker = w
    BY DEF LInv, IInv, TypeOK, Control, EventKind
  <1>2. Put(e)
    OBVIOUS
  <1> HIDE DEF e
  <1>3. PICK n \in Nat :
               /\ n \in DOMAIN events' /\ events'[n] = e
               /\ \A i \in DOMAIN events :
                     i \in Nat /\ i < n /\ i \in DOMAIN events' /\ events'[i] = events[i]
               /\ \A i \in DOMAIN events' : i \in DOMAIN events \/ i = n
    BY <1>1, <1>2, EventPut DEF LInv, IInv
  <1>4. /\ process \in [Worker -> {"none", "idle", "run", "dead"}]
        /\ \A v \in Worker : process'[v] = IF v = w THEN state ELSE process[v]
    BY DEF LInv, IInv, TypeOK
  <1>5. /\ \A i \in DOMAIN events : events[i].kind = "result" => events[i].worker \in Worker
        /\ hand.kind = "result" => hand.worker \in Worker
    BY EventTypes DEF LInv, IInv
  <1>6. Available' = Available /\ (Handles("result")' <=> Handles("result"))
    BY DEF Available, Handles, At
  <1>7. /\ ~Resting(w) /\ process'[w] \notin {"none", "run"}
        /\ \A v \in Worker : Resting(v) => process'[v] \notin {"none", "run"}
    BY <1>4 DEF Resting
  <1>8. w \notin Available \cup {popped}
    BY <1>7 DEF LInv, Placed
  <1>9. \A i \in DOMAIN events : events[i].kind = "result" => events[i].worker # w
    BY <1>7 DEF LInv, Placed
  <1>10. Handles("result") => hand.worker # w
    BY <1>7 DEF LInv, Placed
  <1>11. \A i \in DOMAIN events' : events'[i].kind = "result" =>
            /\ process'[events'[i].worker] \notin {"none", "run"}
            /\ events'[i].worker \notin Available \cup {popped}
    <2>1. \A i \in DOMAIN events : events[i].kind = "result" =>
            /\ process'[events[i].worker] \notin {"none", "run"}
            /\ events[i].worker \notin Available \cup {popped}
      BY <1>5, <1>7 DEF LInv, Placed
    <2> QED
      BY <1>1, <1>3, <1>7, <1>8, <2>1
  <1>12. \A i, k \in DOMAIN events' :
            /\ events'[i].kind = "result"
            /\ events'[k].kind = "result"
            /\ events'[i].worker = events'[k].worker
            => i = k
    BY <1>1, <1>3, <1>9 DEF LInv, Placed
  <1>13. Handles("result") =>
            /\ process'[hand.worker] \notin {"none", "run"} /\ hand.worker \notin Available
            /\ \A i \in DOMAIN events' : events'[i].kind = "result" => events'[i].worker # hand.worker
    BY <1>1, <1>3, <1>5, <1>7, <1>10 DEF LInv, Placed, Handles
  <1>14. \A v \in Worker : v \in Available \cup {popped} => process'[v] \notin {"none", "run"}
    BY <1>7 DEF LInv, Placed
  <1>15. IsInjective(available_workers) /\ popped \notin Available
    BY DEF LInv, Placed
  <1> QED
    BY <1>6, <1>11, <1>12, <1>13, <1>14, <1>15 DEF Placed, Resting

LEMMA ProcessLeaves ==
  ASSUME LInv, NEW w \in Worker, Finish(w) \/ Crash(w)
  PROVE  Placed' /\ Leftovers'
  <1> USE DEF listVars, threadVars
  <1>1. /\ UNCHANGED <<listVars, threadVars, downVars>>
        /\ process[w] \in {"idle", "run"}
        /\ \E state \in {"idle", "dead"} : process' = [process EXCEPT ![w] = state]
    BY DEF Finish, Crash
  <1>2. Live' \subseteq Live
    BY <1>1 DEF LInv, IInv, TypeOK, Live
  <1>3. Available' = Available /\ Busy' = Busy /\ (At("end") => At("end")')
    BY <1>1 DEF Available, Busy, At
  <1>4. Leftovers'
    BY <1>1, <1>2, <1>3, FewerLeft DEF LInv, Leftovers
  <1>5. Placed'
    <2>1. CASE process[w] = "run"
      BY <2>1, <1>1, ResultPut DEF Finish, Crash
    <2>2. CASE process[w] # "run"
      <3>1. UNCHANGED events /\ process' = [process EXCEPT ![w] = "dead"]
        BY <2>2 DEF Finish, Crash
      <3>2. \A v \in Worker : Resting(v) => Resting(v)'
        BY <3>1 DEF LInv, IInv, TypeOK, Resting
      <3>3. IsInjective(available_workers')
        BY <1>1 DEF LInv, Placed
      <3> QED
        BY <1>1, <1>3, <3>1, <3>2, <3>3, PlacedKept DEF LInv, Handles, At
    <2> QED
      BY <2>1, <2>2
  <1> QED
    BY <1>4, <1>5

(* The thread Pool: a worker is started, ...                               *)
LEMMA StartLeaves ==
  ASSUME LInv, Begin \/ WorkerForJob
  PROVE  Placed' /\ Leftovers'
  <1>1. PICK next \in {"get", "pop"} : StartWorker(next)
    BY DEF Begin, WorkerForJob
  <1>2. /\ UNCHANGED <<events, busy_workers, hand, popped, downVars>>
        /\ At("begin") \/ At("event")
    BY DEF Begin, WorkerForJob, Handles
  <1>3. thread' \in {"error", "get", "pop"}
    BY <1>1, WorkerStarted DEF LInv
  <1>4. ~Handles("result")' /\ ~At("end") /\ popped = 0
    BY <1>2, <1>3 DEF Handles, At, LInv, IInv, Control
  <1>5. down["pool"] = "no"
    BY <1>4 DEF LInv, Leftovers
  <1>6. Busy' = Busy /\ process \in [Worker -> {"none", "idle", "run", "dead"}]
    BY <1>2 DEF Busy, LInv, IInv, TypeOK
  <1>7. CASE UNCHANGED <<available_workers, process>>
    <2>1. Available' = Available /\ Live' = Live
      BY <1>7 DEF Available, Live
    <2>2. IsInjective(available_workers') /\ \A w \in Worker : Resting(w) => Resting(w)'
      BY <1>7 DEF LInv, Placed, Resting
    <2>3. Placed'
      BY <1>2, <1>4, <2>1, <2>2, PlacedKept DEF LInv
    <2>4. Leftovers'
      BY <1>2, <1>5, <1>6, <2>1, FewerLeft DEF LInv
    <2> QED
      BY <2>3, <2>4
  <1>8. CASE ~shutting_down /\
             \E w \in Worker :
                  /\ process[w] = "none"
                  /\ Available' = Available \cup {w}
                  /\ IsInjective(available_workers) => IsInjective(available_workers)' \/ w \in Available
                  /\ process' = [process EXCEPT ![w] = "idle"]
    <2>1. PICK w \in Worker :
                  /\ process[w] = "none"
                  /\ Available' = Available \cup {w}
                  /\ IsInjective(available_workers) => IsInjective(available_workers)' \/ w \in Available
                  /\ process' = [process EXCEPT ![w] = "idle"]
      BY <1>8
    <2>2. /\ ~Resting(w) /\ process'[w] \notin {"none", "run"}
          /\ \A v \in Worker : Resting(v) => process'[v] \notin {"none", "run"}
      BY <1>6, <2>1 DEF Resting
    <2>3. w \notin Available \cup {popped} /\ w # 0
      BY <2>2, EventTypes DEF LInv, IInv, Placed
    <2>4. IsInjective(available_workers)' /\ popped' \notin Available'
      BY <1>2, <2>1, <2>3 DEF LInv, Placed
    <2>5. \A v \in Worker : v \in Available' \cup {popped} => process'[v] \notin {"none", "run"}
      BY <2>1, <2>2 DEF LInv, Placed
    <2>6. \A i \in DOMAIN events : events[i].kind = "result" =>
             /\ events[i].worker \in Worker /\ Resting(events[i].worker)
             /\ events[i].worker \notin Available \cup {popped}
      BY EventTypes DEF LInv, IInv, Placed
    <2>7. \A i \in DOMAIN events : events[i].kind = "result" =>
             /\ process'[events[i].worker] \notin {"none", "run"}
             /\ events[i].worker \notin Available' \cup {popped}
      BY <2>1, <2>2, <2>6
    <2>8. Placed'
      BY <1>2, <1>4, <2>4, <2>5, <2>7 DEF LInv, Placed, Resting
    <2>9. Live' = Live \cup {w}
      BY <1>6, <2>1 DEF Live
    <2>10. Leftovers'
      BY <1>2, <1>5, <1>6, <1>8, <2>1, <2>9, FewerLeft DEF LInv
    <2> QED
      BY <2>8, <2>10
  <1> QED
    BY <1>1, <1>7, <1>8, WorkerStarted DEF LInv

(* ... an event is taken, ...                                              *)
LEMMA ReceiveLeaves ==
  ASSUME LInv, Receive
  PROVE  Placed' /\ Leftovers'
  <1> USE DEF listVars, processVars
  <1>1. /\ events \in Seq(EventKind) /\ events # <<>>
        /\ events' = Tail(events) /\ hand' = Head(events)
        /\ UNCHANGED <<available_workers, busy_workers, popped, process, downVars>>
    BY DEF Receive, LInv, IInv, TypeOK
  <1>2. /\ 1 \in DOMAIN events /\ hand' = events[1]
        /\ DOMAIN events' \subseteq Nat
        /\ \A i \in DOMAIN events' : /\ i + 1 \in DOMAIN events /\ i + 1 # 1
                                     /\ events'[i] = events[i + 1]
    BY <1>1, Tailed
  <1>3. Available' = Available /\ Busy' = Busy /\ Live' = Live
    BY <1>1 DEF Available, Busy, Live
  <1>4. Leftovers'
    <2>1. down["pool"] # "no" => At("end")'
      BY DEF Receive, LInv, Leftovers, At
    <2> QED
      BY <1>1, <1>3, <2>1, FewerLeft DEF LInv
  <1>5. \A i \in DOMAIN events' : events'[i].kind = "result" =>
           /\ process[events'[i].worker] \notin {"none", "run"}
           /\ events'[i].worker \notin Available \cup {popped}
    BY <1>2 DEF LInv, Placed, Resting
  <1>6. \A i, k \in DOMAIN events' :
           /\ events'[i].kind = "result"
           /\ events'[k].kind = "result"
           /\ events'[i].worker = events'[k].worker
           => i = k
    <2> SUFFICES ASSUME NEW i \in DOMAIN events', NEW k \in DOMAIN events',
                        events'[i].kind = "result", events'[k].kind = "result",
                        events'[i].worker = events'[k].worker
                 PROVE  i = k
      OBVIOUS
    <2>1. i + 1 = k + 1
      BY <1>2 DEF LInv, Placed
    <2> QED
      BY <1>2, <2>1
  <1>7. hand'.kind = "result" =>
           /\ process[hand'.worker] \notin {"none", "run"} /\ hand'.worker \notin Available
           /\ \A i \in DOMAIN events' : events'[i].kind = "result" => events'[i].worker # hand'.worker
    BY <1>2 DEF LInv, Placed, Resting
  <1>8. Placed'
    BY <1>1, <1>3, <1>5, <1>6, <1>7 DEF LInv, Placed, Resting, Handles
  <1> QED
    BY <1>4, <1>8

(* ... a worker is taken for a job, ...                                    *)
LEMMA PopLeaves ==
  ASSUME LInv, PopWorker
  PROVE  Placed' /\ Leftovers'
  <1>1. /\ At("pop") /\ popped = 0 /\ ~At("end") /\ thread' \in {"end", "send"}
        /\ available_workers \in Seq(Worker)
        /\ process \in [Worker -> {"none", "idle", "run", "dead"}]
        /\ UNCHANGED <<events, busy_workers, hand, process, downVars>>
    BY DEF PopWorker, LInv, IInv, TypeOK, Control, At, processVars
  <1>2. down["pool"] = "no" /\ ~Handles("result")'
    BY <1>1 DEF LInv, Leftovers, Handles, At
  <1>3. Busy' = Busy /\ Live' = Live /\ \A w \in Worker : Resting(w) => Resting(w)'
    BY <1>1 DEF Busy, Live, Resting
  <1>4. CASE available_workers = <<>>
    <2>1. UNCHANGED <<available_workers, popped>>
      BY <1>4 DEF PopWorker
    <2>2. Available' = Available /\ IsInjective(available_workers')
      BY <2>1 DEF Available, LInv, Placed
    <2>3. Placed'
      BY <1>1, <1>2, <1>3, <2>1, <2>2, PlacedKept DEF LInv
    <2>4. Leftovers'
      BY <1>1, <1>2, <1>3, <2>1, <2>2, FewerLeft DEF LInv
    <2> QED
      BY <2>3, <2>4
  <1>5. CASE available_workers # <<>>
    <2>1. /\ popped' = available_workers[Len(available_workers)]
          /\ available_workers' = SubSeq(available_workers, 1, Len(available_workers) - 1)
      BY <1>5 DEF PopWorker
    <2>2. Range(available_workers) = Available /\ Range(available_workers') = Available'
      BY DEF Range, Available
    <2>3. /\ Available = Available' \cup {popped'} /\ popped' \in Worker
          /\ IsInjective(available_workers')
          /\ popped' \notin Available'
      BY <1>1, <1>5, <2>1, <2>2, Popped DEF LInv, Placed
    <2>4. Placed'
      <3>1. \A w \in Worker : w \in Available' \cup {popped'} => Resting(w)'
        BY <1>3, <2>3 DEF LInv, Placed
      <3>2. \A i \in DOMAIN events : events[i].kind = "result" =>
               /\ process[events[i].worker] \notin {"none", "run"}
               /\ events[i].worker \notin Available' \cup {popped'}
        BY <2>3 DEF LInv, Placed, Resting
      <3> QED
        BY <1>1, <1>2, <2>3, <3>1, <3>2 DEF LInv, Placed, Resting
    <2>5. Leftovers'
      <3>1. Available \cup Busy \cup {popped} \subseteq Available' \cup Busy' \cup {popped', 0}
        BY <1>1, <1>3, <2>3
      <3>2. 0 \notin Live
        BY EventTypes DEF LInv, IInv, Live
      <3> QED
        BY <1>1, <1>2, <1>3, <3>1, <3>2, FewerLeft DEF LInv
    <2> QED
      BY <2>4, <2>5
  <1> QED
    BY <1>4, <1>5

(* ... which it gets, or cannot get any more, ...                          *)
LEMMA SendLeaves ==
  ASSUME LInv, SendJob \/ SendFails
  PROVE  Placed' /\ Leftovers'
  <1>1. /\ At("send") /\ ~At("end") /\ popped \in Worker /\ popped' = 0 /\ thread' \in {"drain", "error"}
        /\ process \in [Worker -> {"none", "idle", "run", "dead"}]
        /\ UNCHANGED <<events, available_workers, hand, downVars>>
    BY DEF SendJob, SendFails, Fails, LInv, IInv, TypeOK, Control, At, listVars
  <1>2. down["pool"] = "no" /\ ~Handles("result")' /\ Available' = Available
    BY <1>1 DEF LInv, Leftovers, Handles, At, Available
  <1>3. IsInjective(available_workers') /\ 0 \notin Available
    BY <1>1, EventTypes DEF LInv, IInv, Placed
  <1>4. CASE SendJob
    <2>1. /\ process[popped] = "idle"
          /\ \A w \in Worker : process'[w] = IF w = popped THEN "run" ELSE process[w]
          /\ \A w \in Worker : busy_workers'[w] = IF w = popped THEN hand.job ELSE busy_workers[w]
      BY <1>1, <1>4 DEF SendJob, LInv, IInv, TypeOK
    <2>2. hand.job # 0
      BY <1>1, EventTypes DEF LInv, IInv, Control
    <2>3. Live' = Live /\ Busy' = Busy \cup {popped}
      BY <1>1, <2>1, <2>2 DEF Live, Busy
    <2>4. Leftovers'
      <3>1. Available \cup Busy \cup {popped} \subseteq Available' \cup Busy' \cup {popped'}
        BY <1>2, <2>3
      <3> QED
        BY <1>1, <1>2, <2>3, <3>1, FewerLeft DEF LInv
    <2>5. \A i \in DOMAIN events : events[i].kind = "result" =>
             /\ process'[events[i].worker] \notin {"none", "run"}
             /\ events[i].worker \notin Available \cup {0}
      <3>1. \A i \in DOMAIN events : events[i].kind = "result" =>
               /\ events[i].worker \in Worker /\ events[i].worker # 0
               /\ process[events[i].worker] \notin {"none", "run"}
               /\ events[i].worker \notin Available \cup {popped}
        BY EventTypes DEF LInv, IInv, Placed, Resting
      <3> QED
        BY <2>1, <3>1
    <2>6. \A w \in Worker : w \in Available \cup {0} => process'[w] \notin {"none", "run"}
      BY <1>1, <2>1, EventTypes DEF LInv, IInv, Placed, Resting
    <2>7. Placed'
      BY <1>1, <1>2, <1>3, <2>5, <2>6 DEF LInv, Placed, Resting
    <2> QED
      BY <2>4, <2>7
  <1>5. CASE SendFails
    <2>1. /\ \A w \in Worker : process'[w] = IF w = popped THEN "dead" ELSE process[w]
          /\ UNCHANGED busy_workers
      BY <1>1, <1>5 DEF SendFails, listVars
    <2>2. Live' = Live \ {popped} /\ Busy' = Busy /\ \A w \in Worker : Resting(w) => Resting(w)'
      BY <1>1, <2>1 DEF Live, Busy, Resting
    <2>3. popped \notin Live'
      BY <2>2
    <2>4. Leftovers'
      BY <1>1, <1>2, <2>2, <2>3, FewerLeft DEF LInv
    <2>5. Placed'
      BY <1>1, <1>2, <1>3, <2>2, PlacedKept DEF LInv
    <2> QED
      BY <2>4, <2>5
  <1> QED
    BY <1>4, <1>5

(* ... a worker that has done its job is put back, ...                     *)
LEMMA WorkerResultLeaves ==
  ASSUME LInv, WorkerResult
  PROVE  Placed' /\ Leftovers'
  <1>1. /\ Handles("result") /\ ~At("end") /\ ~At("send") /\ thread' \in {"error", "report"}
        /\ hand.worker \in Worker /\ popped = 0 /\ popped' = 0
        /\ available_workers' = Append(available_workers, hand.worker)
        /\ available_workers \in Seq(Worker)
        /\ UNCHANGED <<events, hand, process, downVars>>
    BY EventTypes DEF WorkerResult, Fails, Handles, LInv, IInv, TypeOK, Control, At, processVars
  <1>2. down["pool"] = "no" /\ ~Handles("result")'
    BY <1>1 DEF LInv, Leftovers, Handles, At
  <1>3. Range(available_workers) = Available /\ Range(available_workers') = Available'
    BY DEF Range, Available
  <1>4. /\ Available' = Available \cup {hand.worker}
        /\ IsInjective(available_workers) /\ hand.worker \notin Available
              => IsInjective(available_workers')
    BY <1>1, <1>3, Appended
  <1>5. /\ Resting(hand.worker) /\ hand.worker \notin Available
        /\ \A i \in DOMAIN events : events[i].kind = "result" => events[i].worker # hand.worker
    BY <1>1 DEF LInv, Placed
  <1>6. IsInjective(available_workers') /\ 0 \notin Available'
    BY <1>1, <1>4, <1>5, EventTypes DEF LInv, IInv, Placed
  <1>7. Placed'
    BY <1>1, <1>2, <1>4, <1>5, <1>6 DEF LInv, Placed, Resting
  <1>8. Busy \subseteq Busy' \cup {hand.worker} /\ Live' = Live
    BY <1>1 DEF WorkerResult, LInv, IInv, TypeOK, Busy, Live
  <1>9. Leftovers'
    <2>1. Available \cup Busy \cup {popped} \subseteq Available' \cup Busy' \cup {popped'}
      BY <1>1, <1>4, <1>8
    <2> QED
      BY <1>1, <1>2, <1>8, <2>1, FewerLeft DEF LInv
  <1> QED
    BY <1>7, <1>9

(* ... or no worker is touched.                                            *)
LEMMA OthersLeave ==
  ASSUME LInv,
         Drain \/ KeepJob \/ TakeJob \/ Report \/ NewCommonData \/ DataRaises \/ UNCHANGED vars
  PROVE  Placed' /\ Leftovers'
  <1>1. /\ UNCHANGED <<events, available_workers, busy_workers, popped, process, downVars>>
        /\ Handles("result")' => Handles("result") /\ hand' = hand
        /\ At("end") => At("end")'
    BY DEF Drain, KeepJob, TakeJob, Report, NewCommonData, DataRaises, Fails, vars, listVars,
           threadVars, processVars, downVars, Handles, At
  <1>2. Available' = Available /\ Busy' = Busy /\ Live' = Live
    BY <1>1 DEF Available, Busy, Live
  <1>3. IsInjective(available_workers') /\ \A w \in Worker : Resting(w) => Resting(w)'
    BY <1>1 DEF LInv, Placed, Resting
  <1>4. Placed'
    BY <1>1, <1>2, <1>3, PlacedKept DEF LInv
  <1>5. Leftovers'
    BY <1>1, <1>2, FewerLeft DEF LInv, Leftovers
  <1> QED
    BY <1>4, <1>5

(* terminal_error() begins to shut the pool down.  Nothing is held then.   *)
LEMMA TerminalErrorLeaves ==
  ASSUME LInv, TerminalError
  PROVE  Placed' /\ Leftovers'
  <1>1. /\ At("error") /\ ~At("end") /\ thread' = "end" /\ ~Handles("result")'
        /\ UNCHANGED <<available_workers, busy_workers, hand, popped, process, doomed>>
    BY DEF TerminalError, Handles, At, processVars
  <1>2. Available' = Available /\ Busy' = Busy /\ Live' = Live /\ At("end")'
    BY <1>1 DEF Available, Busy, Live, At
  <1>3. CASE shutting_down
    <2>1. UNCHANGED <<events, downVars>>
      BY <1>3 DEF TerminalError, downVars
    <2>2. IsInjective(available_workers') /\ \A w \in Worker : Resting(w) => Resting(w)'
      BY <1>1 DEF LInv, Placed, Resting
    <2>3. Placed'
      BY <1>1, <1>2, <2>1, <2>2, PlacedKept DEF LInv
    <2>4. Leftovers'
      BY <1>1, <1>2, <2>1, FewerLeft DEF LInv
    <2> QED
      BY <2>3, <2>4
  <1>4. CASE ~shutting_down
    <2>1. Put(Stop) /\ down' = [down EXCEPT !["pool"] = "terminate"]
      BY <1>4 DEF TerminalError
    <2>2. Stop \in EventKind /\ Stop.kind # "result"
      BY DEF Stop, EventKind
    <2>3. Placed'
      BY <1>1, <2>1, <2>2, PutKeepsPlaced
    <2>4. \A t \in Thread : down[t] = "no" /\ down'[t] \in {"no", "terminate"}
      BY <1>4, <2>1 DEF LInv, IInv, TypeOK, Control
    <2>5. Leftovers'
      BY <1>1, <1>2, <2>4 DEF LInv, Leftovers
    <2> QED
      BY <2>3, <2>5
  <1> QED
    BY <1>3, <1>4

LEMMA StepLeaves == LInv /\ [Next]_vars => LInv'
  <1> SUFFICES ASSUME LInv, [Next]_vars PROVE LInv'
    OBVIOUS
  <1>1. IInv'
    BY StepInvariant DEF LInv
  <1>2. ASSUME SetCommonData \/ SetUnfitData \/ QueueJob \/ WaitForTasks \/ Shutdown
        PROVE  Placed' /\ Leftovers'
    BY <1>2, ClientLeaves
  <1>3. ASSUME NEW t \in Thread, ShutdownStep(t) PROVE Placed' /\ Leftovers'
    BY <1>3, ShutdownLeaves
  <1>4. ASSUME NEW w \in Worker, Finish(w) \/ Crash(w) PROVE Placed' /\ Leftovers'
    BY <1>4, ProcessLeaves
  <1>5. ASSUME PoolStep \/ UNCHANGED vars PROVE Placed' /\ Leftovers'
    BY <1>5, StartLeaves, ReceiveLeaves, PopLeaves, SendLeaves, WorkerResultLeaves, OthersLeave,
       TerminalErrorLeaves DEF PoolStep
  <1> QED
    BY <1>1, <1>2, <1>3, <1>4, <1>5 DEF Next, LInv

(* The second inductive invariant.                                         *)
THEOREM WorkersAreKnown == Spec => []LInv
  <1>1. Init => LInv
    <2> SUFFICES ASSUME Init PROVE LInv
      OBVIOUS
    <2>1. /\ IInv /\ Available = {} /\ Live = {} /\ events = <<>> /\ available_workers = <<>>
          /\ popped = 0 /\ 0 \notin Worker
      BY InitInvariant DEF Init, Available, Live, Worker
    <2>2. Placed
      BY <2>1 DEF Init, Placed, IsInjective, Handles, At
    <2>3. Leftovers
      BY <2>1 DEF Init, Leftovers, AtMostOne, Thread
    <2> QED
      BY <2>1, <2>2, <2>3 DEF LInv
  <1> QED
    BY <1>1, StepLeaves, PTL DEF Spec

(* After shutdown(), whoever called it and whatever the thread Pool did    *)
(* meanwhile, at most one worker process is alive (TLC refutes that there  *)
(* is none, ShutdownEndsWorkers): the one that run_job() held.             *)
THEOREM ShutdownLeavesAtMostOne ==
  Spec => [](\A t \in Thread : down[t] = "over" => AtMostOne(Live))
  <1>1. LInv => \A t \in Thread : down[t] = "over" => AtMostOne(Live)
    BY DEF LInv, Leftovers
  <1> QED
    BY <1>1, WorkersAreKnown, PTL

(* When the pool shuts itself down after an error no process is left, also *)
(* if the client calls shutdown() in the middle.                           *)
THEOREM FailureEndsWorkers ==
  Spec => [](down["pool"] = "over" => \A w \in Worker : process[w] \notin {"idle", "run"})
  <1>1. LInv => (down["pool"] = "over" => \A w \in Worker : process[w] \notin {"idle", "run"})
    BY DEF LInv, Leftovers, Live, Thread
  <1> QED
    BY <1>1, WorkersAreKnown, PTL
=============================================================================
