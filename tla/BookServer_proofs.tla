------------------------- MODULE BookServer_proofs -------------------------
(***************************************************************************)
(* Proofs about the two clients of the jobs manager, for any books, any    *)
(* number of handlers and any constants of JobsManager: they use it as it  *)
(* is specified, so that what is proved of it holds in the composition,    *)
(* and their own entries agree with it.                                    *)
(***************************************************************************)
EXTENDS BookServer, JobsManager_proofs

(* What a handler is about.  queue_job() runs with books.cache_lock, for a *)
(* book without a job.                                                     *)
Handlers ==
    \A h \in Handler :
        /\ doing[h] \in {"manifest", "start"} => with[h] \in Book
        /\ doing[h] = "start" => /\ queued_jobs[with[h]] = NoJob
                                 /\ \A g \in Handler : doing[g] = "start" => g = h
        /\ doing[h] \in {"expire", "register"} => with[h] \in 1..made /\ subject[with[h]] = Convert

(* The entries are of jobs that were made.                                 *)
Entries ==
    /\ \A j \in 1..made : subject[j] \in Book \cup {Convert}
    /\ \A b \in Book : queued_jobs[b] # NoJob => queued_jobs[b] \in 1..made
    /\ \A j \in Job : conversion_jobs[j] = "running" => j \in 1..made /\ subject[j] = Convert
    /\ At("callback") => hand \in finished_jobs

SInv == IInv /\ ServerTypeOK /\ Handlers /\ Entries /\ QueuedIsPending

-----------------------------------------------------------------------------
(* The jobs manager.                                                       *)
LEMMA Uses == [ServerNext]_allVars => [Next]_vars
  <1> SUFFICES ASSUME [ServerNext]_allVars PROVE [Next]_vars
    OBVIOUS
  <1>1. CASE UNCHANGED allVars
    BY <1>1 DEF allVars
  <1>2. ASSUME NEW h \in Handler, Request(h) PROVE [Next]_vars
    BY <1>2 DEF Request, AskForManifest, LookUp, QueueJob, QueueJobTooLate, AnswerStatus,
                StartConversion, Expire, Register, Next
  <1>3. ASSUME NEW j \in Job, AbortConversion(j) \/ TellConversion(j) PROVE [Next]_vars
    BY <1>3 DEF AbortConversion, TellConversion, Next
  <1>4. CASE Callback
    BY <1>4 DEF Callback, RenderingDone, ConversionDone, Next
  <1>5. CASE Manager
    BY <1>5 DEF Manager, Next
  <1> QED
    BY <1>1, <1>2, <1>3, <1>4, <1>5 DEF ServerNext

(* The server uses the jobs manager as it is specified: each of its steps  *)
(* is one of the manager, or changes nothing there.                        *)
THEOREM ServerUsesJobsManager == ServerSpec => UsesJobsManager
  <1>1. ServerInit => Init
    BY DEF ServerInit
  <1> QED
    BY <1>1, Uses, PTL DEF ServerSpec, Spec, UsesJobsManager

LEMMA Bounds ==
  ASSUME IInv
  PROVE  /\ made \in Nat /\ 1..made \subseteq Job
         /\ finished_jobs \subseteq 1..made /\ pruned \subseteq 1..made
         /\ At("done") => hand \in jobs /\ hand \in Job /\ hand \notin finished_jobs \cup pruned
  <1>1. made \in Nat /\ 1..made \subseteq Job
    BY MaxStartsAssumption DEF IInv, TypeOK, Job
  <1>2. finished_jobs \subseteq 1..made /\ pruned \subseteq 1..made
    BY DEF IInv, Known
  <1>3. At("done") => hand \in jobs /\ hand \in Job /\ hand \notin finished_jobs \cup pruned
    BY DEF IInv, OneEach, Reports, Ending, Known, At
  <1> QED
    BY <1>1, <1>2, <1>3

(* What the manager does by itself ends no job: a job that is finished     *)
(* still has to call back.                                                 *)
LEMMA ManagerKeeps ==
  ASSUME SInv, Manager
  PROVE  /\ \A j \in Job : Unfinished(j)' <=> Unfinished(j)
         /\ made' = made
         /\ At("callback")' => hand' \in finished_jobs'
  <1> USE DEF SInv, Unfinished, At, clientVars, slotVars, loopVars, jobVars
  <1>1. CASE Shutdown
    BY <1>1 DEF Shutdown, Entries
  <1>2. ASSUME NEW j \in Job, Ends(j) \/ CannotSpawn(j) \/ Tells(j) \/ Tick(j)
        PROVE  UNCHANGED <<finished_jobs, pruned, loop, hand, made>>
    BY <1>2 DEF Ends, Returns, IsAborted, TimesOut, EndsWith, CannotSpawn, Tells, Tick
  <1>3. CASE Receive
    <2>1. loop' # "callback" /\ loop # "callback"
      <3>1. Head(events) \in Event
        BY <1>3, HeadTailProperties DEF Receive, IInv, TypeOK, Event
      <3>2. Head(events)[1] \in {"start", "done", "stop"}
        BY <3>1 DEF Event
      <3> QED
        BY <1>3, <3>2 DEF Receive
    <2> QED
      BY <1>3, <2>1 DEF Receive
  <1>4. CASE LoopEnds \/ UpdateMaxBlock \/ AbortHangingJobs
    BY <1>4 DEF LoopEnds, UpdateMaxBlock, AbortHangingJobs
  <1>5. CASE TakeIn
    BY <1>5 DEF TakeIn
  <1>6. CASE JobFinished
    BY <1>6, Bounds DEF JobFinished
  <1>7. CASE Tidy
    BY <1>7 DEF Tidy
  <1> QED
    BY <1>1, <1>2, <1>3, <1>4, <1>5, <1>6, <1>7 DEF Manager, LoopStep, Entries

LEMMA StartKeeps ==
  ASSUME SInv, StartJob
  PROVE  /\ \A j \in Job : Unfinished(j)' <=> Unfinished(j)
         /\ made' = made + 1 /\ made' \in Job /\ made' \notin 1..made /\ 1..made' = 1..made \cup {made'}
         /\ \A j \in Job : j = made' => Unfinished(j)'
         /\ At("callback")' => hand' \in finished_jobs'
  <1>1. /\ UNCHANGED <<finished_jobs, pruned>> /\ loop # "callback" /\ loop' # "callback"
        /\ made' = made + 1 /\ made < MaxStarts
    BY DEF StartJob, LockFree, slotVars
  <1>2. made' \in Job /\ made' \notin 1..made /\ 1..made' = 1..made \cup {made'}
    BY <1>1, Bounds, MaxStartsAssumption DEF SInv, Job
  <1>3. made' \notin finished_jobs \cup pruned
    BY <1>2, Bounds DEF SInv
  <1> QED
    BY <1>1, <1>2, <1>3 DEF Unfinished, At

(* The callback of a job is its end.                                       *)
LEMMA CallbackEnds ==
  ASSUME SInv, CallbackReturns
  PROVE  /\ hand \in 1..made /\ hand \in Job /\ Unfinished(hand)
         /\ made' = made /\ hand' = hand
         /\ \A j \in Job : Unfinished(j)' <=> Unfinished(j) /\ j # hand
         /\ ~At("callback")'
  <1>1. /\ hand \in finished_jobs /\ loop = "callback" /\ loop' = "tidy"
        /\ UNCHANGED <<finished_jobs, pruned, hand, made>>
    BY DEF SInv, Entries, CallbackReturns, At, slotVars, clientVars
  <1>2. hand \in 1..made /\ hand \in Job
    BY <1>1, Bounds DEF SInv
  <1> QED
    BY <1>1, <1>2 DEF Unfinished, At

-----------------------------------------------------------------------------
(* The entries of the server.                                              *)
LEMMA InitSInv == ServerInit => SInv
  <1> SUFFICES ASSUME ServerInit PROVE SInv
    OBVIOUS
  <1>1. IInv
    BY InitInvariant DEF ServerInit
  <1>2. made = 0 /\ loop = "off" /\ 1..made = {}
    BY DEF ServerInit, Init
  <1>3. ServerTypeOK
    BY DEF ServerInit, ServerTypeOK
  <1>4. Handlers /\ Entries /\ QueuedIsPending
    BY <1>2, BookAssumption DEF ServerInit, Handlers, Entries, At, QueuedIsPending
  <1> QED
    BY <1>1, <1>3, <1>4 DEF SInv

(* Steps that start no job and end none leave Unfinished as it is; the     *)
(* entries of books are then right if they stay.                           *)
LEMMA SameJobs ==
  ASSUME SInv, UNCHANGED <<made, queued_jobs, subject>>,
         \A j \in Job : Unfinished(j)' <=> Unfinished(j)
  PROVE  QueuedIsPending'
  <1>1. \A b \in Book : queued_jobs[b] # NoJob => queued_jobs[b] \in Job
    BY DEF SInv, ServerTypeOK
  <1>2. \A j \in 1..made : j \in Job
    BY Bounds DEF SInv
  <1> QED
    BY <1>1, <1>2 DEF SInv, QueuedIsPending

LEMMA SameManager ==
  ASSUME UNCHANGED vars
  PROVE  /\ UNCHANGED <<made, loop, hand, finished_jobs, pruned>>
         /\ \A j \in Job : Unfinished(j)' <=> Unfinished(j)
  BY DEF vars, clientVars, loopVars, slotVars, Unfinished, At

(* Requests that leave the manager alone.                                  *)
LEMMA QuietRequests ==
  ASSUME SInv, IInv', NEW h \in Handler,
         \/ \E b \in Book : AskForManifest(h, b)
         \/ \E force_reload \in BOOLEAN : LookUp(h, force_reload)
         \/ QueueJobTooLate(h) \/ AnswerStatus(h) \/ Expire(h) \/ Register(h)
  PROVE  /\ SInv'
         /\ TurnsOver
  <1> USE DEF SInv
  <1>1. UNCHANGED <<vars, queued_jobs, subject>>
    BY DEF AskForManifest, LookUp, QueueJobTooLate, AnswerStatus, Expire, Register, bookVars
  <1>2. /\ UNCHANGED <<made, loop, hand, finished_jobs, pruned>>
        /\ \A j \in Job : Unfinished(j)' <=> Unfinished(j)
    BY <1>1, SameManager
  <1>3. QueuedIsPending'
    BY <1>1, <1>2, SameJobs
  <1>4. /\ \A g \in Handler : g # h => doing'[g] = doing[g] /\ with'[g] = with[g]
        /\ \/ doing'[h] = "idle" /\ with'[h] = NoJob
           \/ doing'[h] = "manifest" /\ with'[h] \in Book
           \/ /\ doing'[h] = "start" /\ with'[h] \in Book /\ queued_jobs[with'[h]] = NoJob
              /\ \A g \in Handler : doing[g] # "start"
           \/ doing'[h] = "status" /\ with'[h] \in Job \cup {NoJob}
           \/ doing'[h] = "register" /\ doing[h] = "expire" /\ with'[h] = with[h]
        /\ doing' \in [Handler -> {"idle", "manifest", "start", "status", "expire", "register"}]
        /\ with' \in [Handler -> Book \cup Job \cup {NoJob}]
    <2>1. ASSUME NEW b \in Book, AskForManifest(h, b)
          PROVE  doing'[h] = "manifest" /\ with'[h] = b /\ Does(h, "manifest", b)
      BY <2>1 DEF AskForManifest, Does, ServerTypeOK
    <2>2. CASE AnswerStatus(h) \/ Expire(h) \/ Register(h)
      BY <2>2 DEF AnswerStatus, Expire, Register, Does, ServerTypeOK
    <2>3. CASE QueueJobTooLate(h)
      BY <2>3 DEF QueueJobTooLate, Does, ServerTypeOK
    <2>4. ASSUME NEW force_reload \in BOOLEAN, LookUp(h, force_reload)
          PROVE  \/ Does(h, "idle", NoJob)
                 \/ /\ Does(h, "start", with[h]) /\ with[h] \in Book /\ queued_jobs[with[h]] = NoJob
                    /\ \A g \in Handler : doing[g] # "start"
                 \/ Does(h, "status", queued_jobs[with[h]]) /\ queued_jobs[with[h]] \in Job
      <3>1. with[h] \in Book
        BY <2>4 DEF LookUp, Handlers
      <3> QED
        BY <2>4, <3>1 DEF LookUp, CacheLockFree, ServerTypeOK
    <2>5. ASSUME NEW b \in Book, AskForManifest(h, b)
          PROVE  /\ \A g \in Handler : g # h => doing'[g] = doing[g] /\ with'[g] = with[g]
                 /\ doing' \in [Handler -> {"idle", "manifest", "start", "status", "expire", "register"}]
                 /\ with' \in [Handler -> Book \cup Job \cup {NoJob}]
      BY <2>5 DEF AskForManifest, Does, ServerTypeOK
    <2>6. CASE \E force_reload \in BOOLEAN : LookUp(h, force_reload)
      BY <2>4, <2>6 DEF Does, ServerTypeOK
    <2> QED
      BY <2>1, <2>2, <2>3, <2>5, <2>6
  <1>5. Handlers'
    BY <1>1, <1>2, <1>4 DEF Handlers
  <1>6. /\ rendered' \subseteq Book /\ failed_jobs' \subseteq Book
        /\ conversion_jobs' \in [Job -> {"none", "running", "over"}]
        /\ \A j \in Job : conversion_jobs'[j] = "running" =>
              conversion_jobs[j] = "running" \/ (doing[h] = "register" /\ j = with[h])
    <2>1. CASE Register(h)
      <3>1. with[h] \in Job
        BY <2>1, Bounds DEF Register, Handlers
      <3> QED
        BY <2>1, <3>1 DEF Register, ServerTypeOK, bookVars
    <2>2. CASE Expire(h)
      <3>1. PICK old \in SUBSET Job :
               conversion_jobs' = [j \in Job |-> IF j \in old THEN "none" ELSE conversion_jobs[j]]
        BY <2>2 DEF Expire
      <3> QED
        BY <2>2, <3>1 DEF Expire, ServerTypeOK, bookVars
    <2>3. CASE ~Register(h) /\ ~Expire(h)
      BY <2>3 DEF AskForManifest, LookUp, QueueJobTooLate, AnswerStatus, bookVars, ServerTypeOK
    <2> QED
      BY <2>1, <2>2, <2>3
  <1>7. Entries'
    BY <1>1, <1>2, <1>6 DEF Entries, Handlers, At
  <1>8. ServerTypeOK'
    BY <1>1, <1>4, <1>6 DEF ServerTypeOK
  <1>9. TurnsOver
    BY <1>2 DEF TurnsOver
  <1> QED
    BY <1>3, <1>5, <1>7, <1>8, <1>9

LEMMA QueueJobStep ==
  ASSUME SInv, IInv', NEW h \in Handler, QueueJob(h) \/ StartConversion(h)
  PROVE  /\ SInv'
         /\ TurnsOver
  <1> USE DEF SInv
  <1> DEFINE n == made'
  <1>1. StartJob /\ UNCHANGED <<rendered, failed_jobs, conversion_jobs>>
    BY DEF QueueJob, StartConversion, bookVars
  <1>2. /\ \A j \in Job : Unfinished(j)' <=> Unfinished(j)
        /\ n \in Job /\ n \notin 1..made /\ 1..made' = 1..made \cup {n}
        /\ \A j \in Job : j = n => Unfinished(j)'
        /\ At("callback")' => hand' \in finished_jobs'
    BY <1>1, StartKeeps
  <1> HIDE DEF n
  <1>3. \A j \in 1..made : j \in Job /\ j # n
    BY <1>2, Bounds
  <1>4. n # NoJob
    BY <1>2, BookAssumption
  <1>5. CASE QueueJob(h)
    <2> DEFINE b == with[h]
    <2>1. /\ b \in Book /\ queued_jobs[b] = NoJob /\ doing[h] = "start"
          /\ \A g \in Handler : doing[g] = "start" => g = h
      BY <1>5 DEF QueueJob, Handlers
    <2>2. /\ subject' = [subject EXCEPT ![n] = b] /\ queued_jobs' = [queued_jobs EXCEPT ![b] = n]
          /\ doing' = [doing EXCEPT ![h] = "status"] /\ with' = [with EXCEPT ![h] = n]
      BY <1>5 DEF QueueJob, Does, n
    <2> HIDE DEF b
    <2>3. /\ \A j \in Job : subject'[j] = IF j = n THEN b ELSE subject[j]
          /\ \A c \in Book : queued_jobs'[c] = IF c = b THEN n ELSE queued_jobs[c]
          /\ \A g \in Handler : doing'[g] = IF g = h THEN "status" ELSE doing[g]
          /\ \A g \in Handler : g # h => with'[g] = with[g]
      BY <2>1, <2>2 DEF ServerTypeOK
    <2>4. ServerTypeOK'
      BY <1>1, <1>2, <2>1, <2>2 DEF ServerTypeOK
    <2>5. Handlers'
      <3> SUFFICES ASSUME NEW g \in Handler
                   PROVE  /\ doing'[g] \in {"manifest", "start"} => with'[g] \in Book
                          /\ doing'[g] # "start"
                          /\ doing'[g] \in {"expire", "register"} => with'[g] \in 1..made' /\ subject'[with'[g]] = Convert
        BY DEF Handlers
      <3>1. CASE g = h
        BY <2>3, <3>1
      <3>2. CASE g # h
        BY <1>2, <1>3, <2>1, <2>3, <3>2 DEF Handlers
      <3> QED
        BY <3>1, <3>2
    <2>6. Entries'
      BY <1>1, <1>2, <1>3, <2>1, <2>3 DEF Entries
    <2>7. QueuedIsPending'
      <3>1. ASSUME NEW c \in Book, queued_jobs'[c] # NoJob
            PROVE  subject'[queued_jobs'[c]] = c /\ \A j \in Job : j = queued_jobs'[c] => Unfinished(j)'
        <4>1. CASE c = b
          BY <1>2, <2>3, <4>1
        <4>2. CASE c # b
          <5>1. queued_jobs'[c] = queued_jobs[c] /\ queued_jobs[c] \in 1..made
            BY <2>3, <3>1, <4>2 DEF Entries
          <5> QED
            BY <1>2, <1>3, <2>3, <3>1, <5>1 DEF QueuedIsPending
        <4> QED
          BY <4>1, <4>2
      <3>2. ASSUME NEW j \in 1..made', subject'[j] \in Book, Unfinished(j)'
            PROVE  queued_jobs'[subject'[j]] = j
        <4>1. CASE j = n
          BY <1>2, <2>1, <2>3, <4>1
        <4>2. CASE j # n
          <5>1. j \in 1..made /\ j \in Job /\ subject'[j] = subject[j]
            BY <1>2, <1>3, <2>3, <4>2
          <5>2. queued_jobs[subject[j]] = j /\ j # NoJob
            BY <1>2, <3>2, <5>1, BookAssumption DEF QueuedIsPending
          <5> QED
            BY <2>1, <2>3, <3>2, <5>1, <5>2
        <4> QED
          BY <4>1, <4>2
      <3>3. \A c \in Book : queued_jobs'[c] # NoJob => queued_jobs'[c] \in Job
        BY <2>4 DEF ServerTypeOK
      <3> QED
        BY <3>1, <3>2, <3>3 DEF QueuedIsPending
    <2>8. TurnsOver
      BY <1>2 DEF TurnsOver
    <2> QED
      BY <2>4, <2>5, <2>6, <2>7, <2>8
  <1>6. CASE StartConversion(h)
    <2>1. /\ subject' = [subject EXCEPT ![n] = Convert] /\ queued_jobs' = queued_jobs
          /\ doing' = [doing EXCEPT ![h] = "expire"] /\ with' = [with EXCEPT ![h] = n]
      BY <1>6 DEF StartConversion, Does, n, bookVars
    <2>2. /\ \A j \in Job : subject'[j] = IF j = n THEN Convert ELSE subject[j]
          /\ \A g \in Handler : doing'[g] = IF g = h THEN "expire" ELSE doing[g]
          /\ \A g \in Handler : with'[g] = IF g = h THEN n ELSE with[g]
      BY <2>1 DEF ServerTypeOK
    <2>3. ServerTypeOK'
      BY <1>1, <1>2, <2>1 DEF ServerTypeOK
    <2>4. Handlers'
      <3> SUFFICES ASSUME NEW g \in Handler
                   PROVE  /\ doing'[g] \in {"manifest", "start"} => with'[g] \in Book
                          /\ doing'[g] = "start" => /\ queued_jobs'[with'[g]] = NoJob
                                                    /\ \A k \in Handler : doing'[k] = "start" => k = g
                          /\ doing'[g] \in {"expire", "register"} => with'[g] \in 1..made' /\ subject'[with'[g]] = Convert
        BY DEF Handlers
      <3>1. CASE g = h
        BY <1>2, <2>2, <3>1
      <3>2. CASE g # h
        BY <1>2, <1>3, <2>1, <2>2, <3>2 DEF Handlers
      <3> QED
        BY <3>1, <3>2
    <2>5. Entries'
      BY <1>1, <1>2, <1>3, <2>1, <2>2 DEF Entries
    <2>6. QueuedIsPending'
      <3>1. ASSUME NEW c \in Book, queued_jobs[c] # NoJob
            PROVE  subject'[queued_jobs[c]] = c /\ \A j \in Job : j = queued_jobs[c] => Unfinished(j)'
        BY <1>2, <1>3, <2>2, <3>1 DEF QueuedIsPending, Entries
      <3>2. ASSUME NEW j \in 1..made', subject'[j] \in Book, Unfinished(j)'
            PROVE  queued_jobs[subject'[j]] = j
        <4>1. j # n /\ j \in 1..made /\ j \in Job /\ subject'[j] = subject[j]
          BY <1>2, <1>3, <2>2, <3>2, BookAssumption
        <4> QED
          BY <1>2, <3>2, <4>1 DEF QueuedIsPending
      <3>3. \A c \in Book : queued_jobs[c] # NoJob => queued_jobs[c] \in Job
        BY DEF ServerTypeOK
      <3> QED
        BY <2>1, <3>1, <3>2, <3>3 DEF QueuedIsPending
    <2>7. TurnsOver
      BY <1>2 DEF TurnsOver
    <2> QED
      BY <2>3, <2>4, <2>5, <2>6, <2>7
  <1> QED
    BY <1>5, <1>6

(* The callback of a rendering: the job of the book was this one.          *)
LEMMA RenderingDoneStep ==
  ASSUME SInv, IInv', RenderingDone
  PROVE  /\ SInv'
         /\ TurnsOver
  <1> USE DEF SInv
  <1> DEFINE b == subject[hand]
  <1>1. /\ CallbackReturns /\ b \in Book /\ CacheLockFree
        /\ queued_jobs' = [queued_jobs EXCEPT ![b] = NoJob]
        /\ rendered' \subseteq rendered \cup {b} /\ failed_jobs' \subseteq failed_jobs \cup {b}
        /\ UNCHANGED <<conversion_jobs, subject, doing, with>>
    BY DEF RenderingDone
  <1>2. /\ hand \in 1..made /\ hand \in Job /\ Unfinished(hand)
        /\ made' = made
        /\ \A j \in Job : Unfinished(j)' <=> Unfinished(j) /\ j # hand
        /\ ~At("callback")'
    BY <1>1, CallbackEnds
  <1>3. \A j \in 1..made : j \in Job
    BY Bounds
  <1>4. queued_jobs[b] = hand
    BY <1>1, <1>2 DEF QueuedIsPending
  <1> HIDE DEF b
  <1>5. \A c \in Book : queued_jobs'[c] = IF c = b THEN NoJob ELSE queued_jobs[c]
    BY <1>1 DEF ServerTypeOK
  <1>6. ServerTypeOK'
    BY <1>1, <1>2 DEF ServerTypeOK
  <1>7. Handlers'
    BY <1>1, <1>2, <1>5 DEF Handlers, CacheLockFree
  <1>8. Entries'
    BY <1>1, <1>2, <1>5 DEF Entries
  <1>9. QueuedIsPending'
    <2>1. ASSUME NEW c \in Book, queued_jobs'[c] # NoJob
          PROVE  subject[queued_jobs'[c]] = c /\ \A j \in Job : j = queued_jobs'[c] => Unfinished(j)'
      <3>1. c # b /\ queued_jobs'[c] = queued_jobs[c] /\ queued_jobs[c] \in 1..made
        BY <1>5, <2>1 DEF Entries
      <3>2. subject[queued_jobs[c]] = c /\ Unfinished(queued_jobs[c])
        BY <2>1, <3>1 DEF QueuedIsPending
      <3>3. queued_jobs[c] # hand
        BY <3>1, <3>2 DEF b
      <3> QED
        BY <1>2, <1>3, <3>1, <3>2, <3>3
    <2>2. ASSUME NEW j \in 1..made, subject[j] \in Book, Unfinished(j)'
          PROVE  queued_jobs'[subject[j]] = j
      <3>1. j \in Job /\ Unfinished(j) /\ j # hand
        BY <1>2, <1>3, <2>2
      <3>2. queued_jobs[subject[j]] = j
        BY <2>2, <3>1 DEF QueuedIsPending
      <3> QED
        BY <1>4, <1>5, <2>2, <3>1, <3>2
    <2>3. \A c \in Book : queued_jobs'[c] # NoJob => queued_jobs'[c] \in Job
      BY <1>6 DEF ServerTypeOK
    <2> QED
      BY <1>1, <1>2, <2>1, <2>2, <2>3 DEF QueuedIsPending
  <1>10. TurnsOver
    BY <1>1, <1>2, BookAssumption DEF TurnsOver, Entries, b
  <1> QED
    BY <1>6, <1>7, <1>8, <1>9, <1>10

LEMMA ConversionDoneStep ==
  ASSUME SInv, IInv', ConversionDone
  PROVE  /\ SInv'
         /\ TurnsOver
  <1> USE DEF SInv
  <1>1. /\ CallbackReturns /\ subject[hand] = Convert
        /\ UNCHANGED <<rendered, failed_jobs, queued_jobs, subject, doing, with>>
        /\ conversion_jobs' = [conversion_jobs EXCEPT ![hand] = IF @ = "none" THEN @ ELSE "over"]
    BY DEF ConversionDone, bookVars
  <1>2. /\ hand \in 1..made /\ hand \in Job /\ Unfinished(hand)
        /\ made' = made
        /\ \A j \in Job : Unfinished(j)' <=> Unfinished(j) /\ j # hand
        /\ ~At("callback")'
    BY <1>1, CallbackEnds
  <1>3. \A j \in 1..made : j \in Job
    BY Bounds
  <1>4. /\ conversion_jobs' \in [Job -> {"none", "running", "over"}]
        /\ \A j \in Job : conversion_jobs'[j] = "running" => conversion_jobs[j] = "running" /\ j # hand
    BY <1>1, <1>2 DEF ServerTypeOK
  <1>5. ServerTypeOK' /\ Handlers' /\ Entries'
    BY <1>1, <1>2, <1>4 DEF ServerTypeOK, Handlers, Entries
  <1>6. QueuedIsPending'
    <2>1. ASSUME NEW c \in Book, queued_jobs[c] # NoJob
          PROVE  subject[queued_jobs[c]] = c /\ \A j \in Job : j = queued_jobs[c] => Unfinished(j)'
      <3>1. subject[queued_jobs[c]] = c /\ Unfinished(queued_jobs[c]) /\ queued_jobs[c] # hand
        BY <1>1, <2>1, BookAssumption DEF QueuedIsPending
      <3> QED
        BY <1>2, <3>1
    <2>2. ASSUME NEW j \in 1..made, subject[j] \in Book, Unfinished(j)' PROVE queued_jobs[subject[j]] = j
      BY <1>2, <1>3, <2>2 DEF QueuedIsPending
    <2>3. \A c \in Book : queued_jobs[c] # NoJob => queued_jobs[c] \in Job
      BY DEF ServerTypeOK
    <2> QED
      BY <1>1, <1>2, <2>1, <2>2, <2>3 DEF QueuedIsPending
  <1>7. TurnsOver
    BY <1>2, <1>4 DEF TurnsOver
  <1> QED
    BY <1>5, <1>6, <1>7

(* The entry of a conversion goes, or its job is aborted, or the manager   *)
(* or nobody makes a step.                                                 *)
LEMMA OtherSteps ==
  ASSUME SInv, IInv',
         \/ \E j \in Job : AbortConversion(j) \/ TellConversion(j)
         \/ Manager \/ UNCHANGED allVars
  PROVE  /\ SInv'
         /\ TurnsOver
  <1> USE DEF SInv
  <1>1. /\ UNCHANGED <<bookVars, subject, doing, with>>
        /\ conversion_jobs' \in [Job -> {"none", "running", "over"}]
        /\ \A j \in Job : conversion_jobs'[j] = "running" => conversion_jobs[j] = "running"
    BY DEF AbortConversion, TellConversion, Manager, allVars, serverVars, ServerTypeOK
  <1>2. /\ \A j \in Job : Unfinished(j)' <=> Unfinished(j)
        /\ made' = made
        /\ At("callback")' => hand' \in finished_jobs'
    <2>1. CASE Manager
      BY <2>1, ManagerKeeps
    <2>2. ASSUME NEW j \in Job, AbortConversion(j)
          PROVE  UNCHANGED <<made, loop, hand, finished_jobs, pruned>>
      BY <2>2 DEF AbortConversion, AbortJob, clientVars, slotVars, loopVars
    <2>3. CASE (\E j \in Job : TellConversion(j)) \/ UNCHANGED allVars
      <3>1. UNCHANGED vars
        BY <2>3 DEF TellConversion, allVars
      <3> QED
        BY <3>1, SameManager DEF Entries, At
    <2>4. CASE \E j \in Job : AbortConversion(j)
      BY <2>2, <2>4 DEF Unfinished, At, Entries
    <2> QED
      BY <2>1, <2>3, <2>4
  <1>3. QueuedIsPending'
    BY <1>1, <1>2, SameJobs DEF bookVars
  <1>4. ServerTypeOK' /\ Handlers' /\ Entries'
    BY <1>1, <1>2 DEF ServerTypeOK, Handlers, Entries, bookVars
  <1>5. TurnsOver
    BY <1>2 DEF TurnsOver
  <1> QED
    BY <1>3, <1>4, <1>5

LEMMA ServerStep ==
  ASSUME SInv, [ServerNext]_allVars
  PROVE  /\ SInv'
         /\ TurnsOver
  <1>1. IInv'
    BY Uses, StepInvariant DEF SInv
  <1>2. ASSUME NEW h \in Handler, Request(h)
        PROVE  SInv' /\ TurnsOver
    BY <1>1, <1>2, QuietRequests, QueueJobStep DEF Request
  <1>3. CASE Callback
    BY <1>1, <1>3, RenderingDoneStep, ConversionDoneStep DEF Callback
  <1>4. CASE (\E j \in Job : AbortConversion(j) \/ TellConversion(j)) \/ Manager \/ UNCHANGED allVars
    BY <1>1, <1>4, OtherSteps
  <1> QED
    BY <1>2, <1>3, <1>4 DEF ServerNext

THEOREM ServerInvariant == ServerSpec => []SInv
  <1>1. ServerInit => SInv
    BY InitSInv
  <1>2. SInv /\ [ServerNext]_allVars => SInv'
    BY ServerStep
  <1> QED
    BY <1>1, <1>2, PTL DEF ServerSpec

(* Type correctness of the server's own variables.                         *)
THEOREM ServerTypeCorrect == ServerSpec => []ServerTypeOK
  <1>1. SInv => ServerTypeOK
    BY DEF SInv
  <1> QED
    BY <1>1, ServerInvariant, PTL

(* A book that is said to be in preparation has a job of its own that will *)
(* still call back, and no other.                                          *)
THEOREM NoBookIsPreparedForEver == ServerSpec => []QueuedIsPending
  <1>1. SInv => QueuedIsPending
    BY DEF SInv
  <1> QED
    BY <1>1, ServerInvariant, PTL

(* An entry that says that a conversion is running when its job has still  *)
(* to call back does not say so after the callback.                        *)
THEOREM ConversionsTurnOver == ServerSpec => RunningUntilDone
  <1>1. SInv /\ [ServerNext]_allVars => [TurnsOver]_allVars
    BY ServerStep
  <1> QED
    BY <1>1, ServerInvariant, PTL DEF ServerSpec, RunningUntilDone

(* What is promised by the manager alone holds with its clients: no job is *)
(* lost, started out of its turn or reported twice, and the loop does not  *)
(* sleep while it could start one.                                         *)
THEOREM ServerLosesNoJob ==
  ServerSpec => [](EveryJobIsKnown /\ DoneOnce /\ StartedInOrder /\ NothingIsForgotten)
  <1> QED
    BY ServerUsesJobsManager, NoJobIsLost, JobsFinishOnce, JobsStartInOrder, LoopNeverForgets,
       PTL DEF UsesJobsManager

(* However many handlers ask for a book, two jobs that render it are never *)
(* under way at the same time.                                             *)
THEOREM NoBookIsRenderedTwice ==
  ServerSpec => [](\A j, k \in waiting_job_ids \cup jobs :
                      subject[j] \in Book /\ subject[j] = subject[k] => j = k)
  <1>1. ASSUME SInv, NEW j \in waiting_job_ids \cup jobs, NEW k \in waiting_job_ids \cup jobs,
               subject[j] \in Book, subject[j] = subject[k]
        PROVE  j = k
    <2>1. j \in 1..made /\ k \in 1..made /\ Unfinished(j) /\ Unfinished(k)
      BY <1>1 DEF SInv, IInv, Known, Unfinished
    <2> QED
      BY <1>1, <2>1 DEF SInv, QueuedIsPending
  <1>2. SInv => \A j, k \in waiting_job_ids \cup jobs :
                   subject[j] \in Book /\ subject[j] = subject[k] => j = k
    BY <1>1
  <1> QED
    BY <1>2, ServerInvariant, PTL
=============================================================================
