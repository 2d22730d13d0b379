----------------------------- MODULE BookServer -----------------------------
(***************************************************************************)
(* The two clients of the jobs manager in the content server: srv/books.py *)
(* renders a book for the viewer, srv/convert.py converts one.  Requests   *)
(* run in the threads of a pool; a job's callback runs in JobsEventLoop,   *)
(* which holds JobsManager.lock meanwhile.                                 *)
(*                                                                         *)
(* A section under either cache_lock is one action, but for the part of    *)
(* book_manifest() that starts a job: it holds books.cache_lock while it   *)
(* waits for JobsManager.lock.                                             *)
(***************************************************************************)
EXTENDS JobsManager

CONSTANTS Book,            \* hashes of (library, book, format, size, mtime)
          Handler,         \* threads of the server's pool
          Convert,         \* stands for a conversion, as the subject of a job
          NoJob            \* None

ASSUME BookAssumption == Convert \notin Book /\ NoJob \notin Job

VARIABLES
    rendered,              \* books with a manifest in the final directory
    failed_jobs,           \* books whose rendering failed
    queued_jobs,           \* the job of each book, NoJob for an absent key
    conversion_jobs,       \* state of each job's entry
    subject,               \* what each job is for
    doing, with            \* what each handler does, for which book or job

bookVars == <<rendered, failed_jobs, queued_jobs>>
serverVars == <<bookVars, conversion_jobs, subject, doing, with>>
allVars == <<vars, serverVars>>

ServerTypeOK ==
    /\ rendered \subseteq Book
    /\ failed_jobs \subseteq Book
    /\ queued_jobs \in [Book -> Job \cup {NoJob}]
    /\ conversion_jobs \in [Job -> {"none", "running", "over"}]
    /\ subject \in [Job -> Book \cup {Convert, NoJob}]
    /\ doing \in [Handler -> {"idle", "manifest", "start", "status", "expire", "register"}]
    /\ with \in [Handler -> Book \cup Job \cup {NoJob}]

ServerInit ==
    /\ Init
    /\ rendered = {}
    /\ failed_jobs = {}
    /\ queued_jobs = [b \in Book |-> NoJob]
    /\ conversion_jobs = [j \in Job |-> "none"]
    /\ subject = [j \in Job |-> NoJob]
    /\ doing = [h \in Handler |-> "idle"]
    /\ with = [h \in Handler |-> NoJob]

Does(h, what, whom) ==
    /\ doing' = [doing EXCEPT ![h] = what]
    /\ with' = [with EXCEPT ![h] = whom]

(* books.cache_lock: only queue_job() keeps it from one step to the next.  *)
CacheLockFree == \A h \in Handler : doing[h] # "start"

-----------------------------------------------------------------------------
(* book_manifest().                                                        *)
AskForManifest(h, b) ==
    /\ doing[h] = "idle"
    /\ Does(h, "manifest", b)
    /\ UNCHANGED <<vars, bookVars, conversion_jobs, subject>>

(* Mutant: the entry of the job is not looked at.                          *)
LookUpIgnoresQueue(h, force_reload) ==
    /\ doing[h] = "manifest"
    /\ CacheLockFree
    /\ LET b == with[h]
           kept == IF force_reload THEN rendered \ {b} ELSE rendered IN
       /\ rendered' = kept
       /\ failed_jobs' = IF b \in kept THEN failed_jobs ELSE failed_jobs \ {b}
       /\ IF b \in kept \cup failed_jobs THEN Does(h, "idle", NoJob) ELSE Does(h, "start", b)
    /\ UNCHANGED <<vars, queued_jobs, conversion_jobs, subject>>

(* The section under cache_lock: the manifest, or the failure, which is    *)
(* forgotten, or the job there is; else queue_job() with the lock, whose   *)
(* copy_format_to() may raise.                                             *)
LookUp(h, force_reload) ==
    /\ doing[h] = "manifest"
    /\ CacheLockFree
    /\ LET b == with[h]
           kept == IF force_reload THEN rendered \ {b} ELSE rendered IN
       /\ rendered' = kept
       /\ failed_jobs' = IF b \in kept THEN failed_jobs ELSE failed_jobs \ {b}
       /\ IF b \in kept \cup failed_jobs THEN Does(h, "idle", NoJob)
          ELSE IF queued_jobs[b] # NoJob THEN Does(h, "status", queued_jobs[b])
          ELSE Does(h, "start", b) \/ Does(h, "idle", NoJob)
    /\ UNCHANGED <<vars, queued_jobs, conversion_jobs, subject>>

QueueJob(h) ==
    /\ doing[h] = "start"
    /\ StartJob
    /\ subject' = [subject EXCEPT ![made'] = with[h]]
    /\ queued_jobs' = [queued_jobs EXCEPT ![with[h]] = made']
    /\ Does(h, "status", made')
    /\ UNCHANGED <<rendered, failed_jobs, conversion_jobs>>

(* start_job() returns None: so does queued_jobs.get() from then on.       *)
QueueJobTooLate(h) ==
    /\ doing[h] = "start"
    /\ LockFree
    /\ shutting_down
    /\ Does(h, "status", NoJob)
    /\ UNCHANGED <<vars, bookVars, conversion_jobs, subject>>

(* job_status(), for the answer.                                           *)
AnswerStatus(h) ==
    /\ doing[h] = "status"
    /\ LockFree
    /\ Does(h, "idle", NoJob)
    /\ UNCHANGED <<vars, bookVars, conversion_jobs, subject>>

-----------------------------------------------------------------------------
(* start_conversion() and conversion_status().                             *)
StartConversion(h) ==
    /\ doing[h] = "idle"
    /\ StartJob
    /\ subject' = [subject EXCEPT ![made'] = Convert]
    /\ Does(h, "expire", made')
    /\ UNCHANGED <<bookVars, conversion_jobs>>

(* expire_old_jobs() drops what nobody asked about for six minutes and     *)
(* deletes its files ...                                                   *)
Expire(h) ==
    /\ doing[h] = "expire"
    /\ \E old \in SUBSET Job :
          conversion_jobs' = [j \in Job |-> IF j \in old THEN "none" ELSE conversion_jobs[j]]
    /\ Does(h, "register", with[h])
    /\ UNCHANGED <<vars, bookVars, subject>>

(* ... and only then the job gets its entry.                               *)
Register(h) ==
    /\ doing[h] = "register"
    /\ conversion_jobs' = [conversion_jobs EXCEPT ![with[h]] = "running"]
    /\ Does(h, "idle", NoJob)
    /\ UNCHANGED <<vars, bookVars, subject>>

(* Mutant: a conversion that has not been started is aborted as well.      *)
AbortConversionEarly(j) ==
    /\ conversion_jobs[j] = "running"
    /\ Aborted({j}, "asked")
    /\ UNCHANGED <<clientVars, events, slotVars, loopVars, shutting_down, monitor, result, age>>
    /\ UNCHANGED serverVars

(* The user gives the conversion up: abort_job() with cache_lock held.     *)
AbortConversion(j) ==
    /\ conversion_jobs[j] = "running"
    /\ AbortJob(j)
    /\ UNCHANGED serverVars

(* A conversion that is over is told once.                                 *)
TellConversion(j) ==
    /\ conversion_jobs[j] = "over"
    /\ conversion_jobs' = [conversion_jobs EXCEPT ![j] = "none"]
    /\ UNCHANGED <<vars, bookVars, subject, doing, with>>

-----------------------------------------------------------------------------
(* The callbacks, with JobsManager.lock.                                   *)

(* Mutant: only the result of a rendering that succeeded is taken in.      *)
RenderingDoneIfGood ==
    /\ subject[hand] \in Book
    /\ CacheLockFree
    /\ LET b == subject[hand] IN
       \/ /\ result[hand] = "ended"
          /\ queued_jobs' = [queued_jobs EXCEPT ![b] = NoJob]
          /\ rendered' = rendered \cup {b}
          /\ UNCHANGED failed_jobs
       \/ UNCHANGED bookVars
    /\ CallbackReturns
    /\ UNCHANGED <<conversion_jobs, subject, doing, with>>

(* job_done() of books.py: a result may be no good, its directory may fail *)
(* to be renamed.                                                          *)
RenderingDone ==
    /\ subject[hand] \in Book
    /\ CacheLockFree
    /\ LET b == subject[hand] IN
       /\ queued_jobs' = [queued_jobs EXCEPT ![b] = NoJob]
       /\ \/ /\ result[hand] = "ended"
             /\ rendered' = rendered \cup {b}
             /\ UNCHANGED failed_jobs
          \/ /\ failed_jobs' = failed_jobs \cup {b}
             /\ \E gone \in {{}, {b}} : rendered' = rendered \ gone
    /\ CallbackReturns
    /\ UNCHANGED <<conversion_jobs, subject, doing, with>>

(* Mutant: the end of a job that gave no result changes nothing.           *)
ConversionDoneIfGood ==
    /\ subject[hand] = Convert
    /\ conversion_jobs' = [conversion_jobs EXCEPT ![hand] =
                              IF @ # "none" /\ result[hand] = "ended" THEN "over" ELSE @]
    /\ CallbackReturns
    /\ UNCHANGED <<bookVars, subject, doing, with>>

(* job_done() of convert.py: if the job has no entry yet, nothing is done. *)
ConversionDone ==
    /\ subject[hand] = Convert
    /\ conversion_jobs' = [conversion_jobs EXCEPT ![hand] = IF @ = "none" THEN @ ELSE "over"]
    /\ CallbackReturns
    /\ UNCHANGED <<bookVars, subject, doing, with>>

-----------------------------------------------------------------------------
Request(h) ==
    \/ \E b \in Book : AskForManifest(h, b)
    \/ \E force_reload \in BOOLEAN : LookUp(h, force_reload)
    \/ QueueJob(h) \/ QueueJobTooLate(h) \/ AnswerStatus(h)
    \/ StartConversion(h) \/ Expire(h) \/ Register(h)

Callback == At("callback") /\ (RenderingDone \/ ConversionDone)

Manager ==
    /\ \/ Shutdown \/ LoopStep
       \/ \E j \in Job : Ends(j) \/ CannotSpawn(j) \/ Tells(j) \/ Tick(j)
    /\ UNCHANGED serverVars

ServerNext ==
    \/ \E h \in Handler : Request(h)
    \/ \E j \in Job : AbortConversion(j) \/ TellConversion(j)
    \/ Callback
    \/ Manager

ServerSpec == ServerInit /\ [][ServerNext]_allVars

(* As in JobsManager; and a request that is about to take the manager's    *)
(* lock gets it some time, if the lock is free again and again.            *)
ServerFairness ==
    /\ WF_allVars(Callback)
    /\ WF_allVars(LoopStep /\ UNCHANGED serverVars)
    /\ \A j \in Job : WF_allVars(MonitorStep(j) /\ UNCHANGED serverVars)
    /\ \A h \in Handler : /\ SF_allVars(QueueJob(h) \/ QueueJobTooLate(h))
                          /\ WF_allVars(Expire(h) \/ Register(h))

FairServerSpec == ServerSpec /\ ServerFairness

-----------------------------------------------------------------------------
(* Properties.                                                             *)
Unfinished(j) == j \notin finished_jobs \cup pruned \/ (At("callback") /\ hand = j)

(* A book that is said to be in preparation has a job that will still call *)
(* back, its own one and no other: no entry is left behind that would keep *)
(* the book from being opened, and no book is rendered twice at a time.    *)
QueuedIsPending ==
    /\ \A b \in Book : queued_jobs[b] # NoJob =>
          subject[queued_jobs[b]] = b /\ Unfinished(queued_jobs[b])
    /\ \A j \in 1..made : subject[j] \in Book /\ Unfinished(j) => queued_jobs[subject[j]] = j

(* An entry that says that a conversion is running when its job has still  *)
(* to call back does not say so after the callback ...                     *)
TurnsOver ==
    \A j \in Job : conversion_jobs[j] = "running" /\ Unfinished(j) =>
                       conversion_jobs'[j] # "running" \/ Unfinished(j)'

RunningUntilDone == [][TurnsOver]_allVars

(* ... but an entry made after the callback of its job says so for good:   *)
(* nothing keeps a job from being over before it has its entry.            *)
RunningIsPending == \A j \in Job : conversion_jobs[j] = "running" => Unfinished(j)

(* The requests and callbacks use the jobs manager as it is specified.     *)
UsesJobsManager == Spec

(* Who waits for a book gets an answer.                                    *)
RenderingEnds ==
    \A b \in Book : queued_jobs[b] # NoJob ~> \/ queued_jobs[b] = NoJob
                                              \/ shutting_down
=============================================================================
