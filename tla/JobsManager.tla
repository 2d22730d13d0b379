---------------------------- MODULE JobsManager ----------------------------
(***************************************************************************)
(* The jobs of the content server, srv/jobs.py: the requests that start    *)
(* and abort jobs, the thread JobsEventLoop, the thread of each job, which *)
(* waits for a worker process (fork_job() of utils/ipc/simple_worker.py),  *)
(* and the shutdown of the server.                                         *)
(*                                                                         *)
(* A section under JobsManager.lock is one action, but for job_finished(), *)
(* which holds the lock while it calls the job's callback.  Time is a      *)
(* small number per job.                                                   *)
(***************************************************************************)
EXTENDS Naturals, Sequences, FiniteSets

CONSTANTS max_jobs,        \* worker processes at a time
          max_job_time,    \* time a job may take, none at all if it is 0
          fork_timeout,    \* the time that fork_job() gives a worker itself
          Disturb,         \* which disturbances the instance explores
          MaxStarts        \* bound: jobs

ASSUME max_jobsAssumption == max_jobs \in Nat \ {0}
ASSUME TimeAssumption == max_job_time \in Nat /\ fork_timeout \in Nat
ASSUME DisturbAssumption == Disturb \subseteq {"spawn"}
ASSUME MaxStartsAssumption == MaxStarts \in Nat

Job == 1..MaxStarts

VARIABLES
    made,                  \* ids taken from the counter job_id
    events,                \* the queue: <<kind, job>>
    waiting_job_ids,
    waiting_jobs,          \* received, not started
    jobs,                  \* started, their end not yet received
    finished_jobs,
    pruned,                \* deleted from finished_jobs
    max_block,             \* whether events.get() has a timeout
    shutting_down,
    loop, hand,            \* what JobsEventLoop is doing, and with which job
    monitor,               \* the thread of each job
    result,                \* how each job ended
    abort,                 \* abort_event of each job, with who set it first
    age                    \* how long each job has run

clientVars == <<made, waiting_job_ids>>
slotVars == <<waiting_jobs, jobs, finished_jobs, pruned>>
loopVars == <<max_block, loop, hand>>
jobVars == <<monitor, result, abort, age>>
vars == <<clientVars, events, slotVars, loopVars, shutting_down, jobVars>>

Oldest == IF max_job_time > fork_timeout THEN max_job_time ELSE fork_timeout

TypeOK ==
    /\ made \in 0..MaxStarts
    /\ events \in Seq(({"start", "done"} \X Job) \cup {<<"stop", 0>>})
    /\ waiting_job_ids \subseteq Job
    /\ waiting_jobs \in Seq(Job)
    /\ jobs \subseteq Job
    /\ finished_jobs \subseteq Job
    /\ pruned \subseteq Job
    /\ max_block \in BOOLEAN
    /\ shutting_down \in BOOLEAN
    /\ loop \in {"off", "get", "start", "done", "callback", "tidy", "block", "end"}
    /\ hand \in Job \cup {0}
    /\ monitor \in [Job -> {"none", "run", "over", "told", "dead"}]
    /\ result \in [Job -> {"none", "ended", "hung", "empty"}]
    /\ abort \in [Job -> {"no", "asked", "limit", "shutdown"}]
    /\ age \in [Job -> 0..Oldest]

Init ==
    /\ made = 0
    /\ events = <<>>
    /\ waiting_job_ids = {}
    /\ waiting_jobs = <<>>
    /\ jobs = {}
    /\ finished_jobs = {}
    /\ pruned = {}
    /\ max_block = FALSE
    /\ shutting_down = FALSE
    /\ loop = "off"
    /\ hand = 0
    /\ monitor = [j \in Job |-> "none"]
    /\ result = [j \in Job |-> "none"]
    /\ abort = [j \in Job |-> "no"]
    /\ age = [j \in Job |-> 0]

LockFree == loop # "callback"

-----------------------------------------------------------------------------
(* Requests, and the server that ends.                                     *)

(* start_job(): the first call starts the event loop.                      *)
StartJob ==
    /\ LockFree
    /\ ~shutting_down
    /\ made < MaxStarts
    /\ made' = made + 1
    /\ events' = Append(events, <<"start", made + 1>>)
    /\ waiting_job_ids' = waiting_job_ids \cup {made + 1}
    /\ loop' = IF loop = "off" THEN "get" ELSE loop
    /\ UNCHANGED <<slotVars, max_block, hand, shutting_down, jobVars>>

Aborted(S, who) == abort' = [j \in Job |-> IF j \in S /\ abort[j] = "no" THEN who ELSE abort[j]]

(* Mutant: the job is said to be done at once.                             *)
AbortJobTells(j) ==
    /\ j \in jobs
    /\ Aborted({j}, "asked")
    /\ events' = Append(events, <<"done", j>>)
    /\ UNCHANGED <<clientVars, slotVars, loopVars, shutting_down, monitor, result, age>>

(* abort_job(): finds only jobs that have been started; takes no lock.     *)
AbortJob(j) ==
    /\ j \in jobs
    /\ Aborted({j}, "asked")
    /\ UNCHANGED <<clientVars, events, slotVars, loopVars, shutting_down, monitor, result, age>>

(* Mutant: the jobs that run are left to themselves, the loop is not told. *)
ShutdownQuietly ==
    /\ LockFree
    /\ ~shutting_down
    /\ shutting_down' = TRUE
    /\ UNCHANGED <<clientVars, events, slotVars, loopVars, jobVars>>

Shutdown ==
    /\ LockFree
    /\ ~shutting_down
    /\ shutting_down' = TRUE
    /\ Aborted(jobs, "shutdown")
    /\ events' = Append(events, <<"stop", 0>>)
    /\ UNCHANGED <<clientVars, slotVars, loopVars, monitor, result, age>>

-----------------------------------------------------------------------------
(* Job.run().                                                              *)
Running(j) == monitor[j] = "run"

EndsWith(j, r) ==
    /\ Running(j)
    /\ monitor' = [monitor EXCEPT ![j] = "over"]
    /\ result' = [result EXCEPT ![j] = r]
    /\ UNCHANGED <<clientVars, events, slotVars, loopVars, shutting_down, abort, age>>

(* With a result or a traceback of its own.                                *)
Returns(j) == EndsWith(j, "ended")

(* communicate() sees the event and returns without a result ...           *)
IsAborted(j) == abort[j] # "no" /\ EndsWith(j, "empty")

(* ... or raises WorkerError('Worker appears to have hung').               *)
TimesOut(j) == age[j] >= fork_timeout /\ EndsWith(j, "hung")

(* The process cannot be created: run() ends by an OSError it does not     *)
(* catch, without any of its other statements.                             *)
CannotSpawn(j) ==
    /\ "spawn" \in Disturb
    /\ Running(j)
    /\ monitor' = [monitor EXCEPT ![j] = "dead"]
    /\ UNCHANGED <<clientVars, events, slotVars, loopVars, shutting_down, result, abort, age>>

(* Mutant: a job that gave no result is not reported.                      *)
TellsResultsOnly(j) ==
    /\ monitor[j] = "over"
    /\ monitor' = [monitor EXCEPT ![j] = "told"]
    /\ events' = IF result[j] = "empty" THEN events ELSE Append(events, <<"done", j>>)
    /\ UNCHANGED <<clientVars, slotVars, loopVars, shutting_down, result, abort, age>>

(* The job is done before the event loop hears of it.                      *)
Tells(j) ==
    /\ monitor[j] = "over"
    /\ monitor' = [monitor EXCEPT ![j] = "told"]
    /\ events' = Append(events, <<"done", j>>)
    /\ UNCHANGED <<clientVars, slotVars, loopVars, shutting_down, result, abort, age>>

Tick(j) ==
    /\ monitor[j] \in {"run", "dead"}
    /\ age[j] < Oldest
    /\ age' = [age EXCEPT ![j] = @ + 1]
    /\ UNCHANGED <<clientVars, events, slotVars, loopVars, shutting_down, monitor, result, abort>>

-----------------------------------------------------------------------------
(* JobsEventLoop.                                                          *)
At(place) == loop = place

(* run(): shutting_down is read again once there is an event.              *)
Receive ==
    /\ At("get")
    /\ ~shutting_down
    /\ events # <<>>
    /\ loop' = Head(events)[1]
    /\ hand' = Head(events)[2]
    /\ events' = Tail(events)
    /\ UNCHANGED <<clientVars, slotVars, max_block, shutting_down, jobVars>>

(* An event or the timeout has woken the loop, the "stop" at the latest.   *)
LoopEnds ==
    /\ At("get")
    /\ shutting_down
    /\ events # <<>> \/ max_block
    /\ loop' = "end"
    /\ UNCHANGED <<clientVars, events, slotVars, max_block, hand, shutting_down, jobVars>>

FreeSlots(running) == max_jobs - Cardinality(running)

(* Mutant: ids stay in waiting_job_ids.                                    *)
StartWaitingKeepsIds(queue, running) ==
    LET n == IF Len(queue) < FreeSlots(running) THEN Len(queue) ELSE FreeSlots(running)
        new == {queue[i] : i \in 1..n} IN
    /\ waiting_jobs' = SubSeq(queue, n + 1, Len(queue))
    /\ jobs' = running \cup new
    /\ UNCHANGED waiting_job_ids
    /\ monitor' = [j \in Job |-> IF j \in new THEN "run" ELSE monitor[j]]

(* start_waiting_jobs(), up to update_max_block().                         *)
StartWaiting(queue, running) ==
    LET n == IF Len(queue) < FreeSlots(running) THEN Len(queue) ELSE FreeSlots(running)
        new == {queue[i] : i \in 1..n} IN
    /\ waiting_jobs' = SubSeq(queue, n + 1, Len(queue))
    /\ jobs' = running \cup new
    /\ waiting_job_ids' = waiting_job_ids \ new
    /\ monitor' = [j \in Job |-> IF j \in new THEN "run" ELSE monitor[j]]

(* A StartEvent.                                                           *)
TakeIn ==
    /\ At("start")
    /\ StartWaiting(Append(waiting_jobs, hand), jobs)
    /\ loop' = "block"
    /\ hand' = 0
    /\ UNCHANGED <<made, events, finished_jobs, pruned, max_block, shutting_down, result, abort, age>>

(* A DoneEvent: job_finished() up to the callback, with the lock.          *)
JobFinished ==
    /\ At("done")
    /\ jobs' = jobs \ {hand}
    /\ finished_jobs' = finished_jobs \cup {hand}
    /\ loop' = "callback"
    /\ UNCHANGED <<clientVars, events, waiting_jobs, pruned, max_block, hand, shutting_down, jobVars>>

CallbackReturns ==
    /\ At("callback")
    /\ loop' = "tidy"
    /\ UNCHANGED <<clientVars, events, slotVars, max_block, hand, shutting_down, jobVars>>

(* The rest of it: prune_finished_jobs(), with an hour gone by since the   *)
(* other jobs or not, then start_waiting_jobs().                           *)
Tidy ==
    /\ At("tidy")
    /\ \E old \in {{}, finished_jobs \ {hand}} :
          /\ finished_jobs' = finished_jobs \ old
          /\ pruned' = pruned \cup old
    /\ StartWaiting(waiting_jobs, jobs)
    /\ loop' = "block"
    /\ hand' = 0
    /\ UNCHANGED <<made, events, max_block, shutting_down, result, abort, age>>

(* Neither done, as a job whose thread has died never is, nor aborted.     *)
InTime(j) == monitor[j] \in {"run", "dead"} /\ abort[j] = "no"

(* Mutant: the timeout is only set when there is none.                     *)
UpdateMaxBlockOnce ==
    /\ At("block")
    /\ max_block' = (~max_block /\ \E j \in jobs : InTime(j))
    /\ loop' = "get"
    /\ UNCHANGED <<clientVars, events, slotVars, hand, shutting_down, jobVars>>

UpdateMaxBlock ==
    /\ At("block")
    /\ max_block' = \E j \in jobs : InTime(j)
    /\ loop' = "get"
    /\ UNCHANGED <<clientVars, events, slotVars, hand, shutting_down, jobVars>>

(* Mutant: a timeout that finds no hanging job is the last one.            *)
AbortHangingJobsOnce ==
    /\ At("get")
    /\ max_block /\ events = <<>> /\ ~shutting_down
    /\ LET hanging == {j \in jobs : InTime(j) /\ age[j] >= max_job_time} IN
       /\ Aborted(hanging, "limit")
       /\ max_block' = (hanging # {} /\ \E j \in jobs \ hanging : InTime(j))
    /\ UNCHANGED <<clientVars, events, slotVars, loop, hand, shutting_down, monitor, result, age>>

(* events.get() raises Empty: abort_hanging_jobs(), which updates          *)
(* max_block if it has found one.                                          *)
AbortHangingJobs ==
    /\ At("get")
    /\ max_block /\ events = <<>> /\ ~shutting_down
    /\ LET hanging == {j \in jobs : InTime(j) /\ age[j] >= max_job_time} IN
       /\ Aborted(hanging, "limit")
       /\ max_block' = (hanging = {} \/ \E j \in jobs \ hanging : InTime(j))
    /\ UNCHANGED <<clientVars, events, slotVars, loop, hand, shutting_down, monitor, result, age>>

-----------------------------------------------------------------------------
Ends(j) == Returns(j) \/ IsAborted(j) \/ TimesOut(j)

LoopStep ==
    \/ Receive \/ LoopEnds \/ TakeIn
    \/ JobFinished \/ Tidy
    \/ UpdateMaxBlock \/ AbortHangingJobs

Next ==
    \/ StartJob \/ Shutdown
    \/ \E j \in Job : AbortJob(j) \/ Ends(j) \/ CannotSpawn(j) \/ Tells(j) \/ Tick(j)
    \/ LoopStep \/ CallbackReturns

Spec == Init /\ [][Next]_vars

(* What happens to a job in any case: a worker may hang for ever, but time *)
(* goes by and communicate() looks at the clock and at the event.          *)
MonitorStep(j) == IsAborted(j) \/ TimesOut(j) \/ Tells(j) \/ Tick(j)

(* Threads are scheduled; callbacks return.                                *)
Fairness ==
    /\ WF_vars(LoopStep) /\ WF_vars(CallbackReturns)
    /\ \A j \in Job : WF_vars(MonitorStep(j))

FairSpec == Spec /\ Fairness

-----------------------------------------------------------------------------
(* Properties.                                                             *)
Asked == {events[i][2] : i \in {k \in DOMAIN events : events[k][1] = "start"}}
         \cup {j \in Job : At("start") /\ hand = j}
         \cup {waiting_jobs[i] : i \in DOMAIN waiting_jobs}

(* No job is lost and none is in two states: job_status() can tell what    *)
(* becomes of it from start_job() until it is pruned, and no more than     *)
(* max_jobs of them run.                                                   *)
EveryJobIsKnown ==
    /\ waiting_job_ids = Asked
    /\ 1..made = waiting_job_ids \cup jobs \cup finished_jobs \cup pruned
    /\ waiting_job_ids \cap jobs = {} /\ finished_jobs \cap pruned = {}
    /\ (waiting_job_ids \cup jobs) \cap (finished_jobs \cup pruned) = {}
    /\ Cardinality(jobs) <= max_jobs
    /\ \A j \in Job : Running(j) => j \in jobs

(* A DoneEvent is for a job in jobs, so that jobs.pop() in job_finished()  *)
(* does not end the event loop by a KeyError; a job that is finished is    *)
(* not reported again.                                                     *)
DoneOnce ==
    LET reports(j) == {i \in DOMAIN events : events[i] = <<"done", j>>} IN
    \A j \in Job :
        /\ reports(j) # {} \/ (At("done") /\ hand = j) => j \in jobs /\ monitor[j] = "told"
        /\ Cardinality(reports(j)) + (IF At("done") /\ hand = j THEN 1 ELSE 0) <= 1

(* The event loop waits for events only when no job could be started, and  *)
(* with a timeout when some job has to be watched.                         *)
NothingIsForgotten ==
    At("get") =>
        /\ waiting_jobs # <<>> => Cardinality(jobs) = max_jobs
        /\ (\E j \in jobs : InTime(j)) => max_block

(* Jobs are started in the order of their requests: no job waits that was  *)
(* asked for before one that was started.                                  *)
StartedInOrder ==
    \A j \in waiting_job_ids : \A k \in jobs \cup finished_jobs \cup pruned : k < j

(* A job that has run for longer than max_job_time is told to abort some   *)
(* time, or is done: the loop wakes for it, whatever else happens while it *)
(* waits, even if the job's own thread has died and tells nothing.         *)
OverdueIsAborted ==
    \A j \in Job : j \in jobs /\ InTime(j) /\ age[j] >= max_job_time ~> ~InTime(j) \/ shutting_down

Lost == {j \in Job : monitor[j] = "dead"}

(* A job is finished some time, whatever its worker does, unless the       *)
(* server ends or it waits for the slots of jobs whose worker process      *)
(* could not even be created: these are never given back.                  *)
EveryJobFinishes ==
    \A j \in Job : j <= made ~> \/ j \in finished_jobs \cup pruned
                                \/ shutting_down
                                \/ j \in Lost \/ Cardinality(Lost) >= max_jobs

(* After shutdown() the event loop ends and no worker is left running, not *)
(* even one that the loop was about to start.                              *)
ShutdownEndsAll ==
    shutting_down ~> loop \in {"off", "end"} /\ \A j \in Job : ~Running(j)
=============================================================================
