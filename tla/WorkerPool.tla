----------------------------- MODULE WorkerPool -----------------------------
(***************************************************************************)
(* The pool of worker processes of the GUI, utils/ipc/pool.py: the client  *)
(* that queues jobs and waits for them, the thread Pool, the processes and *)
(* their threads Worker.recv().                                            *)
(*                                                                         *)
(* The thread is cut where the client, or a process, can see or change     *)
(* what it works on.  A process reads its pipe in order, so that common    *)
(* data counts as received when it is sent.                                *)
(***************************************************************************)
EXTENDS Naturals, Sequences, SequencesExt, FiniteSets

CONSTANTS max_workers,
          Disturb,         \* which disturbances the instance explores
          MaxJobs,         \* bound: jobs
          MaxRounds        \* bound: calls of set_common_data()

ASSUME max_workersAssumption == max_workers \in Nat \ {0}
ASSUME DisturbAssumption == Disturb \subseteq {"crash", "spawn", "shutdown", "data"}
ASSUME BoundsAssumption == MaxJobs \in Nat /\ MaxRounds \in Nat

Job == 1..MaxJobs
Worker == 1..max_workers
Thread == {"client", "pool"}

VARIABLES
    events,                \* the queue: records
    available_workers,     \* a stack
    busy_workers,          \* the job of each worker, 0 if it is not in it
    pending_jobs,          \* a stack
    results,               \* what was put there: <<job, is_terminal_failure>>
    tracker,               \* its unfinished tasks
    terminal_failure,
    common_data,           \* numbered by the calls that set it, 0 for None
    shutting_down,
    thread, hand,          \* what Pool is doing, with which event
    popped,                \* the worker that run_job() holds, or 0
    down, doomed,          \* the two threads that may be in shutdown()
    process, doing, holds, \* each process, its job, its common data
    asked, rounds, idle,   \* the client's calls
    unfit,                 \* it gave common data that cannot be taken
    wanted, got            \* common data of a job when asked for, when sent

clientVars == <<asked, rounds, idle, unfit, wanted>>
listVars == <<available_workers, busy_workers, pending_jobs>>
threadVars == <<thread, hand, popped>>
downVars == <<shutting_down, down, doomed>>
processVars == <<process, doing, holds, got>>
outVars == <<results, tracker, terminal_failure>>
vars == <<events, listVars, outVars, common_data, threadVars, downVars,
          processVars, clientVars>>

EventKind == [kind : {"job"}, job : Job]
             \cup [kind : {"data"}, data : 1..MaxRounds]
             \cup [kind : {"result"}, worker : Worker, job : Job, crash : BOOLEAN]
             \cup [kind : {"stop", "unpicklable"}]

TypeOK ==
    /\ events \in Seq(EventKind)
    /\ available_workers \in Seq(Worker)
    /\ busy_workers \in [Worker -> Job \cup {0}]
    /\ pending_jobs \in Seq(Job)
    /\ results \in Seq(Job \X BOOLEAN)
    /\ tracker \in 0..MaxJobs
    /\ terminal_failure \in BOOLEAN
    /\ common_data \in 0..MaxRounds
    /\ shutting_down \in BOOLEAN
    /\ thread \in {"begin", "get", "event", "pop", "send", "report", "drain",
                   "error", "end", "lost"}
    /\ hand \in EventKind
    /\ popped \in Worker \cup {0}
    /\ down \in [Thread -> {"no", "terminate", "list", "kill", "over"}]
    /\ doomed \in [Thread -> SUBSET Worker]
    /\ process \in [Worker -> {"none", "idle", "run", "dead"}]
    /\ doing \in [Worker -> Job \cup {0}]
    /\ holds \in [Worker -> 0..MaxRounds]
    /\ asked \in 0..MaxJobs
    /\ rounds \in 0..MaxRounds
    /\ idle \in BOOLEAN
    /\ unfit \in BOOLEAN
    /\ wanted \in [Job -> 0..MaxRounds]
    /\ got \in [Job -> (0..MaxRounds) \cup {MaxRounds + 1}]

Stop == [kind |-> "stop"]       \* None
Unpicklable == [kind |-> "unpicklable"]
NotSent == MaxRounds + 1

Init ==
    /\ events = <<>>
    /\ available_workers = <<>>
    /\ busy_workers = [w \in Worker |-> 0]
    /\ pending_jobs = <<>>
    /\ results = <<>>
    /\ tracker = 0
    /\ terminal_failure = FALSE
    /\ common_data = 0
    /\ shutting_down = FALSE
    /\ thread = "begin"
    /\ hand = Stop
    /\ popped = 0
    /\ down = [t \in Thread |-> "no"]
    /\ doomed = [t \in Thread |-> {}]
    /\ process = [w \in Worker |-> "none"]
    /\ doing = [w \in Worker |-> 0]
    /\ holds = [w \in Worker |-> 0]
    /\ asked = 0
    /\ rounds = 0
    /\ idle = TRUE
    /\ unfit = FALSE
    /\ wanted = [j \in Job |-> 0]
    /\ got = [j \in Job |-> NotSent]

Busy == {w \in Worker : busy_workers[w] # 0}
RunningJobs == {busy_workers[w] : w \in Busy}
Available == {available_workers[i] : i \in DOMAIN available_workers}
Waiting == {pending_jobs[i] : i \in DOMAIN pending_jobs}
Put(e) == events' = Append(events, e)

-----------------------------------------------------------------------------
(* The client.  It is the only one, and calls nothing after shutdown().    *)
Calls == down["client"] = "no"

(* set_common_data(), as its docstring asks for: before any job is queued, *)
(* or after wait_for_tasks() has returned.                                 *)
SetCommonData ==
    /\ Calls /\ ~terminal_failure
    /\ idle
    /\ rounds < MaxRounds
    /\ rounds' = rounds + 1
    /\ Put([kind |-> "data", data |-> rounds + 1])
    /\ UNCHANGED <<listVars, outVars, common_data, threadVars, downVars,
                   processVars, asked, idle, unfit, wanted>>

(* The same with None, its default, which shutdown() puts into the queue   *)
(* as well, or with data that pickle cannot write.  Bound: one such call,  *)
(* for it ends the thread.                                                 *)
SetUnfitData ==
    /\ "data" \in Disturb
    /\ Calls /\ ~terminal_failure
    /\ idle
    /\ ~unfit
    /\ unfit' = TRUE
    /\ Put(Stop) \/ Put(Unpicklable)
    /\ UNCHANGED <<listVars, outVars, common_data, threadVars, downVars,
                   processVars, asked, rounds, idle, wanted>>

(* __call__().                                                             *)
QueueJob ==
    /\ Calls /\ ~terminal_failure
    /\ asked < MaxJobs
    /\ asked' = asked + 1
    /\ wanted' = [wanted EXCEPT ![asked + 1] = rounds]
    /\ tracker' = tracker + 1
    /\ Put([kind |-> "job", job |-> asked + 1])
    /\ idle' = FALSE
    /\ UNCHANGED <<listVars, results, terminal_failure, common_data, threadVars,
                   downVars, processVars, rounds, unfit>>

(* wait_for_tasks() returns; a call that times out or raises Failure is    *)
(* none.                                                                   *)
WaitForTasks ==
    /\ Calls /\ ~terminal_failure
    /\ tracker = 0
    /\ ~idle
    /\ idle' = TRUE
    /\ UNCHANGED <<events, listVars, outVars, common_data, threadVars, downVars,
                   processVars, asked, rounds, unfit, wanted>>

-----------------------------------------------------------------------------
(* shutdown(), by the client or, after an error, by Pool itself.           *)
Shutdown ==
    /\ "shutdown" \in Disturb
    /\ Calls
    /\ shutting_down' = TRUE
    /\ Put(Stop)
    /\ down' = [down EXCEPT !["client"] = "terminate"]
    /\ UNCHANGED <<listVars, outVars, common_data, threadVars, doomed,
                   processVars, clientVars>>

EndsProcesses(S) ==
    process' = [w \in Worker |-> IF w \in S THEN "dead" ELSE process[w]]

(* shutdown_workers(): the busy processes are terminated ...               *)
TerminateBusy(t) ==
    /\ down[t] = "terminate"
    /\ down' = [down EXCEPT ![t] = "list"]
    /\ EndsProcesses(Busy)
    /\ UNCHANGED <<events, listVars, outVars, common_data, threadVars, shutting_down,
                   doomed, doing, holds, got, clientVars>>

(* ... then those to be killed are listed; the available ones are asked to *)
(* end ...                                                                 *)
ListWorkers(t) ==
    /\ down[t] = "list"
    /\ down' = [down EXCEPT ![t] = "kill"]
    /\ doomed' = [doomed EXCEPT ![t] = Available \cup Busy]
    /\ EndsProcesses(Available)
    /\ UNCHANGED <<events, listVars, outVars, common_data, threadVars, shutting_down,
                   doing, holds, got, clientVars>>

(* ... the connections are closed, which ends the processes that read, the *)
(* listed ones killed and the lists cleared.                               *)
KillListed(t) ==
    /\ down[t] = "kill"
    /\ down' = [down EXCEPT ![t] = "over"]
    /\ EndsProcesses(doomed[t] \cup {w \in Available \cup Busy : process[w] = "idle"})
    /\ available_workers' = <<>>
    /\ busy_workers' = [w \in Worker |-> 0]
    /\ UNCHANGED <<events, pending_jobs, outVars, common_data, threadVars,
                   shutting_down, doomed, doing, holds, got, clientVars>>

-----------------------------------------------------------------------------
(* Worker processes, worker_main(), and Worker.recv().                     *)
Finish(w) ==
    /\ process[w] = "run"
    /\ process' = [process EXCEPT ![w] = "idle"]
    /\ Put([kind |-> "result", worker |-> w, job |-> doing[w], crash |-> FALSE])
    /\ UNCHANGED <<listVars, outVars, common_data, threadVars, downVars, doing,
                   holds, got, clientVars>>

Crash(w) ==
    /\ "crash" \in Disturb
    /\ process[w] \in {"idle", "run"}
    /\ process' = [process EXCEPT ![w] = "dead"]
    /\ IF process[w] = "run"
       THEN Put([kind |-> "result", worker |-> w, job |-> doing[w], crash |-> TRUE])
       ELSE UNCHANGED events
    /\ UNCHANGED <<listVars, outVars, common_data, threadVars, downVars, doing,
                   holds, got, clientVars>>

-----------------------------------------------------------------------------
(* The thread Pool.                                                        *)
At(place) == thread = place

Fails ==
    /\ terminal_failure' = TRUE
    /\ thread' = "error"

(* start_worker(), for the first one when the thread begins, then for a    *)
(* job that needs one.  A worker that is started too late is not kept; its *)
(* process ends when its connection is collected.  shutdown_workers() sets *)
(* common_data to None, which cannot be sent to it.                        *)
StartWorker(next) ==
    \/ /\ \/ /\ shutting_down
             /\ UNCHANGED <<available_workers, process, holds>>
          \/ /\ ~shutting_down
             /\ \E w \in Worker :
                   /\ process[w] = "none"
                   /\ \A v \in 1..(w - 1) : process[v] # "none"
                   /\ available_workers' = Append(available_workers, w)
                   /\ process' = [process EXCEPT ![w] = "idle"]
                   /\ holds' = [holds EXCEPT ![w] = common_data]
       /\ thread' = next
       /\ UNCHANGED terminal_failure
    \/ /\ "spawn" \in Disturb \/ \E t \in Thread : down[t] # "no"
       /\ Fails
       /\ UNCHANGED <<available_workers, process, holds>>

Begin ==
    /\ At("begin")
    /\ StartWorker("get")
    /\ UNCHANGED <<events, busy_workers, pending_jobs, results, tracker, common_data,
                   hand, popped, downVars, doing, got, clientVars>>

(* None ends the thread; it is lost if nobody called shutdown().           *)
Receive ==
    /\ At("get")
    /\ events # <<>>
    /\ events' = Tail(events)
    /\ hand' = Head(events)
    /\ thread' = IF shutting_down THEN "end"
                 ELSE IF Head(events) = Stop THEN "lost" ELSE "event"
    /\ UNCHANGED <<listVars, outVars, common_data, popped, downVars, processVars,
                   clientVars>>

Handles(kind) == At("event") /\ hand.kind = kind

(* A job: kept for later ...                                               *)
KeepJob ==
    /\ Handles("job")
    /\ available_workers = <<>>
    /\ Cardinality(Busy) >= max_workers
    /\ pending_jobs' = Append(pending_jobs, hand.job)
    /\ thread' = "get"
    /\ UNCHANGED <<events, available_workers, busy_workers, outVars, common_data,
                   hand, popped, downVars, processVars, clientVars>>

(* ... or run, by a new worker if none is available.                       *)
WorkerForJob ==
    /\ Handles("job")
    /\ available_workers = <<>>
    /\ Cardinality(Busy) < max_workers
    /\ StartWorker("pop")
    /\ UNCHANGED <<events, busy_workers, pending_jobs, results, tracker, common_data,
                   hand, popped, downVars, doing, got, clientVars>>

TakeJob ==
    /\ Handles("job")
    /\ available_workers # <<>>
    /\ thread' = "pop"
    /\ UNCHANGED <<events, listVars, outVars, common_data, hand, popped, downVars,
                   processVars, clientVars>>

(* run_job(): available_workers.pop(), which ends the thread by an         *)
(* IndexError if shutdown() has emptied the list; then the job is sent and *)
(* the worker entered in busy_workers.                                     *)
PopWorker ==
    /\ At("pop")
    /\ IF available_workers = <<>>
       THEN thread' = "end" /\ UNCHANGED <<available_workers, popped>>
       ELSE /\ popped' = available_workers[Len(available_workers)]
            /\ available_workers' =
                   SubSeq(available_workers, 1, Len(available_workers) - 1)
            /\ thread' = "send"
    /\ UNCHANGED <<events, busy_workers, pending_jobs, outVars, common_data, hand,
                   downVars, processVars, clientVars>>

SendJob ==
    /\ At("send")
    /\ process[popped] = "idle"
    /\ process' = [process EXCEPT ![popped] = "run"]
    /\ doing' = [doing EXCEPT ![popped] = hand.job]
    /\ got' = [got EXCEPT ![hand.job] = holds[popped]]
    /\ busy_workers' = [busy_workers EXCEPT ![popped] = hand.job]
    /\ popped' = 0
    /\ thread' = "drain"
    /\ UNCHANGED <<events, available_workers, pending_jobs, outVars, common_data,
                   hand, downVars, holds, clientVars>>

(* The process is gone, or the job cannot be pickled: then the process     *)
(* ends when its connection is collected.                                  *)
SendFails ==
    /\ At("send")
    /\ process[popped] # "idle" \/ "data" \in Disturb
    /\ process' = [process EXCEPT ![popped] = "dead"]
    /\ popped' = 0
    /\ Fails
    /\ UNCHANGED <<events, listVars, results, tracker, common_data, hand, downVars,
                   doing, holds, got, clientVars>>

(* Mutant: the worker that crashed stays in busy_workers.                  *)
WorkerResultKeepsBusy ==
    /\ Handles("result")
    /\ busy_workers' = IF hand.crash THEN busy_workers
                       ELSE [busy_workers EXCEPT ![hand.worker] = 0]
    /\ available_workers' = Append(available_workers, hand.worker)
    /\ tracker' = tracker - 1
    /\ IF hand.crash THEN Fails ELSE thread' = "report" /\ UNCHANGED terminal_failure
    /\ UNCHANGED <<events, pending_jobs, results, common_data, hand, popped, downVars,
                   processVars, clientVars>>

(* A WorkerResult, up to task_done() ...                                   *)
WorkerResult ==
    /\ Handles("result")
    /\ busy_workers' = [busy_workers EXCEPT ![hand.worker] = 0]
    /\ available_workers' = Append(available_workers, hand.worker)
    /\ tracker' = tracker - 1
    /\ IF hand.crash THEN Fails ELSE thread' = "report" /\ UNCHANGED terminal_failure
    /\ UNCHANGED <<events, pending_jobs, results, common_data, hand, popped, downVars,
                   processVars, clientVars>>

(* Mutant: handle_event() returns, as it does after a job.                 *)
ReportAndReturn ==
    /\ At("report")
    /\ results' = Append(results, <<hand.job, FALSE>>)
    /\ thread' = "get"
    /\ UNCHANGED <<events, listVars, tracker, terminal_failure, common_data, hand,
                   popped, downVars, processVars, clientVars>>

(* ... then results.put().                                                 *)
Report ==
    /\ At("report")
    /\ results' = Append(results, <<hand.job, FALSE>>)
    /\ thread' = "drain"
    /\ UNCHANGED <<events, listVars, tracker, terminal_failure, common_data, hand,
                   popped, downVars, processVars, clientVars>>

(* Mutant: the data is kept for the workers that are still to be started.  *)
NewCommonDataLater ==
    /\ Handles("data")
    /\ common_data' = hand.data
    /\ thread' = "drain"
    /\ UNCHANGED <<events, listVars, outVars, hand, popped, downVars, processVars,
                   clientVars>>

(* Common data, for the available workers.                                 *)
NewCommonData ==
    /\ Handles("data")
    /\ common_data' = hand.data
    /\ holds' = [w \in Worker |-> IF w \in Available THEN hand.data ELSE holds[w]]
    /\ IF \E w \in Available : process[w] = "dead"
       THEN Fails
       ELSE thread' = "drain" /\ UNCHANGED terminal_failure
    /\ UNCHANGED <<events, listVars, results, tracker, hand, popped, downVars, process,
                   doing, got, clientVars>>

(* pickle_dumps(event) raises, in no try.                                  *)
DataRaises ==
    /\ Handles("unpicklable")
    /\ thread' = "lost"
    /\ UNCHANGED <<events, listVars, outVars, common_data, hand, popped, downVars,
                   processVars, clientVars>>

(* Mutant: the job is read, not popped.                                    *)
DrainPeeks ==
    /\ At("drain")
    /\ IF pending_jobs # <<>> /\ available_workers # <<>>
       THEN /\ hand' = [kind |-> "job", job |-> pending_jobs[Len(pending_jobs)]]
            /\ thread' = "pop"
       ELSE /\ thread' = "get"
            /\ UNCHANGED hand
    /\ UNCHANGED <<events, listVars, outVars, common_data, popped, downVars,
                   processVars, clientVars>>

(* Mutant: the last job waits for another one.                             *)
DrainLeavesOne ==
    /\ At("drain")
    /\ IF Len(pending_jobs) > 1 /\ available_workers # <<>>
       THEN /\ hand' = [kind |-> "job", job |-> pending_jobs[Len(pending_jobs)]]
            /\ pending_jobs' = SubSeq(pending_jobs, 1, Len(pending_jobs) - 1)
            /\ thread' = "pop"
       ELSE /\ thread' = "get"
            /\ UNCHANGED <<hand, pending_jobs>>
    /\ UNCHANGED <<events, available_workers, busy_workers, outVars, common_data,
                   popped, downVars, processVars, clientVars>>

(* The end of handle_event(): the last of pending_jobs goes first.  After  *)
(* a job event there is none that an available worker could take.          *)
Drain ==
    /\ At("drain")
    /\ IF pending_jobs # <<>> /\ available_workers # <<>>
       THEN /\ hand' = [kind |-> "job", job |-> pending_jobs[Len(pending_jobs)]]
            /\ pending_jobs' = SubSeq(pending_jobs, 1, Len(pending_jobs) - 1)
            /\ thread' = "pop"
       ELSE /\ thread' = "get"
            /\ UNCHANGED <<hand, pending_jobs>>
    /\ UNCHANGED <<events, available_workers, busy_workers, outVars, common_data,
                   popped, downVars, processVars, clientVars>>

(* terminal_error(), unless the client shuts the pool down already: the    *)
(* jobs that run and those that wait have failed.                          *)
TerminalError ==
    /\ At("error")
    /\ thread' = "end"
    /\ IF shutting_down
       THEN UNCHANGED <<events, results, tracker, pending_jobs, down, shutting_down>>
       ELSE LET failed == SetToSeq(RunningJobs \cup Waiting) IN
            /\ results' = results \o [i \in DOMAIN failed |-> <<failed[i], TRUE>>]
            /\ tracker' = tracker - Len(failed)
            /\ pending_jobs' = <<>>
            /\ shutting_down' = TRUE
            /\ Put(Stop)
            /\ down' = [down EXCEPT !["pool"] = "terminate"]
    /\ UNCHANGED <<available_workers, busy_workers, terminal_failure, common_data, hand,
                   popped, doomed, processVars, clientVars>>

-----------------------------------------------------------------------------
PoolStep ==
    \/ Begin \/ Receive \/ Drain
    \/ KeepJob \/ WorkerForJob \/ TakeJob
    \/ PopWorker \/ SendJob \/ SendFails
    \/ WorkerResult \/ Report \/ NewCommonData \/ DataRaises
    \/ TerminalError

ShutdownStep(t) == TerminateBusy(t) \/ ListWorkers(t) \/ KillListed(t)

Next ==
    \/ SetCommonData \/ SetUnfitData \/ QueueJob \/ WaitForTasks \/ Shutdown
    \/ \E t \in Thread : ShutdownStep(t)
    \/ \E w \in Worker : Finish(w) \/ Crash(w)
    \/ PoolStep

Spec == Init /\ [][Next]_vars

(* Threads are scheduled; a job ends.                                      *)
Fairness ==
    /\ WF_vars(PoolStep)
    /\ \A t \in Thread : WF_vars(ShutdownStep(t))
    /\ \A w \in Worker : WF_vars(Finish(w))

FairSpec == Spec /\ Fairness

-----------------------------------------------------------------------------
(* Properties.                                                             *)
Alive == ~terminal_failure /\ ~shutting_down

(* A job finds the common data that was set last before it was queued, in  *)
(* whatever worker it runs.                                                *)
CommonDataIsCurrent ==
    \A j \in Job : got[j] # NotSent => got[j] = wanted[j]

HeldJobs ==
    (IF \/ Handles("job") \/ At("pop") \/ At("send") THEN {hand.job} ELSE {})
    \cup {events[i].job : i \in {k \in DOMAIN events : events[k].kind = "job"}}
    \cup Waiting

(* tracker counts the jobs that are not done: wait_for_tasks() returns     *)
(* when the last one is, and no sooner, and task_done() is never called    *)
(* too often, which would end the thread by a ValueError.  After a failure *)
(* the jobs still in the queues, and the one that could not be sent, are   *)
(* never done.                                                             *)
TrackerCounts ==
    /\ tracker >= Cardinality(HeldJobs)
    /\ Alive => tracker = Cardinality(HeldJobs) + Cardinality(RunningJobs)

(* Each job is run once and has one result: before a failure, the jobs     *)
(* queued, running and reported are apart, and none is missing but the one *)
(* that is being reported.                                                 *)
OneResultEach ==
    /\ \A i, k \in DOMAIN results : results[i][1] = results[k][1] => i = k
    /\ LET reported == {results[i][1] : i \in DOMAIN results}
                       \cup (IF At("report") THEN {hand.job} ELSE {}) IN
       /\ HeldJobs \cap RunningJobs = {}
       /\ reported \cap (HeldJobs \cup RunningJobs) \subseteq (IF Alive THEN {} ELSE Job)
       /\ Alive => 1..asked = HeldJobs \cup RunningJobs \cup reported

(* The thread sleeps while jobs wait only if all workers are busy.         *)
NothingWaits ==
    Alive /\ At("get") /\ pending_jobs # <<>> =>
        available_workers = <<>> /\ Cardinality(Busy) = max_workers

(* Every job that is queued is done, or the pool fails or is shut down,    *)
(* unless set_common_data() was called without data, or with data that     *)
(* cannot be pickled, before it was queued.                                *)
EveryJobEnds ==
    \A j \in Job : j <= asked /\ ~unfit ~>
        (\E i \in DOMAIN results : results[i][1] = j) \/ terminal_failure \/ shutting_down

(* wait_for_tasks() has returned: the results of all jobs are there.  This *)
(* one does not hold, for task_done() comes first; README, section 7.      *)
ResultsAreIn ==
    idle /\ ~terminal_failure => Len(results) = asked

(* After shutdown() no worker process runs a job.  This one does not hold  *)
(* when the client calls shutdown() while run_job() holds a worker that is *)
(* in neither list; README, section 7.                                     *)
ShutdownEndsWorkers ==
    down["client"] = "over" /\ At("end") => \A w \in Worker : process[w] # "run"
=============================================================================
