--------------------------- MODULE FullTextIndex ---------------------------
(***************************************************************************)
(* The full text index of the library: the two tables of                   *)
(* full-text-search.db with their triggers (resources/fts_sqlite.sql,      *)
(* fts_triggers.sql), the thread of db/cache.py that dispatches jobs, the  *)
(* worker and supervisor threads of db/fts/pool.py, and the functions of   *)
(* other threads that change formats or turn indexing on and off.          *)
(*                                                                         *)
(* A Format is one format of one book.  A section of code that holds the   *)
(* library lock is one action.  Content stands for the bytes of a file and *)
(* for the hash and size the code compares; several contents may have the  *)
(* same text.                                                              *)
(***************************************************************************)
EXTENDS Naturals, Sequences, SequencesExt, FiniteSets

CONSTANTS Format,          \* formats of the books of the library
          Unextractable,   \* those of a type no text can be extracted from
          Content,         \* contents a file can have
          Broken,          \* contents that extraction fails on
          TextOf,          \* the text of each content, None if it has none,
                           \* named by one of the contents that have it
          Worker,          \* worker threads
          Disturb,         \* which disturbances the instance explores
          MaxChanges,      \* bound: calls that change formats or turn indexing
                           \* off or on
          MaxRestarts,     \* bound: dispatchers started after the first one
          None

ASSUME FormatAssumption == IsFiniteSet(Format) /\ Unextractable \subseteq Format
ASSUME ContentAssumption == None \notin Content /\ Broken \subseteq Content
ASSUME TextAssumption == TextOf \in [Content -> Content \cup {None}]
ASSUME BoundAssumption == MaxChanges \in Nat /\ MaxRestarts \in Nat
ASSUME DisturbAssumption == Disturb \subseteq {"inflight", "toggle"}

VARIABLES
    content,               \* content[f]: the file, if table data has f
    \* full-text-search.db
    dirtied,               \* rows of dirtied_formats, in the order of their id
    in_progress,           \* the formats whose row has that flag
    text,                  \* text[f]: the row of books_text
    \* the Cache and FTS objects
    enabled,               \* fts is not None
    attached,              \* full-text-search.db is, and its triggers are there
    wakeups,               \* entries of each fts_job_queue there was
    queue,                 \* the one each dispatcher reads
    dispatch,              \* where it is, its format and its copy
    \* the Pool
    jobs, working, results,
    supervisor,            \* it is about to call queue_next_fts_job()
    toggled,               \* enable_fts() was called at least once
    \* bounds
    changes, restarts

tables == <<content, dirtied, in_progress, text>>
pool == <<jobs, working, results, supervisor>>
queues == <<wakeups, queue>>
vars == <<tables, enabled, attached, queues, dispatch, pool, changes, restarts, toggled>>

(* The dispatchers, threads of that name: each time indexing is turned on  *)
(* a new one is started, the one with the number of that start.            *)
FTSQueue == 0..MaxRestarts

dirty == ToSet(dirtied)
Present == {f \in Format : content[f] # None}

(* A row of books_text: the hash of the file and the text, or the error.   *)
Row == [hash : Content, text : Content \cup {None}]
Job == [fmt : Format, content : Content]
Result == [fmt : Format, content : Content, ok : BOOLEAN]

ASSUME NoneAssumption == None \notin Row \cup Job

Dispatch == [pc : {"idle", "next", "remove", "copy", "moved", "queue"},
             fmt : Format \cup {None}, content : Content \cup {None}]

TypeOK ==
    /\ content \in [Format -> Content \cup {None}]
    /\ dirtied \in Seq(Format) /\ IsInjective(dirtied)
    /\ in_progress \subseteq dirty
    /\ text \in [Format -> Row \cup {None}]
    /\ enabled \in BOOLEAN /\ attached \in BOOLEAN
    /\ wakeups \in [FTSQueue -> Nat]
    /\ queue \in [FTSQueue -> FTSQueue]
    /\ dispatch \in [FTSQueue -> Dispatch]
    /\ jobs \in Seq(Job)
    /\ working \in [Worker -> Job \cup {None}]
    /\ results \in Seq(Result)
    /\ supervisor \in BOOLEAN
    /\ toggled \in BOOLEAN
    /\ changes \in 0..MaxChanges
    /\ restarts \in FTSQueue

Idle == [pc |-> "idle", fmt |-> None, content |-> None]

(* INSERT OR IGNORE INTO dirtied_formats, of several formats in any order. *)
Orders(S) == {s \in [1..Cardinality(S) -> S] : ToSet(s) = S}

Dirties(S) == \E s \in Orders(S \ dirty) : dirtied' = dirtied \o s

RowOf(f) == CHOOSE i \in DOMAIN dirtied : dirtied[i] = f

(* DELETE FROM dirtied_formats                                             *)
Cleans(f) ==
    /\ dirtied' = IF f \in dirty THEN RemoveAt(dirtied, RowOf(f)) ELSE dirtied
    /\ in_progress' = in_progress \ {f}

(* Indexing was just turned on in a library with some books.               *)
Init ==
    /\ content \in [Format -> Content \cup {None}]
    /\ dirtied \in Orders(Present)
    /\ in_progress = {}
    /\ text = [f \in Format |-> None]
    /\ enabled = TRUE
    /\ attached = TRUE
    /\ wakeups = [q \in FTSQueue |-> IF q = 0 THEN 1 ELSE 0]
    /\ queue = [t \in FTSQueue |-> t]
    /\ dispatch = [t \in FTSQueue |-> Idle]
    /\ jobs = <<>>
    /\ working = [w \in Worker |-> None]
    /\ results = <<>>
    /\ supervisor = FALSE
    /\ toggled = FALSE
    /\ changes = 0
    /\ restarts = 0

-----------------------------------------------------------------------------
(* Other threads.                                                          *)

(* Jobs of the format that are queued, running or done but not committed,  *)
(* and those the dispatchers are preparing.                                *)
InFlight(f) ==
    \/ \E t \in FTSQueue : dispatch[t].fmt = f
    \/ \E j \in ToSet(jobs) \cup ToSet(results) : j.fmt = f
    \/ \E w \in Worker : working[w] # None /\ working[w].fmt = f

Change ==
    /\ changes < MaxChanges
    /\ changes' = changes + 1

(* queue_next_fts_job()                                                    *)
Wakes ==
    /\ wakeups' = IF enabled THEN [wakeups EXCEPT ![queue[restarts]] = @ + 1] ELSE wakeups
    /\ UNCHANGED queue

(* add_format(): a new format or a new file for an old one.  REPLACE fires *)
(* no delete trigger; the insert trigger marks the format.                 *)
AddFormat(f, c) ==
    /\ Change
    /\ InFlight(f) => "inflight" \in Disturb
    /\ content' = [content EXCEPT ![f] = c]
    /\ IF attached THEN Dirties({f}) ELSE UNCHANGED dirtied
    /\ Wakes
    /\ UNCHANGED <<in_progress, text, enabled, attached, dispatch, pool, restarts, toggled>>

(* Mutant: no trigger deletes from books_text.                             *)
RemoveFormatKeepsText(f) ==
    /\ Change
    /\ content[f] # None
    /\ InFlight(f) => "inflight" \in Disturb
    /\ content' = [content EXCEPT ![f] = None]
    /\ Cleans(f)
    /\ UNCHANGED <<text, enabled, attached, queues, dispatch, pool, restarts, toggled>>

(* remove_formats(), remove_books(): the delete triggers clean both tables.*)
RemoveFormat(f) ==
    /\ Change
    /\ content[f] # None
    /\ InFlight(f) => "inflight" \in Disturb
    /\ content' = [content EXCEPT ![f] = None]
    /\ IF attached
       THEN text' = [text EXCEPT ![f] = None] /\ Cleans(f)
       ELSE UNCHANGED <<dirtied, in_progress, text>>
    /\ UNCHANGED <<enabled, attached, queues, dispatch, pool, restarts, toggled>>

(* set_field() of title or authors renames the files; the update trigger   *)
(* marks them, and nobody is told.  A path read before is one of no file.  *)
RenameFormat(f) ==
    /\ Change
    /\ content[f] # None
    /\ IF attached THEN Dirties({f}) ELSE UNCHANGED dirtied
    /\ dispatch' = [t \in FTSQueue |->
                      IF dispatch[t].fmt = f /\ dispatch[t].pc = "copy"
                      THEN [dispatch[t] EXCEPT !.pc = "moved"] ELSE dispatch[t]]
    /\ UNCHANGED <<content, in_progress, text, enabled, attached, queues, pool, restarts, toggled>>

(* reindex_fts_book()                                                      *)
ReindexBook(f) ==
    /\ Change
    /\ enabled
    /\ content[f] # None
    /\ Dirties({f})
    /\ Wakes
    /\ UNCHANGED <<content, in_progress, text, enabled, attached, dispatch, pool, restarts, toggled>>

Restart ==
    /\ restarts < MaxRestarts
    /\ restarts' = restarts + 1

NewPool ==
    /\ jobs' = <<>>
    /\ working' = [w \in Worker |-> None]
    /\ results' = <<>>
    /\ supervisor' = FALSE

(* The threads of a new process, and a queue with so many entries.         *)
NewThreads(n) ==
    /\ wakeups' = [q \in FTSQueue |-> IF q = restarts' THEN n ELSE 0]
    /\ queue' = [t \in FTSQueue |-> t]
    /\ dispatch' = [t \in FTSQueue |-> Idle]
    /\ NewPool

(* reindex_fts(): the threads of the pool and the newest dispatcher are    *)
(* ended, with their queues, and the database is deleted.  If another one  *)
(* reads that queue it may take the entry that says so, and the call never *)
(* returns.                                                                *)
ReindexAll ==
    /\ Change
    /\ enabled
    /\ \A t \in FTSQueue \ {restarts} : queue[t] # queue[restarts]
    /\ text' = [f \in Format |-> None]
    /\ dirtied' \in Orders(Present)
    /\ in_progress' = {}
    /\ wakeups' = [wakeups EXCEPT ![queue[restarts]] = 2]
    /\ dispatch' = [dispatch EXCEPT ![restarts] = Idle]
    /\ NewPool
    /\ UNCHANGED <<content, enabled, attached, queue, restarts, toggled>>

(* Mutant: the flags are not reset.                                        *)
ReopenKeepsFlags ==
    /\ Restart
    /\ enabled
    /\ NewThreads(1)
    /\ UNCHANGED <<tables, enabled, attached, toggled, changes>>

(* The process ends and the library is opened again, with indexing on:     *)
(* no row is in progress ...                                               *)
Reopen ==
    /\ Restart
    /\ enabled
    /\ in_progress' = {}
    /\ IF dirtied = <<>> /\ \A f \in Format : text[f] = None
       THEN Dirties(Present) ELSE UNCHANGED dirtied
    /\ NewThreads(1)
    /\ UNCHANGED <<content, text, enabled, attached, toggled, changes>>

(* ... or off.                                                             *)
ReopenDisabled ==
    /\ ~enabled
    /\ UNCHANGED <<tables, enabled, toggled, changes, restarts>>
    /\ attached' = FALSE
    /\ NewThreads(0)

(* enable_fts(False): the dispatcher is told to end and its queue left to  *)
(* it, with the entries there are before that one; the pool is left to     *)
(* itself.                                                                 *)
Disable ==
    /\ "toggle" \in Disturb
    /\ Change
    /\ enabled
    /\ enabled' = FALSE
    /\ toggled' = TRUE
    /\ UNCHANGED <<tables, attached, queues, dispatch, pool, restarts>>

(* enable_fts(True): existing formats are marked; flags are reset only     *)
(* when the database is attached.  The new dispatcher waits for no other.  *)
(* If indexing is on already, it reads the queue there is.                 *)
Enable ==
    /\ "toggle" \in Disturb
    /\ Change
    /\ Restart
    /\ enabled' = TRUE
    /\ toggled' = TRUE
    /\ attached' = TRUE
    /\ Dirties(Present)
    /\ in_progress' = IF attached THEN in_progress ELSE {}
    /\ queue' = [queue EXCEPT ![restarts'] = IF enabled THEN queue[restarts] ELSE restarts']
    /\ wakeups' = [wakeups EXCEPT ![queue'[restarts']] = @ + 1]
    /\ UNCHANGED <<content, text, dispatch, pool>>

-----------------------------------------------------------------------------
(* dispatch_fts_jobs(), an FTSQueue thread.                                *)

Again(t) == dispatch' = [dispatch EXCEPT ![t] = [Idle EXCEPT !.pc = "next"]]
Stops(t) == dispatch' = [dispatch EXCEPT ![t] = Idle]

(* queue.get()                                                             *)
DispatchWakes(t) ==
    /\ dispatch[t].pc = "idle"
    /\ wakeups[queue[t]] > 0
    /\ wakeups' = [wakeups EXCEPT ![queue[t]] = @ - 1]
    /\ Again(t)
    /\ UNCHANGED <<tables, enabled, attached, queue, pool, changes, restarts, toggled>>

(* Mutant: rows in progress are not left out.                              *)
waitingAll == DOMAIN dirtied

waiting == {i \in DOMAIN dirtied : dirtied[i] \notin in_progress}

(* The first lock section of do_one(): the oldest row not in progress.     *)
DispatchNext(t) ==
    /\ dispatch[t].pc = "next"
    /\ enabled
    /\ \E i \in waiting :
          LET f == dirtied[i] IN
          /\ \A k \in waiting : i <= k
          /\ dispatch' = [dispatch EXCEPT ![t] =
                [pc |-> IF f \in Unextractable \/ content[f] = None THEN "remove" ELSE "copy",
                 fmt |-> f, content |-> None]]
    /\ UNCHANGED <<tables, enabled, attached, queues, pool, changes, restarts, toggled>>

DispatchNothing(t) ==
    /\ dispatch[t].pc = "next"
    /\ ~enabled \/ waiting = {}
    /\ Stops(t)
    /\ UNCHANGED <<tables, enabled, attached, queues, pool, changes, restarts, toggled>>

DispatchRemoves(t) ==
    /\ dispatch[t].pc = "remove"
    /\ enabled
    /\ Cleans(dispatch[t].fmt)
    /\ Again(t)
    /\ UNCHANGED <<content, text, enabled, attached, queues, pool, changes, restarts, toggled>>

(* The second lock section: the file is copied.                            *)
DispatchCopies(t) ==
    /\ dispatch[t].pc = "copy"
    /\ content[dispatch[t].fmt] # None
    /\ dispatch' = [dispatch EXCEPT ![t].pc = "queue", ![t].content = content[dispatch[t].fmt]]
    /\ UNCHANGED <<tables, enabled, attached, queues, pool, changes, restarts, toggled>>

(* The file is gone, or indexing was turned off: an exception, caught by   *)
(* loop_while_more_available().                                            *)
DispatchRaises(t) ==
    /\ \/ dispatch[t].pc = "copy" /\ content[dispatch[t].fmt] = None
       \/ dispatch[t].pc = "moved"
       \/ dispatch[t].pc \in {"remove", "queue"} /\ ~enabled
    /\ Again(t)
    /\ UNCHANGED <<tables, enabled, attached, queues, pool, changes, restarts, toggled>>

(* The loop goes on while a worker is idle.                                *)
AgainIfIdle(t) == IF \E w \in Worker : working[w] = None THEN Again(t) ELSE Stops(t)

(* The index has a row of a file with these bytes.                         *)
Indexed(f, c) == text[f] # None /\ text[f].hash = c

(* Mutant: any row will do, whatever its hash.                             *)
DispatchSkipsAnyRow(t) ==
    /\ dispatch[t].pc = "queue"
    /\ enabled
    /\ text[dispatch[t].fmt] # None
    /\ Cleans(dispatch[t].fmt)
    /\ AgainIfIdle(t)
    /\ UNCHANGED <<content, text, enabled, attached, queues, pool, changes, restarts, toggled>>

(* The third lock section, queue_job(): a file whose hash is in the index  *)
(* is not extracted again ...                                              *)
DispatchSkips(t) ==
    /\ dispatch[t].pc = "queue"
    /\ enabled
    /\ Indexed(dispatch[t].fmt, dispatch[t].content)
    /\ Cleans(dispatch[t].fmt)
    /\ AgainIfIdle(t)
    /\ UNCHANGED <<content, text, enabled, attached, queues, pool, changes, restarts, toggled>>

(* ... another one becomes a job, and its row, if it is still there, is    *)
(* in progress.                                                            *)
DispatchQueues(t) ==
    /\ dispatch[t].pc = "queue"
    /\ enabled
    /\ ~Indexed(dispatch[t].fmt, dispatch[t].content)
    /\ jobs' = Append(jobs, [fmt |-> dispatch[t].fmt, content |-> dispatch[t].content])
    /\ in_progress' = in_progress \cup ({dispatch[t].fmt} \cap dirty)
    /\ AgainIfIdle(t)
    /\ UNCHANGED <<content, dirtied, text, enabled, attached, queues,
                   working, results, supervisor, changes, restarts, toggled>>

-----------------------------------------------------------------------------
(* The threads of the pool.                                                *)

TakeJob(w) ==
    /\ working[w] = None
    /\ jobs # <<>>
    /\ working' = [working EXCEPT ![w] = Head(jobs)]
    /\ jobs' = Tail(jobs)
    /\ UNCHANGED <<tables, enabled, attached, queues, dispatch, results, supervisor, changes, restarts, toggled>>

(* run_job(): the text, or an error; any file may take too long.           *)
FinishJob(w) ==
    /\ working[w] # None
    /\ \E ok \in BOOLEAN :
          /\ ok => working[w].content \notin Broken
          /\ results' = Append(results, [fmt |-> working[w].fmt,
                                         content |-> working[w].content, ok |-> ok])
    /\ working' = [working EXCEPT ![w] = None]
    /\ UNCHANGED <<tables, enabled, attached, queues, dispatch, jobs, supervisor, changes, restarts, toggled>>

(* The row commit_result() inserts, None if it inserts none: for a file    *)
(* without text, and for a text the index has already, be it of a file     *)
(* with another hash.                                                      *)
NewRow(r) ==
    IF ~r.ok THEN [hash |-> r.content, text |-> None]
    ELSE IF TextOf[r.content] = None \/ (text[r.fmt] # None /\ text[r.fmt].text = TextOf[r.content])
    THEN None
    ELSE [hash |-> r.content, text |-> TextOf[r.content]]

(* Both ways the row of dirtied_formats goes, by the insert trigger or by  *)
(* add_text().                                                             *)
CommitResult ==
    /\ ~supervisor /\ results # <<>>
    /\ enabled
    /\ LET r == Head(results) IN
       /\ text' = [text EXCEPT ![r.fmt] = IF NewRow(r) = None THEN @ ELSE NewRow(r)]
       /\ Cleans(r.fmt)
    /\ results' = Tail(results)
    /\ supervisor' = TRUE
    /\ UNCHANGED <<content, enabled, attached, queues, dispatch, jobs, working, changes, restarts, toggled>>

(* commit_fts_result() while indexing is off commits nothing and raises.   *)
CommitDropped ==
    /\ ~supervisor /\ results # <<>>
    /\ ~enabled
    /\ results' = Tail(results)
    /\ UNCHANGED <<tables, enabled, attached, queues, dispatch, jobs, working, supervisor, changes, restarts, toggled>>

(* Mutant: the dispatcher is not told.                                     *)
CheckForWorkSilently ==
    /\ supervisor
    /\ supervisor' = FALSE
    /\ UNCHANGED <<tables, enabled, attached, queues, dispatch, jobs, working, results,
                   changes, restarts, toggled>>

(* do_check_for_work()                                                     *)
CheckForWork ==
    /\ supervisor
    /\ supervisor' = FALSE
    /\ Wakes
    /\ UNCHANGED <<tables, enabled, attached, dispatch, jobs, working, results, changes, restarts, toggled>>

-----------------------------------------------------------------------------
Dispatcher(t) ==
    \/ DispatchWakes(t) \/ DispatchNext(t) \/ DispatchNothing(t) \/ DispatchRemoves(t)
    \/ DispatchCopies(t) \/ DispatchRaises(t) \/ DispatchSkips(t) \/ DispatchQueues(t)

Supervise == CommitResult \/ CommitDropped \/ CheckForWork

Others ==
    \/ \E f \in Format : \/ \E c \in Content : AddFormat(f, c)
                         \/ RemoveFormat(f) \/ RenameFormat(f) \/ ReindexBook(f)
    \/ ReindexAll \/ Reopen \/ ReopenDisabled \/ Disable \/ Enable

Next ==
    \/ Others
    \/ \E t \in FTSQueue : Dispatcher(t)
    \/ \E w \in Worker : TakeJob(w) \/ FinishJob(w)
    \/ Supervise

Spec == Init /\ [][Next]_vars

(* The threads run, and a worker kills an extraction that takes too long.  *)
Fairness ==
    /\ \A t \in FTSQueue : WF_vars(Dispatcher(t))
    /\ WF_vars(Supervise)
    /\ \A w \in Worker : WF_vars(TakeJob(w) \/ FinishJob(w))

FairSpec == Spec /\ Fairness

-----------------------------------------------------------------------------
(* Properties.                                                             *)

Skipped(f) == f \in Unextractable \/ TextOf[content[f]] = None

(* The row of the format is the text of its present file, or the error its *)
(* extraction ended with.                                                  *)
ShowsFile(f) ==
    /\ text[f] # None
    /\ IF text[f].text = None THEN Indexed(f, content[f])
       ELSE text[f].text = TextOf[content[f]]

(* "check updating rescans", "check changing the format but not the text   *)
(* doesn't cause a rescan" (db/tests/fts_api.py): a format that is not     *)
(* marked as dirty has the text of its present file in the index, which    *)
(* need not be the file the row was made from.                             *)
IndexIsCurrent ==
    attached => \A f \in Present : Skipped(f) \/ f \in dirty \/ ShowsFile(f)

(* The index has nothing of formats that are gone, nor are they dirty: the *)
(* triggers see to it while the database is attached, which it is until    *)
(* indexing is turned off.                                                 *)
NothingOfGoneFormats ==
    ~toggled => \A f \in Format \ Present : text[f] = None /\ f \notin dirty

(* A row that is in progress has a job that will end it: nobody else will, *)
(* the dispatcher passes over such rows.  Turning indexing off leaves rows *)
(* without one.                                                            *)
ProgressHasJob ==
    ~toggled => \A f \in in_progress :
        \/ \E j \in ToSet(jobs) \cup ToSet(results) : j.fmt = f
        \/ \E w \in Worker : working[w] # None /\ working[w].fmt = f

JobsOf(f) ==
    LET mine(s) == {i \in DOMAIN s : s[i].fmt = f}
        running == {w \in Worker : working[w] # None /\ working[w].fmt = f}
    IN  Cardinality(mine(jobs)) + Cardinality(running) + Cardinality(mine(results))

(* No file is extracted twice at a time: the jobs of a format that are     *)
(* queued, running or done are at most one.  That is so as long as there   *)
(* is one dispatcher; enable_fts() starts another one beside it.           *)
OneJobEach == ~toggled => \A f \in Format : JobsOf(f) <= 1

(* Someone will look for rows: an entry is in the queue, a dispatcher is   *)
(* in a round, or the pool has a job to report.                            *)
Looking ==
    \/ wakeups[queue[restarts]] > 0 \/ dispatch[restarts].pc # "idle"
    \/ jobs # <<>> \/ results # <<>> \/ supervisor
    \/ \E w \in Worker : working[w] # None

(* "When you add new books to the library, they will be automatically      *)
(* indexed in the background" (manual/gui.rst): a dirty format is, or is   *)
(* found not to need it, unless indexing is turned off, if the dispatcher  *)
(* was told since or is at work.  A row in progress whose job was lost as  *)
(* indexing was turned off stays; the others are indexed even then.        *)
EventuallyIndexed ==
    \A f \in Format : f \in dirty \ in_progress /\ enabled /\ Looking ~> f \notin dirty \/ ~enabled

(* Without the condition it is not so: renaming a file tells nobody.       *)
EveryMarkIsServed ==
    \A f \in Format : f \in dirty \ in_progress /\ enabled ~> f \notin dirty \/ ~enabled
=============================================================================
