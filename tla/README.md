# A TLA+ project for calibre-oxide

The repository is a Rust port of calibre (`crates/`, `app/`) together with the Python program it
is a port of (`old_src/`). The port is sequential code so far, its lock apart; the concurrency, the
crashes and the retries are in the Python program, and so are most of the modules here. Paths below are
relative to `src/old_src/src/calibre/` unless they start with `src/`.

Contents: [inventory](#1-inventory), [the modules and the code](#2-the-modules-and-the-code),
[runs](#3-runs), [bounds](#4-bounds), [fairness](#5-fairness), [proofs](#6-what-is-proved),
[findings](#7-findings), [what is not modelled](#8-what-is-not-modelled), [what is left](#9-what-is-left).

## 1. Inventory

A library is a folder: `metadata.db` (sqlite), one folder per book with its files and an OPF file,
and, if the user wants it, `full-text-search.db`. The GUI and the content server of one process
share it through one `Cache` object, which the library broker hands out. Long work is done in worker
processes: those of the server's jobs, those of the GUI's pools.

| component | state | operations | hard part | what makes it correct |
|---|---|---|---|---|
| Library lock, `db/locking.py` | counts, owner, two queues, spare Conditions | acquire, release, safe_read_lock | threads in any order, nesting, hand-over | exclusion, no self-deadlock, no lost wakeup, no starvation, nothing leaked |
| Its port, `src/crates/calibre_db/src/locking.rs` | counts, owner, one Condvar | acquire, release, guards | spurious wakeups, panics, poison | the same contract; nobody sleeps on a lock whose owner is gone |
| Metadata backup, `db/backup.py` and the dirty set in `db/cache.py` | dirty books in memory and in two tables, sequence numbers, OPF files | the thread's loop; set_field, add and remove books, annotations, dump_metadata; stop, exit, crash | a change during a backup, a failing write, a crash | no change is forgotten; every change gets into the OPF file |
| Full text index, `db/fts/` and the dispatcher in `db/cache.py` | dirtied formats, texts, job and result queues, threads | add, replace, remove formats; dispatch, extract, commit; reindex, turn off and on, restart | a file replaced during its job, two dispatchers, restarts | the index has the text of the present files; each is indexed at last, once at a time |
| Server jobs, `srv/jobs.py` | waiting, running, finished jobs, an event queue | start, abort, time limit, shutdown | events in any order, workers that hang or cannot be made | every job ends and is reported once; the loop never sleeps over work |
| Books and conversions of the server, `srv/books.py`, `srv/convert.py` | queued, failed and running jobs per book | ask for a book, convert, abort, callbacks | two locks, callbacks under one of them | an entry is there exactly as long as its job |
| Worker pool, `utils/ipc/pool.py` | workers, waiting jobs, tracker, results | queue, wait, common data, shut down | a crash while a job is sent, two threads in shutdown | every job has one result, the tracker counts the rest |
| Library broker, `srv/library_broker.py` | loaded libraries, times of last use | get, copy, change, unload, prune | a library closed while in use or behind the broker's back, a failed opening | one open database per library, none closed that was used lately |
| Rest of `db/cache.py`, `db/backend.py` | tables, files | some 180 API functions, each under the lock | data, not protocols | contract of the lock |
| Tables, fields, search, views | in-memory tables | sequential | data | not here |
| Event dispatcher, `db/listeners.py` | a queue | listeners in order; close joins the thread | a join under the write lock | events in order, close ends |
| Copy to library, `db/copy_to_library.py` | two libraries | copy_one_book under both locks | lock order | no deadlock |
| Restore, check library | the folder tree | batch | data | not here |
| Server pools and connections, `srv/pool.py`, `loop.py`, `web_socket.py` | queues, connections | handle, wake up, shut down | I/O | tasks are not lost at shutdown |
| Server records, `srv/last_read.py`, `changes.py`, `users.py` | small tables | add, list | a limit | the most recent positions are kept |
| Other worker processes, `utils/ipc/server.py`, `job.py`, `simple_worker.py` | workers, jobs | launch, report | crash | as for the pool |
| Rest of the Rust database, `src/crates/calibre_db` | one sqlite connection | sequential | data | not here |
| Other crates, GUI, formats, devices, conversion | - | - | data, user interface | not here |

How they meet: every function of `Cache` marked `read_api` or `write_api` runs inside a `with` block
on the library lock (`wrap_simple`, `db/cache.py:82`), so a section of code under the lock is one
step of the other components, and what they need of the lock is its contract, `RWLock`. The threads
of the backup and of the index call such functions, and so do all others; the index's threads talk
through three queues (`fts_job_queue`, `jobs_queue`, `supervise_queue`) and through the tables,
whose triggers react to changes of table `data`. The server's handlers get their `Cache` from the
broker, start jobs in the jobs manager and are called back by its thread under its lock. `PROJECT.json`
lists, under "hazards", the lines where this is hard to test and the properties that watch each.

## 2. The modules and the code

`RWLock` is abstract: how many read and write blocks each thread is inside, and when it may enter
one. `SHLock` and `OxideSHLock` implement it. `MetadataBackup` and `FullTextIndex` stand on it: one
locked section is one action. `JobsManager` is the server's jobs; `BookServer` extends it with its two
clients and implements it. `WorkerPool` and `LibraryBroker` stand alone. `MC*` are the instances TLC runs,
`*_proofs` the proofs.
"map" in `PROJECT.json` gives the lines each definition stands for.

### SHLock

State: the fields of class `SHLock` under their own names (`shared_owners` with 0 for an absent
key, the Conditions as numbers, `_free_waiters` as a set), and for each thread what it is doing
(`pc`) and the `with` blocks it is inside (`stack`). Each section under the internal mutex is one
action. A call that waits is two: the call, which makes a queue entry and gives the mutex up in
`Condition.wait()`, and `Resume`, after another thread handed the lock over. Every branch of
`_acquire_shared`, `_acquire_exclusive` and `release` is an action: `ReenterRead`, `TakeRead`,
`WaitRead`, `DowngradeError`; `ReenterWrite`, `TakeWrite`, `WaitWrite`, `UpgradeError`;
`ReleaseInnerWrite`, `ReleaseWriteToReaders`, `ReleaseWriteToWriter`, `ReleaseWriteFree`,
`ReleaseInnerRead`, `ReleaseReadToWriter`, `ReleaseReadFree`. A `SafeReadLock` inside a write block is
the block `"noop"`. An exception leaves all blocks one by one (`pc = "raise"`).

A block is what the clients use, so release() is only called at the end of a block. That it then
finds the lock in the mode of that block is not assumed: it is `ReleaseIsOwned`.

### MetadataBackup

A book's metadata is a version number and its OPF file holds the version it was made from, 0 if
there is none or it was cut off. `dirtied_cache` maps dirty books to sequence numbers;
`metadata_dirtied` and `annotations_dirtied` are the tables. The thread is at one of the places
between its lock sections, with the book, the metadata and the number it read. Calls of other threads
are actions: `ChangeField` and `ChangeIsMarked` (the two halves of `set_field`, as a failure can come in
between), `AddBook`, `RemoveBook`, `Annotate`, `MarkAllDirty`, `DumpMetadata`, `SetMetadataRollsBack`,
`PathUpdateFails`. `Stop`, `Start` and `Reopen` (an exit that saves the dirty set, or a crash that does
not) are the life of the thread and of the process.

Simplifications: `create_book_entry` is one step, its sqlite statements not separated by a crash;
`get_metadata_for_dump` catches its own exceptions, so the retry around it in `do_one` is left out, and
so is an exception of `check_dirtied_annotations`. Constant `Disturb` chooses which of four disturbances
an instance has: `oserror` (a write fails), `dump` (`dump_metadata` in the server process), `interrupt`
(`update_path` raises, or a crash inside `set_field`), `rollback` (`set_metadata` raises inside its
transaction). A crash between the two halves of `set_field` is in `interrupt` because the state it
leaves is that of the exception.

### FullTextIndex

A format is one format of one book, its content stands for the bytes, the hash and the size. `TextOf` is
the text of each content; several contents may have one text, as files do that differ in metadata only. `dirtied` is the
table in the order of its ids, `in_progress` the rows with that flag, `text` the table `books_text`, whose rows
have the hash of a file and a text or an error. `commit_result` inserts nothing if the text is there
already (`NewRow`), so that a format without a mark may have the hash of an older file. `IndexIsCurrent` is
about the text for that reason.

A dispatcher is between its three lock sections (`next`, then `remove` or `copy`, then `queue`). `enable_fts(True)` starts a new
one and waits for no other, so `dispatch`, the queue each one reads (`queue`) and the entries of each queue
(`wakeups`) go by the number of the start, of which `restarts` is the newest. The pool is the queue of jobs, what each worker
runs, the queue of results and whether the supervisor still owes the call of `queue_next_fts_job`.

The triggers are part of the actions that fire them: `AddFormat` marks and wakes the dispatcher, `RenameFormat` (the update trigger,
fired by a change of title or authors, `db/tables.py:662`) marks without waking anybody, and makes a path that a dispatcher
has read the path of no file (`"moved"`); `RemoveFormat` cleans both tables, `CommitResult` cleans the
mark. `Reopen` and `ReopenDisabled` restart the process; `Disable` and `Enable` are `enable_fts`, `ReindexAll` is
`reindex_fts`, which ends the pool and the newest dispatcher.

Simplifications: the pools of successive `FTS` objects are one; `ReindexAll` does not happen while a second
dispatcher reads the same queue, since the call may then wait for ever (section 7); no sqlite statement fails and
every file that is at its path can be read. `Disturb` allows changes of a format whose job is under way (`inflight`) and turning indexing
off and on (`toggle`). `toggled` remembers the latter. Three properties are stated until then, because it breaks them for good: a job's row stays
in progress, the triggers are gone after a restart, two dispatchers copy one row.

### OxideSHLock

The loop of each acquire function is cut where the mutex is given up: `Call`, then `TakeShared`,
`TakeExclusive`, `Sleep` or `Panic` as the state says, again after each wakeup. `notify_all` empties
`asleep`; `SpuriousWakeup` takes one thread out without reason, as a Condvar may. `Panic` leaves the mutex
poisoned and the thread unwinding: dropping its guards meets the poison, panics again, and a panic while
unwinding aborts the process (`Unwind`); another thread that meets the poison panics too (`MeetPoison`).

### JobsManager

`jobs`, `finished_jobs`, `waiting_jobs`, `waiting_job_ids` and `events` are the fields of the class;
`loop` and `hand` are where `JobsEventLoop` is and with which event, `monitor` is the thread of each
job. `max_block` is whether `events.get()` has a timeout. Time is the age of each job (`Tick`); `InTime`,
`UpdateMaxBlock` and `AbortHangingJobs` compare it as the code does. A job ends as `communicate()` lets it:
with a result or an error of its own, aborted, or hung. `StartWaiting` and the pruning are part of the event that calls
them. `job_finished()` holds the lock from `JobFinished` to `CallbackReturns`, since the callback may
wait; requests cannot take it meanwhile (`LockFree`).

### BookServer

`book_manifest()` is `AskForManifest`, then `LookUp` (the section under `cache_lock` up to the job), then
`QueueJob` with both locks, then `AnswerStatus`. A handler at `"start"` holds `cache_lock`, so the callback
(`RenderingDone`) waits for it, as `QueueJob` waits for the manager's lock. `convert.py` starts the job, then deletes what is
old (`Expire`), and makes the job's entry after that (`Register`), under its own `cache_lock`. Nothing orders this and the callback: a
`ConversionDone` that finds no entry does nothing. `UsesJobsManager` says that the composition implements `JobsManager`:
the refinement mapping is the identity, and what the clients do between is a stutter.

### WorkerPool

The thread `Pool` is cut where the client's thread or a process can come in: after `events.get()`, between
`available_workers.pop()`, sending the job and entering `busy_workers`, between `task_done()` and
`results.put()`. `shutdown_workers()` is three steps, in two threads perhaps (the client's and, after an error,
Pool's own). A worker's process and its thread `recv()` are one: they end by a result or by the
end of the pipe. Lists are stacks, as in the code: the last worker and the last waiting job go first.

`SetUnfitData` is `set_common_data()` with `None`, its default, which `shutdown()` also puts into the queue to end the thread,
or with data that `pickle_dumps(event)` raises on (`DataRaises`). Either way the thread is gone (`"lost"`) without a
failure or a shutdown; `unfit` remembers it. A job that cannot be pickled is `SendFails`. `Disturb` chooses among crashes of
workers (`crash`), workers that cannot be created (`spawn`), a call of `shutdown()` (`shutdown`) and unfit data (`data`).

### LibraryBroker

A database is a number, opened once and open until `close()`; `library_of` has those that are open.
`loaded_dbs` has `Absent` for a missing key and `Failed` for `None`. What runs with the broker's lock is one
action, and `library_moved()` of `gui2/ui.py` keeps it from `prepare_for_gui_library_change()` to
`gui_library_changed()`. `recent` has the libraries used in the last `EXPIRED_AGE` seconds, `Expire` lets that
time pass. The copy of books to another library works on its database without the lock (`copying`).

The user's own commands need a GUI without a dialog (`GuiIsFree`). A dialog has an event loop of its own, though, in which the messages of
another instance are served (`gui2/ui.py:868-884`), and those may show a book of another library or switch to it (`GetLibrary`,
`SwitchLibrary` with `Message`), also during a copy or between a question and what the user says to it. Restore library
(`RestoreDatabase`, `RestoreCloses`) and Check library (`CheckLibrary`, `CheckCloses`) close the GUI's database themselves, without the broker's
lock, while `loaded_dbs` has it; both call `library_moved()` at the end (`MoveBack`). `dialog` and `fixing` are where they are and
on which database; `shut` has the databases closed in this way, or by an unloading that meets the GUI's own library after such a
message. `unread` has the GUI's libraries whose entry has left `loaded_dbs` without a new one: they could not be read
again, or were unloaded.

## 3. Runs

| run | shows |
|---|---|
| `shlock` | 3 threads, 3 calls each. `HolderNeverWaits`, `NoLostWakeup`, `CountsMatchBlocks`; `Contract`: the lock implements `RWLock`; `NoStarvation`. No deadlock. |
| `oxide` | The same contract for the port, with panics and spurious wakeups: `CountsMatchGuards`, `NoLostWakeup`, `PanicEndsProcess`, `Contract`, and `ReadersGetIn`, which is all a lock without queues gives. |
| `backup` | 2 books, one of which cannot be converted, 3 changes, failing writes, one stop or exit or crash. `StaleIsDirty`: a book whose file is out of date is marked in the database. `CacheMatchesTable`: so it is in memory. `SequenceNamesVersion`: a number that is still the book's own stands for the metadata that was read. `EventuallyBackedUp`. |
| `backup_disturbed` | What remains true with all four disturbances: `NumbersAreFresh`, `GoneBooksStayGone`. |
| `fts_safety` | 2 formats, one of a type without text, 3 contents, two of them with the same text, 2 workers, indexing off and on. `IndexIsCurrent`: an unmarked format has the text of its present file in the index. `OneJobEach`: no file is extracted twice at a time. `NothingOfGoneFormats`, `ProgressHasJob`. |
| `fts_live` | 2 formats, 2 changes, renamings among them, a restart or a second dispatcher. `EventuallyIndexed`: a marked format is indexed if the dispatcher was told of it or is at work. |
| `jobs` | 3 jobs for one slot. `EveryJobIsKnown`: a job is waiting, running, finished or pruned, and one of them only. `DoneOnce`: no second event for a job that is finished. `NothingIsForgotten`: the loop sleeps only when no job can start, with a timeout when one has to be watched. `OverdueIsAborted`: what is over the limit is told to end. `EveryJobFinishes`, `ShutdownEndsAll`. |
| `books` | 2 handlers, a book and conversions. `QueuedIsPending`: a book said to be in preparation has its job, which has not called back. `RunningUntilDone`: the callback of a conversion ends its entry. `UsesJobsManager`, `RenderingEnds`. |
| `pool` | 2 workers, 3 jobs, 2 rounds of common data, unfit data, crashes, shutdown. `CommonDataIsCurrent`, `TrackerCounts`, `OneResultEach`, `NothingWaits`, `EveryJobEnds`. |
| `broker` | 3 libraries, 3 databases, with symmetry, messages in the middle of dialogs. `LoadedIsOpen`, `OneDatabaseEach`, `GuiDatabaseIsOpen`: nobody but the GUI's own commands closes what it shows. `PruningSparesRecent`. |
| `books_deadlock`, `fts_inflight` | Violations, see findings. |

Each property of a passing run has a mutant, a definition in the module that changes one operation as a
plausible bug would; with it TLC finds the property violated. They are the definitions commented "Mutant".

Deadlock is checked for the lock and the backup. Elsewhere the system may rest (everything is indexed, all jobs
are done, the bound is reached, the process has aborted), so these configurations say `CHECK_DEADLOCK FALSE`; that
somebody waits for ever is a matter of their liveness properties.

## 4. Bounds

* `MaxCalls` (`SHLock`), `MaxGuards` (`OxideSHLock`): acquire calls of a thread within one outermost block. 3 with 3
  threads allows a nested read inside a read, a read inside a write and the reverse, while one waits in each queue.
  Blocks are entered again and again: the bound is per outermost block.
* `MaxChanges` (`MetadataBackup`): changes of all kinds. 3 allows a change, another during its backup, and
  a third after a crash or a removal, of one book or of two. `MaxStops`: stops,
  exits and crashes.
* `MaxChanges` (`FullTextIndex`): formats added, replaced, removed, renamed, reindexed, and times indexing is turned off
  or on. 4 in `fts_safety` allows off, on and two changes of a file beside two dispatchers; 2 in `fts_live` a renaming
  after a change, or off and on. `MaxRestarts`: dispatchers started after the first one, by a restart or by turning indexing on; 1 gives two.
* `MaxStarts` (`JobsManager`): jobs. 3 with one slot: one runs, one waits for its slot, one is yet to be received
  or is pruned already. `max_job_time` is 1 and `fork_timeout` 2, so that the limit comes first and both can be passed.
* `BookServer`: 2 jobs and 2 handlers suffice for a second request, or a conversion, during a rendering and its callback.
* `MaxJobs`, `MaxRounds` (`WorkerPool`): 3 jobs for 2 workers, so that one waits; 2 calls of `set_common_data()`, so that
  data is replaced while workers live. One call with unfit data: the thread does not survive it.
* `MaxOpens` (`LibraryBroker`): 3 databases, so that a library is opened again after it was closed while another one is
  loaded.
* Initial states are many: any set of books that exist, all backed up; any formats with any contents,
  none indexed; any set of known libraries with any of them in the GUI.

## 5. Fairness

* Lock: a thread that was notified gets the mutex, and the body of a block ends (`WF` of `Resume` and
  `Release`). No thread is obliged to acquire anything, so `NoStarvation` is about hand-over and not about
  luck: the queues, the rule that a queued writer stops new readers, and the hand-over of all queued
  readers after a writer.
* Port of the lock: a thread that is awake gets the mutex, guards are dropped. `ReadersGetIn` supposes that writers stop
  coming.
* Backup: the thread is scheduled, `set_field` returns, a stopped thread is started again (`WF`). `random.choice`
  does not avoid a book for ever and a write tried again and again works at last: these two are `SF`, because
  both are enabled and disabled over and over.
* Index: each dispatcher, supervisor and workers are scheduled (`WF`). A worker's job ends because it is killed
  after 30 minutes (`db/fts/pool.py:94-103`), which `FinishJob` has as an error for any content.
* Jobs: the event loop and the threads of the jobs are scheduled, time goes by, and `communicate()` looks at the clock and
  at the abort event. No worker is obliged to end. `JobsManager` supposes that callbacks return; `BookServer` replaces
  that by the callbacks it has, scheduled (`WF`) but in need of `cache_lock`, and a request that waits for the manager's
  lock gets it if it is free again and again (`SF`); a conversion gets its entry (`WF` of `Expire` and `Register`). With one book that is enough, with two it is not: `books_deadlock`.
* Pool: threads are scheduled, a job ends (the pool has no time limit).

## 6. What is proved

Liveness under fairness and `ENABLED` are out of the prover's reach and stay with TLC.

### SHLock

`SHLock_proofs` proves, for every finite set of threads and every `MaxCalls`, that each safety
property of `SHLock` is an invariant, those of run `shlock` and the others the module states, and that `SHLock` implements `RWLock` (theorem `Refinement`).
Assumptions: `ThreadAssumption` (finitely many threads, `None` is not one) and `MaxCallsAssumption`.

None of the properties is inductive. `WriterIsAlone`, for example, is about the blocks threads are inside,
while the lock decides by counts; and `release` hands the lock to the entries of a queue, which must be of
threads that still sleep. The inductive invariant `IInv` adds:

* `ModeInv`: the owner is set exactly when `is_exclusive` is positive, both modes exclude each other, and
  `is_shared` is the number of shared locks held, stated as the cardinality of a set (`Holds`, one pair per
  lock) so that no sum over threads is needed;
* `ThreadInv(t)`: a running thread's counts are those of its blocks, a sleeping one holds nothing and has its
  queue entry, one that was woken has exactly what it asked for, and read blocks contain nothing but read
  blocks;
* `QueueInv`: entries are of sleeping threads with the Condition they sleep on, at most one each; readers
  queue only behind a writer, writers only behind a holder;
* `WaitersDistinct`: Conditions in use are distinct and not on the free list.

The first part of `SHLock_proofs` has the facts about data: what appending and removing a block does to the counts, what adding
and removing a lock does to `Holds`, and that handing the lock to all queued readers gives as many locks as
the queue has entries. `StepIInv` has one lemma for each group of actions; `InitIInv` and `StepIInv` give
`Invariant`, each property follows from `IInv`, and `StepRefines` uses `IInv` before and after a step to show
that it changes one thread's blocks as `RWLock` allows.

### OxideSHLock

`OxideSHLock_proofs` proves the four safety properties and `Refinement` for every set of threads and every
`MaxGuards`. `IInv` adds that sleepers hold nothing (`SleepersHoldNothing`); one lemma per group of actions shows that a step
keeps it. `MutualExclusion`, that a writer is alone also after a panic, follows from the contract alone.

### MetadataBackup

`MetadataBackup_proofs` has two invariants. `TInv` needs no assumption but those of the module, so it holds with any number of
backup threads and under every disturbance: types, `NumbersAreFresh`, `GoneBooksStayGone`, and that a version
counts changes. `CacheMatchesTable` is inductive beside it as long as `"rollback"` is not in `Disturb`.

`BInv`, for `StaleIsDirty` and `SequenceNamesVersion`, supposes one backup thread (`OneThread`) and no disturbance
but failing writes (`Undisturbed`); section 7 has what TLC finds without either. `StaleIsDirty` is not inductive: it says
nothing of a book whose file is being written while a change makes it stale. `RoundOf(t)` follows a book through
one round of the thread: from `Pick` to `ClearDirtied` it is dirty; from `GetMetadataForDump` on, *if* its number is
still the one the thread read, then what was read is its present version, unless a mark of annotations says otherwise;
and after the write, under the same condition, the file has what was read. So when `clear_dirtied` finds its own number, the file is current.
A call of another thread either gives the book a number not below `dirtied_sequence` (`Renumbered`), which is more than any
thread holds, or keeps number, file and version (`Kept`): lemma `BooksKept` has both cases for all of them.

### FullTextIndex

`FullTextIndex_proofs` proves the types without an assumption, and the four properties of `fts_safety` on the assumption that the file of no format
is changed while a job for it is under way (`"inflight" \notin Disturb`), for any formats, contents, texts, workers and bounds, with renamings at any time, through
restarts and with indexing turned off and on, so with any number of dispatchers. Beside the properties, `IInv` has:

* `NewestOnly`: until indexing is first turned off or on, only the dispatcher started last reads a queue or is in a round;
* `OneEach`: until then a format is in one place of the pool at most, its row is then in progress, and the row the dispatcher is
  busy with is not;
* `Current`: what the dispatchers and the pool carry is the file as it still is, which is what the assumption is for;
* `Hashed`: a row with a text has the text of the file whose hash it has, though that need not be the present file. Hence a dispatcher that finds
  the present hash in a row, and removes the mark, leaves the present text, and so does `commit_result` when it finds the text there and inserts nothing;
* `Detached`, `NoneLost`: nothing is under way while the database is not attached, and until indexing is turned off each row
  in progress has a job.

The rows are a sequence: `Dirtied` and `Cleaned` say what inserting and deleting do to the set of formats in it.

### JobsManager

`JobsManager_proofs` proves the four safety properties of run `jobs` for any number of jobs and slots and any times. `IInv` says where a job is: an event `start`, in
the loop's hand, or in `waiting_jobs`, one of them and once (`OneEach`, `Known`); an event `done`, or the hand again, means that the job
is in `jobs` and its thread has told (`Reports`); and unless the loop is about to call `start_waiting_jobs`, jobs wait only if all slots are
taken (`Slots`). `Started` is the lemma about `StartWaiting`: taking the first jobs of the queue moves them, and no others, and never over
`max_jobs`.

Two more theorems are about the past of a job. `JobsStartInOrder`: no job waits that was asked for before one that was started
(`StartedInOrder`, which no run checks). Its invariant `ByAge` says that the jobs in `waiting_jobs`, then the one in hand, then those in
`events` are in the order of their numbers, which is what the queue, `append` and taking from the front make of it. `JobsGoOneWay` is an action
property: no step takes a job back to an earlier record or changes how it ended.

### BookServer

`BookServer_proofs` proves for any books and handlers that each step of the server is one of `JobsManager` or a stutter there
(`ServerUsesJobsManager`), so that what is proved of the manager holds in the composition and is used here: `SInv` contains its
`IInv`. The entries change with the jobs: `CallbackEnds` says that a callback is the end of its job and of no other, `StartKeeps` and
`ManagerKeeps` that nothing else ends one. `Handlers` has that one handler at most is in `queue_job()`, for a book without a job, which
is what `books.cache_lock` is for. `ConversionsTurnOver` is the action property `RunningUntilDone`: whatever the order of the callback and the entry, the step
that makes a job finished leaves no entry that says `"running"`. It says nothing of an entry made afterwards (section 7).
`ServerLosesNoJob` carries what was proved of the manager over to the composition; `NoBookIsRenderedTwice` follows from `SInv`.

### WorkerPool

`WorkerPool_proofs` proves the four safety properties of run `pool` for any numbers of workers, jobs and rounds and every choice of
disturbances, from the assumptions of the module alone. The properties count jobs in several places, so `IInv` says where each job is:

* `Distinct`, `Apart`: it is once in an event, in hand, waiting, running, with its result on the way, being reported or reported, and in one of these
  only; before a failure every job asked for is in one;
* `Counts`: as long as the pool is alive the tracker is the number of those not done (`Owed`), afterwards no less;
* `Stationed`: as long as nobody shuts the pool down, a worker is available, busy or held by `run_job()`, its process does the job
  `busy_workers` says, and a result is of the job that its worker is entered with. It has to be given up at
  shutdown, when the lists are cleared while the thread works with them;
* `AllStarted`: jobs wait only when every worker was started, and behind the event loop only if none is available;
* `DataInOrder`, `DataInWorkers`: common data and jobs do not overtake each other, as the client waits in between, and every
  worker that can get a job has the data the thread has; `NotSentYet`: a job in a queue was not sent;
* `Control`: how the flags and the places of the threads go together. A thread that is lost to unfit data is neither failed nor
  shut down, so the counts must hold for it as well.

`NoJobIsSentTwice` is an action property from `NotSentYet`. Two theorems say what remains of the two properties that TLC refutes
(section 7). `OneResultMayBeMissing`: when `wait_for_tasks()` has returned, and nothing failed, each result is in the queue, or is the
one the thread is about to put there. `ShutdownLeavesAtMostOne`: after `shutdown()` by either thread, one process at most is
alive, and after that of Pool itself none (`FailureEndsWorkers`). They rest on a second invariant, `LInv`, for `Stationed` says nothing then.
`Placed`: a worker on the stack, or taken from there, runs no job, and a worker whose result is on the way is not on the stack; it survives the
clearing of the lists. `Leftovers`: processes that live are in the lists or held until a shutdown clears the lists, and at that point those
that are not on its list of processes to kill are one at most, none if the thread has ended.

### LibraryBroker

`LibraryBroker_proofs` proves the four properties of run `broker` for any libraries, handlers, number of databases and disturbances. `IInv` is the three invariants, the
types, and

* `GuiIsLoaded`: what the GUI shows is the entry of its library, unless that entry has left `loaded_dbs` (`unread`). Without it, reading the GUI's
  library again would close what it shows and leave the replaced entry open;
* `ShutIsClosed`: what was closed behind the broker's back stays closed, for opening a library makes a new database;
* `FixingIsKnown`: a dialog that is open is about a library and a database;
* `HeldIsAsked`: what a handler holds is of the library it asked for while it is open.

Most steps take entries out and close their databases (`TakenOut`), or do this and enter one (`Changed`); they keep the invariants because
different libraries never have one open database (`DbsAreTheirs`). `RecentDatabasesSurvivePruning` follows from `IInv` and what the two pruning actions close.
`HandlersSurvivePruning` says what it means to the server: a handler that has noted its use keeps its database through any pruning for
`EXPIRED_AGE`. It needs `HeldIsAsked`.

### What is only model-checked

All liveness properties: `NoStarvation`, `ReadersGetIn`, `EventuallyBackedUp`, `EventuallyIndexed`, `OverdueIsAborted`, `EveryJobFinishes`,
`ShutdownEndsAll`, `RenderingEnds`, `EveryJobEnds`. Every other property of a passing run, invariant or action property, is stated by
a theorem, some under the assumptions named above.

## 7. Findings

Each is a run that TLC ends with a counterexample; "findings" in `PROJECT.json` quotes the text it contradicts.

1. `books_deadlock` (`srv/books.py:158`): a request holds `books.cache_lock` and waits for `JobsManager.lock`, a callback
   holds `JobsManager.lock` and waits for `cache_lock`. The server's jobs stand still, and the library's read lock is
   never given back.
2. `fts_inflight` (`src/old_src/resources/fts_triggers.sql:12`): a format replaced while its job is under
   way keeps its old text.

The modules show more of the kind when an instance is given other constants. No configuration is kept for these; each
line names the constants that differ from those of the run and the property TLC then refutes.

| run | constants | property | what happens |
|---|---|---|---|
| `backup` | `Disturb = {"dump"}` | `StaleIsDirty` | `clear_dirtied` with no sequence number (`db/cache.py:1788`), after `dump_metadata` cleaned the book the thread had picked, forgets a later change |
| `backup` | `Disturb = {"interrupt"}` | `StaleIsDirty` | `set_field` commits the new title and marks the book only after moving its folder (`db/cache.py:1728`), which may raise |
| `backup` | `Disturb = {"rollback"}` | `CacheMatchesTable` | after a rollback (`db/cache.py:2002`) `dirtied_cache` names a book the table does not |
| `backup` | `Backup = {m1, m2}` | `StaleIsDirty` | a stopped backup thread is not waited for (`gui2/library/models.py:418`) and writes an older file after a newer one |
| `fts_live` | `Disturb = {}` | `EveryMarkIsServed` | renaming the files of a book marks them (`fts_triggers.sql:15-17`), but nobody calls `queue_next_fts_job()`: they wait for another wakeup |
| `books` | - | `RunningIsPending` | a conversion that ends before its entry is made (`srv/convert.py:143-151`) is running for ever |
| `pool` | `Disturb = {}` | `ResultsAreIn` | `task_done()` comes before `results.put()` (`utils/ipc/pool.py:237-242`): `wait_for_tasks()` may return without the last result, which `gui2/add.py` then does not see |
| `pool` | `Disturb = {"shutdown"}` | `ShutdownEndsWorkers` | a worker that `run_job()` holds during `shutdown()` is not terminated |
| `broker` | `Disturb = {"message"}` | `CopyIsOpen` | `get_library()` notes no use (`srv/library_broker.py`), so a library the user copies books to is pruned when a message moves the GUI during the copy; without messages the property holds |

Four properties have an exception for what the code does; without it TLC refutes them in their runs:

* `OneJobEach` without `~toggled`: `enable_fts()` (`db/cache.py:520-531`) starts a second dispatcher beside one that is in a round, both
  copy the same row and both queue it.
* `EveryJobEnds` without `~unfit`: `set_common_data()` with its default `None` puts what ends the thread into the queue (`utils/ipc/pool.py:139`, `:148`, `:218`), and
  data that cannot be pickled raises outside any `try` (`:244`). The thread ends silently, and `wait_for_tasks()` waits for ever.
* `LoadedIsOpen` without `shut`, even with `Disturb = {}`: Restore library closes the GUI's database (`gui2/dialogs/restore_library.py:109`), Check library likewise
  (`gui2/dialogs/choose_library.py:685`), while `loaded_dbs` has it, and a handler is given a closed `Cache` until `library_moved()`.
* `OneDatabaseEach` without `unread`: with failing reloads or messages the entry of the GUI's library leaves `loaded_dbs`, and the next
  `get()` opens a second `Cache` on it. With `Disturb = {"load"}` alone it holds.

Seen while reading, within what the modules leave out or except: a `max_job_time` of zero, "no limit" in `srv/opts.py:81-82`, aborts every
job at once (`srv/jobs.py:198`), and under the default of 60 minutes `fork_job()` with its own default of 300 s (`srv/jobs.py:31`) ends jobs
first; `enable_fts(True)` called twice gives two dispatchers on one queue, and `reindex_fts()` or `close()` then put one entry that ends a thread and
join the newest, which waits for ever if the other one took the entry; a handler that has left the broker's lock, and has not noted its use yet
(`srv/library_broker.py:224`), may see its database pruned; a row in progress whose result was dropped while indexing
was off is not indexed before a restart (`db/backend.py:1142`); a job thread that gets an `OSError` from
`create_worker()` ends without a DoneEvent, and its slot is lost (`srv/jobs.py:44`); after a failure of the pool the job that could
not be sent and those still in the queue are never done, so that `wait_for_tasks()` without a timeout would block;
a failed reload leaves the GUI's library out of `loaded_dbs` (`gui2/ui.py:991`), and the next `get()` opens a second `Cache`
on it; `clean_final()` removes nothing, as `safe_remove(x)` is given a bare name (`srv/books.py:111`).

## 8. What is not modelled

Besides the components of the inventory without a module:

* Lock: non-blocking acquire (tests only), `owns_lock`, the debug wrapper, an asynchronous exception inside
  `waiter.wait()`.
* Backup: see the table above for two backup threads.
* Index: a format removed while its job is under way (its text comes back as a row nobody deletes), a file without
  text that replaces one with text (the old text stays), changing the number of workers, `fts_unindex`, searching.
* Jobs: `wait_for_running_job()` (tests only), `wait_for_shutdown()`, what a job computes.
* Books: the cache folder on disk, beyond whether a manifest is there; reading positions; the options and the
  output of conversions; `start_job()` that returns `None` for a conversion at shutdown, which enters it as `conversion_jobs[None]`.
* Pool: the file for large common data; the `RuntimeError` of a dict that changes during an iteration.
* Broker: `close()`, the matching of paths, caches, listeners; moving a library to another folder while it is
  used.

Most of the repository is data: formats, parsers, devices, user interface, tables of characters. A model of such code would
restate it, so the share of lines under a module is small.

## 9. What is left

A model of a format that is changed while its job is under way, once the code
compares contents when it commits. `Cache.close()` with the listeners' thread and the threads of the index, each joined with or without
the write lock, as a composition with `RWLock`. Copies between two libraries in both directions as two instances of `RWLock`. The backup
and the threads of the port, when it has them.
