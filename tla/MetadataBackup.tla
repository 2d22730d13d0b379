--------------------------- MODULE MetadataBackup ---------------------------
(***************************************************************************)
(* The backup of changed metadata into OPF files: the thread of            *)
(* db/backup.py, the dirty set of db/cache.py it works from, the two       *)
(* tables of metadata.db behind that set, and the calls of other threads   *)
(* that change books or write OPF files meanwhile.                         *)
(*                                                                         *)
(* A function decorated with write_api or read_api runs under the library  *)
(* lock and is one action, but for set_field(), which is two: what it      *)
(* writes to the database is committed before the book is marked dirty, so *)
(* a failure can come in between.  The state of a book's metadata is a     *)
(* version number; the OPF file holds the version it was made from.        *)
(***************************************************************************)
EXTENDS Naturals, FiniteSets, Functions

CONSTANTS Book,            \* book ids
          Backup,          \* MetadataBackup threads
          Unconvertible,   \* books for which metadata_to_opf() raises
          Disturb,         \* which disturbances the instance explores
          MaxChanges,      \* bound: changes to books, of all kinds
          MaxStops,        \* bound: stops of a backup thread and exits
          NoBook, NoSeq    \* None

ASSUME BookAssumption == IsFiniteSet(Book) /\ NoBook \notin Book /\ Unconvertible \subseteq Book
ASSUME BoundAssumption == MaxChanges \in Nat /\ MaxStops \in Nat /\ NoSeq \notin Nat
ASSUME DisturbAssumption == Disturb \subseteq {"oserror", "dump", "interrupt", "rollback"}

VARIABLES
    \* metadata.db
    exists,                \* ids in the books table
    value,                 \* value[b]: version of the book's metadata
    metadata_dirtied,      \* rows of that table
    annotations_dirtied,   \* rows of that table
    \* the library folder
    opf,                   \* opf[b]: version in metadata.opf, 0 for none
    \* the Cache object
    dirtied_cache,         \* sequence number of each dirty book
    dirtied_sequence,
    changing,              \* the book whose set_field() holds the write lock
    \* the backup threads
    pc, book, mi, seq, checks, stopping,
    \* bounds
    changes, stops

dbVars == <<exists, value, metadata_dirtied, annotations_dirtied>>
cacheVars == <<dirtied_cache, dirtied_sequence>>
threadVars == <<pc, book, mi, seq, checks, stopping>>
vars == <<dbVars, opf, cacheVars, changing, threadVars, changes, stops>>

Place == {"off", "wait", "check", "pick", "get", "convert", "write", "rewrite", "clear"}
dirty == DOMAIN dirtied_cache
Version == 0..(MaxChanges + 1)
Unlocked == changing = NoBook

TypeOK ==
    /\ exists \subseteq Book
    /\ value \in [Book -> Version]
    /\ metadata_dirtied \subseteq Book
    /\ annotations_dirtied \subseteq Book
    /\ opf \in [Book -> Version]
    /\ dirty \subseteq Book /\ dirtied_cache \in [dirty -> Nat]
    /\ dirtied_sequence \in Nat
    /\ changing \in Book \cup {NoBook}
    /\ pc \in [Backup -> Place]
    /\ book \in [Backup -> Book \cup {NoBook}]
    /\ mi \in [Backup -> Version]
    /\ seq \in [Backup -> Nat \cup {NoSeq}]
    /\ checks \in [Backup -> 0..2]
    /\ stopping \in [Backup -> BOOLEAN]
    /\ changes \in 0..MaxChanges
    /\ stops \in 0..MaxStops

(* A library whose books are all backed up; the thread is not started yet. *)
Init ==
    /\ exists \in SUBSET Book
    /\ value = [b \in Book |-> 1]
    /\ metadata_dirtied = {}
    /\ annotations_dirtied = {}
    /\ opf = [b \in Book |-> IF b \in exists THEN 1 ELSE 0]
    /\ dirtied_cache = <<>>
    /\ dirtied_sequence = 0
    /\ changing = NoBook
    /\ pc = [t \in Backup |-> "off"]
    /\ book = [t \in Backup |-> NoBook]
    /\ mi = [t \in Backup |-> 0]
    /\ seq = [t \in Backup |-> NoSeq]
    /\ checks = [t \in Backup |-> 0]
    /\ stopping = [t \in Backup |-> FALSE]
    /\ changes = 0
    /\ stops = 0

-----------------------------------------------------------------------------
(* The dirty set.                                                          *)

(* Mutant: the counter stays where it is.                                  *)
NumberDirtyReuses(S) ==
    \E n \in Injection(S, dirtied_sequence..(dirtied_sequence + Cardinality(S) - 1)) :
        /\ dirtied_cache' = [b \in dirty \cup S |-> IF b \in S THEN n[b] ELSE dirtied_cache[b]]
        /\ UNCHANGED dirtied_sequence

(* New sequence numbers for the books S.  In which order a set is          *)
(* enumerated is the interpreter's affair.                                 *)
NumberDirty(S) ==
    \E n \in Injection(S, dirtied_sequence..(dirtied_sequence + Cardinality(S) - 1)) :
        /\ dirtied_cache' = [b \in dirty \cup S |-> IF b \in S THEN n[b] ELSE dirtied_cache[b]]
        /\ dirtied_sequence' = dirtied_sequence + Cardinality(S)

(* Mutants: the row is forgotten; a dirty book keeps its number.           *)
MarkAsDirtyInCacheOnly(S) == UNCHANGED metadata_dirtied /\ NumberDirty(S)

MarkAsDirtyOnce(S) ==
    /\ metadata_dirtied' = metadata_dirtied \cup (S \ dirty)
    /\ NumberDirty(S \ dirty)

(* mark_as_dirty(): only books that are not in the cache get a row.        *)
MarkAsDirty(S) ==
    /\ metadata_dirtied' = metadata_dirtied \cup (S \ dirty)
    /\ NumberDirty(S)

ForgetDirty(S) == dirtied_cache' = [b \in dirty \ S |-> dirtied_cache[b]]

(* dirty_books_with_dirtied_annotations(): the annotation rows are deleted *)
(* only if some new row came of them.                                      *)
AnnotationRowsMove ==
    /\ metadata_dirtied' = metadata_dirtied \cup annotations_dirtied
    /\ annotations_dirtied' = IF annotations_dirtied \subseteq metadata_dirtied
                              THEN annotations_dirtied ELSE {}

-----------------------------------------------------------------------------
(* Other threads.                                                          *)

Changed(b) ==
    /\ changes < MaxChanges
    /\ changes' = changes + 1
    /\ value' = [value EXCEPT ![b] = @ + 1]

(* set_field() up to the call of mark_as_dirty(): the writer commits.      *)
ChangeField(b) ==
    /\ Unlocked
    /\ b \in exists
    /\ Changed(b)
    /\ changing' = b
    /\ UNCHANGED <<exists, metadata_dirtied, annotations_dirtied, opf, cacheVars, threadVars, stops>>

(* create_book_entry(), for a new book or one taken from the trash: a row  *)
(* in books and a folder whose OPF file, if any, is an old one.            *)
AddBook(b) ==
    /\ Unlocked
    /\ b \notin exists
    /\ exists' = exists \cup {b}
    /\ Changed(b)
    /\ opf' = [opf EXCEPT ![b] = 0]
    /\ MarkAsDirty({b})
    /\ UNCHANGED <<annotations_dirtied, changing, threadVars, stops>>

(* set_field() from there on.                                              *)
ChangeIsMarked ==
    /\ ~Unlocked
    /\ MarkAsDirty({changing})
    /\ changing' = NoBook
    /\ UNCHANGED <<exists, value, annotations_dirtied, opf, threadVars, changes, stops>>

(* update_path() raises: set_field() ends before mark_as_dirty().          *)
PathUpdateFails ==
    /\ "interrupt" \in Disturb
    /\ ~Unlocked
    /\ changing' = NoBook
    /\ UNCHANGED <<dbVars, opf, cacheVars, threadVars, changes, stops>>

(* set_metadata(), called without title and authors as the tag browser     *)
(* does, raises: sqlite takes back what it wrote, the rows of              *)
(* metadata_dirtied included, and the tables are read again.               *)
SetMetadataRollsBack(b) ==
    /\ "rollback" \in Disturb
    /\ Unlocked
    /\ b \in exists
    /\ changes < MaxChanges
    /\ changes' = changes + 1
    /\ NumberDirty({b})
    /\ UNCHANGED <<dbVars, opf, changing, threadVars, stops>>

(* save_annotations_for_book(), one transaction.                           *)
Annotate(b) ==
    /\ Unlocked
    /\ b \in exists
    /\ Changed(b)
    /\ annotations_dirtied' = annotations_dirtied \cup {b}
    /\ UNCHANGED <<exists, metadata_dirtied, opf, cacheVars, changing, threadVars, stops>>

(* remove_books(): the folder goes too; the dirty set is not touched.      *)
RemoveBook(b) ==
    /\ Unlocked
    /\ b \in exists
    /\ changes < MaxChanges
    /\ changes' = changes + 1
    /\ exists' = exists \ {b}
    /\ opf' = [opf EXCEPT ![b] = 0]
    /\ UNCHANGED <<value, metadata_dirtied, annotations_dirtied, cacheVars, changing, threadVars, stops>>

(* "Back up metadata of all books" marks books that did not change.        *)
MarkAllDirty ==
    /\ Unlocked
    /\ exists # {}
    /\ changes < MaxChanges
    /\ changes' = changes + 1
    /\ MarkAsDirty(exists)
    /\ UNCHANGED <<exists, value, annotations_dirtied, opf, changing, threadVars, stops>>

(* dump_metadata(), as calibredb add ends with it in the server process:   *)
(* the books S are written and cleared, the others skipped or failed.      *)
DumpMetadata ==
    /\ "dump" \in Disturb
    /\ Unlocked
    /\ \E S \in SUBSET ((dirty \cap exists) \ Unconvertible) :
          /\ S # {}
          /\ opf' = [b \in Book |-> IF b \in S THEN value[b] ELSE opf[b]]
          /\ metadata_dirtied' = metadata_dirtied \ S
          /\ ForgetDirty(S)
    /\ UNCHANGED <<exists, value, annotations_dirtied, dirtied_sequence, changing, threadVars, changes, stops>>

-----------------------------------------------------------------------------
(* The life of the threads and of the process.                             *)

(* start_metadata_backup() follows stop_metadata_backup(), which does not  *)
(* wait for the old thread to end.                                         *)
Start(t) ==
    /\ pc[t] = "off"
    /\ \A u \in Backup : pc[u] = "off" \/ stopping[u]
    /\ pc' = [pc EXCEPT ![t] = "wait"]
    /\ checks' = [checks EXCEPT ![t] = 0]
    /\ stopping' = [stopping EXCEPT ![t] = FALSE]
    /\ UNCHANGED <<dbVars, opf, cacheVars, changing, book, mi, seq, changes, stops>>

Stop(t) ==
    /\ stops < MaxStops
    /\ stops' = stops + 1
    /\ pc[t] # "off" /\ ~stopping[t]
    /\ stopping' = [stopping EXCEPT ![t] = TRUE]
    /\ UNCHANGED <<dbVars, opf, cacheVars, changing, pc, book, mi, seq, checks, changes>>

(* The process ends, by a crash or after commit_dirty_cache(), and the     *)
(* library is opened again: initialize_dynamic() reads the dirty set.      *)
Reopen ==
    /\ stops < MaxStops
    /\ stops' = stops + 1
    /\ Unlocked \/ "interrupt" \in Disturb
    /\ \E saved \in {{}} \cup (IF Unlocked THEN {dirty} ELSE {}) :
       LET rows == metadata_dirtied \cup saved
           all == rows \cup annotations_dirtied IN
       /\ metadata_dirtied' = all
       /\ annotations_dirtied' = IF all = rows THEN annotations_dirtied ELSE {}
       /\ dirtied_cache' \in Injection(all, 0..(Cardinality(all) - 1))
       /\ dirtied_sequence' = Cardinality(all)
    /\ changing' = NoBook
    /\ pc' = [t \in Backup |-> "off"]
    /\ UNCHANGED <<exists, value, opf, book, mi, seq, checks, stopping, changes>>

-----------------------------------------------------------------------------
(* do_one().  A lock section of the thread and the wait() before it are    *)
(* one step: stop() may come between the two, so only Abort looks at it.   *)

At(t, place) == pc[t] = place
Goto(t, place) == pc' = [pc EXCEPT ![t] = place]

(* wait() finds the event set, and run() ends.                             *)
Abort(t) ==
    /\ pc[t] \in {"wait", "get", "convert", "write", "rewrite"}
    /\ stopping[t]
    /\ Goto(t, "off")
    /\ UNCHANGED <<dbVars, opf, cacheVars, changing, book, mi, seq, checks, stopping, changes, stops>>

(* Mutant: the annotations are not looked at.                             *)
WakeNeverChecks(t) ==
    /\ At(t, "wait")
    /\ checks' = [checks EXCEPT ![t] = (@ + 1) % 3]
    /\ Goto(t, "pick")
    /\ UNCHANGED <<dbVars, opf, cacheVars, changing, book, mi, seq, stopping, changes, stops>>

(* The interval is over; every third time the annotations come first.      *)
Wake(t) ==
    /\ At(t, "wait")
    /\ checks' = [checks EXCEPT ![t] = (@ + 1) % 3]
    /\ Goto(t, IF checks[t] = 2 THEN "check" ELSE "pick")
    /\ UNCHANGED <<dbVars, opf, cacheVars, changing, book, mi, seq, stopping, changes, stops>>

(* check_dirtied_annotations(): nothing new, so the cache is left alone ... *)
CheckFindsNothing(t) ==
    /\ At(t, "check")
    /\ Unlocked
    /\ annotations_dirtied \subseteq metadata_dirtied
    /\ Goto(t, "pick")
    /\ UNCHANGED <<dbVars, opf, cacheVars, changing, book, mi, seq, checks, stopping, changes, stops>>

(* ... or books that were not in it are numbered.                          *)
CheckFindsBooks(t) ==
    /\ At(t, "check")
    /\ Unlocked
    /\ ~(annotations_dirtied \subseteq metadata_dirtied)
    /\ AnnotationRowsMove
    /\ NumberDirty((metadata_dirtied \cup annotations_dirtied) \ dirty)
    /\ Goto(t, "pick")
    /\ UNCHANGED <<exists, value, opf, changing, book, mi, seq, checks, stopping, changes, stops>>

(* get_a_dirtied_book(): a random one.                                     *)
Pick(t, b) ==
    /\ At(t, "pick")
    /\ Unlocked
    /\ b \in dirty
    /\ book' = [book EXCEPT ![t] = b]
    /\ Goto(t, "get")
    /\ UNCHANGED <<dbVars, opf, cacheVars, changing, mi, seq, checks, stopping, changes, stops>>

PickNothing(t) ==
    /\ At(t, "pick")
    /\ Unlocked
    /\ dirty = {}
    /\ Goto(t, "wait")
    /\ UNCHANGED <<dbVars, opf, cacheVars, changing, book, mi, seq, checks, stopping, changes, stops>>

(* get_metadata_for_dump(): None for a book that is not dirty any more or  *)
(* has no path.                                                            *)
GetMetadataForDump(t) ==
    /\ At(t, "get")
    /\ Unlocked
    /\ LET b == book[t]
           has == b \in dirty /\ b \in exists IN
       /\ seq' = [seq EXCEPT ![t] = IF b \in dirty THEN dirtied_cache[b] ELSE NoSeq]
       /\ mi' = [mi EXCEPT ![t] = IF has THEN value[b] ELSE 0]
       /\ Goto(t, IF has THEN "convert" ELSE "clear")
    /\ UNCHANGED <<dbVars, opf, cacheVars, changing, book, checks, stopping, changes, stops>>

(* metadata_to_opf(), without a lock.                                      *)
Convert(t) ==
    /\ At(t, "convert")
    /\ Goto(t, IF book[t] \in Unconvertible THEN "clear" ELSE "write")
    /\ UNCHANGED <<dbVars, opf, cacheVars, changing, book, mi, seq, checks, stopping, changes, stops>>

(* Mutant: to the folder the book had when its metadata was read.          *)
WriteBackupBlindly(t) ==
    /\ pc[t] \in {"write", "rewrite"}
    /\ Unlocked
    /\ opf' = [opf EXCEPT ![book[t]] = mi[t]]
    /\ Goto(t, "clear")
    /\ UNCHANGED <<dbVars, cacheVars, changing, book, mi, seq, checks, stopping, changes, stops>>

(* write_backup(): to the folder the book has now, if it still has one.    *)
WriteBackup(t) ==
    /\ pc[t] \in {"write", "rewrite"}
    /\ Unlocked
    /\ opf' = [opf EXCEPT ![book[t]] = IF book[t] \in exists THEN mi[t] ELSE @]
    /\ Goto(t, "clear")
    /\ UNCHANGED <<dbVars, cacheVars, changing, book, mi, seq, checks, stopping, changes, stops>>

(* An OSError, before or after the file was truncated; two end the round.  *)
WriteBackupFails(t) ==
    /\ "oserror" \in Disturb
    /\ pc[t] \in {"write", "rewrite"}
    /\ Unlocked
    /\ book[t] \in exists
    /\ \E left \in {0, opf[book[t]]} : opf' = [opf EXCEPT ![book[t]] = left]
    /\ Goto(t, IF pc[t] = "write" THEN "rewrite" ELSE "wait")
    /\ UNCHANGED <<dbVars, cacheVars, changing, book, mi, seq, checks, stopping, changes, stops>>

(* Mutant: the sequence number is not compared.                            *)
ClearsAlways(b, s) == TRUE

(* clear_dirtied(): the book is clean unless it was marked again since.    *)
Clears(b, s) == b \notin dirty \/ s = NoSeq \/ dirtied_cache[b] = s

ClearDirtied(t) ==
    /\ At(t, "clear")
    /\ Unlocked
    /\ IF Clears(book[t], seq[t])
       THEN metadata_dirtied' = metadata_dirtied \ {book[t]} /\ ForgetDirty({book[t]})
       ELSE UNCHANGED <<metadata_dirtied, dirtied_cache>>
    /\ Goto(t, "wait")
    /\ UNCHANGED <<exists, value, annotations_dirtied, opf, dirtied_sequence, changing,
                   book, mi, seq, checks, stopping, changes, stops>>

-----------------------------------------------------------------------------
BackupStep(t) ==
    \/ Abort(t) \/ Wake(t) \/ CheckFindsNothing(t) \/ CheckFindsBooks(t)
    \/ (\E b \in Book : Pick(t, b)) \/ PickNothing(t)
    \/ GetMetadataForDump(t) \/ Convert(t)
    \/ WriteBackup(t) \/ WriteBackupFails(t) \/ ClearDirtied(t)

Others ==
    \/ \E b \in Book : \/ ChangeField(b) \/ AddBook(b) \/ SetMetadataRollsBack(b)
                       \/ Annotate(b) \/ RemoveBook(b)
    \/ ChangeIsMarked \/ PathUpdateFails \/ MarkAllDirty \/ DumpMetadata

Next ==
    \/ \E t \in Backup : BackupStep(t) \/ Start(t) \/ Stop(t)
    \/ Others
    \/ Reopen

Spec == Init /\ [][Next]_vars

(* A stopped thread is started again (bulk edit does so in a finally), the *)
(* thread is scheduled, set_field() returns, random.choice() does not      *)
(* avoid a book for ever, and a write tried again and again works at last. *)
Fairness ==
    /\ WF_vars(ChangeIsMarked)
    /\ \A t \in Backup : WF_vars(Start(t)) /\ WF_vars(BackupStep(t))
    /\ \A b \in Book :
          /\ SF_vars(\E t \in Backup : Pick(t, b))
          /\ SF_vars(\E t \in Backup : book[t] = b /\ WriteBackup(t))

FairSpec == Spec /\ Fairness

-----------------------------------------------------------------------------
(* Properties.                                                             *)

Stale(b) == b \in exists /\ opf[b] # value[b]

(* A book whose OPF file is not of its present metadata is waiting to be   *)
(* backed up, and the database says so: neither a change during the        *)
(* backup, a book removed and added again, nor a crash loses a change.     *)
StaleIsDirty ==
    Unlocked => \A b \in Book \ Unconvertible :
                   Stale(b) => b \in metadata_dirtied \cup annotations_dirtied

(* The dirty set in memory and the one in the database are the same        *)
(* whenever the write lock is free.                                        *)
CacheMatchesTable == Unlocked => dirty = metadata_dirtied

Holding(t) == pc[t] \in {"convert", "write", "rewrite", "clear"} /\ seq[t] # NoSeq

(* The sequence number a thread holds stands for the metadata it read: if  *)
(* it is still the book's own, that metadata is up to date (annotations    *)
(* are counted separately), so clearing by number clears what was saved.   *)
SequenceNamesVersion ==
    \A t \in Backup :
        LET b == book[t] IN
        Holding(t) /\ b \in dirty \cap exists /\ b # changing /\ dirtied_cache[b] = seq[t] =>
            mi[t] = value[b] \/ b \in annotations_dirtied

(* No sequence number is given out twice, whatever failed meanwhile: two   *)
(* dirty books never have the same one, and the next one to be given is    *)
(* larger than all that books have and threads hold.                       *)
NumbersAreFresh ==
    /\ \A b, c \in dirty : b # c => dirtied_cache[b] # dirtied_cache[c]
    /\ \A b \in dirty : dirtied_cache[b] < dirtied_sequence
    /\ \A t \in Backup : Holding(t) => seq[t] < dirtied_sequence

(* The backup of a book that is removed between the reading of its         *)
(* metadata and the writing of the file does not bring its folder back.    *)
GoneBooksStayGone == \A b \in Book \ exists : opf[b] = 0

(* A change gets into the OPF file some time after changes have ended.     *)
EventuallyBackedUp == \A b \in Book \ Unconvertible : Stale(b) ~> ~Stale(b)
=============================================================================
