--------------------------- MODULE LibraryBroker ---------------------------
(***************************************************************************)
(* The libraries that the GUI and its content server share,                *)
(* GuiLibraryBroker in srv/library_broker.py, with the calls of the        *)
(* server's handlers, of the GUI and of the thread that copies books to    *)
(* another library.                                                        *)
(*                                                                         *)
(* What happens under the broker's lock is one action; library_moved() of  *)
(* gui2/ui.py holds it from prepare_for_gui_library_change() to            *)
(* gui_library_changed().  Time is whether a library was used in the last  *)
(* EXPIRED_AGE seconds.  The dialogs of the GUI are modal, but messages of *)
(* another instance are served while they are open.                        *)
(***************************************************************************)
EXTENDS Naturals, FiniteSets

CONSTANTS Library,         \* locations of libraries, which are also their ids
          Handler,         \* threads of the content server
          Disturb,         \* which disturbances the instance explores
          MaxOpens,        \* bound: databases opened
          Absent, Failed   \* not in loaded_dbs; None there

ASSUME LibraryAssumption == IsFiniteSet(Library) /\ Library # {}
ASSUME DisturbAssumption == Disturb \subseteq {"load", "reload", "message"}
ASSUME BoundsAssumption == MaxOpens \in Nat \ {0} /\ Absent # Failed
                           /\ Absent \notin Nat /\ Failed \notin Nat

Db == 1..MaxOpens

VARIABLES
    lmap,                  \* the libraries known
    loaded_dbs,
    gui_library_id,
    recent,                \* last_used_times less than EXPIRED_AGE ago
    current_db,            \* the database that the GUI shows
    unread,                \* libraries of the GUI that left loaded_dbs
    dialog, fixing,        \* Restore or Check library, of which database
    shut,                  \* databases closed by them, or while shown
    made,                  \* databases opened until now
    library_of,            \* the library of each that is not closed
    handler, asked, held,  \* what each handler does, for which library
    copying                \* the database that a copy works on, or Absent

guiVars == <<gui_library_id, current_db, unread>>
fixVars == <<dialog, fixing, shut>>
brokerVars == <<lmap, loaded_dbs, recent>>
dbVars == <<made, library_of>>
handlerVars == <<handler, asked, held>>
vars == <<guiVars, fixVars, brokerVars, dbVars, handlerVars, copying>>

open == DOMAIN library_of

TypeOK ==
    /\ lmap \subseteq Library
    /\ loaded_dbs \in [Library -> Db \cup {Absent, Failed}]
    /\ gui_library_id \in Library
    /\ recent \subseteq Library
    /\ current_db \in Db
    /\ unread \subseteq Library
    /\ dialog \in {"none", "question", "check", "restore", "checked"}
    /\ fixing \in [library : Library, db : Db] \cup {Absent}
    /\ shut \subseteq Db
    /\ made \in Db
    /\ open \subseteq 1..made /\ library_of \in [open -> Library]
    /\ handler \in [Handler -> {"idle", "got", "use"}]
    /\ asked \in [Handler -> Library \cup {Absent}]
    /\ held \in [Handler -> Db \cup {Absent}]
    /\ copying \in Db \cup {Absent}

(* GuiLibraryBroker(db): the libraries of gprefs and the GUI's own one.    *)
Init ==
    /\ gui_library_id \in Library
    /\ lmap \in {S \in SUBSET Library : gui_library_id \in S}
    /\ loaded_dbs = [l \in Library |-> IF l = gui_library_id THEN 1 ELSE Absent]
    /\ recent = {}
    /\ current_db = 1
    /\ unread = {}
    /\ dialog = "none"
    /\ fixing = Absent
    /\ shut = {}
    /\ made = 1
    /\ library_of = [d \in {1} |-> gui_library_id]
    /\ handler = [h \in Handler |-> "idle"]
    /\ asked = [h \in Handler |-> Absent]
    /\ held = [h \in Handler |-> Absent]
    /\ copying = Absent

-----------------------------------------------------------------------------
Loaded(l) == loaded_dbs[l] \notin {Absent, Failed}

NextDb == made + 1

(* init_library(), or LibraryDatabase() for the GUI itself; the databases  *)
(* S are closed.                                                           *)
OpenLibrary(l, S) ==
    /\ NextDb \in Db
    /\ made' = NextDb
    /\ library_of' = [d \in (open \cup {NextDb}) \ S |->
                          IF d = NextDb THEN l ELSE library_of[d]]

Close(S) ==
    /\ library_of' = [d \in open \ S |-> library_of[d]]
    /\ UNCHANGED made

Keep(l, db) == loaded_dbs' = [loaded_dbs EXCEPT ![l] = db]

(* Mutant: the database of the GUI is pruned like the others.              *)
ExpiredAll(gui) == {l \in Library : l \notin recent /\ loaded_dbs[l] # Absent}

(* Mutant: what was used lately goes first.                                *)
ExpiredRecent(gui) ==
    {l \in Library : l # gui /\ l \in recent /\ loaded_dbs[l] # Absent}

(* What _prune_loaded_dbs() takes out.                                     *)
Expired(gui) ==
    {l \in Library : l # gui /\ l \notin recent /\ loaded_dbs[l] # Absent}

DbsOf(S) == {loaded_dbs[l] : l \in S} \ {Absent, Failed}

-----------------------------------------------------------------------------
(* get(): what is loaded, or was not when it was tried before ...          *)
GetLoaded(h, l) ==
    /\ handler[h] = "idle"
    /\ loaded_dbs[l] # Absent \/ l \notin lmap
    /\ held' = [held EXCEPT ![h] = IF Loaded(l) THEN loaded_dbs[l] ELSE Absent]
    /\ handler' = [handler EXCEPT ![h] = "got"]
    /\ asked' = [asked EXCEPT ![h] = l]
    /\ UNCHANGED <<guiVars, fixVars, brokerVars, dbVars, copying>>

(* ... or what it opens now ...                                            *)
GetOpens(h, l) ==
    /\ handler[h] = "idle"
    /\ l \in lmap /\ loaded_dbs[l] = Absent
    /\ OpenLibrary(l, {})
    /\ Keep(l, NextDb)
    /\ held' = [held EXCEPT ![h] = NextDb]
    /\ handler' = [handler EXCEPT ![h] = "got"]
    /\ asked' = [asked EXCEPT ![h] = l]
    /\ UNCHANGED <<guiVars, fixVars, lmap, recent, copying>>

(* ... unless that fails.                                                  *)
GetFails(h, l) ==
    /\ "load" \in Disturb
    /\ handler[h] = "idle"
    /\ l \in lmap /\ loaded_dbs[l] = Absent
    /\ Keep(l, Failed)
    /\ held' = [held EXCEPT ![h] = Absent]
    /\ handler' = [handler EXCEPT ![h] = "got"]
    /\ asked' = [asked EXCEPT ![h] = l]
    /\ UNCHANGED <<guiVars, fixVars, lmap, recent, dbVars, copying>>

(* The lock is released by then.                                           *)
SetLastUsed(h) ==
    /\ handler[h] = "got"
    /\ recent' = recent \cup {asked[h]}
    /\ IF held[h] = Absent
       THEN /\ handler' = [handler EXCEPT ![h] = "idle"]
            /\ asked' = [asked EXCEPT ![h] = Absent]
       ELSE /\ handler' = [handler EXCEPT ![h] = "use"]
            /\ UNCHANGED asked
    /\ UNCHANGED <<guiVars, fixVars, lmap, loaded_dbs, dbVars, held, copying>>

Respond(h) ==
    /\ handler[h] = "use"
    /\ handler' = [handler EXCEPT ![h] = "idle"]
    /\ held' = [held EXCEPT ![h] = Absent]
    /\ asked' = [asked EXCEPT ![h] = Absent]
    /\ UNCHANGED <<guiVars, fixVars, brokerVars, dbVars, copying>>

Expire(l) ==
    /\ l \in recent
    /\ recent' = recent \ {l}
    /\ UNCHANGED <<guiVars, fixVars, lmap, loaded_dbs, dbVars, handlerVars, copying>>

-----------------------------------------------------------------------------
(* The GUI.  The user acts when no dialog is open, another instance by a   *)
(* message at any time; nothing is served from "checked" to library_moved. *)
GuiIsFree == copying = Absent /\ dialog = "none"

Message == "message" \in Disturb /\ dialog # "checked"

(* get_library(), to show a book of another library ...                    *)
LibraryAt(l) ==
    /\ lmap' = lmap \cup {l}
    /\ IF Loaded(l)
       THEN UNCHANGED <<loaded_dbs, dbVars>>
       ELSE OpenLibrary(l, {}) /\ Keep(l, NextDb)

GetLibrary(l) ==
    /\ GuiIsFree \/ Message
    /\ LibraryAt(l)
    /\ UNCHANGED <<guiVars, fixVars, recent, handlerVars, copying>>

(* ... or to copy books to it, which prunes the libraries at the end.  A   *)
(* message may have moved the GUI there while a question was open.         *)
CopyTo(l) ==
    /\ GuiIsFree
    /\ l # gui_library_id \/ Message
    /\ LibraryAt(l)
    /\ copying' = loaded_dbs'[l]
    /\ UNCHANGED <<guiVars, fixVars, recent, handlerVars>>

CopyEnds ==
    /\ copying # Absent
    /\ copying' = Absent
    /\ LET S == Expired(gui_library_id) IN
       /\ loaded_dbs' = [l \in Library |-> IF l \in S THEN Absent ELSE loaded_dbs[l]]
       /\ Close(DbsOf(S))
    /\ UNCHANGED <<guiVars, fixVars, lmap, recent, handlerVars>>

(* Mutant: the entry stays in loaded_dbs.                                  *)
UnloadsKeepsEntry(l) ==
    /\ GuiIsFree
    /\ l \in lmap \ {gui_library_id}
    /\ Close(DbsOf({l}))
    /\ UNCHANGED <<loaded_dbs, guiVars, fixVars, recent, handlerVars, copying>>

(* unload_library() and remove_library(), for libraries of others; after a *)
(* message during the questions before, it may be the GUI's own.           *)
Unloads(l) ==
    /\ GuiIsFree
    /\ l \in lmap
    /\ Keep(l, Absent)
    /\ Close(DbsOf({l}))
    /\ IF l # gui_library_id
       THEN UNCHANGED <<unread, shut>>
       ELSE /\ Message
            /\ unread' = unread \cup {l}
            /\ shut' = shut \cup (DbsOf({l}) \cap {current_db})
    /\ UNCHANGED <<gui_library_id, current_db, dialog, fixing, recent, handlerVars, copying>>

UnloadLibrary(l) == Unloads(l) /\ UNCHANGED lmap

RemoveLibrary(l) == Unloads(l) /\ lmap' = lmap \ {l}

(* gui_library_changed(): the old database is closed if it is of the same  *)
(* library, then the libraries not used lately are pruned.                 *)
GuiLibraryChanged(l, db) ==
    /\ current_db' = db
    /\ gui_library_id' = l
    /\ lmap' = lmap \cup {l}
    /\ loaded_dbs' = [k \in Library |-> IF k = l THEN db
                                       ELSE IF k \in Expired(l) THEN Absent
                                       ELSE loaded_dbs[k]]
    /\ UNCHANGED <<unread, recent, handlerVars, copying>>

(* Mutant: the old database is left to the pruning.                        *)
ClosedByChangePruned(l) == DbsOf(Expired(l))

ClosedByChange(l) ==
    DbsOf(Expired(l)) \cup {d \in {current_db} \cap open : library_of[d] = l}

(* library_moved() to a library that is loaded ...                         *)
MoveToLoaded(l) ==
    /\ l # gui_library_id /\ l \in lmap /\ Loaded(l)
    /\ GuiLibraryChanged(l, loaded_dbs[l])
    /\ Close(ClosedByChange(l))

(* ... to another one, or to the same one, whose database is read again.   *)
MoveTo(l) ==
    /\ l = gui_library_id \/ ~Loaded(l)
    /\ GuiLibraryChanged(l, NextDb)
    /\ OpenLibrary(l, ClosedByChange(l))

LibraryMoved(l) == MoveToLoaded(l) \/ MoveTo(l)

(* The database cannot be read: library_moved() returns without more, but  *)
(* the database of the GUI's own library has left loaded_dbs by then.      *)
MoveFails(l) ==
    /\ "reload" \in Disturb
    /\ l = gui_library_id \/ ~Loaded(l)
    /\ IF l = gui_library_id
       THEN Keep(l, Absent) /\ unread' = unread \cup {l}
       ELSE UNCHANGED <<loaded_dbs, unread>>
    /\ UNCHANGED <<gui_library_id, current_db, lmap, recent, dbVars, handlerVars, copying>>

(* The user, or a message, switches to another library; the GUI's own one  *)
(* is read again when its folder could not be moved.                       *)
SwitchLibrary(l) ==
    /\ l # gui_library_id
    /\ GuiIsFree \/ Message
    /\ LibraryMoved(l)
    /\ UNCHANGED fixVars

ReloadLibrary ==
    /\ GuiIsFree
    /\ MoveTo(gui_library_id) \/ MoveFails(gui_library_id)
    /\ UNCHANGED fixVars

(* restore_database(): after a question the database is closed, though the *)
(* broker has it still, and rebuilt while a dialog is open.  One that the  *)
(* broker has closed meanwhile raises an error.                            *)
StartsFixing(first) ==
    /\ GuiIsFree
    /\ dialog' = first
    /\ fixing' = [library |-> gui_library_id, db |-> current_db]
    /\ UNCHANGED <<guiVars, shut, brokerVars, dbVars, handlerVars, copying>>

RestoreDatabase == StartsFixing("question")

RestoreCloses ==
    /\ dialog = "question"
    /\ fixing.db \in open
    /\ dialog' = "restore"
    /\ shut' = shut \cup {fixing.db}
    /\ Close({fixing.db})
    /\ UNCHANGED <<guiVars, fixing, brokerVars, handlerVars, copying>>

RestoreCancelled ==
    /\ dialog = "question"
    /\ dialog' = "none"
    /\ fixing' = Absent
    /\ UNCHANGED <<guiVars, shut, brokerVars, dbVars, handlerVars, copying>>

(* check_library(): what the GUI shows is closed after the dialog.         *)
CheckLibrary == StartsFixing("check")

CheckCloses ==
    /\ dialog = "check"
    /\ dialog' = "checked"
    /\ shut' = shut \cup {current_db}
    /\ Close({current_db})
    /\ UNCHANGED <<guiVars, fixing, brokerVars, handlerVars, copying>>

(* Both call library_moved() at the end.                                   *)
MoveBack ==
    /\ dialog \in {"restore", "checked"}
    /\ LibraryMoved(fixing.library) \/ MoveFails(fixing.library)
    /\ dialog' = "none"
    /\ fixing' = Absent
    /\ UNCHANGED shut

-----------------------------------------------------------------------------
HandlerStep(h) ==
    \/ \E l \in Library : GetLoaded(h, l) \/ GetOpens(h, l) \/ GetFails(h, l)
    \/ SetLastUsed(h) \/ Respond(h)

GuiStep(l) ==
    GetLibrary(l) \/ CopyTo(l) \/ UnloadLibrary(l) \/ RemoveLibrary(l) \/ SwitchLibrary(l)

FixStep ==
    \/ ReloadLibrary \/ MoveBack
    \/ RestoreDatabase \/ RestoreCloses \/ RestoreCancelled
    \/ CheckLibrary \/ CheckCloses

Next ==
    \/ \E h \in Handler : HandlerStep(h)
    \/ \E l \in Library : GuiStep(l) \/ Expire(l)
    \/ CopyEnds
    \/ FixStep

Spec == Init /\ [][Next]_vars

-----------------------------------------------------------------------------
(* Properties.                                                             *)

(* A database that the broker has is open and of the library it is kept    *)
(* for, unless Restore library or Check library has closed it without      *)
(* asking the broker: nobody else is given a closed one.                   *)
LoadedIsOpen ==
    \A l \in Library : Loaded(l) =>
        \/ loaded_dbs[l] \in open /\ library_of[loaded_dbs[l]] = l
        \/ loaded_dbs[l] \in shut

(* A library is opened once, by the GUI, the server and the copies alike:  *)
(* two Cache objects on one library would not see each other's changes.    *)
(* The exception is the GUI's own library when its entry has left          *)
(* loaded_dbs, for it could not be read again or was unloaded: then the    *)
(* next get() opens another one.                                           *)
OneDatabaseEach ==
    \A d \in open : \/ loaded_dbs[library_of[d]] = d
                   \/ library_of[d] \in unread

(* The database that the GUI shows is closed by its own commands only, not *)
(* by whatever the server's handlers make the broker do, nor by pruning    *)
(* the libraries, also when a message moved it in the middle of a dialog.  *)
GuiDatabaseIsOpen ==
    \/ current_db \in open /\ library_of[current_db] = gui_library_id
    \/ current_db \in shut

Prunes == CopyEnds \/ gui_library_id' # gui_library_id

(* Pruning, at the end of a copy or when the GUI moves, takes no database  *)
(* of a library that was used in the last EXPIRED_AGE, thus none from a    *)
(* handler that has noted its use.  One that has not yet noted it, after   *)
(* the lock was released, is not covered; README, section 7.               *)
PruningSparesRecent ==
    [][Prunes => \A d \in open : library_of[d] \in recent => d \in open']_vars

(* The database that books are copied to is open.  This one does not hold: *)
(* get_library() notes no use, and a message may move the GUI, which       *)
(* prunes, while books are copied; README, section 7.                      *)
CopyIsOpen == copying # Absent => copying \in open \cup shut
=============================================================================
