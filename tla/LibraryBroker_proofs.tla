------------------------ MODULE LibraryBroker_proofs ------------------------
(***************************************************************************)
(* Proofs about the library broker, for any set of libraries and handlers  *)
(* and any number of databases: IInv is inductive, and the properties      *)
(* follow from it.                                                         *)
(***************************************************************************)
EXTENDS LibraryBroker, TLAPS

(* What makes the properties inductive: the database that a handler holds  *)
(* is of the library it asked for, as long as it is open.                  *)
HeldIsAsked ==
    \A h \in Handler : handler[h] # "idle" =>
        /\ asked[h] \in Library
        /\ held[h] \in (1..made) \cup {Absent}
        /\ held[h] \in open => library_of[held[h]] = asked[h]

(* What the GUI shows is the entry of its library, or was.                 *)
GuiIsLoaded ==
    gui_library_id \in unread \/ loaded_dbs[gui_library_id] = current_db

(* A database is closed once, and never opened again: a new one is made.   *)
ShutIsClosed == shut \subseteq (1..made) \ open

FixingIsKnown == dialog # "none" => fixing \in [library : Library, db : Db]

GuiIInv == GuiDatabaseIsOpen /\ GuiIsLoaded /\ ShutIsClosed /\ FixingIsKnown

IInv ==
    /\ TypeOK
    /\ LoadedIsOpen
    /\ OneDatabaseEach
    /\ GuiIInv
    /\ HeldIsAsked

LEMMA Names ==
    /\ Absent \notin Db /\ Failed \notin Db /\ Absent # Failed /\ Db \subseteq Nat /\ 1 \in Db
    /\ \A n \in Db : Absent \notin 1..n /\ Failed \notin 1..n
  <1>1. \A n \in Nat : 1..n \subseteq Nat
    OBVIOUS
  <1> QED
    BY <1>1, BoundsAssumption DEF Db

LEMMA InitInvariant == Init => IInv
  <1> SUFFICES ASSUME Init PROVE IInv
    OBVIOUS
  <1>1. TypeOK
    BY Names DEF Init, TypeOK, open
  <1>2. LoadedIsOpen /\ OneDatabaseEach /\ GuiIInv
    BY Names DEF Init, LoadedIsOpen, OneDatabaseEach, GuiIInv, GuiDatabaseIsOpen, GuiIsLoaded,
                 ShutIsClosed, FixingIsKnown, Loaded, open
  <1>3. HeldIsAsked
    BY DEF Init, HeldIsAsked
  <1> QED
    BY <1>1, <1>2, <1>3 DEF IInv

-----------------------------------------------------------------------------
(* A database that is opened is a new one; those not in S stay open.       *)
LEMMA Opened ==
  ASSUME IInv, NEW l \in Library, NEW S, OpenLibrary(l, S)
  PROVE  /\ NextDb \in Db /\ NextDb \notin open /\ made' = NextDb /\ made \in Nat
         /\ open' = (open \cup {NextDb}) \ S
         /\ \A d \in open' : library_of'[d] = IF d = NextDb THEN l ELSE library_of[d]
         /\ (open' \subseteq 1..made') /\ library_of' \in [open' -> Library]
         /\ 1..made \subseteq 1..made' /\ made' \in Db
         /\ NextDb \in 1..made' /\ NextDb \notin 1..made /\ Absent \notin open'
  <1>1. made \in Nat /\ open \subseteq 1..made /\ library_of \in [open -> Library]
    BY Names DEF IInv, TypeOK
  <1>2. /\ NextDb \in Db /\ NextDb \notin open /\ made' = NextDb
        /\ 1..made \subseteq 1..made' /\ NextDb \in 1..made' /\ NextDb \notin 1..made
    BY <1>1 DEF OpenLibrary, NextDb, Db
  <1>3. library_of' = [d \in (open \cup {NextDb}) \ S |-> IF d = NextDb THEN l ELSE library_of[d]]
    BY DEF OpenLibrary
  <1>4. open' = (open \cup {NextDb}) \ S
    BY <1>3 DEF open
  <1>5. \A d \in open' : library_of'[d] = IF d = NextDb THEN l ELSE library_of[d]
    BY <1>3, <1>4
  <1>6. library_of' \in [open' -> Library]
    BY <1>1, <1>3, <1>4
  <1>7. open' \subseteq 1..made'
    BY <1>1, <1>2, <1>4
  <1>8. Absent \notin open'
    BY <1>2, <1>7, Names
  <1> QED
    BY <1>1, <1>2, <1>4, <1>5, <1>6, <1>7, <1>8

LEMMA Closed ==
  ASSUME IInv, NEW S, Close(S)
  PROVE  /\ made' = made
         /\ open' = open \ S
         /\ \A d \in open' : library_of'[d] = library_of[d]
         /\ open' \subseteq 1..made' /\ library_of' \in [open' -> Library]
  <1>1. library_of' = [d \in open \ S |-> library_of[d]] /\ made' = made
    BY DEF Close
  <1>2. open' = open \ S
    BY <1>1 DEF open
  <1> QED
    BY <1>1, <1>2 DEF IInv, TypeOK

(* The databases that loaded_dbs has for some libraries are theirs, or were *)
(* closed by the GUI; what the GUI shows is its library's.                 *)
LEMMA DbsAreTheirs ==
  ASSUME IInv, NEW S \in SUBSET Library
  PROVE  /\ DbsOf(S) \subseteq open \cup shut
         /\ DbsOf(S) \subseteq 1..made
         /\ \A d \in DbsOf(S) \cap open : library_of[d] \in S
  <1>1. ASSUME NEW d \in DbsOf(S)
        PROVE  d \in open \cup shut /\ (d \in open => library_of[d] \in S)
    <2>1. PICK l \in S : d = loaded_dbs[l] /\ Loaded(l)
      BY DEF DbsOf, Loaded
    <2> QED
      BY <2>1 DEF IInv, GuiIInv, LoadedIsOpen, ShutIsClosed
  <1>2. open \subseteq 1..made /\ shut \subseteq 1..made
    BY DEF IInv, GuiIInv, TypeOK, ShutIsClosed
  <1> QED
    BY <1>1, <1>2

(* The databases that are loaded, shown or closed exist, thus a new one is *)
(* none of them.                                                           *)
LEMMA AllAreMade ==
  ASSUME IInv
  PROVE  /\ \A l \in Library : Loaded(l) => loaded_dbs[l] \in 1..made
         /\ current_db \in 1..made
         /\ shut \subseteq 1..made /\ shut \cap open = {} /\ open \subseteq 1..made
         /\ made \in Nat /\ made + 1 \notin 1..made /\ 1..made \subseteq Db
  <1>1. shut \subseteq (1..made) \ open /\ open \subseteq 1..made /\ made \in Db
    BY DEF IInv, GuiIInv, TypeOK, ShutIsClosed
  <1>2. current_db \in 1..made
    BY <1>1 DEF IInv, GuiIInv, GuiDatabaseIsOpen
  <1>3. \A l \in Library : Loaded(l) => loaded_dbs[l] \in 1..made
    BY <1>1 DEF IInv, LoadedIsOpen
  <1>4. made \in Nat /\ made + 1 \notin 1..made /\ 1..made \subseteq Db
    BY <1>1, BoundsAssumption DEF Db
  <1> QED
    BY <1>1, <1>2, <1>3, <1>4

(* A handler gets db, of library l, while the databases of the others keep  *)
(* theirs.                                                                 *)
LEMMA HandlerGets ==
  ASSUME IInv, NEW h \in Handler, NEW l \in Library, NEW db,
         held' = [held EXCEPT ![h] = db],
         handler' = [handler EXCEPT ![h] = "got"],
         asked' = [asked EXCEPT ![h] = l],
         db \in (1..made') \cup {Absent},
         db \in open' => library_of'[db] = l,
         1..made \subseteq 1..made',
         \A d \in open' : d \in 1..made => d \in open /\ library_of'[d] = library_of[d],
         Absent \notin open'
  PROVE  HeldIsAsked'
  <1> SUFFICES ASSUME NEW k \in Handler, handler'[k] # "idle"
               PROVE  /\ asked'[k] \in Library
                      /\ held'[k] \in (1..made') \cup {Absent}
                      /\ held'[k] \in open' => library_of'[held'[k]] = asked'[k]
    BY DEF HeldIsAsked
  <1>0. h \in DOMAIN held /\ h \in DOMAIN asked /\ h \in DOMAIN handler /\ k \in DOMAIN held
        /\ k \in DOMAIN asked /\ k \in DOMAIN handler
    BY DEF IInv, TypeOK
  <1>1. CASE k = h
    BY <1>0, <1>1
  <1>2. CASE k # h
    <2>1. held'[k] = held[k] /\ asked'[k] = asked[k] /\ handler'[k] = handler[k]
      BY <1>0, <1>2
    <2>2. /\ asked[k] \in Library
          /\ held[k] \in (1..made) \cup {Absent}
          /\ held[k] \in open => library_of[held[k]] = asked[k]
      BY <2>1 DEF IInv, HeldIsAsked
    <2> QED
      BY <2>1, <2>2
  <1> QED
    BY <1>1, <1>2

(* No handler gets or gives up anything.                                   *)
LEMMA HandlersKeep ==
  ASSUME IInv, UNCHANGED handlerVars,
         1..made \subseteq 1..made',
         \A d \in open' : d \in 1..made => d \in open /\ library_of'[d] = library_of[d],
         Absent \notin open'
  PROVE  HeldIsAsked'
  <1> SUFFICES ASSUME NEW k \in Handler, handler[k] # "idle"
               PROVE  /\ asked[k] \in Library
                      /\ held[k] \in (1..made') \cup {Absent}
                      /\ held[k] \in open' => library_of'[held[k]] = asked[k]
    BY DEF HeldIsAsked, handlerVars
  <1>1. /\ asked[k] \in Library
        /\ held[k] \in (1..made) \cup {Absent}
        /\ held[k] \in open => library_of[held[k]] = asked[k]
    BY DEF IInv, HeldIsAsked
  <1> QED
    BY <1>1

(* What is loaded after loaded_dbs[l] was replaced.                        *)
LEMMA Kept ==
  ASSUME IInv, NEW l \in Library, NEW db \in Db \cup {Absent, Failed}, Keep(l, db)
  PROVE  /\ loaded_dbs' \in [Library -> Db \cup {Absent, Failed}]
         /\ loaded_dbs'[l] = db
         /\ \A k \in Library \ {l} : loaded_dbs'[k] = loaded_dbs[k]
  BY DEF IInv, TypeOK, Keep

(* Opening a library that is not loaded, and entering it in loaded_dbs.    *)
LEMMA Entered ==
  ASSUME IInv, NEW l \in Library, OpenLibrary(l, {}), Keep(l, NextDb), ~Loaded(l),
         UNCHANGED <<guiVars, fixVars>>
  PROVE  LoadedIsOpen' /\ OneDatabaseEach' /\ GuiIInv'
  <1> USE DEF guiVars, fixVars
  <1>1. /\ NextDb \in Db /\ NextDb \notin open /\ made' = NextDb
        /\ open' = open \cup {NextDb}
        /\ \A d \in open' : library_of'[d] = IF d = NextDb THEN l ELSE library_of[d]
        /\ 1..made \subseteq 1..made' /\ NextDb \notin 1..made
    BY Opened
  <1>2. /\ loaded_dbs'[l] = NextDb
        /\ \A k \in Library \ {l} : loaded_dbs'[k] = loaded_dbs[k]
    BY <1>1, Kept
  <1>3. LoadedIsOpen'
    BY <1>1, <1>2 DEF IInv, LoadedIsOpen, Loaded
  <1>4. OneDatabaseEach'
    <2> SUFFICES ASSUME NEW d \in open'
                 PROVE  loaded_dbs'[library_of'[d]] = d \/ library_of'[d] \in unread
      BY DEF OneDatabaseEach
    <2>1. CASE d = NextDb
      BY <1>1, <1>2, <2>1
    <2>2. CASE d # NextDb
      <3>1. d \in open /\ library_of'[d] = library_of[d] /\ library_of[d] \in Library
        BY <1>1, <2>2 DEF IInv, TypeOK
      <3>2. loaded_dbs[library_of[d]] = d \/ library_of[d] \in unread
        BY <3>1 DEF IInv, OneDatabaseEach
      <3>3. d \notin {Absent, Failed}
        BY <3>1, Names DEF IInv, TypeOK
      <3>4. library_of[d] # l \/ library_of[d] \in unread
        BY <3>2, <3>3 DEF Loaded
      <3> QED
        BY <1>2, <3>1, <3>2, <3>4
    <2> QED
      BY <2>1, <2>2
  <1>5. GuiDatabaseIsOpen'
    BY <1>1 DEF IInv, GuiIInv, GuiDatabaseIsOpen, TypeOK
  <1>6. GuiIsLoaded'
    <2>1. gui_library_id \in Library /\ current_db \notin {Absent, Failed}
      BY Names DEF IInv, TypeOK
    <2>2. gui_library_id \in unread \/ gui_library_id # l
      BY <2>1 DEF IInv, GuiIInv, GuiIsLoaded, Loaded
    <2> QED
      BY <1>2, <2>1, <2>2 DEF IInv, GuiIInv, GuiIsLoaded
  <1>7. ShutIsClosed' /\ FixingIsKnown'
    BY <1>1 DEF IInv, GuiIInv, ShutIsClosed, FixingIsKnown
  <1> QED
    BY <1>3, <1>4, <1>5, <1>6, <1>7 DEF GuiIInv

(* Nothing is opened, closed, loaded or shown.                             *)
LEMMA NothingMoves ==
  ASSUME IInv, UNCHANGED <<loaded_dbs, made, library_of, guiVars, fixVars>>
  PROVE  LoadedIsOpen' /\ OneDatabaseEach' /\ GuiIInv'
  BY DEF IInv, LoadedIsOpen, OneDatabaseEach, GuiIInv, GuiDatabaseIsOpen, GuiIsLoaded,
         ShutIsClosed, FixingIsKnown, Loaded, open, guiVars, fixVars

-----------------------------------------------------------------------------
(* The server's handlers.                                                  *)
LEMMA GetLoadedStep ==
  ASSUME IInv, NEW h \in Handler, NEW l \in Library, GetLoaded(h, l)
  PROVE  IInv'
  <1> USE DEF GetLoaded, guiVars, fixVars, brokerVars, dbVars
  <1>1. TypeOK'
    <2>1. held' \in [Handler -> Db \cup {Absent}]
      BY DEF IInv, TypeOK, Loaded
    <2> QED
      BY <2>1 DEF IInv, TypeOK, open
  <1>2. LoadedIsOpen' /\ OneDatabaseEach' /\ GuiIInv'
    BY NothingMoves
  <1>3. HeldIsAsked'
    <2> DEFINE db == IF Loaded(l) THEN loaded_dbs[l] ELSE Absent
    <2>1. Absent \notin open /\ open \subseteq 1..made /\ open' = open
      BY Names DEF IInv, TypeOK, open
    <2>2. db \in (1..made) \cup {Absent}
      BY AllAreMade
    <2>3. db \in open => library_of[db] = l
      BY <2>1, AllAreMade DEF IInv, LoadedIsOpen
    <2> QED
      BY <2>1, <2>2, <2>3, HandlerGets
  <1> QED
    BY <1>1, <1>2, <1>3 DEF IInv

LEMMA GetOpensStep ==
  ASSUME IInv, NEW h \in Handler, NEW l \in Library, GetOpens(h, l)
  PROVE  IInv'
  <1> USE DEF GetOpens, Keep, guiVars, fixVars
  <1>0. /\ NextDb \in Db /\ NextDb \notin open /\ made' = NextDb /\ made \in Nat
        /\ NextDb \in 1..made' /\ NextDb \notin 1..made /\ Absent \notin open'
        /\ open' = open \cup {NextDb}
        /\ \A d \in open' : library_of'[d] = IF d = NextDb THEN l ELSE library_of[d]
        /\ open' \subseteq 1..made' /\ library_of' \in [open' -> Library]
        /\ 1..made \subseteq 1..made' /\ made' \in Db
    BY Opened
  <1>1. TypeOK'
    BY <1>0, Names DEF IInv, TypeOK
  <1>2. LoadedIsOpen' /\ OneDatabaseEach' /\ GuiIInv'
    BY Entered DEF Loaded
  <1>3. HeldIsAsked'
    <2>1. \A d \in open' : d \in 1..made => d \in open /\ library_of'[d] = library_of[d]
      BY <1>0
    <2>2. NextDb \in open' /\ library_of'[NextDb] = l
      BY <1>0
    <2> QED
      BY <1>0, <2>1, <2>2, HandlerGets
  <1> QED
    BY <1>1, <1>2, <1>3 DEF IInv

LEMMA GetFailsStep ==
  ASSUME IInv, NEW h \in Handler, NEW l \in Library, GetFails(h, l)
  PROVE  IInv'
  <1> USE DEF GetFails, guiVars, fixVars, dbVars
  <1>0. /\ loaded_dbs' \in [Library -> Db \cup {Absent, Failed}] /\ loaded_dbs'[l] = Failed
        /\ \A k \in Library \ {l} : loaded_dbs'[k] = loaded_dbs[k]
    BY Kept
  <1>1. TypeOK'
    BY <1>0, Names DEF IInv, TypeOK, open
  <1>2. LoadedIsOpen' /\ OneDatabaseEach'
    <2>1. open' = open /\ library_of \in [open -> Library] /\ Absent \notin open
      BY Names DEF IInv, TypeOK, open
    <2> QED
      BY <1>0, <2>1 DEF IInv, LoadedIsOpen, OneDatabaseEach, Loaded
  <1>3. GuiIInv'
    <2>1. gui_library_id \in Library /\ current_db # Absent /\ open' = open
      BY Names DEF IInv, TypeOK, open
    <2> QED
      BY <1>0, <2>1 DEF IInv, GuiIInv, GuiDatabaseIsOpen, GuiIsLoaded, ShutIsClosed, FixingIsKnown
  <1>4. HeldIsAsked'
    <2>1. Absent \notin open /\ open' = open
      BY Names DEF IInv, TypeOK, open
    <2> QED
      BY <2>1, HandlerGets
  <1> QED
    BY <1>1, <1>2, <1>3, <1>4 DEF IInv

LEMMA SetLastUsedStep ==
  ASSUME IInv, NEW h \in Handler, SetLastUsed(h)
  PROVE  IInv'
  <1> USE DEF SetLastUsed, guiVars, fixVars, dbVars
  <1>1. TypeOK'
    BY DEF IInv, TypeOK, HeldIsAsked, open
  <1>2. LoadedIsOpen' /\ OneDatabaseEach' /\ GuiIInv'
    BY NothingMoves
  <1>3. HeldIsAsked'
    BY DEF IInv, TypeOK, HeldIsAsked, open
  <1> QED
    BY <1>1, <1>2, <1>3 DEF IInv

LEMMA RespondStep ==
  ASSUME IInv, NEW h \in Handler, Respond(h)
  PROVE  IInv'
  <1> USE DEF Respond, guiVars, fixVars, brokerVars, dbVars
  <1>1. TypeOK'
    BY DEF IInv, TypeOK, open
  <1>2. LoadedIsOpen' /\ OneDatabaseEach' /\ GuiIInv'
    BY NothingMoves
  <1>3. HeldIsAsked'
    BY DEF IInv, TypeOK, HeldIsAsked, open
  <1> QED
    BY <1>1, <1>2, <1>3 DEF IInv

LEMMA ExpireStep ==
  ASSUME IInv, NEW l \in Library, Expire(l)
  PROVE  IInv'
  <1> USE DEF Expire, guiVars, fixVars, dbVars, handlerVars
  <1>1. TypeOK'
    BY DEF IInv, TypeOK, open
  <1>2. LoadedIsOpen' /\ OneDatabaseEach' /\ GuiIInv'
    BY NothingMoves
  <1>3. HeldIsAsked'
    BY DEF IInv, HeldIsAsked, open
  <1> QED
    BY <1>1, <1>2, <1>3 DEF IInv

-----------------------------------------------------------------------------
(* The GUI.                                                                *)

(* A library that the GUI asks for is loaded afterwards.                   *)
LEMMA LibraryAtStep ==
  ASSUME IInv, NEW l \in Library, LibraryAt(l),
         UNCHANGED <<guiVars, fixVars, recent, handlerVars>>,
         copying' = copying \/ copying' = loaded_dbs'[l]
  PROVE  IInv'
  <1> USE DEF guiVars, fixVars, handlerVars
  <1>1. CASE Loaded(l)
    <2>1. UNCHANGED <<loaded_dbs, made, library_of, open>>
      BY <1>1 DEF LibraryAt, dbVars, open
    <2>2. loaded_dbs[l] \in Db
      BY <1>1 DEF IInv, Loaded, TypeOK
    <2>3. TypeOK'
      BY <2>1, <2>2 DEF IInv, TypeOK, LibraryAt
    <2>4. LoadedIsOpen' /\ OneDatabaseEach' /\ GuiIInv'
      BY <2>1, NothingMoves
    <2>5. HeldIsAsked'
      BY <2>1 DEF IInv, HeldIsAsked
    <2> QED
      BY <2>3, <2>4, <2>5 DEF IInv
  <1>2. CASE ~Loaded(l)
    <2>1. OpenLibrary(l, {}) /\ Keep(l, NextDb) /\ lmap' = lmap \cup {l}
      BY <1>2 DEF LibraryAt
    <2>2. /\ NextDb \in Db /\ NextDb \notin open /\ made' = NextDb /\ made \in Nat
          /\ NextDb \notin 1..made /\ Absent \notin open'
          /\ open' = open \cup {NextDb}
          /\ \A d \in open' : library_of'[d] = IF d = NextDb THEN l ELSE library_of[d]
          /\ open' \subseteq 1..made' /\ library_of' \in [open' -> Library]
          /\ 1..made \subseteq 1..made' /\ made' \in Db
      BY <2>1, Opened
    <2>3. loaded_dbs' \in [Library -> Db \cup {Absent, Failed}] /\ loaded_dbs'[l] = NextDb
      BY <2>1, <2>2, Kept
    <2>4. TypeOK'
      BY <2>1, <2>2, <2>3 DEF IInv, TypeOK
    <2>5. LoadedIsOpen' /\ OneDatabaseEach' /\ GuiIInv'
      BY <1>2, <2>1, Entered
    <2>6. HeldIsAsked'
      <3>1. \A d \in open' : d \in 1..made => d \in open /\ library_of'[d] = library_of[d]
        BY <2>2
      <3> QED
        BY <2>2, <3>1, HandlersKeep
    <2> QED
      BY <2>4, <2>5, <2>6 DEF IInv
  <1> QED
    BY <1>1, <1>2

LEMMA GetLibraryStep ==
  ASSUME IInv, NEW l \in Library, GetLibrary(l)
  PROVE  IInv'
  BY LibraryAtStep DEF GetLibrary

LEMMA CopyToStep ==
  ASSUME IInv, NEW l \in Library, CopyTo(l)
  PROVE  IInv'
  BY LibraryAtStep DEF CopyTo

(* Taking the databases of some libraries out of loaded_dbs and closing    *)
(* them; the GUI's own library is one of those only by its own command.    *)
LEMMA TakenOut ==
  ASSUME IInv, NEW S \in SUBSET Library,
         loaded_dbs' = [l \in Library |-> IF l \in S THEN Absent ELSE loaded_dbs[l]],
         Close(DbsOf(S)),
         lmap' \in SUBSET Library,
         unread \subseteq unread', unread' \in SUBSET Library,
         shut \subseteq shut', shut' \subseteq shut \cup DbsOf(S),
         gui_library_id \in S =>
             gui_library_id \in unread' /\ (current_db \in DbsOf(S) => current_db \in shut'),
         UNCHANGED <<gui_library_id, current_db, dialog, fixing, recent, handlerVars>>,
         copying' \in {copying, Absent}
  PROVE  IInv'
  <1> USE DEF handlerVars
  <1>1. /\ made' = made /\ open' = open \ DbsOf(S)
        /\ \A d \in open' : library_of'[d] = library_of[d]
        /\ open' \subseteq 1..made' /\ library_of' \in [open' -> Library]
    BY Closed
  <1>2. DbsOf(S) \subseteq 1..made /\ \A d \in DbsOf(S) \cap open : library_of[d] \in S
    BY DbsAreTheirs
  <1>3. shut' \subseteq (1..made') \ open'
    BY <1>1, <1>2, AllAreMade
  <1>4. TypeOK'
    <2>1. shut' \subseteq Db
      BY <1>1, <1>3, AllAreMade
    <2> QED
      BY <1>1, <2>1 DEF IInv, TypeOK
  <1>5. LoadedIsOpen'
    <2> SUFFICES ASSUME NEW l \in Library, Loaded(l)'
                 PROVE  \/ loaded_dbs'[l] \in open' /\ library_of'[loaded_dbs'[l]] = l
                        \/ loaded_dbs'[l] \in shut'
      BY DEF LoadedIsOpen
    <2>1. l \notin S /\ loaded_dbs'[l] = loaded_dbs[l]
      BY DEF Loaded
    <2>2. \/ loaded_dbs[l] \in open /\ library_of[loaded_dbs[l]] = l
          \/ loaded_dbs[l] \in shut
      BY <2>1 DEF IInv, LoadedIsOpen, Loaded
    <2> QED
      BY <1>1, <1>2, <2>1, <2>2
  <1>6. OneDatabaseEach'
    <2> SUFFICES ASSUME NEW d \in open'
                 PROVE  loaded_dbs'[library_of'[d]] = d \/ library_of'[d] \in unread'
      BY DEF OneDatabaseEach
    <2>1. d \in open /\ d \notin DbsOf(S) /\ library_of'[d] = library_of[d] /\ library_of[d] \in Library
      BY <1>1 DEF IInv, TypeOK
    <2>2. d \notin {Absent, Failed}
      BY <2>1, Names DEF IInv, TypeOK
    <2>3. loaded_dbs[library_of[d]] = d \/ library_of[d] \in unread
      BY <2>1 DEF IInv, OneDatabaseEach
    <2>4. loaded_dbs[library_of[d]] = d => library_of[d] \notin S
      BY <2>1, <2>2 DEF DbsOf
    <2> QED
      BY <2>1, <2>3, <2>4
  <1>7. GuiDatabaseIsOpen'
    <2>1. \/ current_db \in open /\ library_of[current_db] = gui_library_id
          \/ current_db \in shut
      BY DEF IInv, GuiIInv, GuiDatabaseIsOpen
    <2> QED
      BY <1>1, <1>2, <2>1 DEF GuiDatabaseIsOpen
  <1>8. GuiIsLoaded'
    <2>1. gui_library_id \in Library
      BY DEF IInv, TypeOK
    <2> QED
      BY <2>1 DEF IInv, GuiIInv, GuiIsLoaded
  <1>9. GuiIInv'
    BY <1>3, <1>7, <1>8 DEF IInv, GuiIInv, ShutIsClosed, FixingIsKnown
  <1>10. HeldIsAsked'
    <2>1. Absent \notin open'
      BY <1>1, Names DEF IInv, TypeOK
    <2> QED
      BY <1>1, <2>1, HandlersKeep
  <1> QED
    BY <1>4, <1>5, <1>6, <1>9, <1>10 DEF IInv

LEMMA CopyEndsStep == IInv /\ CopyEnds => IInv'
  <1> SUFFICES ASSUME IInv, CopyEnds PROVE IInv'
    OBVIOUS
  <1>1. Expired(gui_library_id) \in SUBSET Library /\ gui_library_id \notin Expired(gui_library_id)
    BY DEF Expired
  <1>2. lmap' \in SUBSET Library /\ unread' \in SUBSET Library
    BY DEF CopyEnds, IInv, TypeOK, guiVars
  <1> QED
    BY <1>1, <1>2, TakenOut DEF CopyEnds, guiVars, fixVars

LEMMA UnloadsStep ==
  ASSUME IInv, NEW l \in Library, Unloads(l), lmap' \in SUBSET lmap
  PROVE  IInv'
  <1>1. loaded_dbs' = [k \in Library |-> IF k \in {l} THEN Absent ELSE loaded_dbs[k]]
    BY DEF Unloads, Keep, IInv, TypeOK
  <1>2. lmap' \in SUBSET Library /\ copying' \in {copying, Absent}
    BY DEF Unloads, IInv, TypeOK
  <1>3. /\ unread \subseteq unread' /\ unread' \in SUBSET Library
        /\ shut \subseteq shut' /\ shut' \subseteq shut \cup DbsOf({l})
        /\ gui_library_id \in {l} =>
             gui_library_id \in unread' /\ (current_db \in DbsOf({l}) => current_db \in shut')
    BY DEF Unloads, IInv, TypeOK
  <1>4. Close(DbsOf({l})) /\ UNCHANGED <<gui_library_id, current_db, dialog, fixing, recent, handlerVars>>
    BY DEF Unloads
  <1> QED
    BY <1>1, <1>2, <1>3, <1>4, TakenOut

(* A dialog is left as it is, or closed.                                   *)
FixedAlike ==
    UNCHANGED <<dialog, fixing>> \/ (dialog' = "none" /\ fixing' = Absent)

(* The library of the GUI changes: l is shown in database db from now on,  *)
(* which is the one loaded or a new one.                                   *)
LEMMA Changed ==
  ASSUME IInv, NEW l \in Library, NEW db \in Db, GuiLibraryChanged(l, db),
         made' \in Db, 1..made \subseteq 1..made', db \in 1..made',
         open \ ClosedByChange(l) \subseteq open',
         open' \subseteq (open \cup {db}) \ ClosedByChange(l),
         \A d \in open' : library_of'[d] = IF d = db THEN l ELSE library_of[d],
         open' \subseteq 1..made', library_of' \in [open' -> Library], Absent \notin open',
         db \in open' \/ db \in shut,
         shut \cap open' = {},
         db \in 1..made => (db \in open' => db \in open),
         db \in open => library_of[db] = l,
         \/ l # gui_library_id /\ Loaded(l) /\ db = loaded_dbs[l]
         \/ l = gui_library_id
         \/ ~Loaded(l),
         FixedAlike, UNCHANGED shut
  PROVE  IInv'
  <1> USE DEF GuiLibraryChanged
  <1> DEFINE S == Expired(l)
  <1>0. S \in SUBSET Library /\ l \notin S
    BY DEF Expired
  <1>1. \A d \in DbsOf(S) \cap open : library_of[d] \in S
    BY <1>0, DbsAreTheirs
  <1>2. db \notin {Absent, Failed} /\ (db \in open' => library_of'[db] = l)
    BY Names
  <1>3. /\ loaded_dbs' \in [Library -> Db \cup {Absent, Failed}]
        /\ loaded_dbs'[l] = db
        /\ \A k \in Library \ {l} : loaded_dbs'[k] = IF k \in S THEN Absent ELSE loaded_dbs[k]
    BY DEF IInv, TypeOK
  <1>4. TypeOK'
    BY <1>3 DEF IInv, TypeOK, handlerVars, FixedAlike
  <1>5. LoadedIsOpen'
    <2> SUFFICES ASSUME NEW k \in Library, Loaded(k)'
                 PROVE  \/ loaded_dbs'[k] \in open' /\ library_of'[loaded_dbs'[k]] = k
                        \/ loaded_dbs'[k] \in shut
      BY DEF LoadedIsOpen
    <2>1. CASE k = l
      BY <1>2, <1>3, <2>1
    <2>2. CASE k # l
      <3>1. k \notin S /\ loaded_dbs'[k] = loaded_dbs[k] /\ Loaded(k)
        BY <1>3, <2>2 DEF Loaded
      <3>2. \/ loaded_dbs[k] \in open /\ library_of[loaded_dbs[k]] = k
            \/ loaded_dbs[k] \in shut
        BY <3>1 DEF IInv, LoadedIsOpen
      <3>3. CASE loaded_dbs[k] \in open /\ library_of[loaded_dbs[k]] = k
        <4>1. loaded_dbs[k] \notin ClosedByChange(l) /\ loaded_dbs[k] # db
          BY <1>1, <2>2, <3>1, <3>3 DEF ClosedByChange
        <4> QED
          BY <3>1, <3>3, <4>1
      <3> QED
        BY <3>1, <3>2, <3>3
    <2> QED
      BY <2>1, <2>2
  <1>6. OneDatabaseEach'
    <2> SUFFICES ASSUME NEW d \in open'
                 PROVE  loaded_dbs'[library_of'[d]] = d \/ library_of'[d] \in unread
      BY DEF OneDatabaseEach
    <2>1. CASE d = db
      BY <1>2, <1>3, <2>1
    <2>2. CASE d # db
      <3>1. /\ d \in open /\ d \notin ClosedByChange(l) /\ library_of'[d] = library_of[d]
            /\ library_of[d] \in Library /\ d \notin {Absent, Failed}
        BY <2>2, Names DEF IInv, TypeOK
      <3>2. loaded_dbs[library_of[d]] = d \/ library_of[d] \in unread
        BY <3>1 DEF IInv, OneDatabaseEach
      <3>3. library_of[d] = l => l \in unread
        <4> SUFFICES ASSUME library_of[d] = l, l \notin unread PROVE FALSE
          OBVIOUS
        <4>1. loaded_dbs[l] = d /\ Loaded(l)
          BY <3>1, <3>2 DEF Loaded
        <4>2. l = gui_library_id
          BY <2>2, <4>1
        <4>3. d = current_db
          BY <4>1, <4>2 DEF IInv, GuiIInv, GuiIsLoaded
        <4> QED
          BY <3>1, <4>3 DEF ClosedByChange
      <3>4. loaded_dbs[library_of[d]] = d => library_of[d] \notin S
        BY <3>1 DEF DbsOf, ClosedByChange
      <3> QED
        BY <1>3, <3>1, <3>2, <3>3, <3>4
    <2> QED
      BY <2>1, <2>2
  <1>7. GuiDatabaseIsOpen' /\ GuiIsLoaded'
    BY <1>2, <1>3 DEF GuiDatabaseIsOpen, GuiIsLoaded
  <1>8. ShutIsClosed' /\ FixingIsKnown'
    BY DEF IInv, GuiIInv, ShutIsClosed, FixingIsKnown, FixedAlike
  <1>9. HeldIsAsked'
    <2>1. \A d \in open' : d \in 1..made => d \in open /\ library_of'[d] = library_of[d]
      OBVIOUS
    <2> QED
      BY <2>1, HandlersKeep
  <1> QED
    BY <1>4, <1>5, <1>6, <1>7, <1>8, <1>9 DEF IInv, GuiIInv

LEMMA MoveToLoadedStep ==
  ASSUME IInv, NEW l \in Library, MoveToLoaded(l), FixedAlike, UNCHANGED shut
  PROVE  IInv'
  <1> DEFINE db == loaded_dbs[l]
  <1>1. /\ made' = made /\ open' = open \ ClosedByChange(l)
        /\ \A d \in open' : library_of'[d] = library_of[d]
        /\ open' \subseteq 1..made' /\ library_of' \in [open' -> Library]
    BY Closed DEF MoveToLoaded
  <1>2. db \in Db /\ db \in 1..made /\ Loaded(l)
    BY AllAreMade DEF MoveToLoaded, IInv, Loaded, TypeOK
  <1>3. db \in open => library_of[db] = l
    BY <1>2, AllAreMade DEF IInv, LoadedIsOpen
  <1>4. db \in open => db \notin ClosedByChange(l)
    <2> SUFFICES ASSUME db \in open PROVE db \notin ClosedByChange(l)
      OBVIOUS
    <2>1. db \notin DbsOf(Expired(l))
      <3>1. Expired(l) \in SUBSET Library /\ l \notin Expired(l)
        BY DEF Expired
      <3> QED
        BY <1>3, <3>1, DbsAreTheirs
    <2>2. ~(current_db \in open /\ library_of[current_db] = l)
      BY AllAreMade DEF MoveToLoaded, IInv, GuiIInv, GuiDatabaseIsOpen
    <2> QED
      BY <2>1, <2>2 DEF ClosedByChange
  <1>5. db \in open' \/ db \in shut
    BY <1>1, <1>2, <1>4 DEF IInv, LoadedIsOpen
  <1>6. made' \in Db /\ Absent \notin open' /\ shut \cap open' = {}
    BY <1>1, Names, AllAreMade DEF IInv, TypeOK
  <1>7. GuiLibraryChanged(l, db) /\ l # gui_library_id /\ db = loaded_dbs[l]
    BY DEF MoveToLoaded
  <1> HIDE DEF db
  <1>8. open \ ClosedByChange(l) \subseteq open' /\ open' \subseteq (open \cup {db}) \ ClosedByChange(l)
    BY <1>1
  <1>9. \A d \in open' : library_of'[d] = IF d = db THEN l ELSE library_of[d]
    BY <1>1, <1>3
  <1> QED
    BY <1>1, <1>2, <1>3, <1>5, <1>6, <1>7, <1>8, <1>9, Changed

LEMMA MoveToStep ==
  ASSUME IInv, NEW l \in Library, MoveTo(l), FixedAlike, UNCHANGED shut
  PROVE  IInv'
  <1>1. /\ NextDb \in Db /\ NextDb \notin open /\ made' = NextDb /\ made \in Nat
        /\ open' = (open \cup {NextDb}) \ ClosedByChange(l)
        /\ \A d \in open' : library_of'[d] = IF d = NextDb THEN l ELSE library_of[d]
        /\ (open' \subseteq 1..made') /\ library_of' \in [open' -> Library]
        /\ 1..made \subseteq 1..made' /\ made' \in Db
        /\ NextDb \in 1..made' /\ NextDb \notin 1..made /\ Absent \notin open'
    BY Opened DEF MoveTo
  <1>2. NextDb \notin ClosedByChange(l)
    <2>1. DbsOf(Expired(l)) \subseteq 1..made
      BY DbsAreTheirs DEF Expired
    <2> QED
      BY <1>1, <2>1 DEF ClosedByChange
  <1>3. shut \cap open' = {} /\ NextDb \in open'
    BY <1>1, <1>2, AllAreMade
  <1>4. l = gui_library_id \/ ~Loaded(l)
    BY DEF MoveTo
  <1>5. GuiLibraryChanged(l, NextDb)
    BY DEF MoveTo
  <1> QED
    BY <1>1, <1>2, <1>3, <1>4, <1>5, Changed

LEMMA MoveFailsStep ==
  ASSUME IInv, NEW l \in Library, MoveFails(l), FixedAlike, UNCHANGED shut
  PROVE  IInv'
  <1> USE DEF MoveFails, dbVars
  <1>1. /\ loaded_dbs' \in [Library -> Db \cup {Absent, Failed}]
        /\ \A k \in Library : loaded_dbs'[k] = loaded_dbs[k] \/ loaded_dbs'[k] = Absent
        /\ \A k \in Library \ {gui_library_id} : loaded_dbs'[k] = loaded_dbs[k]
        /\ unread \subseteq unread' /\ unread' \subseteq Library
        /\ gui_library_id \in unread' \/ UNCHANGED <<loaded_dbs, unread>>
    BY Kept DEF IInv, TypeOK
  <1>2. open' = open /\ made' = made /\ library_of' = library_of
        /\ library_of \in [open -> Library] /\ Absent \notin open
    BY Names DEF IInv, TypeOK, open
  <1>3. TypeOK'
    BY <1>1, <1>2 DEF IInv, TypeOK, handlerVars, FixedAlike
  <1>4. LoadedIsOpen'
    BY <1>1, <1>2 DEF IInv, LoadedIsOpen, Loaded
  <1>5. OneDatabaseEach'
    BY <1>1, <1>2 DEF IInv, OneDatabaseEach
  <1>6. GuiIInv'
    BY <1>1, <1>2 DEF IInv, GuiIInv, GuiDatabaseIsOpen, GuiIsLoaded, ShutIsClosed, FixingIsKnown,
                      FixedAlike
  <1>7. HeldIsAsked'
    BY <1>2, HandlersKeep
  <1> QED
    BY <1>3, <1>4, <1>5, <1>6, <1>7 DEF IInv

LEMMA SwitchLibraryStep ==
  ASSUME IInv, NEW l \in Library, SwitchLibrary(l)
  PROVE  IInv'
  <1>1. FixedAlike /\ UNCHANGED shut /\ (MoveToLoaded(l) \/ MoveTo(l))
    BY DEF SwitchLibrary, LibraryMoved, FixedAlike, fixVars
  <1> QED
    BY <1>1, MoveToLoadedStep, MoveToStep

LEMMA ReloadLibraryStep == IInv /\ ReloadLibrary => IInv'
  <1> SUFFICES ASSUME IInv, ReloadLibrary PROVE IInv'
    OBVIOUS
  <1>1. FixedAlike /\ UNCHANGED shut /\ (MoveTo(gui_library_id) \/ MoveFails(gui_library_id))
    BY DEF ReloadLibrary, FixedAlike, fixVars
  <1>2. gui_library_id \in Library
    BY DEF IInv, TypeOK
  <1> QED
    BY <1>1, <1>2, MoveToStep, MoveFailsStep

-----------------------------------------------------------------------------
(* Restore library and Check library.                                      *)
LEMMA StartsFixingStep ==
  ASSUME IInv, NEW first \in {"question", "check"}, StartsFixing(first)
  PROVE  IInv'
  <1> USE DEF StartsFixing, guiVars, brokerVars, dbVars, handlerVars
  <1>1. TypeOK'
    BY DEF IInv, TypeOK, open
  <1>2. fixing' \in [library : Library, db : Db]
    BY DEF IInv, TypeOK
  <1>3. LoadedIsOpen' /\ OneDatabaseEach'
    BY DEF IInv, LoadedIsOpen, OneDatabaseEach, Loaded, open
  <1>4. GuiIInv'
    BY <1>2 DEF IInv, GuiIInv, GuiDatabaseIsOpen, GuiIsLoaded, ShutIsClosed, FixingIsKnown, open
  <1>5. HeldIsAsked'
    BY DEF IInv, HeldIsAsked, open
  <1> QED
    BY <1>1, <1>3, <1>4, <1>5 DEF IInv

(* A database is closed without the broker.                                *)
LEMMA ShutStep ==
  ASSUME IInv, NEW db \in 1..made, Close({db}), shut' = shut \cup {db},
         dialog # "none", dialog' \in {"restore", "checked"},
         UNCHANGED <<guiVars, fixing, brokerVars, handlerVars, copying>>
  PROVE  IInv'
  <1> USE DEF guiVars, brokerVars, handlerVars
  <1>1. /\ made' = made /\ open' = open \ {db}
        /\ \A d \in open' : library_of'[d] = library_of[d]
        /\ open' \subseteq 1..made' /\ library_of' \in [open' -> Library]
    BY Closed
  <1>2. TypeOK'
    BY <1>1, AllAreMade DEF IInv, TypeOK
  <1>3. LoadedIsOpen' /\ OneDatabaseEach'
    BY <1>1 DEF IInv, LoadedIsOpen, OneDatabaseEach, Loaded
  <1>4. GuiIInv'
    BY <1>1 DEF IInv, GuiIInv, GuiDatabaseIsOpen, GuiIsLoaded, ShutIsClosed, FixingIsKnown
  <1>5. HeldIsAsked'
    <2>1. Absent \notin open'
      BY <1>1, Names DEF IInv, TypeOK
    <2> QED
      BY <1>1, <2>1, HandlersKeep
  <1> QED
    BY <1>2, <1>3, <1>4, <1>5 DEF IInv

LEMMA RestoreClosesStep == IInv /\ RestoreCloses => IInv'
  <1> SUFFICES ASSUME IInv, RestoreCloses PROVE IInv'
    OBVIOUS
  <1>1. fixing.db \in 1..made
    BY AllAreMade DEF RestoreCloses
  <1> QED
    BY <1>1, ShutStep DEF RestoreCloses

LEMMA CheckClosesStep == IInv /\ CheckCloses => IInv'
  BY AllAreMade, ShutStep DEF CheckCloses

LEMMA RestoreCancelledStep == IInv /\ RestoreCancelled => IInv'
  <1> SUFFICES ASSUME IInv, RestoreCancelled PROVE IInv'
    OBVIOUS
  <1> USE DEF RestoreCancelled, guiVars, brokerVars, dbVars, handlerVars
  <1>1. TypeOK'
    BY DEF IInv, TypeOK, open
  <1>2. LoadedIsOpen' /\ OneDatabaseEach'
    BY DEF IInv, LoadedIsOpen, OneDatabaseEach, Loaded, open
  <1>3. GuiIInv'
    BY DEF IInv, GuiIInv, GuiDatabaseIsOpen, GuiIsLoaded, ShutIsClosed, FixingIsKnown, open
  <1>4. HeldIsAsked'
    BY DEF IInv, HeldIsAsked, open
  <1> QED
    BY <1>1, <1>2, <1>3, <1>4 DEF IInv

LEMMA MoveBackStep == IInv /\ MoveBack => IInv'
  <1> SUFFICES ASSUME IInv, MoveBack PROVE IInv'
    OBVIOUS
  <1>1. fixing.library \in Library
    BY DEF MoveBack, IInv, GuiIInv, FixingIsKnown, TypeOK
  <1>2. FixedAlike /\ UNCHANGED shut
    BY DEF MoveBack, FixedAlike
  <1>3. \/ MoveToLoaded(fixing.library) \/ MoveTo(fixing.library)
        \/ MoveFails(fixing.library)
    BY DEF MoveBack, LibraryMoved
  <1> QED
    BY <1>1, <1>2, <1>3, MoveToLoadedStep, MoveToStep, MoveFailsStep

-----------------------------------------------------------------------------
LEMMA StepInvariant == IInv /\ [Next]_vars => IInv'
  <1> SUFFICES ASSUME IInv, [Next]_vars PROVE IInv'
    OBVIOUS
  <1>1. ASSUME NEW h \in Handler, HandlerStep(h) PROVE IInv'
    BY <1>1, GetLoadedStep, GetOpensStep, GetFailsStep, SetLastUsedStep, RespondStep
       DEF HandlerStep
  <1>2. ASSUME NEW l \in Library, GuiStep(l) PROVE IInv'
    <2>1. CASE UnloadLibrary(l) \/ RemoveLibrary(l)
      BY <2>1, UnloadsStep DEF UnloadLibrary, RemoveLibrary
    <2> QED
      BY <1>2, <2>1, GetLibraryStep, CopyToStep, SwitchLibraryStep DEF GuiStep
  <1>3. CASE FixStep
    <2>1. CASE RestoreDatabase \/ CheckLibrary
      BY <2>1, StartsFixingStep DEF RestoreDatabase, CheckLibrary
    <2> QED
      BY <1>3, <2>1, ReloadLibraryStep, MoveBackStep, RestoreClosesStep, RestoreCancelledStep,
         CheckClosesStep DEF FixStep
  <1>4. CASE UNCHANGED vars
    <2>1. UNCHANGED <<lmap, loaded_dbs, gui_library_id, recent, current_db, unread, made,
                      dialog, fixing, shut, library_of, handler, asked, held, copying, open>>
      BY <1>4 DEF vars, guiVars, fixVars, brokerVars, dbVars, handlerVars, open
    <2>2. LoadedIsOpen' /\ OneDatabaseEach' /\ GuiIInv'
      BY <2>1, NothingMoves DEF guiVars, fixVars
    <2> QED
      BY <2>1, <2>2 DEF IInv, TypeOK, HeldIsAsked
  <1> QED
    BY <1>1, <1>2, <1>3, <1>4, ExpireStep, CopyEndsStep DEF Next

(* The inductive invariant holds of every behaviour of the broker.         *)
THEOREM Invariant == Spec => []IInv
  BY InitInvariant, StepInvariant, PTL DEF Spec

(* TypeOK holds for any libraries, handlers and number of databases: the   *)
(* broker, the GUI and the handlers keep their records in order.           *)
THEOREM TypeCorrect == Spec => []TypeOK
  <1>1. IInv => TypeOK
    BY DEF IInv
  <1> QED
    BY <1>1, Invariant, PTL

(* LoadedIsOpen: whatever was pruned, unloaded, moved or read again, what  *)
(* get() and get_library() return from loaded_dbs is an open database of   *)
(* the library asked for, or one that the GUI's Restore library or Check   *)
(* library closed behind the broker's back.                                *)
THEOREM LoadedDatabasesAreOpen == Spec => []LoadedIsOpen
  <1>1. IInv => LoadedIsOpen
    BY DEF IInv
  <1> QED
    BY <1>1, Invariant, PTL

(* OneDatabaseEach: the GUI, the server and the copies never have two      *)
(* databases open on one library, unless the GUI's own one left            *)
(* loaded_dbs: it could not be read again, or was unloaded.                *)
THEOREM NoLibraryIsOpenTwice == Spec => []OneDatabaseEach
  <1>1. IInv => OneDatabaseEach
    BY DEF IInv
  <1> QED
    BY <1>1, Invariant, PTL

(* GuiDatabaseIsOpen: what the GUI shows is open and of its library,       *)
(* whatever handlers, copies and messages do, until a command of the GUI   *)
(* itself closes it: Restore library, Check library or unloading it.       *)
THEOREM GuiKeepsItsDatabase == Spec => []GuiDatabaseIsOpen
  <1>1. IInv => GuiDatabaseIsOpen
    BY DEF IInv, GuiIInv
  <1> QED
    BY <1>1, Invariant, PTL

LEMMA PruningStep ==
  ASSUME IInv, [Next]_vars, Prunes, NEW d \in open, library_of[d] \in recent
  PROVE  d \in open'
  <1>1. \A l \in Library : d \notin DbsOf(Expired(l))
    <2> SUFFICES ASSUME NEW l \in Library, d \in DbsOf(Expired(l)) PROVE FALSE
      OBVIOUS
    <2>1. Expired(l) \in SUBSET Library /\ \A k \in Expired(l) : k \notin recent
      BY DEF Expired
    <2> QED
      BY <2>1, DbsAreTheirs
  <1>2. CASE CopyEnds
    <2>1. Close(DbsOf(Expired(gui_library_id))) /\ gui_library_id \in Library
      BY <1>2 DEF CopyEnds, IInv, TypeOK
    <2>2. open' = open \ DbsOf(Expired(gui_library_id))
      BY <2>1, Closed
    <2> QED
      BY <1>1, <2>1, <2>2
  <1>3. ASSUME NEW l \in Library, l # gui_library_id, MoveToLoaded(l) \/ MoveTo(l)
        PROVE  d \in open'
    <2>1. d \notin ClosedByChange(l)
      <3>1. ~(current_db \in open /\ library_of[current_db] = l)
        BY <1>3, AllAreMade DEF IInv, GuiIInv, GuiDatabaseIsOpen
      <3> QED
        BY <1>1, <3>1 DEF ClosedByChange
    <2>2. CASE MoveToLoaded(l)
      <3>1. open' = open \ ClosedByChange(l)
        BY <2>2, Closed DEF MoveToLoaded
      <3> QED
        BY <2>1, <3>1
    <2>3. CASE MoveTo(l)
      <3>1. open' = (open \cup {NextDb}) \ ClosedByChange(l)
        BY <2>3, Opened DEF MoveTo
      <3> QED
        BY <2>1, <3>1
    <2> QED
      BY <1>3, <2>2, <2>3
  <1>4. CASE gui_library_id' # gui_library_id
    <2>1. ~UNCHANGED vars
      BY <1>4 DEF vars, guiVars
    <2>2. \A h \in Handler : ~HandlerStep(h)
      BY <1>4 DEF HandlerStep, GetLoaded, GetOpens, GetFails, SetLastUsed, Respond, guiVars
    <2>3. ASSUME NEW l \in Library, GuiStep(l)
          PROVE  l # gui_library_id /\ (MoveToLoaded(l) \/ MoveTo(l))
      BY <1>4, <2>3 DEF GuiStep, GetLibrary, CopyTo, UnloadLibrary, RemoveLibrary, Unloads,
                        SwitchLibrary, LibraryMoved, guiVars
    <2>4. \A l \in Library : ~Expire(l)
      BY <1>4 DEF Expire, guiVars
    <2>5. ASSUME FixStep
          PROVE  \E l \in Library : l # gui_library_id /\ (MoveToLoaded(l) \/ MoveTo(l))
      <3>1. CASE ReloadLibrary
        BY <1>4, <3>1 DEF ReloadLibrary, MoveTo, MoveFails, GuiLibraryChanged
      <3>2. CASE MoveBack
        <4>1. fixing.library \in Library
          BY <3>2 DEF MoveBack, IInv, GuiIInv, FixingIsKnown, TypeOK
        <4>2. LibraryMoved(fixing.library)
          BY <1>4, <3>2 DEF MoveBack, MoveFails
        <4>3. gui_library_id' = fixing.library
          BY <4>2 DEF LibraryMoved, MoveToLoaded, MoveTo, GuiLibraryChanged
        <4> QED
          BY <1>4, <4>1, <4>2, <4>3 DEF LibraryMoved
      <3> QED
        BY <1>4, <2>5, <3>1, <3>2 DEF FixStep, RestoreDatabase, CheckLibrary, StartsFixing,
           RestoreCloses, RestoreCancelled, CheckCloses, guiVars
    <2>6. CASE CopyEnds
      BY <1>2, <2>6
    <2> QED
      BY <1>3, <2>1, <2>2, <2>3, <2>4, <2>5, <2>6 DEF Next
  <1> QED
    BY <1>2, <1>4 DEF Prunes

(* PruningSparesRecent: neither the end of a copy nor a change of the      *)
(* GUI's library closes a database whose library was used less than        *)
(* EXPIRED_AGE ago.                                                        *)
THEOREM RecentDatabasesSurvivePruning == Spec => PruningSparesRecent
  <1>1. IInv /\ [Next]_vars =>
            [Prunes => \A d \in open : library_of[d] \in recent => d \in open']_vars
    BY PruningStep
  <1> QED
    BY <1>1, Invariant, PTL DEF Spec, PruningSparesRecent

KeepsWhatIsUsed ==
    Prunes => \A h \in Handler :
                  handler[h] = "use" /\ asked[h] \in recent /\ held[h] \in open => held[h] \in open'

(* Thus a handler of the server keeps what it got through any pruning,     *)
(* from when it has noted the use until EXPIRED_AGE later, for the         *)
(* database it holds is of the library it asked for.                       *)
THEOREM HandlersSurvivePruning == Spec => [][KeepsWhatIsUsed]_vars
  <1>1. IInv /\ [Next]_vars => [KeepsWhatIsUsed]_vars
    <2> SUFFICES ASSUME IInv, [Next]_vars, Prunes, NEW h \in Handler,
                        handler[h] = "use", asked[h] \in recent, held[h] \in open
                 PROVE  held[h] \in open'
      BY DEF KeepsWhatIsUsed
    <2>1. library_of[held[h]] \in recent
      BY DEF IInv, HeldIsAsked
    <2> QED
      BY <2>1, PruningStep
  <1> QED
    BY <1>1, Invariant, PTL DEF Spec
=============================================================================
