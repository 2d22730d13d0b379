----------------------- MODULE MetadataBackup_proofs -----------------------
(***************************************************************************)
(* Proofs about the metadata backup, for any books, any bounds and all     *)
(* that other threads may do.  The first invariant needs no more: types,   *)
(* fresh sequence numbers and the folders of removed books, whatever       *)
(* disturbs the backup and with any number of threads.  The second one,    *)
(* that no change is lost, is for one backup thread that nothing but       *)
(* OSErrors disturbs; TLC refutes it for each of the others.               *)
(***************************************************************************)
EXTENDS MetadataBackup, FiniteSetTheorems, TLAPS

(* A book's version counts its changes; a thread at work has a book.       *)
Counted ==
    /\ \A b \in Book : value[b] <= changes + 1
    /\ \A t \in Backup : pc[t] \notin {"off", "wait", "check", "pick"} => book[t] \in Book

TInv ==
    /\ TypeOK
    /\ Counted
    /\ NumbersAreFresh
    /\ GoneBooksStayGone

-----------------------------------------------------------------------------
(* The sequence numbers that Injection() can give.                         *)
LEMMA Numbers ==
  ASSUME NEW S \in SUBSET Book, NEW k \in Nat,
         NEW n \in Injection(S, k..(k + Cardinality(S) - 1))
  PROVE  /\ Cardinality(S) \in Nat
         /\ n \in [S -> Nat]
         /\ \A b \in S : k <= n[b] /\ n[b] < k + Cardinality(S)
         /\ \A b, c \in S : b # c => n[b] # n[c]
  <1>1. Cardinality(S) \in Nat
    BY FS_CardinalityType, FS_Subset, BookAssumption
  <1>2. n \in [S -> k..(k + Cardinality(S) - 1)] /\ \A b, c \in S : n[b] = n[c] => b = c
    BY DEF Injection, IsInjective
  <1>3. \A b \in S : n[b] \in Nat /\ k <= n[b] /\ n[b] < k + Cardinality(S)
    BY <1>1, <1>2
  <1> QED
    BY <1>1, <1>2, <1>3

(* What the dirty set is after books were numbered.                        *)
LEMMA Numbered ==
  ASSUME TInv, NEW S \in SUBSET Book, NumberDirty(S)
  PROVE  /\ dirty' = dirty \cup S /\ dirtied_cache' \in [dirty' -> Nat]
         /\ \A b \in dirty \ S : dirtied_cache'[b] = dirtied_cache[b]
         /\ \A b \in S : dirtied_sequence <= dirtied_cache'[b]
         /\ dirtied_sequence' \in Nat /\ dirtied_sequence <= dirtied_sequence'
         /\ \A b \in dirty' : dirtied_cache'[b] < dirtied_sequence'
         /\ \A b, c \in dirty' : b # c => dirtied_cache'[b] # dirtied_cache'[c]
  <1>1. /\ dirtied_sequence \in Nat /\ dirtied_cache \in [dirty -> Nat]
        /\ \A b, c \in dirty : b # c => dirtied_cache[b] # dirtied_cache[c]
        /\ \A b \in dirty : dirtied_cache[b] < dirtied_sequence
    BY DEF TInv, TypeOK, NumbersAreFresh
  <1>2. PICK n \in Injection(S, dirtied_sequence..(dirtied_sequence + Cardinality(S) - 1)) :
            /\ dirtied_cache' = [b \in dirty \cup S |-> IF b \in S THEN n[b] ELSE dirtied_cache[b]]
            /\ dirtied_sequence' = dirtied_sequence + Cardinality(S)
    BY DEF NumberDirty
  <1>3. /\ Cardinality(S) \in Nat
        /\ n \in [S -> Nat]
        /\ \A b \in S : dirtied_sequence <= n[b] /\ n[b] < dirtied_sequence + Cardinality(S)
        /\ \A b, c \in S : b # c => n[b] # n[c]
    BY <1>1, Numbers
  <1>4. dirty' = dirty \cup S
    BY <1>2 DEF dirty
  <1>5. dirtied_cache' \in [dirty' -> Nat]
    BY <1>1, <1>2, <1>3, <1>4
  <1>6. dirtied_sequence' \in Nat /\ dirtied_sequence <= dirtied_sequence'
    BY <1>1, <1>2, <1>3
  <1>7. /\ \A b \in S : dirtied_cache'[b] = n[b]
        /\ \A b \in dirty \ S : dirtied_cache'[b] = dirtied_cache[b]
    BY <1>2
  <1>8. \A b \in dirty' : dirtied_cache'[b] < dirtied_sequence'
    <2>1. ASSUME NEW b \in S PROVE dirtied_cache'[b] < dirtied_sequence'
      BY <1>2, <1>3, <1>7
    <2>2. ASSUME NEW b \in dirty \ S PROVE dirtied_cache'[b] < dirtied_sequence'
      <3>1. dirtied_cache'[b] \in Nat /\ dirtied_cache'[b] < dirtied_sequence
        BY <1>1, <1>7
      <3> QED
        BY <1>1, <1>6, <3>1
    <2> QED
      BY <1>4, <2>1, <2>2
  <1>9. \A b, c \in dirty' : b # c => dirtied_cache'[b] # dirtied_cache'[c]
    <2>1. ASSUME NEW b \in S, NEW c \in dirty \ S PROVE dirtied_cache'[b] # dirtied_cache'[c]
      <3>1. /\ dirtied_cache'[c] \in Nat /\ dirtied_cache'[c] < dirtied_sequence
            /\ dirtied_cache'[b] \in Nat /\ dirtied_sequence <= dirtied_cache'[b]
        BY <1>1, <1>3, <1>7
      <3> QED
        BY <1>1, <3>1
    <2>2. \A b, c \in S : b # c => dirtied_cache'[b] # dirtied_cache'[c]
      BY <1>3, <1>7
    <2>3. \A b, c \in dirty \ S : b # c => dirtied_cache'[b] # dirtied_cache'[c]
      BY <1>1, <1>7
    <2> QED
      BY <1>4, <2>1, <2>2, <2>3
  <1> QED
    BY <1>3, <1>4, <1>5, <1>6, <1>7, <1>8, <1>9

(* Whoever keeps the numbers of dirty books, and gives larger ones to      *)
(* others, keeps them fresh.                                               *)
LEMMA StillFresh ==
  ASSUME TInv, UNCHANGED <<pc, seq>>,
         dirtied_sequence' \in Nat, dirtied_sequence <= dirtied_sequence',
         \A b \in dirty' : dirtied_cache'[b] < dirtied_sequence',
         \A b, c \in dirty' : b # c => dirtied_cache'[b] # dirtied_cache'[c]
  PROVE  NumbersAreFresh'
  <1>1. ASSUME NEW t \in Backup, Holding(t)' PROVE seq'[t] < dirtied_sequence'
    <2>1. seq[t] \in Nat /\ seq[t] < dirtied_sequence /\ dirtied_sequence \in Nat
      BY <1>1 DEF TInv, TypeOK, NumbersAreFresh, Holding
    <2> QED
      BY <2>1
  <1> QED
    BY <1>1 DEF NumbersAreFresh

(* Books forgotten.                                                        *)
LEMMA Forgotten ==
  ASSUME TInv, NEW S, ForgetDirty(S)
  PROVE  /\ dirty' = dirty \ S /\ dirtied_cache' \in [dirty' -> Nat]
         /\ \A b \in dirty' : dirtied_cache'[b] = dirtied_cache[b]
  <1>1. dirtied_cache' = [b \in dirty \ S |-> dirtied_cache[b]]
    BY DEF ForgetDirty
  <1>2. dirty' = dirty \ S
    BY <1>1 DEF dirty
  <1> QED
    BY <1>1, <1>2 DEF TInv, TypeOK

LEMMA InitTInv == Init => TInv
  <1> SUFFICES ASSUME Init PROVE TInv
    OBVIOUS
  <1>1. dirty = {} /\ dirtied_cache \in [{} -> Nat]
    BY DEF Init, dirty
  <1>2. TypeOK
    BY <1>1, BoundAssumption, BookAssumption DEF Init, TypeOK, Version, Place
  <1>3. Counted /\ NumbersAreFresh /\ GoneBooksStayGone
    BY <1>1 DEF Init, Counted, NumbersAreFresh, GoneBooksStayGone, Holding
  <1> QED
    BY <1>2, <1>3 DEF TInv

-----------------------------------------------------------------------------
(* A change that a bound still allows keeps the versions in theirs.        *)
LEMMA ChangedTyped ==
  ASSUME TInv, NEW b \in Book, Changed(b)
  PROVE  /\ value' \in [Book -> Version] /\ changes' \in 0..MaxChanges
         /\ \A c \in Book : value'[c] <= changes' + 1
  <1>1. /\ value \in [Book -> Version] /\ changes \in 0..MaxChanges /\ changes < MaxChanges
        /\ \A c \in Book : value[c] <= changes + 1
        /\ changes' = changes + 1 /\ value' = [value EXCEPT ![b] = @ + 1]
    BY DEF TInv, TypeOK, Counted, Changed
  <1>2. \A c \in Book : value'[c] \in Nat /\ value'[c] <= changes' + 1
    BY <1>1, BoundAssumption DEF Version
  <1> QED
    BY <1>1, <1>2, BoundAssumption DEF Version

(* Another thread's bounded step that changes no version.                  *)
LEMMA CountedTyped ==
  ASSUME TInv, changes < MaxChanges, changes' = changes + 1, UNCHANGED value
  PROVE  /\ value' \in [Book -> Version] /\ changes' \in 0..MaxChanges
         /\ \A c \in Book : value'[c] <= changes' + 1
  BY BoundAssumption DEF TInv, TypeOK, Counted, Version

(* Steps of the other threads.                                             *)
LEMMA OthersTInv ==
  ASSUME TInv, Others
  PROVE  TInv'
  <1> USE DEF threadVars, cacheVars, dbVars
  <1>1. ASSUME NEW b \in Book, ChangeField(b) PROVE TInv'
    <2> USE <1>1 DEF ChangeField
    <2>1. dirty' = dirty
      BY DEF dirty
    <2>2. TypeOK' /\ Counted'
      BY <2>1, ChangedTyped DEF TInv, TypeOK, Counted
    <2>3. NumbersAreFresh' /\ GoneBooksStayGone'
      BY <2>1 DEF TInv, NumbersAreFresh, Holding, GoneBooksStayGone
    <2> QED
      BY <2>2, <2>3 DEF TInv
  <1>2. ASSUME NEW b \in Book, AddBook(b) PROVE TInv'
    <2> USE <1>2 DEF AddBook, MarkAsDirty
    <2>1. NumbersAreFresh' /\ dirty' = dirty \cup {b} /\ dirtied_cache' \in [dirty' -> Nat]
          /\ dirtied_sequence' \in Nat
      BY Numbered, StillFresh
    <2>2. opf' \in [Book -> Version] /\ GoneBooksStayGone'
      BY BoundAssumption DEF TInv, TypeOK, GoneBooksStayGone, Version
    <2>3. TypeOK' /\ Counted'
      BY <2>1, <2>2, ChangedTyped DEF TInv, TypeOK, Counted
    <2> QED
      BY <2>1, <2>2, <2>3 DEF TInv
  <1>3. ASSUME NEW b \in Book, SetMetadataRollsBack(b) PROVE TInv'
    <2> USE <1>3 DEF SetMetadataRollsBack
    <2>1. NumbersAreFresh' /\ dirty' = dirty \cup {b} /\ dirtied_cache' \in [dirty' -> Nat]
          /\ dirtied_sequence' \in Nat
      BY Numbered, StillFresh
    <2>2. TypeOK' /\ Counted' /\ GoneBooksStayGone'
      BY <2>1, CountedTyped DEF TInv, TypeOK, Counted, GoneBooksStayGone
    <2> QED
      BY <2>1, <2>2 DEF TInv
  <1>4. ASSUME NEW b \in Book, Annotate(b) PROVE TInv'
    <2> USE <1>4 DEF Annotate
    <2>1. dirty' = dirty
      BY DEF dirty
    <2>2. TypeOK' /\ Counted'
      BY <2>1, ChangedTyped DEF TInv, TypeOK, Counted
    <2>3. NumbersAreFresh' /\ GoneBooksStayGone'
      BY <2>1 DEF TInv, NumbersAreFresh, Holding, GoneBooksStayGone
    <2> QED
      BY <2>2, <2>3 DEF TInv
  <1>5. ASSUME NEW b \in Book, RemoveBook(b) PROVE TInv'
    <2> USE <1>5 DEF RemoveBook
    <2>1. dirty' = dirty
      BY DEF dirty
    <2>2. opf' \in [Book -> Version] /\ GoneBooksStayGone'
      BY BoundAssumption DEF TInv, TypeOK, GoneBooksStayGone, Version
    <2>3. TypeOK' /\ Counted'
      BY <2>1, <2>2, CountedTyped DEF TInv, TypeOK, Counted
    <2>4. NumbersAreFresh'
      BY <2>1 DEF TInv, NumbersAreFresh, Holding
    <2> QED
      BY <2>2, <2>3, <2>4 DEF TInv
  <1>6. CASE ChangeIsMarked
    <2> USE <1>6 DEF ChangeIsMarked, MarkAsDirty
    <2>1. changing \in Book
      BY DEF TInv, TypeOK, Unlocked
    <2>2. NumbersAreFresh' /\ dirty' = dirty \cup {changing} /\ dirtied_cache' \in [dirty' -> Nat]
          /\ dirtied_sequence' \in Nat
      BY <2>1, Numbered, StillFresh
    <2>3. TypeOK' /\ Counted' /\ GoneBooksStayGone'
      BY <2>1, <2>2 DEF TInv, TypeOK, Counted, GoneBooksStayGone
    <2> QED
      BY <2>2, <2>3 DEF TInv
  <1>7. CASE PathUpdateFails
    <2> USE <1>7 DEF PathUpdateFails
    <2>1. dirty' = dirty
      BY DEF dirty
    <2> QED
      BY <2>1 DEF TInv, TypeOK, Counted, NumbersAreFresh, Holding, GoneBooksStayGone
  <1>8. CASE MarkAllDirty
    <2> USE <1>8 DEF MarkAllDirty, MarkAsDirty
    <2>1. exists \in SUBSET Book
      BY DEF TInv, TypeOK
    <2>2. NumbersAreFresh' /\ dirty' = dirty \cup exists /\ dirtied_cache' \in [dirty' -> Nat]
          /\ dirtied_sequence' \in Nat
      BY <2>1, Numbered, StillFresh
    <2>3. TypeOK' /\ Counted' /\ GoneBooksStayGone'
      BY <2>1, <2>2, CountedTyped DEF TInv, TypeOK, Counted, GoneBooksStayGone
    <2> QED
      BY <2>2, <2>3 DEF TInv
  <1>9. CASE DumpMetadata
    <2>1. PICK S \in SUBSET ((dirty \cap exists) \ Unconvertible) :
              /\ opf' = [b \in Book |-> IF b \in S THEN value[b] ELSE opf[b]]
              /\ metadata_dirtied' = metadata_dirtied \ S
              /\ ForgetDirty(S)
      BY <1>9 DEF DumpMetadata
    <2>2. UNCHANGED <<exists, value, annotations_dirtied, dirtied_sequence, changing, threadVars,
                      changes, stops>>
      BY <1>9 DEF DumpMetadata
    <2>3. /\ dirty' = dirty \ S /\ dirtied_cache' \in [dirty' -> Nat]
          /\ \A b \in dirty' : dirtied_cache'[b] = dirtied_cache[b]
      BY <2>1, Forgotten
    <2>4. TypeOK' /\ Counted' /\ GoneBooksStayGone'
      BY <2>1, <2>2, <2>3 DEF TInv, TypeOK, Counted, GoneBooksStayGone
    <2>5. NumbersAreFresh'
      BY <2>2, <2>3 DEF TInv, NumbersAreFresh, Holding
    <2> QED
      BY <2>4, <2>5 DEF TInv
  <1> QED
    BY <1>1, <1>2, <1>3, <1>4, <1>5, <1>6, <1>7, <1>8, <1>9 DEF Others

(* Start, stop, and the library opened again.                              *)
LEMMA StartTInv ==
  ASSUME TInv, NEW t \in Backup, Start(t) \/ Stop(t)
  PROVE  TInv'
  <1> USE DEF Start, Stop, cacheVars, dbVars
  <1>1. dirty' = dirty
    BY DEF dirty
  <1>2. TypeOK'
    <2>1. stops' \in 0..MaxStops
      BY BoundAssumption DEF TInv, TypeOK
    <2>2. pc' \in [Backup -> Place] /\ checks' \in [Backup -> 0..2]
          /\ stopping' \in [Backup -> BOOLEAN]
      <3>1. CASE Start(t)
        BY <3>1 DEF TInv, TypeOK, Place
      <3>2. CASE Stop(t)
        BY <3>2 DEF TInv, TypeOK, Place
      <3> QED
        BY <3>1, <3>2
    <2> QED
      BY <1>1, <2>1, <2>2 DEF TInv, TypeOK
  <1>3. Counted' /\ GoneBooksStayGone'
    BY DEF TInv, TypeOK, Counted, GoneBooksStayGone
  <1>4. NumbersAreFresh'
    BY <1>1 DEF TInv, TypeOK, NumbersAreFresh, Holding
  <1> QED
    BY <1>2, <1>3, <1>4 DEF TInv

LEMMA ReopenTInv == TInv /\ Reopen => TInv'
  <1> SUFFICES ASSUME TInv, Reopen PROVE TInv'
    OBVIOUS
  <1>1. PICK saved \in SUBSET Book :
           LET rows == metadata_dirtied \cup saved
               all == rows \cup annotations_dirtied IN
           /\ metadata_dirtied' = all
           /\ annotations_dirtied' = IF all = rows THEN annotations_dirtied ELSE {}
           /\ dirtied_cache' \in Injection(all, 0..(Cardinality(all) - 1))
           /\ dirtied_sequence' = Cardinality(all)
    BY DEF Reopen, TInv, TypeOK
  <1> DEFINE all == metadata_dirtied \cup saved \cup annotations_dirtied
  <1>2. all \in SUBSET Book
    BY DEF TInv, TypeOK
  <1>3. dirtied_cache' \in Injection(all, 0..(0 + Cardinality(all) - 1)) /\ Cardinality(all) \in Nat
    BY <1>1, <1>2, FS_CardinalityType, FS_Subset, BookAssumption
  <1> HIDE DEF all
  <1>4. /\ dirtied_cache' \in [all -> Nat]
        /\ \A b \in all : dirtied_cache'[b] < 0 + Cardinality(all)
        /\ \A b, c \in all : b # c => dirtied_cache'[b] # dirtied_cache'[c]
    BY <1>2, <1>3, Numbers
  <1>5. dirty' = all /\ dirtied_sequence' = Cardinality(all) /\ metadata_dirtied' = all
    BY <1>1, <1>4 DEF dirty, all
  <1>6. pc' = [t \in Backup |-> "off"]
    BY DEF Reopen
  <1>7. NumbersAreFresh'
    BY <1>3, <1>4, <1>5, <1>6 DEF NumbersAreFresh, Holding
  <1>8. TypeOK'
    <2>1. /\ stops' \in 0..MaxStops
          /\ changing' = NoBook
          /\ UNCHANGED <<exists, value, opf, book, mi, seq, checks, stopping, changes>>
      BY BoundAssumption DEF Reopen, TInv, TypeOK
    <2>2. annotations_dirtied' \subseteq Book
      BY <1>1 DEF TInv, TypeOK
    <2>3. pc' \in [Backup -> Place]
      BY <1>6 DEF Place
    <2> QED
      BY <1>2, <1>3, <1>4, <1>5, <2>1, <2>2, <2>3 DEF TInv, TypeOK
  <1>9. Counted' /\ GoneBooksStayGone'
    BY <1>6 DEF Reopen, TInv, Counted, GoneBooksStayGone
  <1> QED
    BY <1>7, <1>8, <1>9 DEF TInv

-----------------------------------------------------------------------------
(* The backup thread, as far as it leaves the library alone ...            *)
LEMMA QuietStepTInv ==
  ASSUME TInv, NEW t \in Backup, UNCHANGED <<dbVars, opf, cacheVars, changing, mi, seq, stopping,
                                             changes, stops>>,
         NEW place \in Place, Goto(t, place),
         checks' \in [Backup -> 0..2],
         NEW b \in Book \cup {NoBook}, book' = [book EXCEPT ![t] = b],
         place \in {"off", "wait", "check", "pick"} \/ b \in Book,
         place \in {"off", "wait", "check", "pick", "get"} \/ Holding(t) \/ seq[t] = NoSeq
  PROVE  TInv'
  <1> USE DEF Goto, dbVars, cacheVars
  <1>1. dirty' = dirty
    BY DEF dirty
  <1>2. TypeOK'
    BY <1>1 DEF TInv, TypeOK
  <1>3. Counted' /\ GoneBooksStayGone'
    BY DEF TInv, TypeOK, Counted, GoneBooksStayGone
  <1>4. NumbersAreFresh'
    BY <1>1 DEF TInv, TypeOK, NumbersAreFresh, Holding
  <1> QED
    BY <1>2, <1>3, <1>4 DEF TInv

LEMMA RoundTInv ==
  ASSUME TInv, NEW t \in Backup,
         \/ Abort(t) \/ Wake(t) \/ CheckFindsNothing(t) \/ PickNothing(t) \/ Convert(t)
         \/ \E b \in Book : Pick(t, b)
  PROVE  TInv'
  <1>0. /\ book[t] \in Book \cup {NoBook} /\ book = [book EXCEPT ![t] = book[t]]
        /\ checks \in [Backup -> 0..2] /\ pc[t] \in Place
        /\ {"off", "wait", "check", "pick", "get", "write", "clear"} \subseteq Place
    BY DEF TInv, TypeOK, Place
  <1>1. CASE Abort(t)
    BY <1>0, <1>1, QuietStepTInv DEF Abort
  <1>2. CASE Wake(t)
    <2>1. checks' \in [Backup -> 0..2]
      BY <1>0, <1>2 DEF Wake
    <2> QED
      BY <1>0, <1>2, <2>1, QuietStepTInv DEF Wake
  <1>3. CASE CheckFindsNothing(t) \/ PickNothing(t)
    BY <1>0, <1>3, QuietStepTInv DEF CheckFindsNothing, PickNothing
  <1>4. CASE Convert(t)
    <2>1. book[t] \in Book /\ (Holding(t) \/ seq[t] = NoSeq)
      BY <1>4 DEF Convert, At, TInv, Counted, Holding
    <2>2. PICK place \in {"clear", "write"} : Goto(t, place)
      BY <1>4 DEF Convert
    <2> QED
      BY <1>0, <1>4, <2>1, <2>2, QuietStepTInv DEF Convert
  <1>5. ASSUME NEW b \in Book, Pick(t, b) PROVE TInv'
    BY <1>0, <1>5, QuietStepTInv DEF Pick
  <1> QED
    BY <1>1, <1>2, <1>3, <1>4, <1>5

(* ... and where it reads or changes it.                                   *)
LEMMA CheckFindsBooksTInv ==
  ASSUME TInv, NEW t \in Backup, CheckFindsBooks(t)
  PROVE  TInv'
  <1> USE DEF CheckFindsBooks, AnnotationRowsMove
  <1> DEFINE S == (metadata_dirtied \cup annotations_dirtied) \ dirty
  <1>1. S \in SUBSET Book
    BY DEF TInv, TypeOK
  <1>2. /\ dirty' = dirty \cup S /\ dirtied_cache' \in [dirty' -> Nat]
        /\ dirtied_sequence' \in Nat /\ dirtied_sequence <= dirtied_sequence'
        /\ \A b \in dirty' : dirtied_cache'[b] < dirtied_sequence'
        /\ \A b, c \in dirty' : b # c => dirtied_cache'[b] # dirtied_cache'[c]
    BY <1>1, Numbered
  <1>3. pc' \in [Backup -> Place] /\ pc'[t] = "pick"
    BY DEF Goto, TInv, TypeOK, Place
  <1>4. TypeOK'
    BY <1>1, <1>2, <1>3 DEF TInv, TypeOK
  <1>5. Counted' /\ GoneBooksStayGone'
    BY DEF Goto, TInv, TypeOK, Counted, GoneBooksStayGone
  <1>6. ASSUME NEW u \in Backup, Holding(u)' PROVE seq'[u] < dirtied_sequence'
    <2>1. Holding(u)
      BY <1>6 DEF Goto, Holding, TInv, TypeOK
    <2>2. seq[u] \in Nat /\ seq[u] < dirtied_sequence /\ dirtied_sequence \in Nat
      BY <2>1 DEF TInv, TypeOK, NumbersAreFresh, Holding
    <2> QED
      BY <1>2, <2>2
  <1> QED
    BY <1>2, <1>4, <1>5, <1>6 DEF TInv, NumbersAreFresh

LEMMA GetTInv ==
  ASSUME TInv, NEW t \in Backup, GetMetadataForDump(t)
  PROVE  TInv'
  <1> USE DEF GetMetadataForDump, cacheVars, dbVars
  <1>1. dirty' = dirty /\ book[t] \in Book
    BY DEF dirty, At, TInv, Counted
  <1>2. PICK s \in Nat \cup {NoSeq}, m \in Version, place \in {"convert", "clear"} :
           /\ seq' = [seq EXCEPT ![t] = s] /\ mi' = [mi EXCEPT ![t] = m]
           /\ Goto(t, place)
           /\ s # NoSeq => s < dirtied_sequence
    <2>1. book[t] \in dirty => /\ dirtied_cache[book[t]] \in Nat
                               /\ dirtied_cache[book[t]] < dirtied_sequence
      BY DEF TInv, TypeOK, NumbersAreFresh
    <2>2. value[book[t]] \in Version /\ 0 \in Version
      BY <1>1, BoundAssumption DEF TInv, TypeOK, Version
    <2> QED
      BY <2>1, <2>2
  <1>3. TypeOK'
    BY <1>1, <1>2 DEF TInv, TypeOK, Goto, Place
  <1>4. Counted' /\ GoneBooksStayGone'
    BY <1>1, <1>2 DEF TInv, TypeOK, Counted, GoneBooksStayGone, Goto
  <1>5. NumbersAreFresh'
    BY <1>1, <1>2 DEF TInv, TypeOK, NumbersAreFresh, Holding, Goto
  <1> QED
    BY <1>3, <1>4, <1>5 DEF TInv

LEMMA WriteTInv ==
  ASSUME TInv, NEW t \in Backup, WriteBackup(t) \/ WriteBackupFails(t)
  PROVE  TInv'
  <1> USE DEF cacheVars, dbVars
  <1>1. /\ UNCHANGED <<dbVars, cacheVars, changing, book, mi, seq, checks, stopping, changes, stops>>
        /\ dirty' = dirty /\ pc[t] \in {"write", "rewrite"} /\ book[t] \in Book
    BY DEF WriteBackup, WriteBackupFails, dirty, TInv, Counted
  <1>2. PICK v \in Version : /\ opf' = [opf EXCEPT ![book[t]] = v]
                             /\ book[t] \notin exists => v = opf[book[t]]
    <2>1. mi[t] \in Version /\ opf[book[t]] \in Version /\ 0 \in Version
      BY <1>1, BoundAssumption DEF TInv, TypeOK, Version
    <2> QED
      BY <2>1 DEF WriteBackup, WriteBackupFails
  <1>3. PICK place \in {"clear", "rewrite", "wait"} : Goto(t, place)
    BY DEF WriteBackup, WriteBackupFails
  <1>4. TypeOK'
    BY <1>1, <1>2, <1>3 DEF TInv, TypeOK, Goto, Place
  <1>5. Counted' /\ GoneBooksStayGone'
    BY <1>1, <1>2, <1>3 DEF TInv, TypeOK, Counted, GoneBooksStayGone, Goto
  <1>6. NumbersAreFresh'
    BY <1>1, <1>3 DEF TInv, TypeOK, NumbersAreFresh, Holding, Goto
  <1> QED
    BY <1>4, <1>5, <1>6 DEF TInv

LEMMA ClearTInv ==
  ASSUME TInv, NEW t \in Backup, ClearDirtied(t)
  PROVE  TInv'
  <1>1. /\ UNCHANGED <<exists, value, annotations_dirtied, opf, dirtied_sequence, changing,
                       book, mi, seq, checks, stopping, changes, stops>>
        /\ pc' = [pc EXCEPT ![t] = "wait"]
    BY DEF ClearDirtied, Goto
  <1>2. /\ metadata_dirtied' \subseteq metadata_dirtied
        /\ dirty' \subseteq dirty /\ dirtied_cache' \in [dirty' -> Nat]
        /\ \A b \in dirty' : dirtied_cache'[b] = dirtied_cache[b]
    <2>1. CASE Clears(book[t], seq[t])
      BY <2>1, Forgotten DEF ClearDirtied
    <2>2. CASE ~Clears(book[t], seq[t])
      BY <2>2 DEF ClearDirtied, dirty, TInv, TypeOK
    <2> QED
      BY <2>1, <2>2
  <1>3. TypeOK'
    BY <1>1, <1>2 DEF TInv, TypeOK, Place
  <1>4. Counted' /\ GoneBooksStayGone'
    BY <1>1 DEF TInv, TypeOK, Counted, GoneBooksStayGone
  <1>5. NumbersAreFresh'
    BY <1>1, <1>2 DEF TInv, TypeOK, NumbersAreFresh, Holding
  <1> QED
    BY <1>3, <1>4, <1>5 DEF TInv

LEMMA StutterTInv == TInv /\ UNCHANGED vars => TInv'
  <1> SUFFICES ASSUME TInv, UNCHANGED vars PROVE TInv'
    OBVIOUS
  <1>1. dirty' = dirty
    BY DEF vars, cacheVars, dirty
  <1> QED
    BY <1>1 DEF vars, dbVars, cacheVars, threadVars, TInv, TypeOK, Counted, NumbersAreFresh,
                Holding, GoneBooksStayGone

LEMMA StepTInv == TInv /\ [Next]_vars => TInv'
  BY OthersTInv, StartTInv, ReopenTInv, RoundTInv, CheckFindsBooksTInv, GetTInv, WriteTInv,
     ClearTInv, StutterTInv DEF Next, BackupStep

THEOREM NumbersInvariant == Spec => []TInv
  BY InitTInv, StepTInv, PTL DEF Spec

(* TypeOK, whatever other threads do and however often the process ends.   *)
THEOREM TypeCorrect == Spec => []TypeOK
  <1>1. TInv => TypeOK
    BY DEF TInv
  <1> QED
    BY <1>1, NumbersInvariant, PTL

(* NumbersAreFresh: mark_as_dirty() never gives out a sequence number that *)
(* a dirty book or a thread still has, with several threads, transactions  *)
(* rolled back and crashes alike.                                          *)
THEOREM NumbersNeverRepeat == Spec => []NumbersAreFresh
  <1>1. TInv => NumbersAreFresh
    BY DEF TInv
  <1> QED
    BY <1>1, NumbersInvariant, PTL

(* GoneBooksStayGone: write_backup() never brings the folder of a removed  *)
(* book back, whenever the book is removed.                                *)
THEOREM RemovedFoldersStayAway == Spec => []GoneBooksStayGone
  <1>1. TInv => GoneBooksStayGone
    BY DEF TInv
  <1> QED
    BY <1>1, NumbersInvariant, PTL

-----------------------------------------------------------------------------
(* The dirty set of the Cache and its table, unless a transaction is       *)
(* rolled back under the Cache.                                            *)
LEMMA StepCacheMatches ==
  ASSUME "rollback" \notin Disturb, TInv, dirty = metadata_dirtied, [Next]_vars
  PROVE  dirty' = metadata_dirtied'
  <1> USE DEF threadVars, cacheVars, dbVars
  <1>1. ASSUME NEW S \in SUBSET Book, MarkAsDirty(S) PROVE dirty' = metadata_dirtied'
    BY <1>1, Numbered DEF MarkAsDirty
  <1>2. CASE Others
    <2>1. ASSUME NEW b \in Book, AddBook(b) PROVE dirty' = metadata_dirtied'
      BY <1>1, <2>1 DEF AddBook
    <2>2. CASE ChangeIsMarked
      <3>1. changing \in Book
        BY <2>2 DEF ChangeIsMarked, Unlocked, TInv, TypeOK
      <3> QED
        BY <1>1, <2>2, <3>1 DEF ChangeIsMarked
    <2>3. CASE MarkAllDirty
      BY <1>1, <2>3 DEF MarkAllDirty, TInv, TypeOK
    <2>4. CASE DumpMetadata
      BY <2>4, Forgotten DEF DumpMetadata
    <2>5. ASSUME NEW b \in Book, ChangeField(b) \/ Annotate(b) \/ RemoveBook(b)
          PROVE  dirty' = metadata_dirtied'
      BY <2>5 DEF ChangeField, Annotate, RemoveBook, dirty
    <2>6. CASE PathUpdateFails
      BY <2>6 DEF PathUpdateFails, dirty
    <2> QED
      BY <1>2, <2>1, <2>2, <2>3, <2>4, <2>5, <2>6 DEF Others, SetMetadataRollsBack
  <1>3. CASE Reopen
    <2>1. PICK saved : LET rows == metadata_dirtied \cup saved
                           all == rows \cup annotations_dirtied IN
              metadata_dirtied' = all /\ dirtied_cache' \in Injection(all, 0..(Cardinality(all) - 1))
      BY <1>3 DEF Reopen
    <2> QED
      BY <2>1 DEF Injection, dirty
  <1>4. ASSUME NEW t \in Backup, BackupStep(t) \/ Start(t) \/ Stop(t)
        PROVE  dirty' = metadata_dirtied'
    <2>1. CASE CheckFindsBooks(t)
      <3>1. (metadata_dirtied \cup annotations_dirtied) \ dirty \in SUBSET Book
        BY DEF TInv, TypeOK
      <3> QED
        BY <2>1, <3>1, Numbered DEF CheckFindsBooks, AnnotationRowsMove
    <2>2. CASE ClearDirtied(t)
      <3>1. CASE Clears(book[t], seq[t])
        BY <2>2, <3>1, Forgotten DEF ClearDirtied
      <3>2. CASE ~Clears(book[t], seq[t])
        BY <2>2, <3>2 DEF ClearDirtied, dirty
      <3> QED
        BY <3>1, <3>2
    <2>3. CASE UNCHANGED <<dirtied_cache, metadata_dirtied>>
      BY <2>3 DEF dirty
    <2> QED
      BY <1>4, <2>1, <2>2, <2>3
         DEF BackupStep, Start, Stop, Abort, Wake, CheckFindsNothing, Pick, PickNothing,
             GetMetadataForDump, Convert, WriteBackup, WriteBackupFails
  <1>5. CASE UNCHANGED vars
    BY <1>5 DEF vars, dirty
  <1> QED
    BY <1>2, <1>3, <1>4, <1>5 DEF Next

(* CacheMatchesTable: while no transaction is rolled back, the Cache's     *)
(* dirty set and the table metadata_dirtied agree, through removals, dumps *)
(* by other threads, failures of set_field() and crashes.                  *)
THEOREM CacheAndTableAgree ==
  ASSUME "rollback" \notin Disturb
  PROVE  Spec => []CacheMatchesTable
  <1>1. Init => dirty = metadata_dirtied
    BY DEF Init, dirty
  <1>2. TInv /\ dirty = metadata_dirtied /\ [Next]_vars => (dirty = metadata_dirtied)'
    BY StepCacheMatches
  <1>3. dirty = metadata_dirtied => CacheMatchesTable
    BY DEF CacheMatchesTable
  <1> QED
    BY <1>1, <1>2, <1>3, NumbersInvariant, PTL DEF Spec

-----------------------------------------------------------------------------
(* No change is lost, for one thread that OSErrors at most disturb.        *)
OneThread == \A t, u \in Backup : t = u
Undisturbed == Disturb \subseteq {"oserror"}

(* A book stays dirty from Pick to ClearDirtied, the thread has its number *)
(* from GetMetadataForDump on, and that number names the version read and, *)
(* once the file is written, the version in it.                            *)
RoundOf(t) ==
    LET b == book[t]
        current == b \in dirty \cap exists /\ dirtied_cache[b] = seq[t] IN
    /\ pc[t] \in {"get", "convert", "write", "rewrite", "clear"} => b \in dirty
    /\ pc[t] \in {"convert", "write", "rewrite", "clear"} =>
          /\ seq[t] # NoSeq
          /\ current /\ b # changing => mi[t] = value[b] \/ b \in annotations_dirtied
    /\ pc[t] = "clear" /\ current /\ b \notin Unconvertible => opf[b] = mi[t]

(* A stale book is marked, or is about to be by the writer.                *)
Marked(b) ==
    b \notin Unconvertible /\ Stale(b) =>
        b \in metadata_dirtied \cup annotations_dirtied \cup {changing}

BInv ==
    /\ TInv
    /\ dirty = metadata_dirtied
    /\ \A t \in Backup : RoundOf(t)
    /\ \A b \in Book : Marked(b)

(* What another thread may do to a book: number it anew, ...               *)
Renumbered(b) == b \in dirty' /\ dirtied_sequence <= dirtied_cache'[b]

(* ... or keep it and its number, and mark it if it changes.               *)
Kept(b) ==
    /\ b \in dirty => b \in dirty' /\ dirtied_cache'[b] = dirtied_cache[b]
    /\ b \in exists' => b \in exists /\ opf'[b] = opf[b]
    /\ value'[b] = value[b] \/ b \in annotations_dirtied' \cup {changing'}
    /\ b \in annotations_dirtied \cup {changing} => b \in annotations_dirtied' \cup {changing'}
    /\ b \in annotations_dirtied => b \in annotations_dirtied'

LEMMA BooksKept ==
  ASSUME BInv, TInv', UNCHANGED threadVars, dirty' = metadata_dirtied',
         \A b \in Book : Renumbered(b) \/ Kept(b)
  PROVE  BInv'
  <1> USE DEF threadVars
  <1>1. ASSUME NEW t \in Backup PROVE RoundOf(t)'
    <2> DEFINE b == book[t]
    <2>1. CASE pc[t] \in {"off", "wait", "check", "pick"}
      BY <2>1 DEF RoundOf
    <2>2. CASE pc[t] = "get"
      <3>1. b \in dirty /\ b \in Book
        BY <2>2 DEF BInv, RoundOf, TInv, TypeOK
      <3>2. b \in dirty'
        BY <3>1 DEF Renumbered, Kept
      <3> QED
        BY <2>2, <3>2 DEF RoundOf
    <2>3. CASE pc[t] \in {"convert", "write", "rewrite", "clear"}
      <3>1. /\ b \in dirty /\ b \in Book
            /\ seq[t] \in Nat /\ seq[t] < dirtied_sequence /\ seq[t] # NoSeq
            /\ dirtied_sequence \in Nat /\ dirtied_cache \in [dirty -> Nat]
            /\ RoundOf(t)
        BY <2>3 DEF BInv, RoundOf, TInv, TypeOK, NumbersAreFresh, Holding
      <3>2. CASE Renumbered(b)
        <4>1. b \in dirty' /\ dirtied_cache'[b] \in Nat /\ dirtied_sequence <= dirtied_cache'[b]
          BY <3>2 DEF Renumbered, TInv, TypeOK
        <4>2. dirtied_cache'[b] # seq[t]
          BY <3>1, <4>1
        <4> QED
          BY <2>3, <3>1, <4>1, <4>2 DEF RoundOf
      <3>3. CASE Kept(b)
        BY <2>3, <3>1, <3>3 DEF RoundOf, Kept
      <3> QED
        BY <3>1, <3>2, <3>3
    <2> QED
      BY <2>1, <2>2, <2>3 DEF BInv, TInv, TypeOK, Place
  <1>2. ASSUME NEW b \in Book PROVE Marked(b)'
    <2>1. CASE Renumbered(b)
      BY <2>1 DEF Renumbered, Marked
    <2>2. CASE Kept(b)
      BY <1>2, <2>2 DEF BInv, Kept, Marked, Stale
    <2> QED
      BY <2>1, <2>2
  <1> QED
    BY <1>1, <1>2 DEF BInv

LEMMA OthersBInv ==
  ASSUME Undisturbed, BInv, Others
  PROVE  BInv'
  <1> USE DEF threadVars, cacheVars, dbVars
  <1>1. TInv /\ TInv' /\ dirty' = metadata_dirtied'
    BY OthersTInv, StepCacheMatches DEF BInv, Next, Undisturbed
  <1>2. NoBook \notin Book
    BY BookAssumption
  <1>3. ASSUME NEW c \in Book, ChangeField(c) PROVE BInv'
    <2>1. \A b \in Book : Kept(b)
      BY <1>1, <1>2, <1>3 DEF ChangeField, Changed, Kept, Unlocked, TInv, TypeOK, dirty
    <2> QED
      BY <1>1, <1>3, <2>1, BooksKept DEF ChangeField
  <1>4. ASSUME NEW c \in Book, AddBook(c) PROVE BInv'
    <2>1. /\ dirty' = dirty \cup {c} /\ dirtied_sequence <= dirtied_cache'[c]
          /\ \A b \in dirty \ {c} : dirtied_cache'[b] = dirtied_cache[b]
      BY <1>1, <1>4, Numbered DEF AddBook, MarkAsDirty
    <2>2. \A b \in Book : b # c => Kept(b)
      BY <1>1, <1>4, <2>1 DEF AddBook, Changed, Kept, TInv, TypeOK
    <2>3. Renumbered(c)
      BY <2>1 DEF Renumbered
    <2> QED
      BY <1>1, <1>4, <2>2, <2>3, BooksKept DEF AddBook
  <1>5. CASE ChangeIsMarked
    <2>1. changing \in Book
      BY <1>1, <1>5 DEF ChangeIsMarked, Unlocked, TInv, TypeOK
    <2>2. /\ dirty' = dirty \cup {changing} /\ dirtied_sequence <= dirtied_cache'[changing]
          /\ \A b \in dirty \ {changing} : dirtied_cache'[b] = dirtied_cache[b]
      BY <1>1, <1>5, <2>1, Numbered DEF ChangeIsMarked, MarkAsDirty
    <2>3. \A b \in Book : b # changing => Kept(b)
      BY <1>5, <2>2 DEF ChangeIsMarked, Kept
    <2>4. Renumbered(changing)
      BY <2>2 DEF Renumbered
    <2> QED
      BY <1>1, <1>5, <2>3, <2>4, BooksKept DEF ChangeIsMarked
  <1>6. ASSUME NEW c \in Book, Annotate(c) PROVE BInv'
    <2>1. \A b \in Book : Kept(b)
      BY <1>1, <1>6 DEF Annotate, Changed, Kept, TInv, TypeOK, dirty
    <2> QED
      BY <1>1, <1>6, <2>1, BooksKept DEF Annotate
  <1>7. ASSUME NEW c \in Book, RemoveBook(c) PROVE BInv'
    <2>1. \A b \in Book : Kept(b)
      BY <1>1, <1>7 DEF RemoveBook, Kept, TInv, TypeOK, dirty
    <2> QED
      BY <1>1, <1>7, <2>1, BooksKept DEF RemoveBook
  <1>8. CASE MarkAllDirty
    <2>1. /\ dirty' = dirty \cup exists
          /\ \A b \in exists : dirtied_sequence <= dirtied_cache'[b]
          /\ \A b \in dirty \ exists : dirtied_cache'[b] = dirtied_cache[b]
      BY <1>1, <1>8, Numbered DEF MarkAllDirty, MarkAsDirty, TInv, TypeOK
    <2>2. \A b \in Book \ exists : Kept(b)
      BY <1>8, <2>1 DEF MarkAllDirty, Kept
    <2>3. \A b \in exists : Renumbered(b)
      BY <2>1 DEF Renumbered
    <2> QED
      BY <1>1, <1>8, <2>2, <2>3, BooksKept DEF MarkAllDirty
  <1> QED
    BY <1>3, <1>4, <1>5, <1>6, <1>7, <1>8
       DEF Others, SetMetadataRollsBack, PathUpdateFails, DumpMetadata, Undisturbed

(* The life of the thread, and its steps up to the one that picks a book.  *)
LEMMA IdleBInv ==
  ASSUME OneThread, BInv, TInv', dirty' = metadata_dirtied', NEW t \in Backup,
         UNCHANGED <<exists, value, opf, changing>>,
         metadata_dirtied \cup annotations_dirtied \subseteq metadata_dirtied' \cup annotations_dirtied',
         pc'[t] \in {"off", "wait", "check", "pick"}
  PROVE  BInv'
  <1>1. ASSUME NEW u \in Backup PROVE RoundOf(u)'
    <2>1. u = t
      BY DEF OneThread
    <2> QED
      BY <2>1 DEF RoundOf
  <1>2. ASSUME NEW b \in Book PROVE Marked(b)'
    BY DEF BInv, Marked, Stale
  <1> QED
    BY <1>1, <1>2 DEF BInv

LEMMA ReopenBInv ==
  ASSUME OneThread, Undisturbed, BInv, Reopen
  PROVE  BInv'
  <1>1. TInv' /\ dirty' = metadata_dirtied'
    BY ReopenTInv, StepCacheMatches DEF BInv, Next, Undisturbed
  <1>2. PICK saved : LET rows == metadata_dirtied \cup saved
                         all == rows \cup annotations_dirtied IN metadata_dirtied' = all
    BY DEF Reopen
  <1>3. ASSUME NEW u \in Backup PROVE RoundOf(u)'
    BY DEF Reopen, RoundOf
  <1>4. ASSUME NEW b \in Book PROVE Marked(b)'
    <2>1. changing = NoBook /\ b # NoBook
      BY BookAssumption DEF Reopen, Undisturbed, Unlocked
    <2>2. UNCHANGED <<exists, value, opf>>
      BY DEF Reopen
    <2> QED
      BY <1>2, <2>1, <2>2 DEF BInv, Marked, Stale
  <1> QED
    BY <1>1, <1>3, <1>4 DEF BInv

LEMMA IdleStepBInv ==
  ASSUME OneThread, Undisturbed, BInv, NEW t \in Backup,
         \/ Start(t) \/ Abort(t) \/ Wake(t) \/ CheckFindsNothing(t) \/ CheckFindsBooks(t)
         \/ PickNothing(t)
  PROVE  BInv'
  <1>1. TInv' /\ dirty' = metadata_dirtied'
    BY StepTInv, StepCacheMatches DEF BInv, Next, BackupStep, Undisturbed
  <1>2. pc'[t] \in {"off", "wait", "check", "pick"}
    BY DEF BInv, TInv, TypeOK, Goto, Start, Abort, Wake, CheckFindsNothing, CheckFindsBooks, PickNothing
  <1>3. /\ UNCHANGED <<exists, value, opf, changing>>
        /\ metadata_dirtied \cup annotations_dirtied
               \subseteq metadata_dirtied' \cup annotations_dirtied'
    BY DEF dbVars, AnnotationRowsMove, Start, Abort, Wake, CheckFindsNothing, CheckFindsBooks,
           PickNothing
  <1> QED
    BY <1>1, <1>2, <1>3, IdleBInv

LEMMA StopBInv ==
  ASSUME BInv, TInv', dirty' = metadata_dirtied', UNCHANGED <<dbVars, opf, cacheVars, changing>>,
         UNCHANGED <<pc, book, mi, seq>>
  PROVE  BInv'
  <1>1. dirty' = dirty
    BY DEF cacheVars, dirty
  <1>2. ASSUME NEW u \in Backup PROVE RoundOf(u)'
    BY <1>1 DEF BInv, RoundOf, dbVars, cacheVars
  <1>3. ASSUME NEW b \in Book PROVE Marked(b)'
    BY DEF BInv, Marked, Stale, dbVars
  <1> QED
    BY <1>2, <1>3 DEF BInv

(* The rest of the round.                                                  *)
LEMMA WorkBInv ==
  ASSUME OneThread, Undisturbed, BInv, NEW t \in Backup,
         \/ \E b \in Book : Pick(t, b)
         \/ GetMetadataForDump(t) \/ Convert(t)
  PROVE  BInv'
  <1> USE DEF cacheVars, dbVars
  <1>1. TInv' /\ dirty' = metadata_dirtied'
    BY StepTInv, StepCacheMatches DEF BInv, Next, BackupStep, Undisturbed
  <1>2. /\ UNCHANGED <<exists, value, annotations_dirtied, metadata_dirtied, opf, dirtied_cache,
                       changing, dirty>>
        /\ t \in DOMAIN pc /\ t \in DOMAIN book /\ t \in DOMAIN mi /\ t \in DOMAIN seq
    BY DEF Pick, GetMetadataForDump, Convert, dirty, BInv, TInv, TypeOK
  <1>3. RoundOf(t)'
    <2>1. ASSUME NEW b \in Book, Pick(t, b) PROVE RoundOf(t)'
      BY <1>2, <2>1 DEF Pick, Goto, RoundOf
    <2>2. CASE GetMetadataForDump(t)
      <3>1. book[t] \in dirty
        BY <2>2 DEF GetMetadataForDump, At, BInv, RoundOf
      <3>2. dirtied_cache[book[t]] # NoSeq
        <4>1. dirtied_cache[book[t]] \in Nat
          BY <3>1 DEF BInv, TInv, TypeOK
        <4> QED
          BY <4>1, BoundAssumption
      <3>3. book' = book /\ seq'[t] = dirtied_cache[book[t]]
        BY <1>2, <2>2, <3>1 DEF GetMetadataForDump
      <3>4. CASE book[t] \in exists
        <4>1. mi'[t] = value[book[t]] /\ pc'[t] = "convert"
          BY <1>2, <2>2, <3>1, <3>4 DEF GetMetadataForDump, Goto
        <4> QED
          BY <1>2, <3>1, <3>2, <3>3, <4>1 DEF RoundOf
      <3>5. CASE book[t] \notin exists
        BY <1>2, <3>1, <3>2, <3>3, <3>5 DEF RoundOf
      <3> QED
        BY <3>4, <3>5
    <2>3. CASE Convert(t)
      BY <1>2, <2>3 DEF Convert, Goto, At, BInv, RoundOf
    <2> QED
      BY <2>1, <2>2, <2>3
  <1>4. ASSUME NEW u \in Backup PROVE RoundOf(u)'
    BY <1>3 DEF OneThread
  <1>5. ASSUME NEW b \in Book PROVE Marked(b)'
    BY <1>2 DEF BInv, Marked, Stale
  <1> QED
    BY <1>1, <1>4, <1>5 DEF BInv

LEMMA WriteBInv ==
  ASSUME OneThread, Undisturbed, BInv, NEW t \in Backup, WriteBackup(t) \/ WriteBackupFails(t)
  PROVE  BInv'
  <1> USE DEF cacheVars, dbVars
  <1>1. TInv' /\ dirty' = metadata_dirtied'
    BY StepTInv, StepCacheMatches DEF BInv, Next, BackupStep, Undisturbed
  <1>2. /\ UNCHANGED <<exists, value, annotations_dirtied, metadata_dirtied, dirtied_cache,
                       changing, dirty, book, mi, seq>>
        /\ pc[t] \in {"write", "rewrite"} /\ t \in DOMAIN pc /\ book[t] \in Book
        /\ opf \in [Book -> Version]
    BY DEF WriteBackup, WriteBackupFails, dirty, BInv, TInv, TypeOK, Counted
  <1>3. book[t] \in dirty /\ \A b \in Book \ {book[t]} : opf'[b] = opf[b]
    BY <1>2 DEF WriteBackup, WriteBackupFails, BInv, RoundOf
  <1>4. RoundOf(t)'
    <2>1. CASE WriteBackup(t)
      BY <1>2, <2>1 DEF WriteBackup, Goto, BInv, RoundOf
    <2>2. CASE WriteBackupFails(t)
      BY <1>2, <2>2 DEF WriteBackupFails, Goto, BInv, RoundOf
    <2> QED
      BY <2>1, <2>2
  <1>5. ASSUME NEW u \in Backup PROVE RoundOf(u)'
    BY <1>4 DEF OneThread
  <1>6. ASSUME NEW b \in Book PROVE Marked(b)'
    BY <1>2, <1>3 DEF BInv, Marked, Stale
  <1> QED
    BY <1>1, <1>5, <1>6 DEF BInv

(* A book that is cleared is not stale, unless its annotations are marked. *)
LEMMA ClearBInv ==
  ASSUME OneThread, Undisturbed, BInv, NEW t \in Backup, ClearDirtied(t)
  PROVE  BInv'
  <1>1. TInv' /\ dirty' = metadata_dirtied'
    BY StepTInv, StepCacheMatches DEF BInv, Next, BackupStep, Undisturbed
  <1>2. /\ UNCHANGED <<exists, value, annotations_dirtied, opf, changing>>
        /\ pc[t] = "clear" /\ pc'[t] = "wait" /\ changing = NoBook
    BY DEF ClearDirtied, Goto, At, Unlocked, BInv, TInv, TypeOK
  <1>3. /\ metadata_dirtied \ {book[t]} \subseteq metadata_dirtied'
        /\ ~Clears(book[t], seq[t]) => metadata_dirtied' = metadata_dirtied
    BY DEF ClearDirtied
  <1>4. ASSUME NEW u \in Backup PROVE RoundOf(u)'
    BY <1>2 DEF OneThread, RoundOf
  <1>5. ASSUME NEW b \in Book PROVE Marked(b)'
    <2>1. CASE b # book[t] \/ ~Clears(book[t], seq[t])
      BY <1>2, <1>3, <2>1 DEF BInv, Marked, Stale
    <2>2. CASE b = book[t] /\ Clears(book[t], seq[t])
      <3>1. b \in dirty /\ seq[t] # NoSeq /\ RoundOf(t) /\ b # NoBook
        BY <1>2, <2>2, BookAssumption DEF BInv, RoundOf
      <3>2. dirtied_cache[b] = seq[t]
        BY <2>2, <3>1 DEF Clears
      <3>3. b \in exists \ Unconvertible =>
               opf[b] = mi[t] /\ (mi[t] = value[b] \/ b \in annotations_dirtied)
        BY <1>2, <2>2, <3>1, <3>2 DEF RoundOf
      <3> QED
        BY <1>2, <3>3 DEF Marked, Stale
    <2> QED
      BY <2>1, <2>2
  <1> QED
    BY <1>1, <1>4, <1>5 DEF BInv

LEMMA StepBInv ==
  ASSUME OneThread, Undisturbed, BInv, [Next]_vars
  PROVE  BInv'
  <1>1. TInv' /\ dirty' = metadata_dirtied'
    BY StepTInv, StepCacheMatches DEF BInv, Undisturbed
  <1>2. ASSUME NEW t \in Backup, Stop(t) PROVE BInv'
    BY <1>1, <1>2, StopBInv DEF Stop
  <1>3. CASE UNCHANGED vars
    BY <1>1, <1>3, StopBInv DEF vars, threadVars
  <1>4. ASSUME NEW t \in Backup, BackupStep(t) \/ Start(t) PROVE BInv'
    BY <1>4, IdleStepBInv, WorkBInv, WriteBInv, ClearBInv DEF BackupStep
  <1> QED
    BY <1>2, <1>3, <1>4, OthersBInv, ReopenBInv DEF Next

LEMMA InitBInv == Init => BInv
  <1> SUFFICES ASSUME Init PROVE BInv
    OBVIOUS
  <1>1. dirty = metadata_dirtied
    BY DEF Init, dirty
  <1>2. ASSUME NEW t \in Backup PROVE RoundOf(t)
    BY DEF Init, RoundOf
  <1>3. ASSUME NEW b \in Book PROVE Marked(b)
    BY DEF Init, Marked, Stale
  <1> QED
    BY <1>1, <1>2, <1>3, InitTInv DEF BInv

(* StaleIsDirty: with one thread, which at most OSErrors disturb, no       *)
(* change of a book is lost, neither by a change, a removal or an addition *)
(* during its backup nor by a crash at any point.                          *)
THEOREM NoChangeIsLost ==
  ASSUME OneThread, Undisturbed
  PROVE  Spec => []StaleIsDirty
  <1>1. BInv /\ [Next]_vars => BInv'
    BY StepBInv
  <1>2. BInv => StaleIsDirty
    BY BookAssumption DEF BInv, Marked, StaleIsDirty, Unlocked
  <1> QED
    BY <1>1, <1>2, InitBInv, PTL DEF Spec

(* SequenceNamesVersion, under the same assumptions: the number by which   *)
(* clear_dirtied() decides stands for the metadata that was written.       *)
THEOREM NumbersNameVersions ==
  ASSUME OneThread, Undisturbed
  PROVE  Spec => []SequenceNamesVersion
  <1>1. BInv /\ [Next]_vars => BInv'
    BY StepBInv
  <1>2. BInv => SequenceNamesVersion
    BY DEF BInv, RoundOf, SequenceNamesVersion, Holding
  <1> QED
    BY <1>1, <1>2, InitBInv, PTL DEF Spec
=============================================================================
