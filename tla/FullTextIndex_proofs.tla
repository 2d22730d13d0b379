------------------------ MODULE FullTextIndex_proofs ------------------------
(***************************************************************************)
(* Proofs about the full text index, for any formats, contents, workers    *)
(* and bounds.  The types need no assumption.  The safety properties hold  *)
(* if no format is changed while a job for it is under way; TLC shows that *)
(* they do not without that.  Indexing may be turned off and on.           *)
(***************************************************************************)
EXTENDS FullTextIndex, FiniteSetTheorems, SequenceTheorems, TLAPS

(* A dispatcher has a format from the first lock section on, a copy of its *)
(* file from the second.                                                   *)
Dispatching ==
    \A t \in FTSQueue :
        /\ dispatch[t].pc \in {"remove", "copy", "moved", "queue"} => dispatch[t].fmt \in Format
        /\ dispatch[t].pc = "queue" => dispatch[t].content \in Content

TInv == TypeOK /\ Dispatching

(* A sequence of jobs or results has one for the format; one of each.      *)
Of(f, s) == \E i \in DOMAIN s : s[i].fmt = f
Apart(s) == \A i, k \in DOMAIN s : s[i].fmt = s[k].fmt => i = k
Runs(f, w) == working[w] # None /\ working[w].fmt = f
InPool(f) == Of(f, jobs) \/ Of(f, results) \/ \E w \in Worker : Runs(f, w)

(* As long as one dispatcher was started in each process: the others are   *)
(* idle and nobody writes to their queues.                                 *)
NewestOnly ==
    ~toggled => /\ \A t \in FTSQueue : queue[t] = t
                /\ \A t \in FTSQueue \ {restarts} : dispatch[t].pc = "idle" /\ wakeups[t] = 0

(* One job for a format, whose row is in progress.                         *)
One ==
    /\ Apart(jobs) /\ Apart(results)
    /\ \A f \in Format :
          /\ \A v, w \in Worker : Runs(f, v) /\ Runs(f, w) => v = w
          /\ ~(Of(f, jobs) /\ Of(f, results))
          /\ \A w \in Worker : Runs(f, w) => ~Of(f, jobs) /\ ~Of(f, results)
          /\ InPool(f) => f \in in_progress

Waits(t) == dispatch[t].pc \in {"remove", "copy", "queue"} => dispatch[t].fmt \in dirty \ in_progress

OneEach == ~toggled => One /\ \A t \in FTSQueue : Waits(t)

(* What is on its way through the dispatchers and the pool is what the     *)
(* format still is.                                                        *)
Carried(s) == \A i \in DOMAIN s : content[s[i].fmt] = s[i].content

Holds(t) ==
    /\ dispatch[t].pc = "queue" => content[dispatch[t].fmt] = dispatch[t].content
    /\ dispatch[t].pc = "remove" => dispatch[t].fmt \in Unextractable \/ content[dispatch[t].fmt] = None

Current ==
    /\ Carried(jobs) /\ Carried(results)
    /\ \A w \in Worker : working[w] # None => content[working[w].fmt] = working[w].content
    /\ \A t \in FTSQueue : Holds(t)

(* A row with a text has that of the file whose hash it has.               *)
Hashed == \A f \in Format : text[f] # None /\ text[f].text # None =>
                               text[f].hash \in Content /\ text[f].text = TextOf[text[f].hash]

(* While the database is detached nothing is under way; until indexing is  *)
(* turned off it is attached.                                              *)
Detached ==
    /\ ~attached => ~enabled /\ \A f \in Format : ~InPool(f)
    /\ ~toggled => enabled

NoneLost == ~toggled => \A f \in in_progress : InPool(f)

SInv ==
    /\ NewestOnly
    /\ OneEach
    /\ Current
    /\ Hashed
    /\ Detached
    /\ NoneLost
    /\ IndexIsCurrent
    /\ NothingOfGoneFormats

IInv == TInv /\ SInv

-----------------------------------------------------------------------------
(* Sequences.                                                              *)
LEMMA Appended ==
  ASSUME NEW T, NEW s \in Seq(T), NEW e \in T
  PROVE  /\ Append(s, e) \in Seq(T)
         /\ \A f : Of(f, Append(s, e)) <=> Of(f, s) \/ f = e.fmt
         /\ Apart(s) /\ ~Of(e.fmt, s) => Apart(Append(s, e))
         /\ \A i \in DOMAIN Append(s, e) :
               Append(s, e)[i] = e \/ \E k \in DOMAIN s : Append(s, e)[i] = s[k]
  <1>1. /\ Append(s, e) \in Seq(T) /\ Len(s) \in Nat
        /\ DOMAIN s = 1..Len(s) /\ DOMAIN Append(s, e) = 1..(Len(s) + 1)
        /\ \A i \in 1..Len(s) : Append(s, e)[i] = s[i]
        /\ Append(s, e)[Len(s) + 1] = e
    BY AppendProperties, LenProperties
  <1>2. \A i \in 1..(Len(s) + 1) : i \in 1..Len(s) \/ i = Len(s) + 1
    BY <1>1
  <1>3. (1..Len(s)) \subseteq 1..(Len(s) + 1) /\ Len(s) + 1 \in 1..(Len(s) + 1)
    BY <1>1
  <1>4. \A f : Of(f, Append(s, e)) <=> Of(f, s) \/ f = e.fmt
    BY <1>1, <1>2, <1>3 DEF Of
  <1>5. Apart(s) /\ ~Of(e.fmt, s) => Apart(Append(s, e))
    BY <1>1, <1>2 DEF Apart, Of
  <1> QED
    BY <1>1, <1>2, <1>4, <1>5

LEMMA Tailed ==
  ASSUME NEW T, NEW s \in Seq(T), s # <<>>
  PROVE  /\ Tail(s) \in Seq(T) /\ Head(s) \in T
         /\ Of(Head(s).fmt, s)
         /\ \E k \in DOMAIN s : Head(s) = s[k]
         /\ \A i \in DOMAIN Tail(s) : \E k \in DOMAIN s : Tail(s)[i] = s[k]
         /\ Apart(s) => /\ Apart(Tail(s))
                        /\ \A f : Of(f, Tail(s)) <=> Of(f, s) /\ f # Head(s).fmt
  <1>1. /\ Tail(s) \in Seq(T) /\ Head(s) \in T /\ Head(s) = s[1] /\ Len(s) \in Nat /\ Len(s) > 0
        /\ DOMAIN s = 1..Len(s) /\ DOMAIN Tail(s) = 1..(Len(s) - 1)
        /\ \A i \in 1..(Len(s) - 1) : Tail(s)[i] = s[i + 1]
    BY HeadTailProperties, LenProperties, EmptySeq
  <1>2. \A i \in 1..(Len(s) - 1) : i + 1 \in 1..Len(s) /\ i + 1 # 1
    BY <1>1
  <1>3. \A i \in 1..Len(s) : i = 1 \/ (i - 1 \in 1..(Len(s) - 1) /\ (i - 1) + 1 = i)
    BY <1>1
  <1>4. 1 \in DOMAIN s /\ Of(Head(s).fmt, s)
    BY <1>1 DEF Of
  <1>5. ASSUME Apart(s), NEW f PROVE Of(f, Tail(s)) <=> Of(f, s) /\ f # Head(s).fmt
    <2>1. ASSUME NEW i \in DOMAIN Tail(s), Tail(s)[i].fmt = f PROVE Of(f, s) /\ f # Head(s).fmt
      <3>1. i + 1 \in DOMAIN s /\ i + 1 # 1 /\ s[i + 1].fmt = f
        BY <1>1, <1>2, <2>1
      <3> QED
        BY <1>1, <1>4, <1>5, <3>1 DEF Of, Apart
    <2>2. ASSUME NEW i \in DOMAIN s, s[i].fmt = f, f # Head(s).fmt PROVE Of(f, Tail(s))
      <3>1. i - 1 \in DOMAIN Tail(s) /\ Tail(s)[i - 1] = s[i]
        BY <1>1, <1>3, <2>2
      <3> QED
        BY <2>2, <3>1 DEF Of
    <2> QED
      BY <2>1, <2>2 DEF Of
  <1>6. ASSUME Apart(s) PROVE Apart(Tail(s))
    <2> SUFFICES ASSUME NEW i \in 1..(Len(s) - 1), NEW k \in 1..(Len(s) - 1),
                        Tail(s)[i].fmt = Tail(s)[k].fmt
                 PROVE  i = k
      BY <1>1 DEF Apart
    <2>1. i + 1 \in DOMAIN s /\ k + 1 \in DOMAIN s /\ s[i + 1].fmt = s[k + 1].fmt
      BY <1>1, <1>2
    <2>2. i + 1 = k + 1
      BY <1>6, <2>1 DEF Apart
    <2> QED
      BY <2>2
  <1> QED
    BY <1>1, <1>2, <1>4, <1>5, <1>6

(* The rows of dirtied_formats.                                            *)
LEMMA Ordered ==
  ASSUME NEW S \in SUBSET Format, NEW s \in Orders(S)
  PROVE  s \in Seq(S) /\ IsInjective(s) /\ ToSet(s) = S
  <1>1. IsFiniteSet(S) /\ Cardinality(S) \in Nat
    BY FormatAssumption, FS_Subset, FS_CardinalityType
  <1>2. s \in [1..Cardinality(S) -> S] /\ ToSet(s) = S
    BY DEF Orders
  <1>3. s \in Seq(S)
    BY <1>1, <1>2, IsASeq
  <1>4. DOMAIN s = 1..Cardinality(S)
    BY <1>2
  <1>5. s \in Surjection(1..Cardinality(S), S)
    BY <1>2, <1>4 DEF Surjection, ToSet
  <1>6. \A n \in Nat : IsFiniteSet(1..n) /\ Cardinality(1..n) = n
    <2> SUFFICES ASSUME NEW n \in Nat PROVE IsFiniteSet(1..n) /\ Cardinality(1..n) = n
      OBVIOUS
    <2>1. IsFiniteSet(1..n) /\ Cardinality(1..n) = IF 1 > n THEN 0 ELSE n - 1 + 1
      BY FS_Interval
    <2> QED
      BY <2>1
  <1>7. IsFiniteSet(1..Cardinality(S)) /\ Cardinality(1..Cardinality(S)) = Cardinality(S)
    BY <1>1, <1>6
  <1>8. s \in Injection(1..Cardinality(S), S)
    BY <1>1, <1>5, <1>7, FS_SurjSameCardinalityImpliesInj
  <1> QED
    BY <1>2, <1>3, <1>8 DEF Injection

LEMMA Dirtied ==
  ASSUME TypeOK, NEW S \in SUBSET Format, Dirties(S)
  PROVE  /\ dirtied' \in Seq(Format) /\ IsInjective(dirtied')
         /\ dirty' = dirty \cup S
  <1>1. PICK s \in Orders(S \ dirty) : dirtied' = dirtied \o s
    BY DEF Dirties
  <1>2. s \in Seq(S \ dirty) /\ IsInjective(s) /\ ToSet(s) = S \ dirty
    BY Ordered
  <1>3. dirtied \in Seq(Format) /\ IsInjective(dirtied)
    BY DEF TypeOK
  <1>4. s \in Seq(Format)
    BY <1>2, SeqMonotonic
  <1>5. /\ dirtied' \in Seq(Format)
        /\ DOMAIN dirtied = 1..Len(dirtied) /\ DOMAIN s = 1..Len(s)
        /\ DOMAIN dirtied' = 1..(Len(dirtied) + Len(s)) /\ Len(dirtied) \in Nat /\ Len(s) \in Nat
        /\ \A i \in 1..Len(dirtied) : dirtied'[i] = dirtied[i]
        /\ \A i \in 1..Len(s) : dirtied'[Len(dirtied) + i] = s[i]
    BY <1>1, <1>3, <1>4, ConcatProperties, LenProperties
  <1>6. /\ \A i \in 1..(Len(dirtied) + Len(s)) :
              \/ i \in 1..Len(dirtied)
              \/ i - Len(dirtied) \in 1..Len(s) /\ Len(dirtied) + (i - Len(dirtied)) = i
        /\ \A i \in 1..Len(dirtied) : i \in 1..(Len(dirtied) + Len(s))
        /\ \A i \in 1..Len(s) : Len(dirtied) + i \in 1..(Len(dirtied) + Len(s))
    BY <1>5
  <1>7. dirty' = dirty \cup S
    <2>1. ASSUME NEW i \in 1..(Len(dirtied) + Len(s)) PROVE dirtied'[i] \in dirty \cup S
      <3>1. CASE i \in 1..Len(dirtied)
        BY <1>5, <3>1 DEF ToSet, dirty
      <3>2. CASE i \notin 1..Len(dirtied)
        <4>1. i - Len(dirtied) \in DOMAIN s /\ dirtied'[i] = s[i - Len(dirtied)]
          BY <1>5, <1>6, <3>2
        <4> QED
          BY <1>2, <4>1 DEF ToSet
      <3> QED
        BY <3>1, <3>2
    <2>2. \A x \in dirty : x \in dirty'
      BY <1>5, <1>6 DEF ToSet, dirty
    <2>3. \A x \in S \ dirty : x \in dirty'
      BY <1>2, <1>5, <1>6, SMTT(30) DEF ToSet, dirty
    <2>4. \A x : x \in dirty' => \E i \in 1..(Len(dirtied) + Len(s)) : x = dirtied'[i]
      BY <1>5 DEF ToSet, dirty
    <2> QED
      BY <2>1, <2>2, <2>3, <2>4
  <1>8. IsInjective(dirtied')
    <2> SUFFICES ASSUME NEW i \in 1..(Len(dirtied) + Len(s)), NEW k \in 1..(Len(dirtied) + Len(s)),
                        dirtied'[i] = dirtied'[k]
                 PROVE  i = k
      BY <1>5 DEF IsInjective
    <2>1. \A n \in 1..Len(s) : s[n] \notin dirty
      BY <1>2, <1>5 DEF ToSet
    <2>2. \A n \in 1..Len(dirtied) : dirtied[n] \in dirty
      BY <1>5 DEF dirty, ToSet
    <2>3. CASE i \in 1..Len(dirtied) /\ k \in 1..Len(dirtied)
      BY <1>3, <1>5, <2>3 DEF IsInjective
    <2>4. CASE i \notin 1..Len(dirtied) /\ k \notin 1..Len(dirtied)
      <3>1. /\ i - Len(dirtied) \in DOMAIN s /\ k - Len(dirtied) \in DOMAIN s
            /\ s[i - Len(dirtied)] = s[k - Len(dirtied)]
        BY <1>5, <1>6, <2>4
      <3>2. i - Len(dirtied) = k - Len(dirtied)
        BY <1>2, <3>1 DEF IsInjective
      <3> QED
        BY <1>5, <3>2
    <2> QED
      BY <1>5, <1>6, <2>1, <2>2, <2>3, <2>4, SMTT(30)
  <1> QED
    BY <1>5, <1>7, <1>8

LEMMA Cleaned ==
  ASSUME TypeOK, NEW f, Cleans(f)
  PROVE  /\ dirtied' \in Seq(Format) /\ IsInjective(dirtied')
         /\ dirty' = dirty \ {f} /\ in_progress' = in_progress \ {f}
  <1>1. dirtied \in Seq(Format) /\ IsInjective(dirtied) /\ in_progress' = in_progress \ {f}
    BY DEF TypeOK, Cleans
  <1>2. CASE f \notin dirty
    BY <1>1, <1>2 DEF Cleans, dirty
  <1>3. CASE f \in dirty
    <2> DEFINE r == RowOf(f)
               d == dirtied'
    <2>1. r \in DOMAIN dirtied /\ dirtied[r] = f
      BY <1>3 DEF RowOf, dirty, ToSet
    <2>2. d = SubSeq(dirtied, 1, r - 1) \o SubSeq(dirtied, r + 1, Len(dirtied))
      BY <1>3 DEF Cleans, RemoveAt
    <2>3. Len(dirtied) \in Nat /\ DOMAIN dirtied = 1..Len(dirtied)
      BY <1>1, LenProperties
    <2> HIDE DEF r
    <2>4. /\ SubSeq(dirtied, 1, r - 1) \in Seq(Format) /\ Len(SubSeq(dirtied, 1, r - 1)) = r - 1
          /\ \A i \in 1..(r - 1) : SubSeq(dirtied, 1, r - 1)[i] = dirtied[i]
      <3>1. 1 \in 1..(Len(dirtied) + 1) /\ r - 1 \in (1 - 1)..Len(dirtied)
        BY <2>1, <2>3
      <3> QED
        BY <1>1, <2>1, <2>3, <3>1, SubSeqProperties
    <2>5. /\ SubSeq(dirtied, r + 1, Len(dirtied)) \in Seq(Format)
          /\ Len(SubSeq(dirtied, r + 1, Len(dirtied))) = Len(dirtied) - r
          /\ \A i \in 1..(Len(dirtied) - r) : SubSeq(dirtied, r + 1, Len(dirtied))[i] = dirtied[r + i]
      <3>1. r + 1 \in 1..(Len(dirtied) + 1) /\ Len(dirtied) \in ((r + 1) - 1)..Len(dirtied)
        BY <2>1, <2>3
      <3> QED
        BY <1>1, <2>1, <2>3, <3>1, SubSeqProperties
    <2>6. /\ d \in Seq(Format) /\ Len(d) = Len(dirtied) - 1 /\ DOMAIN d = 1..(Len(dirtied) - 1)
          /\ \A i \in 1..(Len(dirtied) - 1) : d[i] = IF i < r THEN dirtied[i] ELSE dirtied[i + 1]
      <3>1. /\ d \in Seq(Format) /\ Len(d) = (r - 1) + (Len(dirtied) - r)
            /\ \A i \in 1..Len(d) :
                  d[i] = IF i <= r - 1 THEN SubSeq(dirtied, 1, r - 1)[i]
                         ELSE SubSeq(dirtied, r + 1, Len(dirtied))[i - (r - 1)]
        BY <2>2, <2>4, <2>5, ConcatProperties, SMTT(30)
      <3>2. Len(d) = Len(dirtied) - 1 /\ DOMAIN d = 1..(Len(dirtied) - 1)
        BY <2>1, <2>3, <3>1, LenProperties
      <3>3. ASSUME NEW i \in 1..(Len(dirtied) - 1)
            PROVE  d[i] = IF i < r THEN dirtied[i] ELSE dirtied[i + 1]
        <4>1. CASE i < r
          BY <2>1, <2>3, <2>4, <3>1, <3>2, <4>1
        <4>2. CASE ~(i < r)
          <5>1. i - (r - 1) \in 1..(Len(dirtied) - r) /\ r + (i - (r - 1)) = i + 1
            BY <2>1, <2>3, <4>2
          <5>2. i \in 1..Len(d) /\ ~(i <= r - 1)
            BY <2>1, <2>3, <3>2, <4>2
          <5>3. d[i] = SubSeq(dirtied, r + 1, Len(dirtied))[i - (r - 1)]
            BY <3>1, <5>2
          <5>4. SubSeq(dirtied, r + 1, Len(dirtied))[i - (r - 1)] = dirtied[r + (i - (r - 1))]
            BY <2>5, <5>1
          <5> QED
            BY <4>2, <5>1, <5>3, <5>4
        <4> QED
          BY <4>1, <4>2
      <3> QED
        BY <3>1, <3>2, <3>3
    <2> HIDE DEF d
    <2>7. ASSUME NEW i \in 1..(Len(dirtied) - 1)
          PROVE  LET k == IF i < r THEN i ELSE i + 1 IN k \in DOMAIN dirtied /\ k # r /\ d[i] = dirtied[k]
      BY <2>1, <2>3, <2>6
    <2>8. ASSUME NEW k \in DOMAIN dirtied, k # r
          PROVE  \E i \in DOMAIN d : d[i] = dirtied[k]
      <3>1. CASE k < r
        <4>1. k \in 1..(Len(dirtied) - 1)
          BY <2>1, <2>3, <3>1
        <4> QED
          BY <2>6, <3>1, <4>1
      <3>2. CASE ~(k < r)
        <4>1. k - 1 \in 1..(Len(dirtied) - 1) /\ ~(k - 1 < r) /\ (k - 1) + 1 = k
          BY <2>1, <2>3, <2>8, <3>2
        <4> QED
          BY <2>6, <4>1
      <3> QED
        BY <3>1, <3>2
    <2>9. \A k \in DOMAIN dirtied : dirtied[k] = f <=> k = r
      BY <1>1, <2>1 DEF IsInjective
    <2>10. ToSet(d) = dirty \ {f}
      <3>1. \A i \in DOMAIN d : d[i] \in dirty \ {f}
        BY <2>6, <2>7, <2>9 DEF dirty, ToSet
      <3>2. \A x \in dirty \ {f} : \E k \in DOMAIN dirtied : k # r /\ x = dirtied[k]
        BY <2>1 DEF dirty, ToSet
      <3> QED
        BY <2>8, <3>1, <3>2 DEF ToSet
    <2>11. IsInjective(d)
      <3> SUFFICES ASSUME NEW i \in 1..(Len(dirtied) - 1), NEW k \in 1..(Len(dirtied) - 1), d[i] = d[k]
                   PROVE  i = k
        BY <2>6 DEF IsInjective
      <3>1. (IF i < r THEN i ELSE i + 1) = (IF k < r THEN k ELSE k + 1)
        BY <1>1, <2>7 DEF IsInjective
      <3> QED
        BY <2>1, <2>3, <3>1
    <2> QED
      BY <1>1, <2>6, <2>10, <2>11 DEF d, dirty
  <1> QED
    BY <1>2, <1>3

-----------------------------------------------------------------------------
(* The types.                                                              *)
LEMMA IdleType == Idle \in Dispatch
  BY DEF Idle, Dispatch

LEMMA InitTInv == Init => TInv
  <1> SUFFICES ASSUME Init PROVE TInv
    OBVIOUS
  <1>1. Present \in SUBSET Format
    BY DEF Present
  <1>2. dirtied \in Seq(Present) /\ IsInjective(dirtied)
    BY <1>1, Ordered DEF Init
  <1>3. dirtied \in Seq(Format)
    BY <1>1, <1>2, SeqMonotonic
  <1>4. jobs \in Seq(Job) /\ results \in Seq(Result)
    BY EmptySeq DEF Init
  <1>5. 0 \in 0..MaxChanges /\ 0 \in FTSQueue
    BY BoundAssumption DEF FTSQueue
  <1>6. TypeOK
    BY <1>2, <1>3, <1>4, <1>5, IdleType DEF Init, TypeOK
  <1> QED
    BY <1>6 DEF TInv, Dispatching, Init, Idle

LEMMA NewPoolTyped ==
  ASSUME NewPool
  PROVE  /\ jobs' \in Seq(Job) /\ results' \in Seq(Result)
         /\ working' \in [Worker -> Job \cup {None}] /\ supervisor' \in BOOLEAN
  BY EmptySeq DEF NewPool

(* A library opened again: no thread has anything.                         *)
LEMMA NewThreadsTyped ==
  ASSUME NEW n \in Nat, NewThreads(n)
  PROVE  /\ wakeups' \in [FTSQueue -> Nat] /\ queue' \in [FTSQueue -> FTSQueue]
         /\ dispatch' \in [FTSQueue -> Dispatch]
         /\ Dispatching'
  BY IdleType DEF NewThreads, Dispatching, Idle

LEMMA RestartTyped ==
  ASSUME TypeOK
  PROVE  /\ Restart => restarts' \in FTSQueue
         /\ Change => changes' \in 0..MaxChanges
         /\ Wakes => wakeups' \in [FTSQueue -> Nat] /\ queue' = queue
  <1>1. Restart => restarts' \in FTSQueue
    BY BoundAssumption DEF Restart, TypeOK, FTSQueue
  <1>2. Change => changes' \in 0..MaxChanges
    BY BoundAssumption DEF Change, TypeOK
  <1>3. Wakes => wakeups' \in [FTSQueue -> Nat] /\ queue' = queue
    <2>1. \A n \in Nat : n + 1 \in Nat
      OBVIOUS
    <2> QED
      BY <2>1 DEF Wakes, TypeOK
  <1> QED
    BY <1>1, <1>2, <1>3

LEMMA OthersTInv ==
  ASSUME TInv, Others
  PROVE  TInv'
  <1> USE DEF TInv, tables, pool, queues
  <1>1. Present \in SUBSET Format
    BY DEF Present
  <1>2. ASSUME NEW f \in Format, Dirties({f}) \/ UNCHANGED dirtied
        PROVE  dirtied' \in Seq(Format) /\ IsInjective(dirtied') /\ dirty \subseteq dirty'
    <2>1. CASE Dirties({f})
      BY <2>1, Dirtied
    <2>2. CASE UNCHANGED dirtied
      BY <2>2 DEF TypeOK, dirty
    <2> QED
      BY <1>2, <2>1, <2>2
  <1>3. ASSUME NEW f \in Format, NEW c \in Content, AddFormat(f, c) PROVE TInv'
    <2>1. dirtied' \in Seq(Format) /\ IsInjective(dirtied') /\ dirty \subseteq dirty'
      BY <1>2, <1>3 DEF AddFormat
    <2> QED
      BY <1>3, <2>1, RestartTyped DEF AddFormat, TypeOK, Dispatching
  <1>4. ASSUME NEW f \in Format, RemoveFormat(f) PROVE TInv'
    <2>1. /\ dirtied' \in Seq(Format) /\ IsInjective(dirtied') /\ in_progress' \subseteq dirty'
          /\ text' \in [Format -> Row \cup {None}]
      <3>1. CASE attached
        BY <1>4, <3>1, Cleaned DEF RemoveFormat, TypeOK
      <3>2. CASE ~attached
        BY <1>4, <3>2 DEF RemoveFormat, TypeOK, dirty
      <3> QED
        BY <3>1, <3>2
    <2> QED
      BY <1>4, <2>1, RestartTyped DEF RemoveFormat, TypeOK, Dispatching
  <1>5. ASSUME NEW f \in Format, RenameFormat(f) PROVE TInv'
    <2>1. dirtied' \in Seq(Format) /\ IsInjective(dirtied') /\ dirty \subseteq dirty'
      BY <1>2, <1>5 DEF RenameFormat
    <2>2. \A t \in FTSQueue : [dispatch[t] EXCEPT !.pc = "moved"] \in Dispatch
      BY DEF TypeOK, Dispatch
    <2>3. dispatch' \in [FTSQueue -> Dispatch] /\ Dispatching'
      BY <1>5, <2>2 DEF RenameFormat, TypeOK, Dispatch, Dispatching
    <2> QED
      BY <1>5, <2>1, <2>3, RestartTyped DEF RenameFormat, TypeOK
  <1>6. ASSUME NEW f \in Format, ReindexBook(f) PROVE TInv'
    <2>1. dirtied' \in Seq(Format) /\ IsInjective(dirtied') /\ dirty \subseteq dirty'
      BY <1>6, Dirtied DEF ReindexBook
    <2> QED
      BY <1>6, <2>1, RestartTyped DEF ReindexBook, TypeOK, Dispatching
  <1>7. CASE ReindexAll
    <2>1. dirtied' \in Seq(Present) /\ IsInjective(dirtied')
      BY <1>1, <1>7, Ordered DEF ReindexAll
    <2>2. dirtied' \in Seq(Format)
      BY <1>1, <2>1, SeqMonotonic
    <2>3. /\ dispatch' \in [FTSQueue -> Dispatch] /\ Dispatching'
          /\ wakeups' \in [FTSQueue -> Nat]
      BY <1>7, IdleType DEF ReindexAll, TypeOK, Dispatching, Idle
    <2> QED
      BY <1>7, <2>1, <2>2, <2>3, RestartTyped, NewPoolTyped DEF ReindexAll, TypeOK
  <1>8. CASE Reopen
    <2>1. dirtied' \in Seq(Format) /\ IsInjective(dirtied')
      BY <1>1, <1>8, Dirtied DEF Reopen, TypeOK
    <2>2. NewThreads(1) /\ NewPool
      BY <1>8 DEF Reopen, NewThreads
    <2> QED
      BY <1>8, <2>1, <2>2, RestartTyped, NewThreadsTyped, NewPoolTyped DEF Reopen, TypeOK
  <1>9. CASE ReopenDisabled
    <2>1. NewThreads(0) /\ NewPool
      BY <1>9 DEF ReopenDisabled, NewThreads
    <2> QED
      BY <1>9, <2>1, NewThreadsTyped, NewPoolTyped DEF ReopenDisabled, TypeOK, dirty
  <1>10. CASE Disable
    BY <1>10, RestartTyped DEF Disable, TypeOK, dirty, Dispatching
  <1>11. CASE Enable
    <2>1. dirtied' \in Seq(Format) /\ IsInjective(dirtied') /\ dirty \subseteq dirty'
      BY <1>1, <1>11, Dirtied DEF Enable
    <2>2. restarts' \in FTSQueue
      BY <1>11, RestartTyped DEF Enable
    <2>3. queue' \in [FTSQueue -> FTSQueue]
      BY <1>11, <2>2 DEF Enable, TypeOK
    <2>4. wakeups' \in [FTSQueue -> Nat]
      <3>1. queue'[restarts'] \in FTSQueue /\ \A n \in Nat : n + 1 \in Nat
        BY <2>2, <2>3
      <3> QED
        BY <1>11, <3>1 DEF Enable, TypeOK
    <2>5. changes' \in 0..MaxChanges
      BY <1>11, RestartTyped DEF Enable
    <2> QED
      BY <1>11, <2>1, <2>2, <2>3, <2>4, <2>5 DEF Enable, TypeOK, Dispatching
  <1> QED
    BY <1>3, <1>4, <1>5, <1>6, <1>7, <1>8, <1>9, <1>10, <1>11 DEF Others

LEMMA DispatcherTInv ==
  ASSUME TInv, NEW t \in FTSQueue, Dispatcher(t)
  PROVE  TInv'
  <1> USE DEF TInv, tables, pool, queues
  <1>1. Again(t) \/ Stops(t) => dispatch' \in [FTSQueue -> Dispatch] /\ Dispatching'
    <2>1. [Idle EXCEPT !.pc = "next"] = [pc |-> "next", fmt |-> None, content |-> None]
      BY DEF Idle
    <2>2. [pc |-> "next", fmt |-> None, content |-> None] \in Dispatch
      BY DEF Dispatch
    <2>3. Again(t) \/ Stops(t) =>
            \E d \in Dispatch : d.pc \in {"idle", "next"} /\ dispatch' = [dispatch EXCEPT ![t] = d]
      BY <2>1, <2>2, IdleType DEF Again, Stops, Idle
    <2> QED
      BY <2>3 DEF TypeOK, Dispatching
  <1>2. AgainIfIdle(t) => Again(t) \/ Stops(t)
    BY DEF AgainIfIdle
  <1>3. CASE DispatchWakes(t)
    <2>1. wakeups' \in [FTSQueue -> Nat]
      <3>1. queue[t] \in FTSQueue /\ wakeups[queue[t]] \in Nat /\ wakeups[queue[t]] > 0
        BY <1>3 DEF DispatchWakes, TypeOK
      <3>2. wakeups[queue[t]] - 1 \in Nat
        BY <3>1
      <3> QED
        BY <1>3, <3>1, <3>2 DEF DispatchWakes, TypeOK
    <2> QED
      BY <1>1, <1>3, <2>1 DEF DispatchWakes, TypeOK, dirty
  <1>4. CASE DispatchNext(t)
    <2>1. PICK i \in waiting :
             dispatch' = [dispatch EXCEPT ![t] =
                            [pc |-> IF dirtied[i] \in Unextractable \/ content[dirtied[i]] = None
                                    THEN "remove" ELSE "copy",
                             fmt |-> dirtied[i], content |-> None]]
      BY <1>4 DEF DispatchNext
    <2>2. dirtied[i] \in Format
      BY ElementOfSeq, LenProperties DEF TypeOK, waiting
    <2>3. dispatch' \in [FTSQueue -> Dispatch] /\ Dispatching'
      BY <2>1, <2>2 DEF Dispatch, Dispatching, TypeOK
    <2> QED
      BY <1>4, <2>3 DEF DispatchNext, TypeOK, dirty
  <1>5. CASE DispatchNothing(t)
    BY <1>1, <1>5 DEF DispatchNothing, TypeOK, dirty
  <1>6. CASE DispatchRemoves(t)
    <2>1. Cleans(dispatch[t].fmt)
      BY <1>6 DEF DispatchRemoves
    <2>2. dirtied' \in Seq(Format) /\ IsInjective(dirtied') /\ in_progress' \subseteq dirty'
      BY <2>1, Cleaned DEF TypeOK
    <2> QED
      BY <1>1, <1>6, <2>2 DEF DispatchRemoves, TypeOK
  <1>7. CASE DispatchCopies(t)
    <2>1. content[dispatch[t].fmt] \in Content
      BY <1>7 DEF DispatchCopies, TypeOK, Dispatching
    <2>2. dispatch' \in [FTSQueue -> Dispatch] /\ Dispatching'
      BY <1>7, <2>1 DEF DispatchCopies, TypeOK, Dispatch, Dispatching
    <2> QED
      BY <1>7, <2>2 DEF DispatchCopies, TypeOK, dirty
  <1>8. CASE DispatchRaises(t)
    BY <1>1, <1>8 DEF DispatchRaises, TypeOK, dirty
  <1>9. CASE DispatchSkips(t)
    <2>1. Cleans(dispatch[t].fmt)
      BY <1>9 DEF DispatchSkips
    <2>2. dirtied' \in Seq(Format) /\ IsInjective(dirtied') /\ in_progress' \subseteq dirty'
      BY <2>1, Cleaned DEF TypeOK
    <2> QED
      BY <1>1, <1>2, <1>9, <2>2 DEF DispatchSkips, TypeOK
  <1>10. CASE DispatchQueues(t)
    <2>1. [fmt |-> dispatch[t].fmt, content |-> dispatch[t].content] \in Job
      BY <1>10 DEF DispatchQueues, Dispatching, Job
    <2>2. jobs' \in Seq(Job)
      BY <1>10, <2>1, Appended DEF DispatchQueues, TypeOK
    <2> QED
      BY <1>1, <1>2, <1>10, <2>2 DEF DispatchQueues, TypeOK, dirty
  <1> QED
    BY <1>3, <1>4, <1>5, <1>6, <1>7, <1>8, <1>9, <1>10 DEF Dispatcher

LEMMA PoolTInv ==
  ASSUME TInv, (\E w \in Worker : TakeJob(w) \/ FinishJob(w)) \/ Supervise
  PROVE  TInv'
  <1> USE DEF TInv, tables, queues
  <1>1. ASSUME NEW w \in Worker, TakeJob(w) PROVE TInv'
    <2>1. Tail(jobs) \in Seq(Job) /\ Head(jobs) \in Job
      BY <1>1, Tailed DEF TakeJob, TypeOK
    <2> QED
      BY <1>1, <2>1 DEF TakeJob, TypeOK, Dispatching, dirty
  <1>2. ASSUME NEW w \in Worker, FinishJob(w) PROVE TInv'
    <2>1. PICK ok \in BOOLEAN :
             results' = Append(results, [fmt |-> working[w].fmt, content |-> working[w].content, ok |-> ok])
      BY <1>2 DEF FinishJob
    <2>2. working[w] \in Job
      BY <1>2 DEF FinishJob, TypeOK
    <2>3. [fmt |-> working[w].fmt, content |-> working[w].content, ok |-> ok] \in Result
      BY <2>2 DEF Job, Result
    <2>4. results' \in Seq(Result)
      BY <2>1, <2>3, Appended DEF TypeOK
    <2> QED
      BY <1>2, <2>4 DEF FinishJob, TypeOK, Dispatching, dirty
  <1>3. CASE CommitResult
    <2>1. Tail(results) \in Seq(Result) /\ Head(results) \in Result
      BY <1>3, Tailed DEF CommitResult, TypeOK
    <2>2. /\ dirtied' \in Seq(Format) /\ IsInjective(dirtied')
          /\ in_progress' \subseteq dirty'
      BY <1>3, Cleaned DEF CommitResult, TypeOK
    <2>3. NewRow(Head(results)) \in Row \cup {None}
      BY <2>1, TextAssumption DEF NewRow, Row, Result
    <2>4. text' \in [Format -> Row \cup {None}]
      BY <1>3, <2>1, <2>3 DEF CommitResult, TypeOK, Result
    <2> QED
      BY <1>3, <2>1, <2>2, <2>4 DEF CommitResult, TypeOK, Dispatching
  <1>4. CASE CommitDropped
    <2>1. Tail(results) \in Seq(Result)
      BY <1>4, Tailed DEF CommitDropped, TypeOK
    <2> QED
      BY <1>4, <2>1 DEF CommitDropped, TypeOK, Dispatching, dirty
  <1>5. CASE CheckForWork
    <2>1. wakeups' \in [FTSQueue -> Nat] /\ queue' = queue
      BY <1>5, RestartTyped DEF CheckForWork
    <2> QED
      BY <1>5, <2>1 DEF CheckForWork, TypeOK, Dispatching, dirty
  <1> QED
    BY <1>1, <1>2, <1>3, <1>4, <1>5 DEF Supervise

LEMMA StutterTInv ==
  ASSUME TInv, UNCHANGED vars
  PROVE  TInv'
  BY DEF TInv, TypeOK, Dispatching, vars, tables, pool, queues, dirty

(* Type correctness, whatever is disturbed: a format has one row in        *)
(* dirtied_formats at most, and only rows that exist are in progress.      *)
THEOREM TypeCorrect == Spec => []TypeOK
  <1>1. TInv /\ [Next]_vars => TInv'
    BY OthersTInv, DispatcherTInv, PoolTInv, StutterTInv DEF Next
  <1>2. TInv => TypeOK
    BY DEF TInv
  <1> QED
    BY InitTInv, <1>1, <1>2, PTL DEF Spec

-----------------------------------------------------------------------------
(* Safety.                                                                 *)
LEMMA OfSet ==
  ASSUME NEW f, NEW s
  PROVE  Of(f, s) <=> \E j \in ToSet(s) : j.fmt = f
  BY DEF Of, ToSet

LEMMA UnderWay ==
  ASSUME NEW f
  PROVE  InFlight(f) <=> (\E t \in FTSQueue : dispatch[t].fmt = f) \/ InPool(f)
  <1>1. InFlight(f) <=> \/ \E t \in FTSQueue : dispatch[t].fmt = f
                        \/ (\E j \in ToSet(jobs) : j.fmt = f) \/ (\E j \in ToSet(results) : j.fmt = f)
                        \/ \E w \in Worker : Runs(f, w)
    BY DEF InFlight, Runs
  <1> QED
    BY <1>1, OfSet DEF InPool

(* What no step of the pool changes.                                       *)
LEMMA SamePool ==
  ASSUME UNCHANGED <<jobs, working, results>>
  PROVE  \A f : /\ InPool(f)' <=> InPool(f)
                /\ \A w : Runs(f, w)' <=> Runs(f, w)
  BY DEF InPool, Runs, Of

(* What the pool has is of formats.                                        *)
LEMMA PoolFormats ==
  ASSUME TInv
  PROVE  /\ \A i \in DOMAIN jobs : jobs[i] \in Job /\ jobs[i].fmt \in Format /\ InPool(jobs[i].fmt)
         /\ \A i \in DOMAIN results : results[i] \in Result /\ results[i].fmt \in Format /\ InPool(results[i].fmt)
         /\ \A w \in Worker : working[w] # None =>
               working[w] \in Job /\ working[w].fmt \in Format /\ InPool(working[w].fmt)
  <1>1. jobs \in Seq(Job) /\ results \in Seq(Result) /\ working \in [Worker -> Job \cup {None}]
    BY DEF TInv, TypeOK
  <1>2. ASSUME NEW i \in DOMAIN jobs PROVE jobs[i] \in Job /\ Of(jobs[i].fmt, jobs)
    BY <1>1, ElementOfSeq, LenProperties DEF Of
  <1>3. ASSUME NEW i \in DOMAIN results PROVE results[i] \in Result /\ Of(results[i].fmt, results)
    BY <1>1, ElementOfSeq, LenProperties DEF Of
  <1> QED
    BY <1>1, <1>2, <1>3 DEF Job, Result, InPool, Runs

(* A change of the file of a format that has nothing under way leaves what *)
(* is under way as it is.                                                  *)
LEMMA CurrentStays ==
  ASSUME TInv, Current, NEW f \in Format, ~InFlight(f),
         content' = [content EXCEPT ![f] = content'[f]],
         UNCHANGED <<jobs, working, results, dispatch>>
  PROVE  Current'
  <1>1. (\A t \in FTSQueue : dispatch[t].fmt # f) /\ ~InPool(f)
    BY UnderWay
  <1>2. \A g \in Format : g # f => content'[g] = content[g]
    BY DEF TInv, TypeOK
  <1>3. Carried(jobs)' /\ Carried(results)'
    BY <1>1, <1>2, PoolFormats DEF Current, Carried
  <1>4. \A w \in Worker : working[w] # None => content'[working[w].fmt] = working[w].content
    BY <1>1, <1>2, PoolFormats DEF Current
  <1>5. ASSUME NEW t \in FTSQueue PROVE Holds(t)'
    <2>1. dispatch[t].pc \in {"remove", "queue"} => content'[dispatch[t].fmt] = content[dispatch[t].fmt]
      BY <1>1, <1>2 DEF TInv, Dispatching
    <2> QED
      BY <2>1 DEF Current, Holds
  <1> QED
    BY <1>3, <1>4, <1>5 DEF Current

(* Only the newest dispatcher gets entries until indexing is toggled.      *)
LEMMA WakesNewest ==
  ASSUME TInv, NewestOnly, Wakes \/ UNCHANGED queues, UNCHANGED <<restarts, dispatch, toggled>>
  PROVE  NewestOnly'
  <1>1. CASE UNCHANGED queues
    BY <1>1 DEF NewestOnly, queues
  <1>2. CASE Wakes
    <2> SUFFICES ASSUME ~toggled PROVE NewestOnly'
      BY DEF NewestOnly
    <2>1. queue' = queue /\ restarts \in FTSQueue /\ queue[restarts] = restarts
      BY <1>2 DEF Wakes, NewestOnly, TInv, TypeOK
    <2>2. \A t \in FTSQueue \ {restarts} : wakeups'[t] = wakeups[t]
      BY <1>2, <2>1 DEF Wakes, TInv, TypeOK
    <2> QED
      BY <2>1, <2>2 DEF NewestOnly
  <1> QED
    BY <1>1, <1>2

LEMMA AddFormatSInv ==
  ASSUME IInv, "inflight" \notin Disturb, NEW f \in Format, NEW c \in Content, AddFormat(f, c)
  PROVE  SInv'
  <1> USE DEF IInv, SInv, pool
  <1>1. ~InFlight(f) /\ ~InPool(f)
    BY UnderWay DEF AddFormat
  <1>2. dirty' = IF attached THEN dirty \cup {f} ELSE dirty
    <2>1. CASE attached
      BY <2>1, Dirtied DEF AddFormat, TInv
    <2>2. CASE ~attached
      BY <2>2 DEF AddFormat, dirty
    <2> QED
      BY <2>1, <2>2
  <1>3. content'[f] = c /\ c # None /\ \A g \in Format : g # f => content'[g] = content[g]
    BY ContentAssumption DEF AddFormat, TInv, TypeOK
  <1>4. \A g : (InPool(g)' <=> InPool(g)) /\ \A w : Runs(g, w)' <=> Runs(g, w)
    BY SamePool DEF AddFormat
  <1>5. NewestOnly' /\ OneEach'
    <2>1. NewestOnly'
      BY WakesNewest DEF AddFormat
    <2>2. OneEach'
      BY <1>2, <1>4 DEF AddFormat, OneEach, One, Waits
    <2> QED
      BY <2>1, <2>2
  <1>6. Current'
    BY <1>1, <1>3, CurrentStays DEF AddFormat
  <1>7. Hashed' /\ Detached' /\ NoneLost'
    BY <1>4 DEF AddFormat, Hashed, Detached, NoneLost
  <1>8. IndexIsCurrent'
    BY <1>2, <1>3 DEF AddFormat, IndexIsCurrent, Present, Skipped, ShowsFile, Indexed
  <1>9. NothingOfGoneFormats'
    BY <1>2, <1>3 DEF AddFormat, NothingOfGoneFormats, Present
  <1> QED
    BY <1>5, <1>6, <1>7, <1>8, <1>9

LEMMA RemoveFormatSInv ==
  ASSUME IInv, "inflight" \notin Disturb, NEW f \in Format, RemoveFormat(f)
  PROVE  SInv'
  <1> USE DEF IInv, SInv, pool
  <1>1. ~InFlight(f) /\ (\A t \in FTSQueue : dispatch[t].fmt # f) /\ ~InPool(f)
    BY UnderWay DEF RemoveFormat
  <1>2. /\ dirty' = IF attached THEN dirty \ {f} ELSE dirty
        /\ in_progress' = IF attached THEN in_progress \ {f} ELSE in_progress
        /\ text' = IF attached THEN [text EXCEPT ![f] = None] ELSE text
    <2>1. CASE attached
      BY <2>1, Cleaned DEF RemoveFormat, TInv
    <2>2. CASE ~attached
      BY <2>2 DEF RemoveFormat, dirty
    <2> QED
      BY <2>1, <2>2
  <1>3. content'[f] = None /\ \A g \in Format : g # f => content'[g] = content[g]
    BY DEF RemoveFormat, TInv, TypeOK
  <1>4. \A g : (InPool(g)' <=> InPool(g)) /\ \A w : Runs(g, w)' <=> Runs(g, w)
    BY SamePool DEF RemoveFormat
  <1>5. NewestOnly' /\ OneEach'
    <2>1. NewestOnly'
      BY WakesNewest DEF RemoveFormat
    <2>2. OneEach'
      BY <1>1, <1>2, <1>4 DEF RemoveFormat, OneEach, One, Waits
    <2> QED
      BY <2>1, <2>2
  <1>6. Current'
    BY <1>1, <1>3, CurrentStays DEF RemoveFormat
  <1>7. attached => \A g \in Format : text'[g] = IF g = f THEN None ELSE text[g]
    BY <1>2 DEF TInv, TypeOK
  <1>8. Hashed'
    BY <1>2, <1>7 DEF Hashed
  <1>9. Detached' /\ NoneLost'
    BY <1>2, <1>4 DEF RemoveFormat, Detached, NoneLost
  <1>10. IndexIsCurrent'
    BY <1>2, <1>3, <1>7 DEF RemoveFormat, IndexIsCurrent, Present, Skipped, ShowsFile, Indexed
  <1>11. NothingOfGoneFormats'
    BY <1>2, <1>3, <1>7 DEF RemoveFormat, NothingOfGoneFormats, Present, Detached
  <1> QED
    BY <1>5, <1>6, <1>8, <1>9, <1>10, <1>11

(* A renamed file is marked; no dispatcher takes its row for another one.  *)
LEMMA RenameFormatSInv ==
  ASSUME IInv, NEW f \in Format, RenameFormat(f)
  PROVE  SInv'
  <1> USE DEF IInv, SInv, pool, queues
  <1>1. dirty' = IF attached THEN dirty \cup {f} ELSE dirty
    <2>1. CASE attached
      BY <2>1, Dirtied DEF RenameFormat, TInv
    <2>2. CASE ~attached
      BY <2>2 DEF RenameFormat, dirty
    <2> QED
      BY <2>1, <2>2
  <1>2. \A g : (InPool(g)' <=> InPool(g)) /\ \A w : Runs(g, w)' <=> Runs(g, w)
    BY SamePool DEF RenameFormat
  <1>3. \A t \in FTSQueue : dispatch'[t] = dispatch[t] \/ (dispatch[t].pc = "copy" /\ dispatch'[t].pc = "moved")
    BY DEF RenameFormat, TInv, TypeOK, Dispatch
  <1>4. NewestOnly' /\ OneEach'
    BY <1>1, <1>2, <1>3 DEF RenameFormat, NewestOnly, OneEach, One, Waits
  <1>5. Current'
    BY <1>3 DEF RenameFormat, Current, Carried, Holds
  <1>6. Hashed' /\ Detached' /\ NoneLost'
    BY <1>2 DEF RenameFormat, Hashed, Detached, NoneLost
  <1>7. IndexIsCurrent' /\ NothingOfGoneFormats'
    BY <1>1 DEF RenameFormat, IndexIsCurrent, NothingOfGoneFormats, Present, Skipped, ShowsFile, Indexed
  <1> QED
    BY <1>4, <1>5, <1>6, <1>7

LEMMA ReindexBookSInv ==
  ASSUME IInv, NEW f \in Format, ReindexBook(f)
  PROVE  SInv'
  <1> USE DEF IInv, SInv, pool
  <1>1. dirty' = dirty \cup {f}
    BY Dirtied DEF ReindexBook, TInv
  <1>2. \A g : (InPool(g)' <=> InPool(g)) /\ \A w : Runs(g, w)' <=> Runs(g, w)
    BY SamePool DEF ReindexBook
  <1>3. NewestOnly'
    BY WakesNewest DEF ReindexBook
  <1>4. OneEach' /\ Current'
    BY <1>1, <1>2 DEF ReindexBook, OneEach, One, Waits, Current, Carried, Holds
  <1>5. Hashed' /\ Detached' /\ NoneLost'
    BY <1>2 DEF ReindexBook, Hashed, Detached, NoneLost
  <1>6. IndexIsCurrent' /\ NothingOfGoneFormats'
    BY <1>1 DEF ReindexBook, IndexIsCurrent, NothingOfGoneFormats, Present, Skipped, ShowsFile, Indexed
  <1> QED
    BY <1>3, <1>4, <1>5, <1>6

(* A new pool has nothing under way, and a format is in progress in none.  *)
LEMMA NothingUnderWay ==
  ASSUME NewPool
  PROVE  /\ \A f : ~InPool(f)' /\ \A w \in Worker : ~Runs(f, w)'
         /\ One'
         /\ \A s \in {jobs', results'} : \A i \in DOMAIN s : FALSE
         /\ \A w \in Worker : working'[w] = None
  <1>1. /\ jobs' = <<>> /\ results' = <<>>
        /\ \A w \in Worker : working'[w] = None
    BY DEF NewPool
  <1> QED
    BY <1>1 DEF InPool, Runs, Of, Apart, One

LEMMA ReindexAllSInv ==
  ASSUME IInv, ReindexAll
  PROVE  SInv'
  <1> USE DEF IInv, SInv
  <1>1. /\ \A f : ~InPool(f)' /\ \A w \in Worker : ~Runs(f, w)'
        /\ One'
        /\ \A s \in {jobs', results'} : \A i \in DOMAIN s : FALSE
        /\ \A w \in Worker : working'[w] = None
    BY NothingUnderWay DEF ReindexAll
  <1>2. restarts \in FTSQueue /\ \A t \in FTSQueue : dispatch'[t] = IF t = restarts THEN Idle ELSE dispatch[t]
    BY DEF ReindexAll, TInv, TypeOK
  <1>3. NewestOnly'
    <2> SUFFICES ASSUME ~toggled PROVE NewestOnly'
      BY DEF ReindexAll, NewestOnly
    <2>1. queue' = queue /\ restarts' = restarts /\ queue[restarts] = restarts
      BY <1>2 DEF NewestOnly, ReindexAll
    <2>2. \A t \in FTSQueue \ {restarts} : wakeups'[t] = wakeups[t]
      BY <2>1 DEF ReindexAll, TInv, TypeOK
    <2> QED
      BY <1>2, <2>1, <2>2 DEF NewestOnly
  <1>4. OneEach'
    <2> SUFFICES ASSUME ~toggled, NEW t \in FTSQueue PROVE Waits(t)'
      BY <1>1 DEF OneEach, ReindexAll
    <2>1. dispatch'[t].pc = "idle"
      BY <1>2 DEF NewestOnly, Idle
    <2> QED
      BY <2>1 DEF Waits
  <1>5. Current'
    <2>1. \A t \in FTSQueue : Holds(t)'
      BY <1>2 DEF Current, Holds, ReindexAll, Idle
    <2>2. Carried(jobs)' /\ Carried(results)'
      BY <1>1 DEF Carried
    <2> QED
      BY <1>1, <2>1, <2>2 DEF Current
  <1>6. Present \in SUBSET Format
    BY DEF Present
  <1>7. dirty' = Present
    BY <1>6, Ordered DEF ReindexAll, dirty
  <1>8. \A f \in Format : text'[f] = None
    BY DEF ReindexAll
  <1>9. Hashed' /\ Detached' /\ NoneLost'
    BY <1>1, <1>8 DEF ReindexAll, Hashed, Detached, NoneLost
  <1>10. IndexIsCurrent' /\ NothingOfGoneFormats'
    BY <1>7, <1>8 DEF ReindexAll, IndexIsCurrent, NothingOfGoneFormats, Present
  <1> QED
    BY <1>3, <1>4, <1>5, <1>9, <1>10

LEMMA RestartSInv ==
  ASSUME IInv, Reopen \/ ReopenDisabled
  PROVE  SInv'
  <1> USE DEF IInv, SInv, tables
  <1>1. PICK n \in Nat : NewThreads(n)
    BY DEF Reopen, ReopenDisabled
  <1>2. /\ \A f : ~InPool(f)' /\ \A w \in Worker : ~Runs(f, w)'
        /\ One'
        /\ \A s \in {jobs', results'} : \A i \in DOMAIN s : FALSE
        /\ \A w \in Worker : working'[w] = None
    BY <1>1, NothingUnderWay DEF NewThreads
  <1>3. \A t \in FTSQueue : dispatch'[t].pc = "idle"
    BY <1>1 DEF NewThreads, Idle
  <1>4. NewestOnly' /\ OneEach'
    <2>1. (\A t \in FTSQueue : queue'[t] = t) /\ \A t \in FTSQueue \ {restarts'} : wakeups'[t] = 0
      BY <1>1 DEF NewThreads
    <2> QED
      BY <1>2, <1>3, <2>1 DEF NewestOnly, OneEach, Waits
  <1>5. Current'
    <2>1. Carried(jobs)' /\ Carried(results)'
      BY <1>2 DEF Carried
    <2> QED
      BY <1>2, <1>3, <2>1 DEF Current, Holds
  <1>6. Present \in SUBSET Format
    BY DEF Present
  <1>7. CASE Reopen
    <2>1. dirty \subseteq dirty' /\ dirty' \subseteq dirty \cup Present
      <3>1. Dirties(Present) \/ dirtied' = dirtied
        BY <1>7 DEF Reopen
      <3>2. CASE Dirties(Present)
        BY <1>6, <3>2, Dirtied DEF TInv
      <3>3. CASE dirtied' = dirtied
        BY <3>3 DEF dirty
      <3> QED
        BY <3>1, <3>2, <3>3
    <2>2. Hashed' /\ Detached' /\ NoneLost'
      BY <1>2, <1>7 DEF Reopen, Hashed, Detached, NoneLost
    <2>3. IndexIsCurrent' /\ NothingOfGoneFormats'
      BY <1>7, <2>1 DEF Reopen, IndexIsCurrent, NothingOfGoneFormats, Present, Skipped, ShowsFile, Indexed
    <2> QED
      BY <1>4, <1>5, <2>2, <2>3
  <1>8. CASE ReopenDisabled
    <2>1. toggled'
      BY <1>8 DEF ReopenDisabled, Detached
    <2>2. Hashed' /\ Detached' /\ NoneLost'
      BY <1>2, <1>8, <2>1 DEF ReopenDisabled, Hashed, Detached, NoneLost
    <2>3. IndexIsCurrent' /\ NothingOfGoneFormats'
      BY <1>8, <2>1 DEF ReopenDisabled, IndexIsCurrent, NothingOfGoneFormats
    <2> QED
      BY <1>4, <1>5, <2>2, <2>3
  <1> QED
    BY <1>7, <1>8

LEMMA ToggleSInv ==
  ASSUME IInv, Disable \/ Enable
  PROVE  SInv'
  <1> USE DEF IInv, SInv, tables, pool
  <1>1. \A g : (InPool(g)' <=> InPool(g)) /\ \A w : Runs(g, w)' <=> Runs(g, w)
    BY SamePool DEF Disable, Enable
  <1>2. toggled' /\ UNCHANGED <<content, text, dispatch, jobs, working, results>>
    BY DEF Disable, Enable
  <1>3. NewestOnly' /\ OneEach' /\ NoneLost' /\ NothingOfGoneFormats'
    BY <1>2 DEF NewestOnly, OneEach, NoneLost, NothingOfGoneFormats
  <1>4. Current' /\ Hashed'
    BY <1>2 DEF Current, Carried, Holds, Hashed
  <1>5. CASE Disable
    <2>1. dirty' = dirty
      BY <1>5 DEF Disable, dirty
    <2>2. Detached'
      BY <1>1, <1>2, <1>5 DEF Disable, Detached
    <2>3. IndexIsCurrent'
      BY <1>5, <2>1 DEF Disable, IndexIsCurrent, Present, Skipped, ShowsFile, Indexed
    <2> QED
      BY <1>3, <1>4, <2>2, <2>3
  <1>6. CASE Enable
    <2>1. Present \in SUBSET Format
      BY DEF Present
    <2>2. dirty' = dirty \cup Present
      BY <1>6, <2>1, Dirtied DEF Enable, TInv
    <2>3. Detached'
      BY <1>2, <1>6 DEF Enable, Detached
    <2>4. IndexIsCurrent'
      BY <1>2, <2>2 DEF IndexIsCurrent, Present
    <2> QED
      BY <1>3, <1>4, <2>3, <2>4
  <1> QED
    BY <1>5, <1>6

LEMMA OthersSInv ==
  ASSUME IInv, "inflight" \notin Disturb, Others
  PROVE  SInv'
  BY AddFormatSInv, RemoveFormatSInv, RenameFormatSInv, ReindexBookSInv, ReindexAllSInv,
     RestartSInv, ToggleSInv DEF Others

(* A step of a dispatcher: until indexing is toggled it is the newest one. *)
LEMMA DispatchesNewest ==
  ASSUME TInv, NewestOnly, NEW t \in FTSQueue,
         dispatch[t].pc # "idle" \/ wakeups[queue[t]] > 0,
         dispatch' = [dispatch EXCEPT ![t] = dispatch'[t]],
         wakeups' = [wakeups EXCEPT ![queue[t]] = wakeups'[queue[t]]],
         UNCHANGED <<queue, restarts, toggled>>
  PROVE  NewestOnly'
  <1> SUFFICES ASSUME ~toggled PROVE NewestOnly'
    BY DEF NewestOnly
  <1>1. queue[t] = t /\ t = restarts
    BY DEF NewestOnly
  <1>2. \A u \in FTSQueue \ {t} : dispatch'[u] = dispatch[u] /\ wakeups'[u] = wakeups[u]
    BY <1>1 DEF TInv, TypeOK
  <1> QED
    BY <1>1, <1>2 DEF NewestOnly

(* The steps of a dispatcher that touch no table.                          *)
LEMMA LookingSInv ==
  ASSUME IInv, NEW t \in FTSQueue,
         DispatchWakes(t) \/ DispatchNext(t) \/ DispatchNothing(t) \/ DispatchCopies(t) \/ DispatchRaises(t)
  PROVE  SInv'
  <1> USE DEF IInv, SInv, tables, pool, queues
  <1>1. \A g : (InPool(g)' <=> InPool(g)) /\ \A w : Runs(g, w)' <=> Runs(g, w)
    BY SamePool DEF DispatchWakes, DispatchNext, DispatchNothing, DispatchCopies, DispatchRaises
  <1>2. UNCHANGED <<content, dirtied, in_progress, text, enabled, attached, jobs, working, results, toggled,
                    queue, restarts>>
    BY DEF DispatchWakes, DispatchNext, DispatchNothing, DispatchCopies, DispatchRaises
  <1>3. dirty' = dirty
    BY <1>2 DEF dirty
  <1>4. Hashed' /\ Detached' /\ NoneLost' /\ IndexIsCurrent' /\ NothingOfGoneFormats'
    BY <1>1, <1>2, <1>3 DEF Hashed, Detached, NoneLost, IndexIsCurrent, NothingOfGoneFormats,
                            Present, Skipped, ShowsFile, Indexed
  <1>5. dispatch' = [dispatch EXCEPT ![t] = dispatch'[t]]
    <2>1. CASE Again(t) \/ Stops(t)
      BY <2>1 DEF Again, Stops, TInv, TypeOK
    <2>2. CASE DispatchNext(t)
      BY <2>2 DEF DispatchNext, TInv, TypeOK
    <2>3. CASE DispatchCopies(t)
      BY <2>3 DEF DispatchCopies, TInv, TypeOK
    <2> QED
      BY <2>1, <2>2, <2>3 DEF DispatchWakes, DispatchNothing, DispatchRaises
  <1>6. NewestOnly'
    <2>1. dispatch[t].pc # "idle" \/ wakeups[queue[t]] > 0
      BY DEF DispatchWakes, DispatchNext, DispatchNothing, DispatchCopies, DispatchRaises
    <2>2. wakeups' = [wakeups EXCEPT ![queue[t]] = wakeups'[queue[t]]]
      BY DEF DispatchWakes, DispatchNext, DispatchNothing, DispatchCopies, DispatchRaises, TInv, TypeOK
    <2> QED
      BY <1>2, <1>5, <2>1, <2>2, DispatchesNewest
  <1>7. \A u \in FTSQueue \ {t} : dispatch'[u] = dispatch[u]
    BY <1>5 DEF TInv, TypeOK
  <1>8. /\ dispatch'[t].pc = "queue" => content[dispatch'[t].fmt] = dispatch'[t].content
        /\ dispatch'[t].pc = "remove" => dispatch'[t].fmt \in Unextractable \/ content[dispatch'[t].fmt] = None
        /\ OneEach => Waits(t)' \/ toggled
    <2>1. CASE Again(t) \/ Stops(t)
      BY <2>1 DEF Again, Stops, Idle, Waits, TInv, TypeOK
    <2>2. CASE DispatchNext(t)
      <3>1. PICK i \in waiting :
               dispatch' = [dispatch EXCEPT ![t] =
                              [pc |-> IF dirtied[i] \in Unextractable \/ content[dirtied[i]] = None
                                      THEN "remove" ELSE "copy",
                               fmt |-> dirtied[i], content |-> None]]
        BY <2>2 DEF DispatchNext
      <3>2. dirtied[i] \in dirty \ in_progress
        BY DEF waiting, dirty, ToSet
      <3>3. /\ dispatch'[t].pc = IF dirtied[i] \in Unextractable \/ content[dirtied[i]] = None
                                 THEN "remove" ELSE "copy"
            /\ dispatch'[t].fmt = dirtied[i]
        BY <3>1 DEF TInv, TypeOK
      <3> QED
        BY <1>2, <1>3, <3>2, <3>3 DEF Waits
    <2>3. CASE DispatchCopies(t)
      <3>1. /\ dispatch'[t].pc = "queue" /\ dispatch'[t].fmt = dispatch[t].fmt
            /\ dispatch'[t].content = content[dispatch[t].fmt] /\ dispatch[t].pc = "copy"
        BY <2>3 DEF DispatchCopies, TInv, TypeOK, Dispatch
      <3> QED
        BY <1>2, <1>3, <3>1 DEF OneEach, Waits
    <2> QED
      BY <2>1, <2>2, <2>3 DEF DispatchWakes, DispatchNothing, DispatchRaises
  <1>9. Current'
    <2>1. Holds(t)'
      BY <1>2, <1>8 DEF Holds
    <2>2. \A u \in FTSQueue \ {t} : Holds(u)'
      BY <1>2, <1>7 DEF Current, Holds
    <2> QED
      BY <1>2, <2>1, <2>2 DEF Current, Carried
  <1>10. OneEach'
    <2> SUFFICES ASSUME ~toggled PROVE One' /\ \A u \in FTSQueue : Waits(u)'
      BY <1>2 DEF OneEach
    <2>1. One'
      BY <1>1, <1>2 DEF OneEach, One
    <2>2. \A u \in FTSQueue \ {t} : Waits(u)'
      BY <1>2, <1>3, <1>7 DEF OneEach, Waits
    <2> QED
      BY <1>8, <2>1, <2>2
  <1> QED
    BY <1>4, <1>6, <1>9, <1>10

(* The end of a round of the dispatcher.                                   *)
LEMMA RoundEnds ==
  ASSUME IInv, NEW t \in FTSQueue, dispatch[t].pc # "idle", Again(t) \/ Stops(t),
         UNCHANGED <<content, queues, restarts, toggled>>
  PROVE  /\ NewestOnly'
         /\ \A u \in FTSQueue : Holds(u)'
         /\ dispatch'[t].pc \in {"idle", "next"}
         /\ \A u \in FTSQueue \ {t} : dispatch'[u] = dispatch[u]
         /\ ~toggled => \A u \in FTSQueue \ {t} : dispatch[u].pc = "idle"
  <1> USE DEF IInv, SInv, queues
  <1>1. dispatch' = [dispatch EXCEPT ![t] = dispatch'[t]] /\ dispatch'[t].pc \in {"idle", "next"}
    BY DEF Again, Stops, Idle, TInv, TypeOK
  <1>2. \A u \in FTSQueue \ {t} : dispatch'[u] = dispatch[u]
    BY <1>1 DEF TInv, TypeOK
  <1>3. NewestOnly'
    <2>1. wakeups' = [wakeups EXCEPT ![queue[t]] = wakeups'[queue[t]]]
      BY DEF TInv, TypeOK
    <2> QED
      BY <1>1, <2>1, DispatchesNewest
  <1>4. \A u \in FTSQueue : Holds(u)'
    BY <1>1, <1>2 DEF Current, Holds
  <1> QED
    BY <1>1, <1>2, <1>3, <1>4 DEF NewestOnly

(* Those that take the row of the format away: no text can be extracted,   *)
(* or it is in the index.                                                  *)
LEMMA CleaningSInv ==
  ASSUME IInv, NEW t \in FTSQueue, DispatchRemoves(t) \/ DispatchSkips(t)
  PROVE  SInv'
  <1> USE DEF IInv, SInv, pool
  <1> DEFINE f == dispatch[t].fmt
  <1>1. /\ f \in Format
        /\ f \in Unextractable \/ content[f] = None \/ Indexed(f, content[f])
    BY DEF DispatchRemoves, DispatchSkips, Current, Holds, TInv, Dispatching
  <1>2. ~toggled => f \in dirty \ in_progress
    BY DEF OneEach, Waits, DispatchRemoves, DispatchSkips
  <1>3. dirty' = dirty \ {f} /\ in_progress' = in_progress \ {f}
    <2>1. Cleans(f)
      BY DEF DispatchRemoves, DispatchSkips
    <2> QED
      BY <2>1, Cleaned, ZenonT(40) DEF TInv
  <1>4. UNCHANGED <<content, text, enabled, attached, queues, jobs, working, results, restarts, toggled>>
    BY DEF DispatchRemoves, DispatchSkips
  <1>5. /\ NewestOnly'
        /\ \A u \in FTSQueue : Holds(u)'
        /\ dispatch'[t].pc \in {"idle", "next"}
        /\ \A u \in FTSQueue \ {t} : dispatch'[u] = dispatch[u]
        /\ ~toggled => \A u \in FTSQueue \ {t} : dispatch[u].pc = "idle"
    <2>1. dispatch[t].pc # "idle" /\ (Again(t) \/ Stops(t))
      BY DEF DispatchRemoves, DispatchSkips, AgainIfIdle
    <2> QED
      BY <1>4, <2>1, RoundEnds
  <1> HIDE DEF f
  <1>6. \A g : (InPool(g)' <=> InPool(g)) /\ \A w : Runs(g, w)' <=> Runs(g, w)
    BY <1>4, SamePool
  <1>7. OneEach'
    <2> SUFFICES ASSUME ~toggled PROVE One' /\ \A u \in FTSQueue : Waits(u)'
      BY <1>4 DEF OneEach
    <2>1. in_progress' = in_progress
      BY <1>2, <1>3
    <2>2. One'
      BY <1>4, <1>6, <2>1 DEF OneEach, One
    <2>3. \A u \in FTSQueue : dispatch'[u].pc \in {"idle", "next"}
      BY <1>5
    <2> QED
      BY <2>2, <2>3 DEF Waits
  <1>8. Current'
    BY <1>4, <1>5 DEF Current, Carried
  <1>9. Hashed' /\ Detached' /\ NoneLost' /\ NothingOfGoneFormats'
    BY <1>3, <1>4, <1>6 DEF Hashed, Detached, NoneLost, NothingOfGoneFormats, Present
  <1>10. IndexIsCurrent'
    <2>1. content[f] # None => f \in Unextractable \/ ShowsFile(f)
      BY <1>1 DEF Hashed, ShowsFile, Indexed
    <2> QED
      BY <1>3, <1>4, <2>1 DEF IndexIsCurrent, Present, Skipped, ShowsFile, Indexed
  <1> QED
    BY <1>5, <1>7, <1>8, <1>9, <1>10

LEMMA DispatchQueuesSInv ==
  ASSUME IInv, NEW t \in FTSQueue, DispatchQueues(t)
  PROVE  SInv'
  <1> USE DEF IInv, SInv
  <1> DEFINE f == dispatch[t].fmt
             j == [fmt |-> f, content |-> dispatch[t].content]
  <1>1. f \in Format /\ j \in Job /\ j.fmt = f /\ j.content = content[f]
    BY DEF DispatchQueues, Current, Holds, TInv, Dispatching, Job
  <1>2. ~toggled => f \in dirty \ in_progress
    BY DEF OneEach, Waits, DispatchQueues
  <1>3. jobs' = Append(jobs, j) /\ in_progress' = in_progress \cup ({f} \cap dirty)
    BY DEF DispatchQueues
  <1>4. /\ UNCHANGED <<content, dirtied, text, enabled, attached, queues, working, results, restarts, toggled>>
        /\ enabled
    BY DEF DispatchQueues
  <1>5. /\ NewestOnly'
        /\ \A u \in FTSQueue : Holds(u)'
        /\ dispatch'[t].pc \in {"idle", "next"}
        /\ \A u \in FTSQueue \ {t} : dispatch'[u] = dispatch[u]
        /\ ~toggled => \A u \in FTSQueue \ {t} : dispatch[u].pc = "idle"
    <2>1. dispatch[t].pc # "idle" /\ (Again(t) \/ Stops(t))
      BY DEF DispatchQueues, AgainIfIdle
    <2> QED
      BY <1>4, <2>1, RoundEnds
  <1>6. dirty' = dirty
    BY <1>4 DEF dirty
  <1> HIDE DEF f, j
  <1>7. /\ \A g : Of(g, jobs') <=> Of(g, jobs) \/ g = f
        /\ Apart(jobs) /\ ~Of(f, jobs) => Apart(jobs')
        /\ \A i \in DOMAIN jobs' : jobs'[i] = j \/ \E k \in DOMAIN jobs : jobs'[i] = jobs[k]
    BY <1>1, <1>3, Appended DEF TInv, TypeOK
  <1>8. /\ \A g, w : Runs(g, w)' <=> Runs(g, w)
        /\ \A g : InPool(g)' <=> InPool(g) \/ g = f
    BY <1>4, <1>7 DEF Runs, InPool
  <1>9. OneEach'
    <2> SUFFICES ASSUME ~toggled PROVE One' /\ \A u \in FTSQueue : Waits(u)'
      BY <1>4 DEF OneEach
    <2>1. One /\ f \in dirty \ in_progress
      BY <1>2 DEF OneEach
    <2>2. ~InPool(f)
      BY <1>1, <2>1 DEF One
    <2>3. One'
      BY <1>3, <1>4, <1>7, <1>8, <2>1, <2>2 DEF One, InPool
    <2>4. \A u \in FTSQueue : dispatch'[u].pc \in {"idle", "next"}
      BY <1>5
    <2> QED
      BY <2>3, <2>4 DEF Waits
  <1>10. Carried(jobs)'
    BY <1>1, <1>4, <1>7 DEF Carried, Current
  <1>11. Current'
    BY <1>4, <1>5, <1>10 DEF Current, Carried
  <1>12. Hashed' /\ NoneLost' /\ IndexIsCurrent' /\ NothingOfGoneFormats'
    BY <1>3, <1>4, <1>6, <1>8 DEF Hashed, NoneLost, IndexIsCurrent, NothingOfGoneFormats,
                                  Present, Skipped, ShowsFile, Indexed
  <1>13. Detached'
    BY <1>4 DEF Detached
  <1> QED
    BY <1>5, <1>9, <1>11, <1>12, <1>13

LEMMA TakeJobSInv ==
  ASSUME IInv, NEW w \in Worker, TakeJob(w)
  PROVE  SInv'
  <1> USE DEF IInv, SInv, tables, queues
  <1> DEFINE j == Head(jobs)
  <1>1. /\ j \in Job /\ j # None /\ jobs' = Tail(jobs) /\ working[w] = None
        /\ working' = [working EXCEPT ![w] = j]
        /\ UNCHANGED <<content, dirtied, in_progress, text, enabled, attached, queues, dispatch, results,
                       restarts, toggled>>
    BY Tailed, NoneAssumption DEF TakeJob, TInv, TypeOK
  <1>2. /\ Of(j.fmt, jobs)
        /\ \A i \in DOMAIN jobs' : \E k \in DOMAIN jobs : jobs'[i] = jobs[k]
        /\ Apart(jobs) => /\ Apart(jobs')
                          /\ \A g : Of(g, jobs') <=> Of(g, jobs) /\ g # j.fmt
        /\ \E k \in DOMAIN jobs : j = jobs[k]
    BY <1>1, Tailed DEF TInv, TypeOK, TakeJob
  <1> HIDE DEF j
  <1>3. \A v \in Worker : working'[v] = IF v = w THEN j ELSE working[v]
    BY <1>1 DEF TInv, TypeOK
  <1>4. \A g : \A v \in Worker : Runs(g, v)' <=> IF v = w THEN g = j.fmt ELSE Runs(g, v)
    BY <1>1, <1>3 DEF Runs
  <1>5. \A g : ~Runs(g, w)
    BY <1>1 DEF Runs
  <1>6. dirty' = dirty
    BY <1>1 DEF dirty
  <1>7. \A g : InPool(g)' => InPool(g)
    <2>1. \A g : Of(g, jobs') => Of(g, jobs)
      BY <1>2 DEF Of
    <2> QED
      BY <1>1, <1>2, <1>4, <2>1 DEF InPool
  <1>8. Current'
    BY <1>1, <1>2, <1>3 DEF Current, Carried, Holds
  <1>9. NewestOnly' /\ Hashed' /\ Detached' /\ IndexIsCurrent' /\ NothingOfGoneFormats'
    BY <1>1, <1>6, <1>7 DEF NewestOnly, Hashed, Detached, IndexIsCurrent, NothingOfGoneFormats,
                            Present, Skipped, ShowsFile, Indexed
  <1>10. OneEach' /\ NoneLost'
    <2> SUFFICES ASSUME ~toggled PROVE One' /\ (\A t \in FTSQueue : Waits(t)') /\ NoneLost'
      BY <1>1 DEF OneEach, NoneLost
    <2>1. One /\ \A t \in FTSQueue : Waits(t)
      BY DEF OneEach
    <2>2. j.fmt \in Format /\ ~Of(j.fmt, results) /\ \A v \in Worker : ~Runs(j.fmt, v)
      BY <1>1, <1>2, <2>1 DEF One, Job
    <2>3. /\ Apart(jobs')
          /\ \A g : Of(g, jobs') <=> Of(g, jobs) /\ g # j.fmt
      BY <1>2, <2>1 DEF One
    <2>4. \A g : InPool(g)' <=> InPool(g)
      BY <1>1, <1>2, <1>4, <1>5, <2>3 DEF InPool
    <2>5. ASSUME NEW g \in Format PROVE
             /\ \A u, v \in Worker : Runs(g, u)' /\ Runs(g, v)' => u = v
             /\ ~(Of(g, jobs') /\ Of(g, results'))
             /\ \A v \in Worker : Runs(g, v)' => ~Of(g, jobs') /\ ~Of(g, results')
      BY <1>1, <1>4, <2>1, <2>2, <2>3 DEF One
    <2>6. One'
      BY <1>1, <2>1, <2>3, <2>4, <2>5 DEF One
    <2>7. \A t \in FTSQueue : Waits(t)'
      BY <1>1, <1>6, <2>1 DEF Waits
    <2> QED
      BY <1>1, <2>4, <2>6, <2>7 DEF NoneLost
  <1> QED
    BY <1>8, <1>9, <1>10

LEMMA FinishJobSInv ==
  ASSUME IInv, NEW w \in Worker, FinishJob(w)
  PROVE  SInv'
  <1> USE DEF IInv, SInv, tables, queues
  <1>1. PICK ok \in BOOLEAN :
           results' = Append(results, [fmt |-> working[w].fmt, content |-> working[w].content, ok |-> ok])
    BY DEF FinishJob
  <1> DEFINE f == working[w].fmt
             r == [fmt |-> f, content |-> working[w].content, ok |-> ok]
  <1>2. /\ working[w] # None /\ working' = [working EXCEPT ![w] = None]
        /\ UNCHANGED <<content, dirtied, in_progress, text, enabled, attached, queues, dispatch, jobs,
                       restarts, toggled>>
    BY DEF FinishJob
  <1>3. /\ f \in Format /\ r \in Result /\ r.fmt = f /\ r.content = content[f]
        /\ results' = Append(results, r)
    BY <1>1, <1>2 DEF TInv, TypeOK, Job, Result, Current
  <1>4. Runs(f, w) /\ \A g : Runs(g, w) => g = f
    BY <1>2 DEF Runs
  <1> HIDE DEF f, r
  <1>5. /\ Apart(results) /\ ~Of(f, results) => Apart(results')
        /\ \A i \in DOMAIN results' : results'[i] = r \/ \E k \in DOMAIN results : results'[i] = results[k]
        /\ \A g : Of(g, results') <=> Of(g, results) \/ g = f
    BY <1>3, Appended DEF TInv, TypeOK
  <1>6. \A v \in Worker : working'[v] = IF v = w THEN None ELSE working[v]
    BY <1>2 DEF TInv, TypeOK
  <1>7. \A g : \A v \in Worker : Runs(g, v)' <=> v # w /\ Runs(g, v)
    BY <1>6 DEF Runs
  <1>8. \A g : InPool(g)' <=> InPool(g)
    BY <1>2, <1>4, <1>5, <1>7 DEF InPool
  <1>9. dirty' = dirty
    BY <1>2 DEF dirty
  <1>10. OneEach'
    <2> SUFFICES ASSUME ~toggled PROVE One' /\ \A t \in FTSQueue : Waits(t)'
      BY <1>2 DEF OneEach
    <2>1. One /\ \A t \in FTSQueue : Waits(t)
      BY DEF OneEach
    <2>2. ~Of(f, results) /\ ~Of(f, jobs) /\ \A v \in Worker : Runs(f, v) => v = w
      BY <1>3, <1>4, <2>1 DEF One
    <2>3. ASSUME NEW g \in Format PROVE
             /\ \A u, v \in Worker : Runs(g, u)' /\ Runs(g, v)' => u = v
             /\ ~(Of(g, jobs') /\ Of(g, results'))
             /\ \A v \in Worker : Runs(g, v)' => ~Of(g, jobs') /\ ~Of(g, results')
      BY <1>2, <1>5, <1>7, <2>1, <2>2 DEF One
    <2>4. One'
      BY <1>2, <1>5, <1>8, <2>1, <2>2, <2>3 DEF One
    <2> QED
      BY <1>2, <1>9, <2>1, <2>4 DEF Waits
  <1>11. Current'
    BY <1>2, <1>3, <1>5, <1>6 DEF Current, Carried, Holds
  <1>12. NewestOnly' /\ Hashed' /\ Detached' /\ NoneLost' /\ IndexIsCurrent' /\ NothingOfGoneFormats'
    BY <1>2, <1>8, <1>9 DEF NewestOnly, Hashed, Detached, NoneLost, IndexIsCurrent, NothingOfGoneFormats,
                            Present, Skipped, ShowsFile, Indexed
  <1> QED
    BY <1>10, <1>11, <1>12

(* The result committed is of the file the format has now; if it brings no *)
(* row, the file has no text or the row there already has it, whatever     *)
(* hash that row has.                                                      *)
LEMMA CommitResultSInv ==
  ASSUME IInv, CommitResult
  PROVE  SInv'
  <1> USE DEF IInv, SInv
  <1> DEFINE r == Head(results)
             f == r.fmt
             row == NewRow(r)
  <1>1. /\ r \in Result /\ results' = Tail(results) /\ Cleans(f)
        /\ text' = [text EXCEPT ![f] = IF row = None THEN @ ELSE row]
        /\ UNCHANGED <<content, enabled, attached, queues, dispatch, jobs, working, restarts, toggled>>
        /\ enabled
    BY Tailed DEF CommitResult, TInv, TypeOK
  <1>2. /\ Of(f, results)
        /\ \A i \in DOMAIN results' : \E k \in DOMAIN results : results'[i] = results[k]
        /\ Apart(results) => /\ Apart(results')
                             /\ \A g : Of(g, results') <=> Of(g, results) /\ g # f
        /\ \E k \in DOMAIN results : r = results[k]
    BY <1>1, Tailed DEF TInv, TypeOK, CommitResult
  <1>3. f \in Format /\ r.content = content[f] /\ content[f] \in Content /\ content[f] # None
    BY <1>1, <1>2, ContentAssumption DEF Result, Current, Carried
  <1>4. dirty' = dirty \ {f} /\ in_progress' = in_progress \ {f}
    BY <1>1, Cleaned DEF TInv
  <1>5. /\ row # None => /\ row.hash = content[f]
                         /\ row.text = None \/ row.text = TextOf[content[f]]
        /\ row = None => \/ TextOf[content[f]] = None
                         \/ text[f] # None /\ text[f].text = TextOf[content[f]]
    <2>1. TextOf[content[f]] \in Content \cup {None}
      BY <1>3, TextAssumption
    <2>2. [hash |-> r.content, text |-> None] \in Row /\ [hash |-> r.content, text |-> TextOf[r.content]] \in Row
      BY <1>3, <2>1 DEF Row
    <2>3. [hash |-> r.content, text |-> None] # None /\ [hash |-> r.content, text |-> TextOf[r.content]] # None
      BY <2>2, NoneAssumption
    <2> HIDE DEF r
    <2>4. CASE ~r.ok
      BY <1>3, <2>3, <2>4 DEF NewRow
    <2>5. CASE r.ok
      BY <1>3, <2>3, <2>5 DEF NewRow
    <2> QED
      BY <2>4, <2>5
  <1>6. \A g \in Format : text'[g] = IF g = f /\ row # None THEN row ELSE text[g]
    BY <1>1, <1>3 DEF TInv, TypeOK
  <1> HIDE DEF f, r, row
  <1>7. \A g, w : Runs(g, w)' <=> Runs(g, w)
    BY <1>1 DEF Runs
  <1>8. Current'
    BY <1>1, <1>2 DEF Current, Carried, Holds
  <1>9. Hashed'
    BY <1>3, <1>5, <1>6 DEF Hashed
  <1>10. Detached' /\ NewestOnly'
    BY <1>1 DEF Detached, NewestOnly, queues
  <1>11. IndexIsCurrent'
    <2> SUFFICES ASSUME attached, NEW g \in Present
                 PROVE  Skipped(g) \/ g \in dirty' \/ ShowsFile(g)'
      BY <1>1 DEF IndexIsCurrent, Present, Skipped
    <2>1. g \in Format
      BY DEF Present
    <2>2. CASE g = f
      BY <1>1, <1>3, <1>5, <1>6, <2>2 DEF Skipped, ShowsFile, Indexed
    <2>3. CASE g # f
      BY <1>1, <1>4, <1>6, <2>1, <2>3 DEF IndexIsCurrent, ShowsFile, Indexed
    <2> QED
      BY <2>2, <2>3
  <1>12. NothingOfGoneFormats'
    BY <1>1, <1>3, <1>4, <1>6 DEF NothingOfGoneFormats, Present
  <1>13. OneEach' /\ NoneLost'
    <2> SUFFICES ASSUME ~toggled PROVE One' /\ (\A t \in FTSQueue : Waits(t)') /\ NoneLost'
      BY <1>1 DEF OneEach, NoneLost
    <2>1. One /\ \A t \in FTSQueue : Waits(t)
      BY DEF OneEach
    <2>2. Apart(results') /\ \A g : Of(g, results') <=> Of(g, results) /\ g # f
      BY <1>2, <2>1 DEF One
    <2>3. ~Of(f, jobs) /\ (\A w \in Worker : ~Runs(f, w)) /\ f \in in_progress
      BY <1>2, <1>3, <2>1 DEF One, InPool
    <2>4. \A g : InPool(g)' <=> InPool(g) /\ g # f
      BY <1>1, <1>7, <2>2, <2>3 DEF InPool
    <2>5. One'
      BY <1>1, <1>4, <1>7, <2>1, <2>2, <2>4 DEF One
    <2>6. \A t \in FTSQueue : Waits(t)'
      BY <1>1, <1>4, <2>1, <2>3 DEF Waits
    <2> QED
      BY <1>1, <1>4, <2>4, <2>5, <2>6 DEF NoneLost
  <1> QED
    BY <1>8, <1>9, <1>10, <1>11, <1>12, <1>13

LEMMA CommitDroppedSInv ==
  ASSUME IInv, CommitDropped
  PROVE  SInv'
  <1> USE DEF IInv, SInv, tables, queues
  <1>1. /\ results' = Tail(results) /\ toggled /\ toggled'
        /\ UNCHANGED <<content, dirtied, in_progress, text, enabled, attached, dispatch, jobs, working, toggled>>
    BY DEF CommitDropped, Detached
  <1>2. /\ \A i \in DOMAIN results' : \E k \in DOMAIN results : results'[i] = results[k]
        /\ \A g : Of(g, results') => Of(g, results)
    <2>1. \A i \in DOMAIN results' : \E k \in DOMAIN results : results'[i] = results[k]
      BY <1>1, Tailed DEF TInv, TypeOK, CommitDropped
    <2> QED
      BY <2>1 DEF Of
  <1>3. \A g : InPool(g)' => InPool(g)
    BY <1>1, <1>2 DEF Runs, InPool
  <1>4. dirty' = dirty
    BY <1>1 DEF dirty
  <1>5. Current'
    BY <1>1, <1>2 DEF Current, Carried, Holds
  <1>6. Hashed' /\ Detached' /\ IndexIsCurrent'
    BY <1>1, <1>3, <1>4 DEF Hashed, Detached, IndexIsCurrent, Present, Skipped, ShowsFile, Indexed
  <1>7. NewestOnly' /\ OneEach' /\ NoneLost' /\ NothingOfGoneFormats'
    BY <1>1 DEF NewestOnly, OneEach, NoneLost, NothingOfGoneFormats
  <1> QED
    BY <1>5, <1>6, <1>7

(* The supervisor's call wakes a dispatcher, and a stuttering step changes *)
(* nothing.                                                                *)
LEMMA SameSInv ==
  ASSUME IInv, CheckForWork \/ UNCHANGED vars
  PROVE  SInv'
  <1> USE DEF IInv, SInv, tables, pool
  <1>1. UNCHANGED <<content, dirtied, in_progress, text, enabled, attached, dispatch, jobs, working,
                    results, restarts, toggled>>
    BY DEF CheckForWork, vars
  <1>2. dirty' = dirty /\ \A g : (InPool(g)' <=> InPool(g)) /\ \A w : Runs(g, w)' <=> Runs(g, w)
    BY <1>1, SamePool DEF dirty
  <1>3. NewestOnly'
    <2>1. Wakes \/ UNCHANGED queues
      BY DEF CheckForWork, vars
    <2> QED
      BY <1>1, <2>1, WakesNewest
  <1>4. OneEach' /\ Current'
    BY <1>1, <1>2 DEF OneEach, One, Waits, Current, Carried, Holds
  <1> QED
    BY <1>1, <1>2, <1>3, <1>4 DEF Hashed, Detached, NoneLost, IndexIsCurrent,
                      NothingOfGoneFormats, Present, Skipped, ShowsFile, Indexed

LEMMA InitSInv == Init => SInv
  <1> SUFFICES ASSUME Init PROVE SInv
    OBVIOUS
  <1>1. Present \in SUBSET Format
    BY DEF Present
  <1>2. dirty = Present
    BY <1>1, Ordered DEF Init, dirty
  <1>3. \A f : ~InPool(f) /\ ~Of(f, jobs) /\ ~Of(f, results) /\ \A w \in Worker : ~Runs(f, w)
    BY DEF Init, InPool, Of, Runs
  <1>4. NewestOnly /\ OneEach /\ Current
    <2>1. \A t \in FTSQueue : queue[t] = t /\ dispatch[t].pc = "idle" /\ (t # 0 => wakeups[t] = 0)
      BY DEF Init, Idle
    <2>2. One
      <3>1. DOMAIN jobs = {} /\ DOMAIN results = {}
        BY DEF Init
      <3> QED
        BY <1>3, <3>1 DEF One, Apart
    <2> QED
      BY <2>1, <2>2 DEF Init, NewestOnly, OneEach, Waits, Current, Carried, Holds
  <1>5. Hashed /\ Detached /\ NoneLost /\ IndexIsCurrent /\ NothingOfGoneFormats
    BY <1>2 DEF Init, Hashed, Detached, NoneLost, IndexIsCurrent, NothingOfGoneFormats, Present
  <1> QED
    BY <1>4, <1>5 DEF SInv

THEOREM Invariant ==
  ASSUME "inflight" \notin Disturb
  PROVE  Spec => []IInv
  <1>1. Init => IInv
    BY InitTInv, InitSInv DEF IInv
  <1>2. IInv /\ [Next]_vars => IInv'
    <2>1. IInv /\ [Next]_vars => TInv'
      BY OthersTInv, DispatcherTInv, PoolTInv, StutterTInv DEF Next, IInv
    <2>2. IInv /\ [Next]_vars => SInv'
      BY OthersSInv, LookingSInv, CleaningSInv, DispatchQueuesSInv, TakeJobSInv, FinishJobSInv,
         CommitResultSInv, CommitDroppedSInv, SameSInv DEF Next, Dispatcher, Supervise
    <2> QED
      BY <2>1, <2>2 DEF IInv
  <1> QED
    BY <1>1, <1>2, PTL DEF Spec

(* A format that is not marked as dirty has the text of its present file   *)
(* in the index, or the error of that file, be the row of another one with *)
(* the same text.                                                          *)
THEOREM IndexStaysCurrent ==
  ASSUME "inflight" \notin Disturb
  PROVE  Spec => []IndexIsCurrent
  <1>1. IInv => IndexIsCurrent
    BY DEF IInv, SInv
  <1> QED
    BY <1>1, Invariant, PTL

(* The index has nothing of formats that are gone.                         *)
THEOREM IndexForgetsGoneFormats ==
  ASSUME "inflight" \notin Disturb
  PROVE  Spec => []NothingOfGoneFormats
  <1>1. IInv => NothingOfGoneFormats
    BY DEF IInv, SInv
  <1> QED
    BY <1>1, Invariant, PTL

(* A row in progress has a job that will end it.                           *)
THEOREM ProgressIsNotLost ==
  ASSUME "inflight" \notin Disturb
  PROVE  Spec => []ProgressHasJob
  <1>1. IInv => ProgressHasJob
    <2> SUFFICES ASSUME IInv, ~toggled, NEW f \in in_progress
                 PROVE  \/ \E j \in ToSet(jobs) \cup ToSet(results) : j.fmt = f
                        \/ \E w \in Worker : working[w] # None /\ working[w].fmt = f
      BY DEF ProgressHasJob
    <2>1. Of(f, jobs) \/ Of(f, results) \/ \E w \in Worker : Runs(f, w)
      BY DEF IInv, SInv, NoneLost, InPool
    <2> QED
      BY <2>1, OfSet DEF Runs
  <1> QED
    BY <1>1, Invariant, PTL

(* A set without two elements has at most one.                             *)
LEMMA AtMostOne ==
  ASSUME NEW S, \A x, y \in S : x = y
  PROVE  Cardinality(S) \in {0, 1} /\ (Cardinality(S) = 1 => S # {})
  <1>1. CASE S = {}
    BY <1>1, FS_EmptySet
  <1>2. CASE S # {}
    <2>1. PICK x : S = {x}
      BY <1>2
    <2> QED
      BY <2>1, FS_Singleton
  <1> QED
    BY <1>1, <1>2

(* No file is extracted twice at a time, until enable_fts() starts another *)
(* dispatcher.                                                             *)
THEOREM OneExtractionEach ==
  ASSUME "inflight" \notin Disturb
  PROVE  Spec => []OneJobEach
  <1>1. IInv => OneJobEach
    <2> SUFFICES ASSUME IInv, ~toggled, NEW f \in Format
                 PROVE  JobsOf(f) <= 1
      BY DEF OneJobEach
    <2> DEFINE J == {i \in DOMAIN jobs : jobs[i].fmt = f}
               W == {w \in Worker : working[w] # None /\ working[w].fmt = f}
               R == {i \in DOMAIN results : results[i].fmt = f}
    <2>1. /\ \A x, y \in J : x = y
          /\ \A x, y \in R : x = y
          /\ \A x, y \in W : x = y
      BY DEF IInv, SInv, OneEach, One, Apart, Runs
    <2>2. (J = {} /\ R = {}) \/ (J = {} /\ W = {}) \/ (W = {} /\ R = {})
      BY DEF IInv, SInv, OneEach, One, Of, Runs
    <2>3. JobsOf(f) = Cardinality(J) + Cardinality(W) + Cardinality(R)
      BY DEF JobsOf
    <2> HIDE DEF J, W, R
    <2>4. /\ Cardinality(J) \in {0, 1} /\ (Cardinality(J) = 1 => J # {})
          /\ Cardinality(W) \in {0, 1} /\ (Cardinality(W) = 1 => W # {})
          /\ Cardinality(R) \in {0, 1} /\ (Cardinality(R) = 1 => R # {})
      BY <2>1, AtMostOne
    <2> QED
      BY <2>2, <2>3, <2>4
  <1> QED
    BY <1>1, Invariant, PTL
=============================================================================
