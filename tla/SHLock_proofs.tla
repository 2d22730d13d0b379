---------------------------- MODULE SHLock_proofs ----------------------------
(***************************************************************************)
(* Proofs about SHLock, for any finite set of threads and any bound on the *)
(* calls within a block: the inductive invariant, from it every safety     *)
(* property the runs check, and the refinement of RWLock.                  *)
(***************************************************************************)
EXTENDS SHLock, FiniteSetTheorems, SequenceTheorems, TLAPS

-----------------------------------------------------------------------------
(* Counting the blocks on a thread's stack.                                *)

(* Only finitely many blocks can be counted.                               *)
LEMMA PlacesFinite ==
    ASSUME NEW s \in Seq(Block), NEW block
    PROVE  IsFiniteSet(Places(s, block)) /\ Count(s, block) \in Nat
<1>1. IsFiniteSet(1..Len(s))
  BY FS_Interval
<1>2. Places(s, block) \subseteq 1..Len(s)
  BY DEF Places
<1>3. IsFiniteSet(Places(s, block))
  BY <1>1, <1>2, FS_Subset
<1>4. QED
  BY <1>3, FS_CardinalityType DEF Count

(* A thread inside nothing is inside no block of any kind.                 *)
LEMMA CountEmpty == \A block : Count(<<>>, block) = 0
<1>1. SUFFICES ASSUME NEW block PROVE Count(<<>>, block) = 0
  OBVIOUS
<1>2. Places(<<>>, block) = {}
  BY DEF Places
<1>3. QED
  BY <1>2, FS_EmptySet DEF Count

(* Entering a block adds one to the count of its kind.                     *)
LEMMA CountAppend ==
    ASSUME NEW s \in Seq(Block), NEW b \in Block, NEW block
    PROVE  Count(Append(s, b), block) =
             Count(s, block) + (IF b = block THEN 1 ELSE 0)
<1>1. /\ Append(s, b) \in Seq(Block)
      /\ DOMAIN Append(s, b) = (DOMAIN s) \cup {Len(s) + 1}
      /\ \A i \in DOMAIN s : Append(s, b)[i] = s[i]
      /\ Append(s, b)[Len(s) + 1] = b
      /\ Len(s) + 1 \notin DOMAIN s
  OBVIOUS
<1>2. CASE b = block
  <2>1. Places(Append(s, b), block) = Places(s, block) \cup {Len(s) + 1}
    BY <1>1, <1>2 DEF Places
  <2>2. Len(s) + 1 \notin Places(s, block)
    BY <1>1 DEF Places
  <2>3. QED
    BY <2>1, <2>2, <1>2, PlacesFinite, FS_AddElement DEF Count
<1>3. CASE b # block
  <2>1. Places(Append(s, b), block) = Places(s, block)
    BY <1>1, <1>3 DEF Places
  <2>2. QED
    BY <2>1, <1>3, PlacesFinite DEF Count
<1>4. QED
  BY <1>2, <1>3

(* Leaving the innermost block takes one from the count of its kind.       *)
LEMMA CountPop ==
    ASSUME NEW s \in Seq(Block), s # <<>>, NEW block
    PROVE  LET r == SubSeq(s, 1, Len(s) - 1) IN
           /\ r \in Seq(Block)
           /\ Len(r) = Len(s) - 1
           /\ \A i \in 1..Len(r) : r[i] = s[i]
           /\ Count(s, block) =
                Count(r, block) + (IF s[Len(s)] = block THEN 1 ELSE 0)
<1> DEFINE n == Len(s) - 1
           r == SubSeq(s, 1, n)
<1>1. /\ n \in Nat
      /\ \A i \in 1..n : s[i] \in Block
      /\ s[n + 1] \in Block
  OBVIOUS
<1>2. /\ r \in Seq(Block)
      /\ Len(r) = n
      /\ \A i \in 1..n : r[i] = s[i]
  <2> HIDE DEF n
  <2>1. /\ r \in Seq(Block)
        /\ Len(r) = IF 1 <= n THEN n - 1 + 1 ELSE 0
        /\ \A i \in 1..(n - 1 + 1) : r[i] = s[1 + i - 1]
    BY <1>1, SubSeqProperties
  <2>2. QED
    BY <1>1, <2>1
<1>3. s = Append(r, s[Len(s)])
  <2> HIDE DEF r
  <2>1. QED
    BY <1>1, <1>2
<1>4. Count(Append(r, s[Len(s)]), block) =
        Count(r, block) + (IF s[Len(s)] = block THEN 1 ELSE 0)
  <2> HIDE DEF r
  <2>1. QED
    BY <1>1, <1>2, CountAppend
<1>5. QED
  BY <1>2, <1>3, <1>4

(* A positive count means that such a block is on the stack.               *)
LEMMA CountPositive ==
    ASSUME NEW s \in Seq(Block), NEW block
    PROVE  Count(s, block) > 0 <=> \E i \in 1..Len(s) : s[i] = block
<1>1. Count(s, block) = 0 <=> Places(s, block) = {}
  BY PlacesFinite, FS_EmptySet DEF Count
<1>2. Places(s, block) # {} <=> \E i \in 1..Len(s) : s[i] = block
  BY DEF Places
<1>3. Count(s, block) \in Nat
  BY PlacesFinite
<1>4. QED
  BY <1>1, <1>2, <1>3

-----------------------------------------------------------------------------
(* Counting the shared locks held.                                         *)

(* Thread t has one element for each shared lock it holds.                 *)
LEMMA HoldsMembers ==
    ASSUME NEW f \in [Thread -> Nat]
    PROVE  /\ HoldsOf(f) \subseteq Thread \X Nat
           /\ \A t \in Thread, i \in Nat :
                <<t, i>> \in HoldsOf(f) <=> 1 <= i /\ i <= f[t]
BY DEF HoldsOf

(* Sets of pairs with the same pairs are equal.                            *)
LEMMA PairsEqual ==
    ASSUME NEW S, NEW A \in SUBSET (S \X Nat), NEW B \in SUBSET (S \X Nat),
           \A t \in S, i \in Nat : <<t, i>> \in A <=> <<t, i>> \in B
    PROVE  A = B
<1>1. \A x \in S \X Nat : x = <<x[1], x[2]>> /\ x[1] \in S /\ x[2] \in Nat
  OBVIOUS
<1>2. \A x \in A : x \in B
  BY <1>1
<1>3. \A x \in B : x \in A
  BY <1>1
<1>4. QED
  BY <1>2, <1>3

(* Taking one more shared lock adds one to the total.                      *)
LEMMA HoldsAdd ==
    ASSUME NEW f \in [Thread -> Nat], NEW t \in Thread,
           IsFiniteSet(HoldsOf(f)),
           NEW g, g = [f EXCEPT ![t] = @ + 1]
    PROVE  /\ IsFiniteSet(HoldsOf(g))
           /\ Cardinality(HoldsOf(g)) = Cardinality(HoldsOf(f)) + 1
<1>1. g \in [Thread -> Nat]
  OBVIOUS
<1>a. f[t] + 1 \in Nat /\ f[t] \in Nat
  OBVIOUS
<1>2. /\ HoldsOf(g) \subseteq Thread \X Nat
      /\ \A u \in Thread, i \in Nat : <<u, i>> \in HoldsOf(g) <=> 1 <= i /\ i <= g[u]
  BY <1>1, HoldsMembers
<1>3. /\ HoldsOf(f) \subseteq Thread \X Nat
      /\ \A u \in Thread, i \in Nat : <<u, i>> \in HoldsOf(f) <=> 1 <= i /\ i <= f[u]
  BY HoldsMembers
<1>b. \A u \in Thread, i \in Nat : <<u, i>> = <<t, f[t] + 1>> <=> u = t /\ i = f[t] + 1
  OBVIOUS
<1>4. \A u \in Thread, i \in Nat :
        1 <= i /\ i <= g[u] <=> (1 <= i /\ i <= f[u]) \/ (u = t /\ i = f[t] + 1)
  OBVIOUS
<1>5. \A u \in Thread, i \in Nat : <<u, i>> \in HoldsOf(g) <=> <<u, i>> \in HoldsOf(f) \cup {<<t, f[t] + 1>>}
  BY <1>2, <1>3, <1>4, <1>b
<1>6. <<t, f[t] + 1>> \in Thread \X Nat
  BY <1>a
<1> DEFINE F == HoldsOf(f)
           G == HoldsOf(g)
           new == <<t, f[t] + 1>>
<1>8. new \notin F
  BY <1>3, <1>a
<1>7. G = F \cup {new}
  <2>1. G \in SUBSET (Thread \X Nat) /\ F \cup {new} \in SUBSET (Thread \X Nat)
    BY <1>2, <1>3, <1>6
  <2>2. \A u \in Thread, i \in Nat : <<u, i>> \in G <=> <<u, i>> \in F \cup {new}
    BY <1>5
  <2> HIDE DEF F, G, new
  <2>3. QED
    BY <2>1, <2>2, PairsEqual
<1>c. IsFiniteSet(F)
  OBVIOUS
<1>9. IsFiniteSet(G) /\ Cardinality(G) = Cardinality(F) + 1
  <2> HIDE DEF F, G, new
  <2>3. QED
    BY <1>7, <1>8, <1>c, FS_AddElement, FS_CardinalityType
<1>10. QED
  BY <1>9

(* Releasing one takes one from the total.                                 *)
LEMMA HoldsRemove ==
    ASSUME NEW f \in [Thread -> Nat], NEW t \in Thread, f[t] > 0,
           IsFiniteSet(HoldsOf(f)),
           NEW g, g = [f EXCEPT ![t] = @ - 1]
    PROVE  /\ IsFiniteSet(HoldsOf(g))
           /\ Cardinality(HoldsOf(g)) = Cardinality(HoldsOf(f)) - 1
<1>1. g \in [Thread -> Nat] /\ f = [g EXCEPT ![t] = @ + 1]
  <2>1. g \in [Thread -> Nat] /\ g[t] + 1 = f[t]
    OBVIOUS
  <2>2. \A u \in Thread : f[u] = [g EXCEPT ![t] = @ + 1][u]
    BY <2>1
  <2>3. QED
    BY <2>1, <2>2
<1>2. HoldsOf(g) \subseteq HoldsOf(f)
  <2>1. \A u \in Thread : 1..g[u] \subseteq 1..f[u]
    BY <1>1
  <2>2. QED
    BY <2>1 DEF HoldsOf
<1>3. IsFiniteSet(HoldsOf(g))
  BY <1>2, FS_Subset
<1>4. Cardinality(HoldsOf(f)) = Cardinality(HoldsOf(g)) + 1
  BY <1>1, <1>3, HoldsAdd
<1>5. Cardinality(HoldsOf(g)) \in Nat
  BY <1>3, FS_CardinalityType
<1>6. QED
  BY <1>3, <1>4, <1>5

(* The total is zero exactly when nobody holds a shared lock.              *)
LEMMA HoldsNone ==
    ASSUME NEW f \in [Thread -> Nat], IsFiniteSet(HoldsOf(f))
    PROVE  Cardinality(HoldsOf(f)) = 0 <=> \A t \in Thread : f[t] = 0
<1>1. Cardinality(HoldsOf(f)) = 0 <=> HoldsOf(f) = {}
  BY FS_EmptySet
<1>2. ASSUME HoldsOf(f) = {}, NEW t \in Thread PROVE f[t] = 0
  <2>1. <<t, 1>> \notin HoldsOf(f)
    BY <1>2
  <2>2. QED
    BY <2>1, HoldsMembers
<1>3. ASSUME \A t \in Thread : f[t] = 0 PROVE HoldsOf(f) = {}
  <2>1. \A t \in Thread : 1..f[t] = {}
    BY <1>3
  <2>2. QED
    BY <2>1 DEF HoldsOf
<1>4. QED
  BY <1>1, <1>2, <1>3

(* Giving each element of T its partner makes no more and no fewer pairs.  *)
LEMMA PairsWith ==
    ASSUME NEW T, IsFiniteSet(T), NEW h, NEW P,
           \A x : x \in P <=> \E t \in T : x = <<t, h[t]>>
    PROVE  IsFiniteSet(P) /\ Cardinality(P) = Cardinality(T)
<1> DEFINE b == [t \in T |-> <<t, h[t]>>]
<1>1. b \in [T -> P]
  OBVIOUS
<1>2. \A t, u \in T : b[t] = b[u] => t = u
  OBVIOUS
<1>3. \A x \in P : \E t \in T : b[t] = x
  OBVIOUS
<1>4. b \in Bijection(T, P)
  <2> HIDE DEF b
  <2>1. QED
  BY <1>1, <1>2, <1>3 DEF Bijection, Injection, Surjection, IsInjective
<1>5. QED
  <2> HIDE DEF b
  <2>1. QED
  BY <1>4, FS_Bijection DEF ExistsBijection

(* Handing one shared lock to each queued reader makes the total the       *)
(* length of the queue, each entry being of another thread.                *)
LEMMA HoldsHandOff ==
    ASSUME IsFiniteSet(Thread),
           NEW f \in [Thread -> Nat], \A t \in Thread : f[t] = 0,
           NEW W, NEW Q \in SUBSET (Thread \X Nat), \A e \in Q : e[2] = W[e[1]],
           NEW g, g = [t \in Thread |-> IF \E e \in Q : e[1] = t THEN 1 ELSE f[t]]
    PROVE  /\ IsFiniteSet(HoldsOf(g))
           /\ Cardinality(HoldsOf(g)) = Cardinality(Q)
<1> DEFINE T == {t \in Thread : \E e \in Q : e[1] = t}
           one == [t \in T |-> 1]
<1>1. IsFiniteSet(T)
  BY FS_Subset
<1>2. IsFiniteSet(Q) /\ Cardinality(Q) = Cardinality(T)
  <2>1. \A x : x \in Q <=> \E t \in T : x = <<t, W[t]>>
    <3>1. ASSUME NEW x \in Q PROVE x[1] \in T /\ x = <<x[1], W[x[1]]>>
      OBVIOUS
    <3>2. ASSUME NEW t \in T PROVE <<t, W[t]>> \in Q
      <4>1. PICK e \in Q : e[1] = t
        OBVIOUS
      <4>2. e = <<t, W[t]>>
        BY <4>1, <3>1
      <4>3. QED
        BY <4>2
    <3>3. QED
      BY <3>1, <3>2
  <2> HIDE DEF T
  <2>2. QED
    BY <1>1, <2>1, PairsWith
<1>3. IsFiniteSet(HoldsOf(g)) /\ Cardinality(HoldsOf(g)) = Cardinality(T)
  <2>1. g \in [Thread -> Nat]
    OBVIOUS
  <2>2. \A t \in Thread, i \in Nat : <<t, i>> \in HoldsOf(g) <=> 1 <= i /\ i <= g[t]
    BY <2>1, HoldsMembers
  <2>3. HoldsOf(g) \subseteq Thread \X Nat
    BY <2>1, HoldsMembers
  <2>4. \A t \in Thread, i \in Nat : <<t, i>> \in HoldsOf(g) <=> t \in T /\ i = one[t]
    <3>1. \A t \in Thread : g[t] = IF t \in T THEN 1 ELSE 0
      OBVIOUS
    <3>2. \A t \in T : one[t] = 1
      OBVIOUS
    <3> HIDE DEF T, one
    <3>3. ASSUME NEW t \in Thread, NEW i \in Nat
          PROVE  1 <= i /\ i <= g[t] <=> t \in T /\ i = 1
      <4>1. CASE t \in T
        BY <4>1, <3>1
      <4>2. CASE t \notin T
        BY <4>2, <3>1
      <4>3. QED
        BY <4>1, <4>2
    <3>4. ASSUME NEW t \in Thread, NEW i \in Nat
          PROVE  t \in T /\ i = one[t] <=> t \in T /\ i = 1
      BY <3>2
    <3>5. SUFFICES ASSUME NEW t \in Thread, NEW i \in Nat
                   PROVE  <<t, i>> \in HoldsOf(g) <=> t \in T /\ i = one[t]
      OBVIOUS
    <3>6. <<t, i>> \in HoldsOf(g) <=> 1 <= i /\ i <= g[t]
      BY <2>2
    <3>7. QED
      BY <3>3, <3>4, <3>6
  <2>5. \A x : x \in HoldsOf(g) <=> \E t \in T : x = <<t, one[t]>>
    <3>1. ASSUME NEW x \in HoldsOf(g) PROVE x[1] \in T /\ x = <<x[1], one[x[1]]>>
      BY <2>3, <2>4
    <3>2. ASSUME NEW t \in T PROVE <<t, one[t]>> \in HoldsOf(g)
      BY <2>4
    <3>3. QED
      BY <3>1, <3>2
  <2> HIDE DEF T, one
  <2>6. QED
    BY <1>1, <2>5, PairsWith
<1>4. QED
  BY <1>2, <1>3

-----------------------------------------------------------------------------
(* The invariant.                                                          *)

(* What the invariant says of a thread's own counts.                       *)
LEMMA CountFacts ==
    ASSUME IInv
    PROVE  /\ is_shared = 0 <=> \A t \in Thread : shared_owners[t] = 0
           /\ \A t \in Thread :
                /\ Reads(t) \in Nat /\ Writes(t) \in Nat
                /\ Reads(t) > 0 <=> \E i \in 1..Len(stack[t]) : stack[t][i] = "read"
                /\ Writes(t) > 0 <=> \E i \in 1..Len(stack[t]) : stack[t][i] = "write"
<1>1. is_shared = 0 <=> \A t \in Thread : shared_owners[t] = 0
  BY HoldsNone DEF IInv, TypeOK, ModeInv, Holds
<1>2. ASSUME NEW t \in Thread
      PROVE  /\ Reads(t) \in Nat /\ Writes(t) \in Nat
             /\ Reads(t) > 0 <=> \E i \in 1..Len(stack[t]) : stack[t][i] = "read"
             /\ Writes(t) > 0 <=> \E i \in 1..Len(stack[t]) : stack[t][i] = "write"
  <2>1. stack[t] \in Seq(Block)
    BY DEF IInv, TypeOK
  <2>2. QED
    BY <2>1, PlacesFinite, CountPositive DEF Reads, Writes
<1>3. QED
  BY <1>1, <1>2

(* A thread that holds neither kind of lock is inside no block.            *)
LEMMA EmptyStack ==
    ASSUME IInv, NEW t \in Thread, Reads(t) = 0, Writes(t) = 0
    PROVE  stack[t] = <<>>
<1>1. stack[t] \in Seq(Block)
  BY DEF IInv, TypeOK
<1>2. SUFFICES ASSUME stack[t] # <<>> PROVE FALSE
  OBVIOUS
<1>3. stack[t][1] # "noop"
  BY <1>2 DEF IInv, ThreadInv
<1>4. 1 \in 1..Len(stack[t]) /\ stack[t][1] \in Block
  BY <1>1, <1>2
<1>5. stack[t][1] \in {"read", "write"}
  BY <1>3, <1>4 DEF Block
<1>6. QED
  BY <1>4, <1>5, CountFacts

(* A step that leaves a thread's own part of the state alone keeps what    *)
(* the invariant says of it.                                               *)
LEMMA Frame ==
    ASSUME NEW u \in Thread, ThreadInv(u),
           pc'[u] = pc[u], stack'[u] = stack[u], waiter'[u] = waiter[u],
           shared_owners'[u] = shared_owners[u],
           u \in asleep' <=> u \in asleep,
           exclusive_owner' = u <=> exclusive_owner = u,
           exclusive_owner = u => is_exclusive' = is_exclusive,
           u \in asleep /\ <<u, waiter[u]>> \in shared_queue =>
              <<u, waiter[u]>> \in shared_queue',
           u \in asleep /\ (\E i \in DOMAIN exclusive_queue : exclusive_queue[i] = <<u, waiter[u]>>) =>
              \E i \in DOMAIN exclusive_queue' : exclusive_queue'[i] = <<u, waiter[u]>>
    PROVE  ThreadInv(u)'
BY DEF ThreadInv, Waiting, Reads, Writes

(* Nobody holds anything and nobody waits.                                 *)
LEMMA InitIInv == Init => IInv
<1> SUFFICES ASSUME Init PROVE IInv
  OBVIOUS
<1>1. TypeOK
  BY MaxCallsAssumption DEF Init, TypeOK, Status
<1>2. ModeInv
  <2>1. Holds = {}
    BY DEF Init, Holds, HoldsOf
  <2>2. QED
    BY <2>1, FS_EmptySet, ThreadAssumption DEF Init, ModeInv
<1>3. \A t \in Thread : ThreadInv(t)
  BY CountEmpty, ThreadAssumption DEF Init, ThreadInv, Waiting, Reads, Writes
<1>4. QueueInv
  BY DEF Init, QueueInv
<1>5. WaitersDistinct
  BY DEF Init, WaitersDistinct, Waiting
<1>6. QED
  BY <1>1, <1>2, <1>3, <1>4, <1>5 DEF IInv

-----------------------------------------------------------------------------
(* acquire() calls that are answered at once.                              *)

(* A block is entered: what that does to the thread's stack.               *)
LEMMA EnterFacts ==
    ASSUME TypeOK, NEW t \in Thread, NEW b \in Block, Enter(t, b)
    PROVE  /\ stack' \in [Thread -> Seq(Block)]
           /\ \A u \in Thread \ {t} : stack'[u] = stack[u]
           /\ stack'[t] # <<>>
           /\ stack[t] # <<>> => stack'[t][1] = stack[t][1]
           /\ stack[t] = <<>> => stack'[t][1] = b
           /\ \A i \in DOMAIN stack'[t] :
                 \/ i \in DOMAIN stack[t] /\ stack'[t][i] = stack[t][i]
                 \/ stack'[t][i] = b
           /\ Reads(t)' = Reads(t) + (IF b = "read" THEN 1 ELSE 0)
           /\ Writes(t)' = Writes(t) + (IF b = "write" THEN 1 ELSE 0)
<1>1. stack[t] \in Seq(Block) /\ stack'[t] = Append(stack[t], b)
  BY DEF TypeOK, Enter
<1>2. /\ Append(stack[t], b) \in Seq(Block)
      /\ Append(stack[t], b) # <<>>
      /\ stack[t] # <<>> => Append(stack[t], b)[1] = stack[t][1]
      /\ stack[t] = <<>> => Append(stack[t], b)[1] = b
      /\ \A i \in DOMAIN Append(stack[t], b) :
            \/ i \in DOMAIN stack[t] /\ Append(stack[t], b)[i] = stack[t][i]
            \/ Append(stack[t], b)[i] = b
  <2>1. stack[t] # <<>> => 1 \in 1..Len(stack[t])
    BY <1>1
  <2>2. stack[t] = <<>> => Len(stack[t]) = 0
    OBVIOUS
  <2>3. /\ Append(stack[t], b) \in Seq(Block)
        /\ Len(Append(stack[t], b)) = Len(stack[t]) + 1
        /\ \A i \in 1..Len(stack[t]) : Append(stack[t], b)[i] = stack[t][i]
        /\ Append(stack[t], b)[Len(stack[t]) + 1] = b
    BY <1>1, AppendProperties
  <2>4. Append(stack[t], b) # <<>>
    BY <1>1, <2>3
  <2>5. stack[t] = <<>> => Append(stack[t], b)[1] = b
    BY <2>2, <2>3
  <2>6. ASSUME NEW i \in DOMAIN Append(stack[t], b)
        PROVE  \/ i \in DOMAIN stack[t] /\ Append(stack[t], b)[i] = stack[t][i]
               \/ Append(stack[t], b)[i] = b
    <3>1. i \in 1..Len(stack[t]) \/ i = Len(stack[t]) + 1
      BY <1>1, <2>3
    <3>2. QED
      BY <1>1, <2>3, <3>1
  <2>7. QED
    BY <2>1, <2>3, <2>4, <2>5, <2>6
<1>3. stack' \in [Thread -> Seq(Block)] /\ \A u \in Thread \ {t} : stack'[u] = stack[u]
  BY <1>1, <1>2 DEF TypeOK, Enter
<1>4. /\ Reads(t)' = Reads(t) + (IF b = "read" THEN 1 ELSE 0)
      /\ Writes(t)' = Writes(t) + (IF b = "write" THEN 1 ELSE 0)
  BY <1>1, CountAppend DEF Reads, Writes
<1>5. QED
  BY <1>1, <1>2, <1>3, <1>4

(* A read lock is taken, again or for the first time.                      *)
LEMMA ReadGrantKeeps ==
    ASSUME IInv, NEW t \in Thread, ReenterRead(t) \/ TakeRead(t)
    PROVE  IInv'
<1>1. /\ pc[t] = "run" /\ calls' = [calls EXCEPT ![t] = @ + 1] /\ calls[t] < MaxCalls
      /\ is_shared' = is_shared + 1
      /\ shared_owners' = [shared_owners EXCEPT ![t] = @ + 1]
      /\ UNCHANGED <<is_exclusive, exclusive_owner>>
      /\ Enter(t, "read")
      /\ UNCHANGED <<queueVars, waiterVars, asleep, pc>>
  <2>1. CASE ReenterRead(t)
    BY <2>1 DEF ReenterRead, Call, AddShared, Granted
  <2>2. CASE TakeRead(t)
    <3>1. shared_owners[t] = 0
      BY <2>2, CountFacts DEF TakeRead, OwnsShared, IInv, TypeOK
    <3>2. [shared_owners EXCEPT ![t] = 1] = [shared_owners EXCEPT ![t] = @ + 1]
      BY <3>1
    <3>3. QED
      BY <2>2, <3>2 DEF TakeRead, Call, Granted
  <2>3. QED
    BY <2>1, <2>2
<1>2. is_exclusive = 0 /\ exclusive_owner = NoThread
  <2>1. CASE ReenterRead(t)
    BY <2>1 DEF ReenterRead, OwnsShared, IInv, TypeOK, ModeInv
  <2>2. CASE TakeRead(t)
    BY <2>2 DEF TakeRead, SpokenFor, IInv, TypeOK, ModeInv
  <2>3. QED
    BY <2>1, <2>2
<1>a. /\ stack' \in [Thread -> Seq(Block)]
      /\ \A u \in Thread \ {t} : stack'[u] = stack[u]
      /\ stack[t] # <<>> => stack'[t][1] = stack[t][1]
      /\ stack[t] = <<>> => stack'[t][1] = "read"
      /\ \A i \in DOMAIN stack'[t] :
            \/ i \in DOMAIN stack[t] /\ stack'[t][i] = stack[t][i]
            \/ stack'[t][i] = "read"
      /\ Reads(t)' = Reads(t) + 1 /\ Writes(t)' = Writes(t)
  BY <1>1, EnterFacts, CountFacts DEF IInv, Block
<1>3. exclusive_queue # <<>> => OwnsShared(t)
  BY DEF ReenterRead, TakeRead, SpokenFor
<1>4. TypeOK'
  <2>1. calls' \in [Thread -> 0..MaxCalls]
    BY <1>1, MaxCallsAssumption DEF IInv, TypeOK
  <2>2. is_shared' \in Nat /\ shared_owners' \in [Thread -> Nat]
    BY <1>1 DEF IInv, TypeOK
  <2>3. QED
    BY <1>1, <1>a, <2>1, <2>2 DEF IInv, TypeOK, queueVars, waiterVars
<1>5. ModeInv'
  <2>1. /\ IsFiniteSet(HoldsOf(shared_owners'))
        /\ Cardinality(HoldsOf(shared_owners')) = Cardinality(HoldsOf(shared_owners)) + 1
    BY <1>1, HoldsAdd DEF IInv, TypeOK, ModeInv, Holds
  <2>2. QED
    BY <1>1, <1>2, <2>1 DEF IInv, TypeOK, ModeInv, Holds
<1>6. ASSUME NEW u \in Thread PROVE ThreadInv(u)'
  <2>1. CASE u = t
    <3>1. t \notin asleep /\ shared_owners[t] = Reads(t) /\ Writes(t) = 0
      BY <1>1, <1>2, ThreadAssumption DEF IInv, ThreadInv, Waiting
    <3>2. stack'[t][1] # "noop" /\ Reads(t)' = Reads(t) + 1 /\ Writes(t)' = 0
      BY <1>1, <1>a, <3>1 DEF IInv, ThreadInv, Waiting
    <3>3. shared_owners'[t] = Reads(t)'
      BY <1>1, <3>1, <3>2 DEF IInv, TypeOK
    <3>4. \A i \in DOMAIN stack'[t] : stack'[t][i] = "read"
      <4>1. CASE Reads(t) > 0
        BY <1>1, <1>a, <4>1 DEF IInv, ThreadInv, Waiting
      <4>2. CASE Reads(t) = 0
        <5>1. stack[t] = <<>>
          BY <3>1, <4>2, EmptyStack
        <5>2. DOMAIN stack[t] = {}
          BY <5>1
        <5>3. QED
          BY <1>a, <5>2
      <4>3. QED
        BY <4>1, <4>2, CountFacts
    <3>5. QED
      BY <1>1, <1>2, <2>1, <3>1, <3>2, <3>3, <3>4, ThreadAssumption
         DEF ThreadInv, Waiting
  <2>2. CASE u # t
    BY <1>1, <1>a, <2>2, Frame DEF IInv, TypeOK, queueVars, waiterVars
  <2>3. QED
    BY <2>1, <2>2
<1>7. QueueInv'
  BY <1>1 DEF IInv, TypeOK, QueueInv, SpokenFor, queueVars, waiterVars
<1>8. WaitersDistinct'
  BY <1>1 DEF IInv, WaitersDistinct, Waiting, waiterVars
<1>9. QED
  BY <1>4, <1>5, <1>6, <1>7, <1>8 DEF IInv

(* The write lock is taken, again or for the first time.                   *)
LEMMA WriteGrantKeeps ==
    ASSUME IInv, NEW t \in Thread, ReenterWrite(t) \/ TakeWrite(t)
    PROVE  IInv'
<1>1. /\ pc[t] = "run" /\ calls' = [calls EXCEPT ![t] = @ + 1] /\ calls[t] < MaxCalls
      /\ is_exclusive' = is_exclusive + 1 /\ exclusive_owner' = t
      /\ UNCHANGED <<is_shared, shared_owners>>
      /\ Enter(t, "write")
      /\ UNCHANGED <<queueVars, waiterVars, asleep, pc>>
  BY DEF ReenterWrite, TakeWrite, Call, Granted
<1>2. /\ is_shared = 0
      /\ exclusive_owner \in {t, NoThread}
      /\ exclusive_owner = NoThread => is_exclusive = 0
  BY ThreadAssumption DEF ReenterWrite, TakeWrite, IInv, TypeOK, ModeInv
<1>3. \A u \in Thread : shared_owners[u] = 0
  BY <1>2, CountFacts
<1>4. /\ stack' \in [Thread -> Seq(Block)]
      /\ \A u \in Thread \ {t} : stack'[u] = stack[u]
      /\ stack[t] # <<>> => stack'[t][1] = stack[t][1]
      /\ stack[t] = <<>> => stack'[t][1] = "write"
      /\ Reads(t)' = Reads(t) /\ Writes(t)' = Writes(t) + 1
  BY <1>1, EnterFacts, CountFacts DEF IInv, Block
<1>5. TypeOK'
  <2>1. calls' \in [Thread -> 0..MaxCalls]
    BY <1>1, MaxCallsAssumption DEF IInv, TypeOK
  <2>2. is_exclusive' \in Nat
    BY <1>1 DEF IInv, TypeOK
  <2>3. QED
    BY <1>1, <1>4, <2>1, <2>2 DEF IInv, TypeOK, queueVars, waiterVars
<1>6. ModeInv'
  BY <1>1, <1>2, ThreadAssumption DEF IInv, TypeOK, ModeInv, Holds
<1>7. ASSUME NEW u \in Thread PROVE ThreadInv(u)'
  <2>1. CASE u = t
    <3>1. /\ t \notin asleep /\ Reads(t) = 0
          /\ (IF exclusive_owner = t THEN is_exclusive ELSE 0) = Writes(t)
          /\ stack[t] # <<>> => stack[t][1] # "noop"
      BY <1>1, <1>3 DEF IInv, ThreadInv, Waiting
    <3>2. Writes(t) = is_exclusive
      BY <1>2, <3>1, ThreadAssumption
    <3>3. stack'[t][1] # "noop" /\ Reads(t)' = 0 /\ Writes(t)' = is_exclusive + 1
      BY <1>4, <3>1, <3>2
    <3>4. QED
      BY <1>1, <1>3, <2>1, <3>1, <3>3 DEF ThreadInv, Waiting
  <2>2. CASE u # t
    BY <1>1, <1>2, <1>4, <2>2, Frame, ThreadAssumption
       DEF IInv, TypeOK, queueVars, waiterVars
  <2>3. QED
    BY <2>1, <2>2
<1>8. QueueInv'
  BY <1>1 DEF IInv, TypeOK, QueueInv, SpokenFor, queueVars, waiterVars
<1>9. WaitersDistinct'
  BY <1>1 DEF IInv, WaitersDistinct, Waiting, waiterVars
<1>10. QED
  BY <1>5, <1>6, <1>7, <1>8, <1>9 DEF IInv

(* A SafeReadLock finds the thread already writing and takes nothing.      *)
LEMMA SkipKeeps ==
    ASSUME IInv, NEW t \in Thread, SafeReadSkips(t)
    PROVE  IInv'
<1>1. /\ pc[t] = "run" /\ calls' = [calls EXCEPT ![t] = @ + 1] /\ calls[t] < MaxCalls
      /\ exclusive_owner = t
      /\ Enter(t, "noop")
      /\ UNCHANGED <<lockVars, queueVars, waiterVars, asleep, pc>>
  BY DEF SafeReadSkips, Call, Granted
<1>2. /\ stack' \in [Thread -> Seq(Block)]
      /\ \A u \in Thread \ {t} : stack'[u] = stack[u]
      /\ stack[t] # <<>> => stack'[t][1] = stack[t][1]
      /\ Reads(t)' = Reads(t) /\ Writes(t)' = Writes(t)
  BY <1>1, EnterFacts, CountFacts DEF IInv, Block
<1>3. TypeOK'
  <2>1. calls' \in [Thread -> 0..MaxCalls]
    BY <1>1, MaxCallsAssumption DEF IInv, TypeOK
  <2>2. QED
    BY <1>1, <1>2, <2>1 DEF IInv, TypeOK, lockVars, queueVars, waiterVars
<1>4. ModeInv'
  BY <1>1 DEF IInv, ModeInv, Holds, lockVars
<1>5. ASSUME NEW u \in Thread PROVE ThreadInv(u)'
  <2>1. CASE u = t
    <3>1. /\ t \notin asleep /\ shared_owners[t] = Reads(t)
          /\ (IF exclusive_owner = t THEN is_exclusive ELSE 0) = Writes(t)
          /\ stack[t] # <<>> => stack[t][1] # "noop"
      BY <1>1 DEF IInv, ThreadInv, Waiting
    <3>2. Reads(t)' = 0
      <4>1. is_shared = 0
        BY <1>1, ThreadAssumption DEF IInv, ModeInv
      <4>2. QED
        BY <1>2, <3>1, <4>1, CountFacts
    <3>3. stack[t] # <<>>
      <4>1. Writes(t) > 0
        BY <1>1, <3>1, ThreadAssumption DEF IInv, TypeOK, ModeInv
      <4>2. QED
        BY <4>1, CountEmpty DEF Writes
    <3>4. QED
      BY <1>1, <1>2, <2>1, <3>1, <3>2, <3>3 DEF ThreadInv, Waiting, lockVars
  <2>2. CASE u # t
    BY <1>1, <1>2, <2>2, Frame DEF IInv, TypeOK, lockVars, queueVars, waiterVars
  <2>3. QED
    BY <2>1, <2>2
<1>6. QueueInv'
  BY <1>1 DEF IInv, QueueInv, SpokenFor, lockVars, queueVars, waiterVars
<1>7. WaitersDistinct'
  BY <1>1 DEF IInv, WaitersDistinct, Waiting, waiterVars
<1>8. QED
  BY <1>3, <1>4, <1>5, <1>6, <1>7 DEF IInv

(* acquire() raises and changes nothing in the lock.                       *)
LEMMA RaiseKeeps ==
    ASSUME IInv, NEW t \in Thread, DowngradeError(t) \/ UpgradeError(t)
    PROVE  IInv'
<1>1. /\ pc[t] = "run" /\ calls' = [calls EXCEPT ![t] = @ + 1] /\ calls[t] < MaxCalls
      /\ pc' = [pc EXCEPT ![t] = "raise"]
      /\ UNCHANGED <<lockVars, queueVars, waiterVars, asleep, stack>>
  BY DEF DowngradeError, UpgradeError, Call, Raises
<1>2. TypeOK'
  <2>1. calls' \in [Thread -> 0..MaxCalls]
    BY <1>1, MaxCallsAssumption DEF IInv, TypeOK
  <2>2. pc' \in [Thread -> Status]
    BY <1>1 DEF IInv, TypeOK, Status
  <2>3. QED
    BY <1>1, <2>1, <2>2 DEF IInv, TypeOK, lockVars, queueVars, waiterVars
<1>3. ModeInv'
  BY <1>1 DEF IInv, ModeInv, Holds, lockVars
<1>4. \A u \in Thread : /\ Waiting(u)' <=> Waiting(u)
                        /\ Waiting(u) => pc'[u] = pc[u]
  BY <1>1 DEF IInv, TypeOK, Waiting
<1>5. ASSUME NEW u \in Thread PROVE ThreadInv(u)'
  <2>1. CASE Waiting(u)
    BY <1>1, <1>4, <2>1, Frame DEF IInv, lockVars, queueVars, waiterVars
  <2>2. CASE ~Waiting(u)
    <3>1. ThreadInv(u) /\ ~Waiting(u)'
      BY <1>4, <2>2 DEF IInv
    <3>2. QED
      BY <1>1, <3>1, <2>2 DEF ThreadInv, Waiting, Reads, Writes, lockVars
  <2>3. QED
    BY <2>1, <2>2
<1>6. QueueInv'
  BY <1>1, <1>4 DEF IInv, TypeOK, QueueInv, SpokenFor, lockVars, queueVars, waiterVars, Waiting
<1>7. WaitersDistinct'
  BY <1>1, <1>4 DEF IInv, WaitersDistinct, waiterVars
<1>8. QED
  BY <1>2, <1>3, <1>5, <1>6, <1>7 DEF IInv

-----------------------------------------------------------------------------
(* acquire() calls that wait.                                              *)

(* The Condition taken is nobody else's and no longer free.                *)
LEMMA TakeWaiterFacts ==
    ASSUME IInv, NEW t \in Thread, NEW w \in 1..(made + 1), TakeWaiter(t, w)
    PROVE  /\ made' \in Nat /\ made <= made'
           /\ w \in (1..made') \ free_waiters'
           /\ free_waiters' \subseteq 1..made'
           /\ free_waiters' \subseteq free_waiters
           /\ waiter' \in [Thread -> 0..made']
           /\ waiter'[t] = w /\ \A u \in Thread \ {t} : waiter'[u] = waiter[u]
           /\ \A u \in Thread : Waiting(u) => waiter[u] # w
<1>1. made \in Nat /\ free_waiters \subseteq 1..made /\ waiter \in [Thread -> 0..made]
  BY DEF IInv, TypeOK
<1>2. \A u \in Thread : Waiting(u) => waiter[u] \in (1..made) \ free_waiters
  BY DEF IInv, WaitersDistinct
<1>3. CASE w \in free_waiters /\ free_waiters' = free_waiters \ {w} /\ UNCHANGED made
  BY <1>1, <1>2, <1>3 DEF TakeWaiter
<1>4. CASE free_waiters = {} /\ w = made + 1 /\ made' = w /\ UNCHANGED free_waiters
  BY <1>1, <1>2, <1>4 DEF TakeWaiter
<1>5. QED
  BY <1>3, <1>4 DEF TakeWaiter

(* A thread that starts to wait holds nothing, so it is inside no block.   *)
LEMMA WaiterHasNothing ==
    ASSUME IInv, NEW t \in Thread, pc[t] = "run", ~OwnsShared(t), exclusive_owner # t
    PROVE  shared_owners[t] = 0 /\ stack[t] = <<>> /\ t \notin asleep
<1>1. shared_owners[t] = 0
  BY CountFacts DEF OwnsShared, IInv, TypeOK
<1>2. Reads(t) = 0 /\ Writes(t) = 0 /\ t \notin asleep
  BY <1>1 DEF IInv, ThreadInv, Waiting
<1>3. QED
  BY <1>1, <1>2, EmptyStack

(* A reader queues behind a writer.                                        *)
LEMMA WaitReadKeeps ==
    ASSUME IInv, NEW t \in Thread, WaitRead(t)
    PROVE  IInv'
<1>1. PICK w \in 1..(made + 1) :
        TakeWaiter(t, w) /\ shared_queue' = shared_queue \cup {<<t, w>>}
  BY DEF WaitRead
<1>2. /\ pc[t] = "run" /\ calls' = [calls EXCEPT ![t] = @ + 1] /\ calls[t] < MaxCalls
      /\ ~OwnsShared(t) /\ SpokenFor /\ exclusive_owner # t
      /\ asleep' = asleep \cup {t}
      /\ pc' = [pc EXCEPT ![t] = "waitS"]
      /\ UNCHANGED <<lockVars, stack, exclusive_queue>>
  BY DEF WaitRead, Call, Sleep
<1>3. shared_owners[t] = 0 /\ stack[t] = <<>> /\ t \notin asleep
  BY <1>2, WaiterHasNothing
<1>4. /\ made' \in Nat /\ made <= made'
      /\ w \in (1..made') \ free_waiters'
      /\ free_waiters' \subseteq 1..made'
      /\ free_waiters' \subseteq free_waiters
      /\ waiter' \in [Thread -> 0..made']
      /\ waiter'[t] = w /\ \A u \in Thread \ {t} : waiter'[u] = waiter[u]
      /\ \A u \in Thread : Waiting(u) => waiter[u] # w
  BY <1>1, TakeWaiterFacts
<1>5. /\ pc'[t] = "waitS" /\ \A u \in Thread \ {t} : pc'[u] = pc[u]
      /\ pc' \in [Thread -> Status]
  BY <1>2 DEF IInv, TypeOK, Status
<1>6. TypeOK'
  <2>1. calls' \in [Thread -> 0..MaxCalls]
    BY <1>2, MaxCallsAssumption DEF IInv, TypeOK
  <2>2. Thread \X (1..made) \subseteq Thread \X (1..made')
    BY <1>4 DEF IInv, TypeOK
  <2>3. shared_queue' \subseteq Thread \X (1..made')
    BY <1>1, <1>4, <2>2 DEF IInv, TypeOK
  <2>4. exclusive_queue' \in Seq(Thread \X (1..made'))
    BY <1>2, <2>2, SeqMonotonic DEF IInv, TypeOK
  <2>5. QED
    BY <1>2, <1>4, <1>5, <2>1, <2>3, <2>4 DEF IInv, TypeOK, lockVars
<1>7. ModeInv'
  BY <1>2 DEF IInv, ModeInv, Holds, lockVars
<1>8. ASSUME NEW u \in Thread PROVE ThreadInv(u)'
  <2>1. CASE u = t
    BY <1>1, <1>2, <1>3, <1>4, <1>5, <2>1 DEF ThreadInv, Waiting, lockVars
  <2>2. CASE u # t
    BY <1>1, <1>2, <1>4, <1>5, <2>2, Frame DEF IInv, lockVars
  <2>3. QED
    BY <2>1, <2>2
<1>9. QueueInv'
  <2>1. \A e \in shared_queue : e[1] \in Thread \ {t}
    BY <1>2 DEF IInv, TypeOK, QueueInv
  <2>2. \A i \in DOMAIN exclusive_queue : exclusive_queue[i][1] \in Thread \ {t}
    BY <1>2 DEF IInv, TypeOK, QueueInv
  <2>3. ASSUME NEW e \in shared_queue'
        PROVE  pc'[e[1]] = "waitS" /\ e[1] \in asleep' /\ waiter'[e[1]] = e[2]
    BY <1>1, <1>2, <1>4, <1>5, <2>1, <2>3 DEF IInv, QueueInv
  <2>4. ASSUME NEW i \in DOMAIN exclusive_queue
        PROVE  LET e == exclusive_queue[i] IN
               pc'[e[1]] = "waitX" /\ e[1] \in asleep' /\ waiter'[e[1]] = e[2]
    BY <1>2, <1>4, <1>5, <2>2 DEF IInv, QueueInv
  <2>5. QED
    BY <1>2, <2>3, <2>4 DEF IInv, QueueInv, SpokenFor, lockVars
<1>10. WaitersDistinct'
  <2>1. \A u \in Thread \ {t} : Waiting(u)' <=> Waiting(u)
    BY <1>5 DEF Waiting
  <2>2. QED
    BY <1>4, <2>1 DEF IInv, WaitersDistinct
<1>11. QED
  BY <1>6, <1>7, <1>8, <1>9, <1>10 DEF IInv

(* A writer queues behind whoever has the lock.                            *)
LEMMA WaitWriteKeeps ==
    ASSUME IInv, NEW t \in Thread, WaitWrite(t)
    PROVE  IInv'
<1>1. PICK w \in 1..(made + 1) :
        TakeWaiter(t, w) /\ exclusive_queue' = Append(exclusive_queue, <<t, w>>)
  BY DEF WaitWrite
<1>2. /\ pc[t] = "run" /\ calls' = [calls EXCEPT ![t] = @ + 1] /\ calls[t] < MaxCalls
      /\ ~OwnsShared(t) /\ exclusive_owner # t
      /\ is_shared > 0 \/ is_exclusive > 0
      /\ asleep' = asleep \cup {t}
      /\ pc' = [pc EXCEPT ![t] = "waitX"]
      /\ UNCHANGED <<lockVars, stack, shared_queue>>
  BY DEF WaitWrite, Call, Sleep
<1>3. shared_owners[t] = 0 /\ stack[t] = <<>> /\ t \notin asleep
  BY <1>2, WaiterHasNothing
<1>4. /\ made' \in Nat /\ made <= made'
      /\ w \in (1..made') \ free_waiters'
      /\ free_waiters' \subseteq 1..made'
      /\ free_waiters' \subseteq free_waiters
      /\ waiter' \in [Thread -> 0..made']
      /\ waiter'[t] = w /\ \A u \in Thread \ {t} : waiter'[u] = waiter[u]
      /\ \A u \in Thread : Waiting(u) => waiter[u] # w
  BY <1>1, TakeWaiterFacts
<1>5. /\ pc'[t] = "waitX" /\ \A u \in Thread \ {t} : pc'[u] = pc[u]
      /\ pc' \in [Thread -> Status]
  BY <1>2 DEF IInv, TypeOK, Status
<1> DEFINE n == Len(exclusive_queue)
<1>6. /\ exclusive_queue' \in Seq(Thread \X (1..made'))
      /\ n \in Nat /\ DOMAIN exclusive_queue = 1..n
      /\ DOMAIN exclusive_queue' = 1..(n + 1)
      /\ \A i \in 1..n : exclusive_queue'[i] = exclusive_queue[i]
      /\ exclusive_queue'[n + 1] = <<t, w>>
      /\ exclusive_queue'[n + 1][1] = t
      /\ \A i \in 1..n : i \in 1..(n + 1) /\ i # n + 1
      /\ \A i \in 1..(n + 1) : i \in 1..n \/ i = n + 1
  <2>1. Thread \X (1..made) \subseteq Thread \X (1..made')
    BY <1>4 DEF IInv, TypeOK
  <2>2. exclusive_queue \in Seq(Thread \X (1..made'))
    BY <2>1, SeqMonotonic DEF IInv, TypeOK
  <2>3. <<t, w>> \in Thread \X (1..made')
    BY <1>4
  <2>4. QED
    BY <1>1, <2>2, <2>3, AppendProperties
<1>7. TypeOK'
  <2>1. calls' \in [Thread -> 0..MaxCalls]
    BY <1>2, MaxCallsAssumption DEF IInv, TypeOK
  <2>2. shared_queue' \subseteq Thread \X (1..made')
    BY <1>2, <1>4 DEF IInv, TypeOK
  <2>3. QED
    BY <1>2, <1>4, <1>5, <1>6, <2>1, <2>2 DEF IInv, TypeOK, lockVars
<1>8. ModeInv'
  BY <1>2 DEF IInv, ModeInv, Holds, lockVars
<1>9. ASSUME NEW u \in Thread PROVE ThreadInv(u)'
  <2>1. CASE u = t
    <3>1. \E i \in DOMAIN exclusive_queue' : exclusive_queue'[i] = <<t, w>>
      BY <1>6
    <3>2. QED
      BY <1>2, <1>3, <1>4, <1>5, <2>1, <3>1 DEF ThreadInv, Waiting, lockVars
  <2>2. CASE u # t
    <3>1. (\E i \in DOMAIN exclusive_queue : exclusive_queue[i] = <<u, waiter[u]>>) =>
             \E i \in DOMAIN exclusive_queue' : exclusive_queue'[i] = <<u, waiter[u]>>
      <4> HIDE DEF n
      <4>1. QED
        BY <1>6
    <3>2. QED
      BY <1>2, <1>4, <1>5, <2>2, <3>1, Frame DEF IInv, lockVars
  <2>3. QED
    BY <2>1, <2>2
<1>10. QueueInv'
  <2>1. \A e \in shared_queue : e[1] \in Thread \ {t}
    BY <1>2 DEF IInv, TypeOK, QueueInv
  <2>2. \A i \in 1..n : exclusive_queue[i][1] \in Thread \ {t}
    BY <1>2, <1>6 DEF IInv, TypeOK, QueueInv
  <2>3. ASSUME NEW e \in shared_queue
        PROVE  pc'[e[1]] = "waitS" /\ e[1] \in asleep' /\ waiter'[e[1]] = e[2]
    BY <1>2, <1>4, <1>5, <2>1 DEF IInv, QueueInv
  <2>4. ASSUME NEW i \in 1..(n + 1)
        PROVE  LET e == exclusive_queue'[i] IN
               pc'[e[1]] = "waitX" /\ e[1] \in asleep' /\ waiter'[e[1]] = e[2]
    <3>1. CASE i = n + 1
      BY <1>2, <1>4, <1>5, <1>6, <3>1
    <3>2. CASE i \in 1..n
      <4>1. LET e == exclusive_queue[i] IN
            pc[e[1]] = "waitX" /\ e[1] \in asleep /\ waiter[e[1]] = e[2]
        BY <1>6, <3>2 DEF IInv, QueueInv
      <4>2. exclusive_queue[i][1] \in Thread \ {t} /\ exclusive_queue'[i] = exclusive_queue[i]
        BY <1>6, <2>2, <3>2
      <4>3. QED
        BY <1>2, <1>4, <1>5, <4>1, <4>2
    <3>3. QED
      BY <1>6, <3>1, <3>2
  <2>5. ASSUME NEW i \in 1..(n + 1), NEW j \in 1..(n + 1),
               exclusive_queue'[i][1] = exclusive_queue'[j][1]
        PROVE  i = j
    <3>1. CASE i \in 1..n /\ j \in 1..n
      <4>1. exclusive_queue[i][1] = exclusive_queue[j][1]
        BY <1>6, <2>5, <3>1
      <4>2. QED
        BY <1>6, <3>1, <4>1 DEF IInv, QueueInv
    <3>2. CASE i = n + 1 \/ j = n + 1
      <4>1. \A k \in 1..n : exclusive_queue'[k][1] # t
        BY <1>6, <2>2
      <4>2. exclusive_queue'[i][1] = t /\ exclusive_queue'[j][1] = t
        BY <1>6, <2>5, <3>2
      <4>3. QED
        BY <1>6, <4>1, <4>2
    <3>3. QED
      BY <1>6, <3>1, <3>2
  <2>6. exclusive_queue' # <<>> /\ (is_shared' > 0 \/ is_exclusive' > 0)
    BY <1>2, <1>6 DEF lockVars
  <2>7. QED
    BY <1>2, <1>6, <2>3, <2>4, <2>5, <2>6 DEF QueueInv, SpokenFor
<1>11. WaitersDistinct'
  <2>1. \A u \in Thread \ {t} : Waiting(u)' <=> Waiting(u)
    BY <1>5 DEF Waiting
  <2>2. QED
    BY <1>4, <2>1 DEF IInv, WaitersDistinct
<1>12. QED
  BY <1>7, <1>8, <1>9, <1>10, <1>11 DEF IInv

-----------------------------------------------------------------------------
(* A woken thread returns from acquire() and enters its block.             *)
LEMMA ResumeKeeps ==
    ASSUME IInv, NEW t \in Thread, Resume(t)
    PROVE  IInv'
<1> DEFINE b == IF pc[t] = "waitS" THEN "read" ELSE "write"
<1>1. /\ Waiting(t) /\ t \notin asleep
      /\ free_waiters' = free_waiters \cup {waiter[t]}
      /\ waiter' = [waiter EXCEPT ![t] = 0]
      /\ Enter(t, b)
      /\ pc' = [pc EXCEPT ![t] = "run"]
      /\ UNCHANGED <<lockVars, queueVars, made, asleep, calls>>
  BY DEF Resume
<1>2. stack[t] = <<>> /\ Reads(t) = 0 /\ Writes(t) = 0
  BY <1>1, CountEmpty DEF IInv, ThreadInv, Reads, Writes
<1>3. b \in Block
  BY DEF Block
<1>4. /\ stack' \in [Thread -> Seq(Block)]
      /\ \A u \in Thread \ {t} : stack'[u] = stack[u]
      /\ stack'[t] # <<>> /\ stack'[t][1] = b
      /\ \A i \in DOMAIN stack'[t] : stack'[t][i] = b
      /\ Reads(t)' = (IF b = "read" THEN 1 ELSE 0)
      /\ Writes(t)' = (IF b = "write" THEN 1 ELSE 0)
  <2>1. DOMAIN stack[t] = {}
    BY <1>2
  <2> HIDE DEF b
  <2>2. QED
    BY <1>1, <1>2, <1>3, <2>1, EnterFacts DEF IInv
<1>5. /\ pc' \in [Thread -> Status] /\ pc'[t] = "run"
      /\ \A u \in Thread \ {t} : pc'[u] = pc[u]
  BY <1>1 DEF IInv, TypeOK, Status
<1>6. /\ waiter[t] \in (1..made) \ free_waiters
      /\ waiter' \in [Thread -> 0..made]
      /\ \A u \in Thread \ {t} : waiter'[u] = waiter[u]
  BY <1>1 DEF IInv, TypeOK, WaitersDistinct
<1>7. TypeOK'
  BY <1>1, <1>4, <1>5, <1>6 DEF IInv, TypeOK, lockVars, queueVars
<1>8. ModeInv'
  BY <1>1 DEF IInv, ModeInv, Holds, lockVars
<1>9. ASSUME NEW u \in Thread PROVE ThreadInv(u)'
  <2>1. CASE u = t /\ pc[t] = "waitS"
    <3>1. exclusive_owner # t /\ shared_owners[t] = 1
      BY <1>1, <2>1 DEF IInv, ThreadInv
    <3>2. /\ Reads(t)' = 1 /\ Writes(t)' = 0 /\ stack'[t][1] # "noop"
          /\ \A i \in DOMAIN stack'[t] : stack'[t][i] = "read"
      BY <1>4, <2>1
    <3>3. QED
      BY <1>1, <1>5, <2>1, <3>1, <3>2 DEF ThreadInv, Waiting, lockVars
  <2>2. CASE u = t /\ pc[t] = "waitX"
    <3>1. exclusive_owner = t /\ is_exclusive = 1 /\ shared_owners[t] = 0
      BY <1>1, <2>2 DEF IInv, ThreadInv
    <3>2. Reads(t)' = 0 /\ Writes(t)' = 1 /\ stack'[t][1] # "noop"
      BY <1>4, <2>2
    <3>3. QED
      BY <1>1, <1>5, <2>2, <3>1, <3>2 DEF ThreadInv, Waiting, lockVars
  <2>3. CASE u # t
    BY <1>1, <1>4, <1>5, <1>6, <2>3, Frame DEF IInv, lockVars, queueVars
  <2>4. QED
    BY <1>1, <2>1, <2>2, <2>3 DEF Waiting
<1>10. QueueInv'
  <2>1. \A e \in shared_queue : e[1] \in Thread \ {t}
    BY <1>1 DEF IInv, TypeOK, QueueInv
  <2>2. \A i \in DOMAIN exclusive_queue : exclusive_queue[i][1] \in Thread \ {t}
    BY <1>1 DEF IInv, TypeOK, QueueInv
  <2>3. QED
    BY <1>1, <1>5, <1>6, <2>1, <2>2 DEF IInv, QueueInv, SpokenFor, lockVars, queueVars
<1>11. WaitersDistinct'
  <2>1. ~Waiting(t)' /\ \A u \in Thread \ {t} : Waiting(u)' <=> Waiting(u)
    BY <1>5 DEF Waiting
  <2>2. \A u \in Thread \ {t} : Waiting(u) => waiter[u] # waiter[t]
    BY <1>1 DEF IInv, WaitersDistinct
  <2>3. QED
    BY <1>1, <1>6, <2>1, <2>2 DEF IInv, WaitersDistinct
<1>12. QED
  BY <1>7, <1>8, <1>9, <1>10, <1>11 DEF IInv

-----------------------------------------------------------------------------
(* release()                                                               *)

(* A with block is left only by the thread that holds its lock.            *)
LEMMA OwnedInv == ASSUME IInv PROVE ReleaseIsOwned
<1> SUFFICES ASSUME NEW t \in Thread,
                    pc[t] \in {"run", "raise"}, stack[t] # <<>>
             PROVE  /\ Top(t) = "read" => is_exclusive = 0 /\ is_shared > 0 /\ shared_owners[t] > 0
                    /\ Top(t) = "write" => is_exclusive > 0 /\ exclusive_owner = t
                    /\ Top(t) = "noop" => exclusive_owner = t
  BY DEF ReleaseIsOwned
<1>1. /\ shared_owners[t] = Reads(t)
      /\ (IF exclusive_owner = t THEN is_exclusive ELSE 0) = Writes(t)
      /\ stack[t][1] # "noop"
      /\ Reads(t) > 0 => \A i \in DOMAIN stack[t] : stack[t][i] = "read"
  BY DEF IInv, ThreadInv, Waiting
<1>2. /\ stack[t] \in Seq(Block)
      /\ 1 \in 1..Len(stack[t]) /\ Len(stack[t]) \in 1..Len(stack[t])
      /\ Top(t) = stack[t][Len(stack[t])] /\ Top(t) \in Block
  BY DEF IInv, TypeOK, Top
<1>3. Reads(t) > 0 => is_exclusive = 0 /\ is_shared > 0 /\ shared_owners[t] > 0
  <2>1. is_shared \in Nat /\ is_exclusive \in Nat /\ shared_owners[t] \in Nat
    BY DEF IInv, TypeOK
  <2>2. shared_owners[t] > 0 => is_shared > 0
    BY <2>1, CountFacts
  <2>3. QED
    BY <1>1, <2>1, <2>2 DEF IInv, ModeInv
<1>4. Writes(t) > 0 => is_exclusive > 0 /\ exclusive_owner = t
  BY <1>1
<1>5. Top(t) = "read" => Reads(t) > 0
  BY <1>2, CountFacts
<1>6. Top(t) = "write" => Writes(t) > 0
  BY <1>2, CountFacts
<1>7. Top(t) = "noop" => exclusive_owner = t
  <2>1. stack[t][1] \in {"read", "write"}
    BY <1>1, <1>2 DEF Block
  <2>2. CASE stack[t][1] = "write"
    BY <1>2, <1>4, <2>2, CountFacts
  <2>3. CASE stack[t][1] = "read" /\ Top(t) = "noop"
    <3>1. Reads(t) > 0
      BY <1>2, <2>3, CountFacts
    <3>2. stack[t][Len(stack[t])] = "read"
      BY <1>1, <1>2, <3>1
    <3>3. QED
      BY <1>2, <2>3, <3>2
  <2>4. QED
    BY <2>1, <2>2, <2>3
<1>8. QED
  BY <1>3, <1>4, <1>5, <1>6, <1>7

(* What leaving the innermost block does to the leaving thread.            *)
LEMMA LeaveFacts ==
    ASSUME IInv, NEW t \in Thread, Leave(t)
    PROVE  /\ Top(t) \in Block
           /\ pc[t] \in {"run", "raise"} /\ stack[t] # <<>>
           /\ stack' \in [Thread -> Seq(Block)]
           /\ \A u \in Thread \ {t} : stack'[u] = stack[u]
           /\ stack'[t] # <<>> => stack'[t][1] # "noop"
           /\ Reads(t)' > 0 => \A i \in DOMAIN stack'[t] : stack'[t][i] = "read"
           /\ Reads(t) = Reads(t)' + (IF Top(t) = "read" THEN 1 ELSE 0)
           /\ Writes(t) = Writes(t)' + (IF Top(t) = "write" THEN 1 ELSE 0)
           /\ Reads(t)' \in Nat /\ Writes(t)' \in Nat
           /\ calls' \in [Thread -> 0..MaxCalls]
           /\ pc' \in [Thread -> Status]
           /\ \A u \in Thread : Waiting(u) => pc'[u] = pc[u] /\ u # t
           /\ \A u \in Thread : Waiting(u)' <=> Waiting(u)
           /\ \A u \in Thread \ {t} : pc'[u] = pc[u]
           /\ UNCHANGED waiterVars
<1> DEFINE r == SubSeq(stack[t], 1, Len(stack[t]) - 1)
           done == Len(stack[t]) = 1
<1>1. /\ pc[t] \in {"run", "raise"} /\ stack[t] # <<>> 
      /\ stack' = [stack EXCEPT ![t] = r]
      /\ calls' = [calls EXCEPT ![t] = IF done THEN 0 ELSE @]
      /\ pc' = [pc EXCEPT ![t] = IF done THEN "run" ELSE @]
      /\ UNCHANGED waiterVars
  BY DEF Leave
<1>2. stack[t] \in Seq(Block) /\ Top(t) \in Block
  BY <1>1 DEF IInv, TypeOK, Top
<1>3. /\ r \in Seq(Block) /\ Len(r) = Len(stack[t]) - 1
      /\ \A i \in 1..Len(r) : r[i] = stack[t][i]
      /\ \A block : Count(stack[t], block) =
                      Count(r, block) + (IF Top(t) = block THEN 1 ELSE 0)
  BY <1>1, <1>2, CountPop DEF Top
<1>4. /\ stack' \in [Thread -> Seq(Block)] /\ stack'[t] = r
      /\ \A u \in Thread \ {t} : stack'[u] = stack[u]
  BY <1>1, <1>3 DEF IInv, TypeOK
<1>5. /\ Reads(t) = Reads(t)' + (IF Top(t) = "read" THEN 1 ELSE 0)
      /\ Writes(t) = Writes(t)' + (IF Top(t) = "write" THEN 1 ELSE 0)
  BY <1>3, <1>4 DEF Reads, Writes
<1>6. Reads(t)' \in Nat /\ Writes(t)' \in Nat
  BY <1>3, <1>4, PlacesFinite DEF Reads, Writes
<1>7. /\ stack[t][1] # "noop"
      /\ Reads(t) > 0 => \A i \in DOMAIN stack[t] : stack[t][i] = "read"
  BY <1>1 DEF IInv, ThreadInv, Waiting
<1>8. DOMAIN r \subseteq DOMAIN stack[t] /\ \A i \in DOMAIN r : r[i] = stack[t][i]
  <2> HIDE DEF r
  <2>1. QED
    BY <1>2, <1>3
<1>9. stack'[t] # <<>> => stack'[t][1] # "noop"
  <2> HIDE DEF r
  <2>1. r # <<>> => 1 \in DOMAIN r
    BY <1>3
  <2>2. QED
    BY <1>4, <1>7, <1>8, <2>1
<1>10. Reads(t)' > 0 => \A i \in DOMAIN stack'[t] : stack'[t][i] = "read"
  <2> HIDE DEF r
  <2>1. Reads(t)' > 0 => Reads(t) > 0
    BY <1>5, <1>6
  <2>2. QED
    BY <1>4, <1>7, <1>8, <2>1
<1>11. calls' \in [Thread -> 0..MaxCalls] /\ pc' \in [Thread -> Status]
  BY <1>1, MaxCallsAssumption DEF IInv, TypeOK, Status
<1>12. \A u \in Thread : Waiting(u) => pc'[u] = pc[u] /\ u # t
  BY <1>1 DEF IInv, TypeOK, Waiting
<1>13. /\ \A u \in Thread : Waiting(u)' <=> Waiting(u)
       /\ \A u \in Thread \ {t} : pc'[u] = pc[u]
  BY <1>1 DEF IInv, TypeOK, Waiting
<1>14. QED
  BY <1>1, <1>2, <1>4, <1>5, <1>6, <1>9, <1>10, <1>11, <1>12, <1>13

(* A thread that is not the one leaving, and whose wait is untouched,      *)
(* keeps its part of the invariant.                                        *)
LEMMA LeaveFrame ==
    ASSUME IInv, NEW t \in Thread, Leave(t),
           NEW u \in Thread, u # t,
           UNCHANGED <<queueVars, asleep>>,
           shared_owners'[u] = shared_owners[u],
           exclusive_owner' = u <=> exclusive_owner = u,
           exclusive_owner = u => is_exclusive' = is_exclusive
    PROVE  ThreadInv(u)'
<1>1. stack'[u] = stack[u] /\ waiter'[u] = waiter[u] /\ pc'[u] = pc[u]
  BY LeaveFacts DEF Leave, waiterVars, IInv, TypeOK
<1>2. QED
  BY <1>1, Frame DEF IInv, queueVars

(* Steps that leave a block and hand nothing over keep the parts of the    *)
(* invariant that are about waiting, when the lock stays taken or nobody   *)
(* is queued.                                                              *)
LEMMA LeaveQueues ==
    ASSUME IInv, NEW t \in Thread, Leave(t),
           UNCHANGED <<queueVars, asleep>>,
           shared_queue # {} => SpokenFor',
           exclusive_queue # <<>> => is_shared' > 0 \/ is_exclusive' > 0
    PROVE  QueueInv' /\ WaitersDistinct'
<1>1. /\ \A u \in Thread : Waiting(u) => pc'[u] = pc[u]
      /\ \A u \in Thread : Waiting(u)' <=> Waiting(u)
      /\ UNCHANGED waiterVars
  BY LeaveFacts
<1>2. WaitersDistinct'
  BY <1>1 DEF IInv, WaitersDistinct, waiterVars
<1>3. \A e \in shared_queue : pc'[e[1]] = "waitS"
  BY <1>1 DEF IInv, TypeOK, QueueInv, Waiting
<1>4. \A i \in DOMAIN exclusive_queue : pc'[exclusive_queue[i][1]] = "waitX"
  BY <1>1 DEF IInv, TypeOK, QueueInv, Waiting
<1>5. QED
  BY <1>1, <1>2, <1>3, <1>4 DEF IInv, QueueInv, queueVars, waiterVars

(* The end of a SafeReadLock that took nothing.                            *)
LEMMA LeaveSkippedKeeps ==
    ASSUME IInv, NEW t \in Thread, LeaveSkipped(t)
    PROVE  IInv'
<1>1. Leave(t) /\ Top(t) = "noop" /\ UNCHANGED <<lockVars, queueVars, asleep>>
  BY DEF LeaveSkipped
<1>2. TypeOK'
  BY <1>1, LeaveFacts, ZenonT(40) DEF IInv, TypeOK, lockVars, queueVars, waiterVars
<1>3. ModeInv'
  BY <1>1 DEF IInv, ModeInv, Holds, lockVars
<1>4. ASSUME NEW u \in Thread PROVE ThreadInv(u)'
  <2>1. CASE u = t
    <3>1. /\ t \notin asleep /\ ~Waiting(t)
          /\ shared_owners[t] = Reads(t)
          /\ (IF exclusive_owner = t THEN is_exclusive ELSE 0) = Writes(t)
      BY <1>1 DEF IInv, ThreadInv, Waiting, Leave
    <3>2. Reads(t)' = Reads(t) /\ Writes(t)' = Writes(t)
      <4>1. /\ Reads(t) = Reads(t)' + (IF Top(t) = "read" THEN 1 ELSE 0)
            /\ Writes(t) = Writes(t)' + (IF Top(t) = "write" THEN 1 ELSE 0)
            /\ Reads(t)' \in Nat /\ Writes(t)' \in Nat
        BY <1>1, LeaveFacts
      <4>2. Top(t) # "read" /\ Top(t) # "write"
        BY <1>1
      <4>3. QED
        BY <4>1, <4>2
    <3>3. /\ stack'[t] # <<>> => stack'[t][1] # "noop"
          /\ Reads(t)' > 0 => \A i \in DOMAIN stack'[t] : stack'[t][i] = "read"
          /\ ~Waiting(t)'
      BY <1>1, <3>1, LeaveFacts
    <3>4. QED
      BY <1>1, <2>1, <3>1, <3>2, <3>3 DEF ThreadInv, lockVars, Waiting
  <2>2. CASE u # t
    BY <1>1, <2>2, LeaveFrame DEF lockVars
  <2>3. QED
    BY <2>1, <2>2
<1>5. QueueInv' /\ WaitersDistinct'
  BY <1>1, LeaveQueues DEF IInv, QueueInv, SpokenFor, lockVars, queueVars
<1>6. QED
  BY <1>2, <1>3, <1>4, <1>5 DEF IInv

(* A thread that leaves a block while the lock is exclusive leaves a write *)
(* block, and nobody reads.                                                *)
LEMMA LeaveWriteFacts ==
    ASSUME IInv, NEW t \in Thread, Leave(t), Top(t) # "noop", exclusive_owner = t
    PROVE  /\ t \notin asleep /\ ~Waiting(t) /\ ~Waiting(t)'
           /\ is_shared = 0 /\ \A u \in Thread : shared_owners[u] = 0
           /\ Reads(t)' = 0 /\ Writes(t)' = is_exclusive - 1
<1>1. /\ pc[t] \in {"run", "raise"} /\ stack[t] # <<>>
      /\ Top(t) \in {"read", "write"}
  BY LeaveFacts DEF Block
<1>2. /\ t \notin asleep /\ ~Waiting(t) /\ ~Waiting(t)'
      /\ shared_owners[t] = Reads(t) /\ is_exclusive = Writes(t)
  BY <1>1, LeaveFacts DEF IInv, ThreadInv, Waiting
<1>3. is_exclusive > 0 /\ is_shared = 0
  BY ThreadAssumption DEF IInv, ModeInv
<1>4. \A u \in Thread : shared_owners[u] = 0
  BY <1>3, CountFacts
<1>5. Top(t) = "write"
  BY <1>1, <1>3, OwnedInv DEF ReleaseIsOwned
<1>6. Reads(t) = Reads(t)' /\ Writes(t) = Writes(t)' + 1 /\ Reads(t)' \in Nat /\ Writes(t)' \in Nat
  <2>1. /\ Reads(t) = Reads(t)' + (IF Top(t) = "read" THEN 1 ELSE 0)
        /\ Writes(t) = Writes(t)' + (IF Top(t) = "write" THEN 1 ELSE 0)
        /\ Reads(t)' \in Nat /\ Writes(t)' \in Nat
    BY LeaveFacts
  <2>2. QED
    BY <1>5, <2>1
<1>7. QED
  BY <1>2, <1>3, <1>4, <1>6

(* A write block is left and the lock is not handed on: an outer block     *)
(* still holds it, or nobody waits.                                        *)
LEMMA ReleaseWriteKeeps ==
    ASSUME IInv, NEW t \in Thread, ReleaseInnerWrite(t) \/ ReleaseWriteFree(t)
    PROVE  IInv'
<1>1. /\ Leave(t) /\ Top(t) # "noop"
      /\ exclusive_owner = t
      /\ UNCHANGED <<is_shared, shared_owners, queueVars, asleep>>
      /\ is_exclusive' = is_exclusive - 1 /\ is_exclusive' \in Nat
      /\ exclusive_owner' = IF is_exclusive' > 0 THEN t ELSE NoThread
      /\ is_exclusive' > 0 \/ (shared_queue = {} /\ exclusive_queue = <<>>)
  <2>1. CASE ReleaseInnerWrite(t)
    BY <2>1 DEF ReleaseInnerWrite, queueVars, IInv, TypeOK
  <2>2. CASE ReleaseWriteFree(t)
    BY <2>2 DEF ReleaseWriteFree, LastWrite, queueVars
  <2>3. QED
    BY <2>1, <2>2
<1>2. /\ t \notin asleep /\ ~Waiting(t) /\ ~Waiting(t)'
      /\ is_shared = 0 /\ \A u \in Thread : shared_owners[u] = 0
      /\ Reads(t)' = 0 /\ Writes(t)' = is_exclusive - 1
  BY <1>1, LeaveWriteFacts
<1>3. TypeOK'
  BY <1>1, LeaveFacts, ZenonT(40) DEF IInv, TypeOK, queueVars, waiterVars
<1>4. ModeInv'
  BY <1>1, <1>2, ThreadAssumption DEF IInv, ModeInv, Holds
<1>5. ASSUME NEW u \in Thread PROVE ThreadInv(u)'
  <2>1. CASE u = t
    <3>1. /\ stack'[t] # <<>> => stack'[t][1] # "noop"
          /\ is_exclusive' = Writes(t)'
          /\ shared_owners'[t] = Reads(t)' /\ ~(Reads(t)' > 0)
          /\ t \notin asleep' /\ ~Waiting(t)'
      BY <1>1, <1>2, LeaveFacts
    <3>2. (IF exclusive_owner' = t THEN is_exclusive' ELSE 0) = Writes(t)'
      BY <1>1, <3>1, ThreadAssumption
    <3>3. QED
      BY <2>1, <3>1, <3>2 DEF ThreadInv, Waiting
  <2>2. CASE u # t
    BY <1>1, <2>2, LeaveFrame, ThreadAssumption
  <2>3. QED
    BY <2>1, <2>2
<1>6. QueueInv' /\ WaitersDistinct'
  BY <1>1, LeaveQueues DEF SpokenFor
<1>7. QED
  BY <1>3, <1>4, <1>5, <1>6 DEF IInv

(* A thread that leaves a block while the lock is shared leaves a read     *)
(* block of its own.                                                       *)
LEMMA LeaveReadFacts ==
    ASSUME IInv, NEW t \in Thread, DropShared(t)
    PROVE  /\ t \notin asleep /\ ~Waiting(t) /\ ~Waiting(t)'
           /\ exclusive_owner = NoThread /\ is_exclusive = 0
           /\ is_shared' \in Nat /\ shared_owners' \in [Thread -> Nat]
           /\ \A u \in Thread \ {t} : shared_owners'[u] = shared_owners[u]
           /\ shared_owners'[t] = Reads(t)' /\ Writes(t)' = 0
           /\ IsFiniteSet(HoldsOf(shared_owners'))
           /\ is_shared' = Cardinality(HoldsOf(shared_owners'))
<1>1. /\ pc[t] \in {"run", "raise"} /\ stack[t] # <<>>
      /\ Top(t) \in {"read", "write"}
      /\ is_exclusive = 0 /\ is_shared > 0 /\ shared_owners[t] > 0
      /\ shared_owners' = [shared_owners EXCEPT ![t] = @ - 1]
      /\ is_shared' = is_shared - 1
      /\ Leave(t) /\ Top(t) # "noop"
  BY LeaveFacts DEF DropShared, OwnsShared, Block
<1>2. /\ t \notin asleep /\ ~Waiting(t) /\ ~Waiting(t)'
      /\ shared_owners[t] = Reads(t)
  BY <1>1, LeaveFacts DEF IInv, ThreadInv, Waiting
<1>3. exclusive_owner = NoThread
  BY <1>1 DEF IInv, TypeOK, ModeInv
<1>4. Writes(t) = 0
  BY <1>1, <1>3, ThreadAssumption DEF IInv, ThreadInv, Waiting
<1>5. Top(t) = "read"
  BY <1>1, OwnedInv DEF ReleaseIsOwned
<1>6. Reads(t) = Reads(t)' + 1 /\ Writes(t) = Writes(t)' /\ Reads(t)' \in Nat /\ Writes(t)' \in Nat
  <2>1. /\ Reads(t) = Reads(t)' + (IF Top(t) = "read" THEN 1 ELSE 0)
        /\ Writes(t) = Writes(t)' + (IF Top(t) = "write" THEN 1 ELSE 0)
        /\ Reads(t)' \in Nat /\ Writes(t)' \in Nat
    BY <1>1, LeaveFacts
  <2>2. QED
    BY <1>5, <2>1
<1>7. /\ is_shared' \in Nat /\ shared_owners' \in [Thread -> Nat]
      /\ \A u \in Thread \ {t} : shared_owners'[u] = shared_owners[u]
      /\ shared_owners'[t] = Reads(t)'
  BY <1>1, <1>2, <1>6 DEF IInv, TypeOK
<1>8. /\ IsFiniteSet(HoldsOf(shared_owners'))
      /\ Cardinality(HoldsOf(shared_owners')) = Cardinality(HoldsOf(shared_owners)) - 1
  BY <1>1, HoldsRemove DEF IInv, TypeOK, ModeInv, Holds
<1>9. QED
  BY <1>1, <1>2, <1>3, <1>4, <1>6, <1>7, <1>8 DEF IInv, ModeInv, Holds

(* A read block is left and the lock is not handed on.                     *)
LEMMA ReleaseReadKeeps ==
    ASSUME IInv, NEW t \in Thread, ReleaseInnerRead(t) \/ ReleaseReadFree(t)
    PROVE  IInv'
<1>1. /\ DropShared(t) /\ Leave(t) /\ Top(t) # "noop"
      /\ is_shared' = is_shared - 1 /\ is_shared > 0
      /\ UNCHANGED <<is_exclusive, exclusive_owner, queueVars, asleep>>
      /\ is_shared > 1 \/ exclusive_queue = <<>>
  BY DEF ReleaseInnerRead, ReleaseReadFree, DropShared, OwnsShared
<1>2. /\ t \notin asleep /\ ~Waiting(t) /\ ~Waiting(t)'
      /\ exclusive_owner = NoThread /\ is_exclusive = 0
      /\ is_shared' \in Nat /\ shared_owners' \in [Thread -> Nat]
      /\ \A u \in Thread \ {t} : shared_owners'[u] = shared_owners[u]
      /\ shared_owners'[t] = Reads(t)' /\ Writes(t)' = 0
      /\ IsFiniteSet(HoldsOf(shared_owners'))
      /\ is_shared' = Cardinality(HoldsOf(shared_owners'))
  BY <1>1, LeaveReadFacts
<1>3. TypeOK'
  <2>1. /\ stack' \in [Thread -> Seq(Block)] /\ calls' \in [Thread -> 0..MaxCalls]
        /\ pc' \in [Thread -> Status] /\ UNCHANGED waiterVars
    BY <1>1, LeaveFacts
  <2>2. QED
    BY <1>1, <1>2, <2>1 DEF IInv, TypeOK, queueVars, waiterVars
<1>4. ModeInv'
  BY <1>1, <1>2 DEF ModeInv, Holds
<1>5. ASSUME NEW u \in Thread PROVE ThreadInv(u)'
  <2>1. CASE u = t
    <3>1. /\ stack'[t] # <<>> => stack'[t][1] # "noop"
          /\ Reads(t)' > 0 => \A i \in DOMAIN stack'[t] : stack'[t][i] = "read"
      BY <1>1, LeaveFacts
    <3>2. exclusive_owner' # t
      BY <1>1, <1>2, ThreadAssumption
    <3>3. QED
      BY <1>1, <1>2, <2>1, <3>1, <3>2 DEF ThreadInv, Waiting
  <2>2. CASE u # t
    BY <1>1, <1>2, <2>2, LeaveFrame
  <2>3. QED
    BY <2>1, <2>2
<1>6. QueueInv' /\ WaitersDistinct'
  <2>1. shared_queue # {} => SpokenFor'
    BY <1>1 DEF IInv, QueueInv, SpokenFor, queueVars
  <2>2. exclusive_queue # <<>> => is_shared' > 0
    BY <1>1 DEF IInv, TypeOK
  <2>3. QED
    BY <1>1, <2>1, <2>2, LeaveQueues
<1>7. QED
  BY <1>3, <1>4, <1>5, <1>6 DEF IInv

-----------------------------------------------------------------------------
(* release() that hands the lock over.                                     *)

(* The last write block is left and every queued reader gets the lock.     *)
LEMMA HandToReadersKeeps ==
    ASSUME IInv, NEW t \in Thread, ReleaseWriteToReaders(t)
    PROVE  IInv'
<1>1. /\ Leave(t) /\ Top(t) # "noop" /\ is_exclusive = 1 /\ exclusive_owner = t
      /\ shared_queue # {} /\ exclusive_owner' = NoThread /\ is_exclusive' = 0
      /\ is_shared' = is_shared + Cardinality(shared_queue)
      /\ shared_owners' = [u \in Thread |-> IF \E e \in shared_queue : e[1] = u
                                            THEN 1 ELSE shared_owners[u]]
      /\ shared_queue' = {}
      /\ asleep' = {u \in asleep : waiter[u] \notin {e[2] : e \in shared_queue}}
      /\ UNCHANGED exclusive_queue
  BY DEF ReleaseWriteToReaders, LastWrite, HandToReaders, Notify
<1>2. /\ t \notin asleep /\ ~Waiting(t) /\ ~Waiting(t)'
      /\ is_shared = 0 /\ \A u \in Thread : shared_owners[u] = 0
      /\ Reads(t)' = 0 /\ Writes(t)' = 0
  BY <1>1, LeaveWriteFacts
<1>3. /\ stack' \in [Thread -> Seq(Block)] /\ calls' \in [Thread -> 0..MaxCalls]
      /\ \A u \in Thread \ {t} : stack'[u] = stack[u]
      /\ stack'[t] # <<>> => stack'[t][1] # "noop"
      /\ pc' \in [Thread -> Status] /\ UNCHANGED waiterVars
      /\ \A u \in Thread : Waiting(u) => pc'[u] = pc[u]
      /\ \A u \in Thread : Waiting(u)' <=> Waiting(u)
      /\ \A u \in Thread \ {t} : pc'[u] = pc[u]
  BY <1>1, LeaveFacts
<1>4. \A e \in shared_queue : /\ e[1] \in Thread /\ pc[e[1]] = "waitS" /\ Waiting(e[1])
                              /\ e[2] = waiter[e[1]]
  BY DEF IInv, TypeOK, QueueInv, Waiting
<1>5. /\ IsFiniteSet(HoldsOf(shared_owners'))
      /\ Cardinality(HoldsOf(shared_owners')) = Cardinality(shared_queue)
  <2>1. shared_queue \in SUBSET (Thread \X Nat) /\ shared_owners \in [Thread -> Nat]
    BY DEF IInv, TypeOK
  <2>2. \A e \in shared_queue : e[2] = waiter[e[1]]
    BY <1>4
  <2>3. QED
    BY <1>1, <1>2, <2>1, <2>2, ThreadAssumption, HoldsHandOff
<1>6. Cardinality(shared_queue) \in Nat
  BY <1>5, FS_CardinalityType
<1>7. \A u \in Thread :
        /\ (\E e \in shared_queue : e[1] = u) => pc[u] = "waitS"
        /\ pc[u] = "waitS" =>
              u \in asleep /\ <<u, waiter[u]>> \in shared_queue /\ \E e \in shared_queue : e[1] = u
  <2>1. ASSUME NEW u \in Thread, pc[u] = "waitS"
        PROVE  u \in asleep /\ <<u, waiter[u]>> \in shared_queue
    <3>1. shared_owners[u] = 0
      BY <1>2
    <3>2. QED
      BY <2>1, <3>1 DEF IInv, ThreadInv
  <2>2. QED
    BY <1>4, <2>1
<1>8. \A u \in Thread : u \in asleep' <=> u \in asleep /\ pc[u] # "waitS"
  <2>1. ASSUME NEW u \in Thread, u \in asleep, pc[u] = "waitS" PROVE u \notin asleep'
    <3>1. <<u, waiter[u]>> \in shared_queue
      BY <1>7, <2>1
    <3>2. waiter[u] \in {e[2] : e \in shared_queue}
      BY <3>1
    <3>3. QED
      BY <1>1, <3>2
  <2>2. ASSUME NEW u \in Thread, u \in asleep, pc[u] # "waitS" PROVE u \in asleep'
    <3>1. Waiting(u)
      BY <2>2 DEF IInv, ThreadInv
    <3>2. \A e \in shared_queue : waiter[u] # e[2]
      BY <1>4, <2>2, <3>1 DEF IInv, WaitersDistinct
    <3>3. QED
      BY <1>1, <2>2, <3>2
  <2>3. QED
    BY <1>1, <2>1, <2>2
<1>9. TypeOK'
  <2>1. is_shared' \in Nat /\ shared_owners' \in [Thread -> Nat]
    BY <1>1, <1>2, <1>6
  <2>2. asleep' \subseteq Thread
    BY <1>1 DEF IInv, TypeOK
  <2>3. QED
    BY <1>1, <1>3, <2>1, <2>2 DEF IInv, TypeOK, waiterVars
<1>10. ModeInv'
  BY <1>1, <1>2, <1>5, <1>6 DEF ModeInv, Holds
<1>11. ASSUME NEW u \in Thread PROVE ThreadInv(u)'
  <2>1. CASE u = t
    <3>1. /\ shared_owners'[t] = Reads(t)' /\ ~(Reads(t)' > 0)
          /\ t \notin asleep' /\ ~Waiting(t)'
          /\ exclusive_owner' # t
      BY <1>1, <1>2, <1>4, <1>8, ThreadAssumption
    <3>2. QED
      BY <1>2, <1>3, <2>1, <3>1 DEF ThreadInv, Waiting
  <2>2. CASE u # t /\ pc[u] = "waitS"
    <3>1. shared_owners'[u] = 1 /\ u \notin asleep' /\ exclusive_owner' # u
      BY <1>1, <1>7, <1>8, <2>2, ThreadAssumption
    <3>2. pc'[u] = "waitS" /\ stack'[u] = <<>>
      <4>1. stack[u] = <<>>
        BY <2>2 DEF IInv, ThreadInv, Waiting
      <4>2. QED
        BY <1>3, <2>2, <4>1
    <3>3. QED
      BY <3>1, <3>2 DEF ThreadInv, Waiting
  <2>3. CASE u # t /\ pc[u] # "waitS"
    <3>1. shared_owners'[u] = shared_owners[u] /\ <<u, waiter[u]>> \notin shared_queue
      BY <1>1, <1>7, <2>3
    <3>2. pc'[u] = pc[u] /\ stack'[u] = stack[u] /\ waiter'[u] = waiter[u]
      BY <1>3, <2>3 DEF waiterVars
    <3>3. exclusive_owner' # u /\ exclusive_owner # u /\ (u \in asleep' <=> u \in asleep)
      BY <1>1, <1>8, <2>3, ThreadAssumption
    <3>4. ThreadInv(u)
      BY DEF IInv
    <3>5. QED
      BY <1>1, <3>1, <3>2, <3>3, <3>4, Frame
  <2>4. QED
    BY <2>1, <2>2, <2>3
<1>12. QueueInv'
  <2>1. ASSUME NEW i \in DOMAIN exclusive_queue
        PROVE  LET e == exclusive_queue[i] IN
               pc'[e[1]] = "waitX" /\ e[1] \in asleep' /\ waiter'[e[1]] = e[2]
    <3>1. LET e == exclusive_queue[i] IN
          e[1] \in Thread /\ pc[e[1]] = "waitX" /\ e[1] \in asleep /\ waiter[e[1]] = e[2]
      BY DEF IInv, TypeOK, QueueInv
    <3>2. QED
      BY <1>3, <1>8, <3>1 DEF Waiting, waiterVars
  <2>2. is_shared' > 0
    <3>1. PICK e \in shared_queue : shared_owners'[e[1]] = 1 /\ e[1] \in Thread
      BY <1>1, <1>4
    <3>2. shared_owners' \in [Thread -> Nat]
      BY <1>1, <1>2
    <3>3. Cardinality(HoldsOf(shared_owners')) # 0
      BY <1>5, <3>1, <3>2, HoldsNone
    <3>4. QED
      BY <1>1, <1>2, <1>5, <1>6, <3>3
  <2>3. QED
    BY <1>1, <2>1, <2>2 DEF IInv, QueueInv
<1>13. WaitersDistinct'
  BY <1>3 DEF IInv, WaitersDistinct, waiterVars
<1>14. QED
  BY <1>9, <1>10, <1>11, <1>12, <1>13 DEF IInv

(* The writer at the head of the queue: it alone is woken, and the rest of *)
(* the queue moves up.                                                     *)
LEMMA HandToWriterFacts ==
    ASSUME IInv, exclusive_queue # <<>>, HandToWriter, UNCHANGED waiterVars,
           NEW x, x = Head(exclusive_queue)[1]
    PROVE  /\ x \in Thread /\ pc[x] = "waitX" /\ x \in asleep
           /\ exclusive_owner' = x /\ is_exclusive' = 1
           /\ asleep' \subseteq Thread
           /\ \A u \in Thread : u \in asleep' <=> u \in asleep /\ u # x
           /\ exclusive_queue' \in Seq(Thread \X (1..made))
           /\ \A i \in DOMAIN exclusive_queue' :
                 /\ i + 1 \in DOMAIN exclusive_queue
                 /\ exclusive_queue'[i] = exclusive_queue[i + 1]
                 /\ exclusive_queue[i + 1][1] # x
           /\ \A u \in Thread \ {x} :
                 (\E i \in DOMAIN exclusive_queue : exclusive_queue[i] = <<u, waiter[u]>>) =>
                    \E i \in DOMAIN exclusive_queue' : exclusive_queue'[i] = <<u, waiter[u]>>
           /\ \A i, j \in DOMAIN exclusive_queue' : i + 1 = j + 1 => i = j
<1> DEFINE q == exclusive_queue
           n == Len(exclusive_queue)
<1>1. /\ exclusive_owner' = q[1][1] /\ is_exclusive' = 1
      /\ q' = Tail(q)
      /\ asleep' = {u \in asleep : waiter[u] # q[1][2]}
      /\ x = q[1][1]
  BY DEF HandToWriter, Notify
<1>2. /\ q \in Seq(Thread \X (1..made)) /\ n \in Nat /\ n > 0
      /\ DOMAIN q = 1..n
      /\ 1 \in 1..n
      /\ Tail(q) \in Seq(Thread \X (1..made)) /\ Len(Tail(q)) = n - 1
      /\ DOMAIN Tail(q) = 1..(n - 1)
      /\ \A i \in 1..(n - 1) : Tail(q)[i] = q[i + 1]
  BY HeadTailProperties, SMTT(30) DEF IInv, TypeOK
<1>3. q[1] \in Thread \X (1..made)
  BY <1>2
<1>4. /\ x \in Thread /\ pc[x] = "waitX" /\ x \in asleep /\ waiter[x] = q[1][2]
  <2>1. LET e == q[1] IN pc[e[1]] = "waitX" /\ e[1] \in asleep /\ waiter[e[1]] = e[2]
    BY <1>2 DEF IInv, QueueInv
  <2>2. QED
    BY <1>1, <1>3, <2>1
<1>5. \A u \in Thread : u \in asleep' <=> u \in asleep /\ u # x
  <2>1. \A u \in Thread : u \in asleep => Waiting(u)
    BY DEF IInv, ThreadInv
  <2>2. \A u \in Thread : u \in asleep /\ u # x => waiter[u] # waiter[x]
    BY <1>4, <2>1 DEF IInv, WaitersDistinct
  <2>3. QED
    BY <1>1, <1>4, <2>2
<1>6. asleep' \subseteq Thread
  BY <1>1 DEF IInv, TypeOK
<1>7. \A i, j \in 1..n : q[i][1] = q[j][1] => i = j
  BY <1>2 DEF IInv, QueueInv
<1>8. ASSUME NEW i \in DOMAIN q'
      PROVE  i \in Nat /\ i + 1 \in DOMAIN q /\ q'[i] = q[i + 1] /\ q[i + 1][1] # x
  <2> HIDE DEF q
  <2>1. i \in 1..(n - 1) /\ i + 1 \in 1..n /\ i + 1 # 1
    BY <1>1, <1>2
  <2>2. QED
    BY <1>1, <1>2, <1>7, <2>1
<1>9. ASSUME NEW u \in Thread \ {x}, NEW i \in DOMAIN q, q[i] = <<u, waiter[u]>>
      PROVE  \E j \in DOMAIN q' : q'[j] = <<u, waiter[u]>>
  <2>1. i # 1
    BY <1>1, <1>9
  <2> HIDE DEF q, n
  <2>2. i - 1 \in 1..(n - 1) /\ i - 1 + 1 = i
    BY <1>2, <2>1
  <2>3. q'[i - 1] = q[i] /\ i - 1 \in DOMAIN q'
    BY <1>1, <1>2, <2>2
  <2>4. QED
    BY <1>9, <2>3
<1>10. QED
  <2>1. \A i, j \in DOMAIN q' : i + 1 = j + 1 => i = j
    BY <1>8
  <2>2. q' \in Seq(Thread \X (1..made))
    BY <1>1, <1>2
  <2>3. \A u \in Thread \ {x} :
          (\E i \in DOMAIN q : q[i] = <<u, waiter[u]>>) =>
             \E i \in DOMAIN q' : q'[i] = <<u, waiter[u]>>
    BY <1>9
  <2>4. exclusive_owner' = x /\ is_exclusive' = 1
    BY <1>1
  <2>5. QED
    BY <1>4, <1>5, <1>6, <1>8, <2>1, <2>2, <2>3, <2>4

(* The last block of a kind is left and the queue's first writer gets the  *)
(* lock.                                                                   *)
LEMMA HandToWriterKeeps ==
    ASSUME IInv, NEW t \in Thread, Leave(t), ~Waiting(t),
           exclusive_queue # <<>>, HandToWriter,
           exclusive_owner \in {t, NoThread},
           is_shared' = 0, shared_owners' \in [Thread -> Nat],
           \A u \in Thread : shared_owners'[u] = 0,
           \A u \in Thread \ {t} : shared_owners[u] = 0,
           Reads(t)' = 0, Writes(t)' = 0
    PROVE  IInv'
<1> DEFINE x == Head(exclusive_queue)[1]
<1>1. /\ stack' \in [Thread -> Seq(Block)] /\ calls' \in [Thread -> 0..MaxCalls]
      /\ \A u \in Thread \ {t} : stack'[u] = stack[u]
      /\ stack'[t] # <<>> => stack'[t][1] # "noop"
      /\ pc' \in [Thread -> Status] /\ UNCHANGED waiterVars
      /\ \A u \in Thread : Waiting(u)' <=> Waiting(u)
      /\ \A u \in Thread \ {t} : pc'[u] = pc[u]
  BY LeaveFacts
<1>2. UNCHANGED shared_queue
  BY DEF HandToWriter
<1> HIDE DEF x
<1>3. /\ x \in Thread /\ pc[x] = "waitX" /\ x \in asleep
      /\ exclusive_owner' = x /\ is_exclusive' = 1
      /\ asleep' \subseteq Thread
      /\ \A u \in Thread : u \in asleep' <=> u \in asleep /\ u # x
      /\ exclusive_queue' \in Seq(Thread \X (1..made))
      /\ \A i \in DOMAIN exclusive_queue' :
            /\ i + 1 \in DOMAIN exclusive_queue
            /\ exclusive_queue'[i] = exclusive_queue[i + 1]
            /\ exclusive_queue[i + 1][1] # x
      /\ \A u \in Thread \ {x} :
            (\E i \in DOMAIN exclusive_queue : exclusive_queue[i] = <<u, waiter[u]>>) =>
               \E i \in DOMAIN exclusive_queue' : exclusive_queue'[i] = <<u, waiter[u]>>
      /\ \A i, j \in DOMAIN exclusive_queue' : i + 1 = j + 1 => i = j
  BY <1>1, HandToWriterFacts DEF x
<1>4. x # t /\ t \notin asleep /\ Waiting(x)
  BY <1>3 DEF IInv, ThreadInv, Waiting
<1>5. TypeOK'
  BY <1>1, <1>2, <1>3 DEF IInv, TypeOK, waiterVars
<1>6. ModeInv'
  <2>1. HoldsOf(shared_owners') = {}
    <3>1. \A u \in Thread : 1..(shared_owners'[u]) = {}
      OBVIOUS
    <3>2. QED
      BY <3>1 DEF HoldsOf
  <2>2. QED
    BY <1>3, <2>1, FS_EmptySet, ThreadAssumption DEF ModeInv, Holds
<1>7. ASSUME NEW u \in Thread PROVE ThreadInv(u)'
  <2>1. CASE u = t
    <3>1. /\ shared_owners'[t] = Reads(t)' /\ ~(Reads(t)' > 0)
          /\ t \notin asleep' /\ ~Waiting(t)'
          /\ exclusive_owner' # t
      BY <1>1, <1>3, <1>4
    <3>2. QED
      BY <1>1, <2>1, <3>1 DEF ThreadInv, Waiting
  <2>2. CASE u = x
    <3>1. pc'[x] = "waitX" /\ stack'[x] = <<>> /\ shared_owners'[x] = 0 /\ x \notin asleep'
      BY <1>1, <1>3, <1>4 DEF IInv, ThreadInv
    <3>2. QED
      BY <1>3, <2>2, <3>1 DEF ThreadInv, Waiting
  <2>3. CASE u # t /\ u # x
    <3>1. pc'[u] = pc[u] /\ stack'[u] = stack[u] /\ waiter'[u] = waiter[u]
      BY <1>1, <2>3 DEF waiterVars
    <3>2. exclusive_owner' # u /\ exclusive_owner # u /\ (u \in asleep' <=> u \in asleep)
      BY <1>3, <2>3, ThreadAssumption
    <3>3. ThreadInv(u)
      BY DEF IInv
    <3>4. QED
      BY <1>2, <1>3, <2>3, <3>1, <3>2, <3>3, Frame
  <2>4. QED
    BY <2>1, <2>2, <2>3
<1>8. QueueInv'
  <2>1. ASSUME NEW e \in shared_queue
        PROVE  pc'[e[1]] = "waitS" /\ e[1] \in asleep' /\ waiter'[e[1]] = e[2]
    <3>1. e[1] \in Thread /\ pc[e[1]] = "waitS" /\ e[1] \in asleep /\ waiter[e[1]] = e[2]
      BY DEF IInv, TypeOK, QueueInv
    <3>2. QED
      BY <1>1, <1>3, <1>4, <3>1 DEF waiterVars
  <2>2. ASSUME NEW i \in DOMAIN exclusive_queue'
        PROVE  LET e == exclusive_queue'[i] IN
               pc'[e[1]] = "waitX" /\ e[1] \in asleep' /\ waiter'[e[1]] = e[2]
    <3>1. LET e == exclusive_queue[i + 1] IN
          e[1] \in Thread /\ pc[e[1]] = "waitX" /\ e[1] \in asleep /\ waiter[e[1]] = e[2]
      BY <1>3 DEF IInv, TypeOK, QueueInv
    <3>2. QED
      BY <1>1, <1>3, <1>4, <3>1 DEF waiterVars
  <2>3. ASSUME NEW i \in DOMAIN exclusive_queue', NEW j \in DOMAIN exclusive_queue',
               exclusive_queue'[i][1] = exclusive_queue'[j][1]
        PROVE  i = j
    <3>1. i + 1 = j + 1
      BY <1>3, <2>3 DEF IInv, QueueInv
    <3>2. QED
      BY <1>3, <3>1
  <2>4. SpokenFor' /\ is_exclusive' > 0
    BY <1>3 DEF SpokenFor
  <2>5. QED
    BY <1>2, <2>1, <2>2, <2>3, <2>4 DEF QueueInv
<1>9. WaitersDistinct'
  BY <1>1 DEF IInv, WaitersDistinct, waiterVars
<1>10. QED
  BY <1>5, <1>6, <1>7, <1>8, <1>9 DEF IInv

(* The last write block is left and the next writer gets the lock.         *)
LEMMA WriteToWriterKeeps ==
    ASSUME IInv, NEW t \in Thread, ReleaseWriteToWriter(t)
    PROVE  IInv'
<1>1. /\ Leave(t) /\ Top(t) # "noop" /\ is_exclusive = 1 /\ exclusive_owner = t
      /\ exclusive_queue # <<>> /\ HandToWriter
      /\ UNCHANGED <<is_shared, shared_owners>>
  BY DEF ReleaseWriteToWriter, LastWrite
<1>2. /\ ~Waiting(t) /\ is_shared = 0 /\ \A u \in Thread : shared_owners[u] = 0
      /\ Reads(t)' = 0 /\ Writes(t)' = 0
  BY <1>1, LeaveWriteFacts
<1>3. shared_owners \in [Thread -> Nat]
  BY DEF IInv, TypeOK
<1>4. QED
  BY <1>1, <1>2, <1>3, HandToWriterKeeps

(* The last read block is left and the first queued writer gets the lock.  *)
LEMMA ReadToWriterKeeps ==
    ASSUME IInv, NEW t \in Thread, ReleaseReadToWriter(t)
    PROVE  IInv'
<1>1. /\ DropShared(t) /\ Leave(t) /\ is_shared = 1 /\ is_shared' = is_shared - 1
      /\ exclusive_queue # <<>> /\ HandToWriter
  BY DEF ReleaseReadToWriter, DropShared
<1>2. /\ ~Waiting(t) /\ exclusive_owner = NoThread
      /\ shared_owners' \in [Thread -> Nat]
      /\ \A u \in Thread \ {t} : shared_owners'[u] = shared_owners[u]
      /\ shared_owners'[t] = Reads(t)' /\ Writes(t)' = 0
      /\ IsFiniteSet(HoldsOf(shared_owners'))
      /\ is_shared' = Cardinality(HoldsOf(shared_owners'))
  BY <1>1, LeaveReadFacts
<1>3. is_shared' = 0
  BY <1>1
<1>4. \A u \in Thread : shared_owners'[u] = 0
  BY <1>2, <1>3, HoldsNone
<1>5. QED
  BY <1>1, <1>2, <1>3, <1>4, HandToWriterKeeps

-----------------------------------------------------------------------------
(* The invariant and the safety properties.                                *)

(* No step of any thread breaks the invariant.                             *)
LEMMA StepIInv == IInv /\ [Next]_vars => IInv'
<1> SUFFICES ASSUME IInv, [Next]_vars PROVE IInv'
  OBVIOUS
<1>1. CASE UNCHANGED vars
  <2>1. UNCHANGED <<is_shared, shared_owners, is_exclusive, exclusive_owner,
                    shared_queue, exclusive_queue, free_waiters, made, waiter,
                    asleep, pc, stack, calls>>
    BY <1>1 DEF vars, lockVars, queueVars, waiterVars
  <2>2. TypeOK' /\ ModeInv'
    BY <2>1 DEF IInv, TypeOK, ModeInv, Holds
  <2>3. ASSUME NEW t \in Thread PROVE ThreadInv(t)'
    BY <2>1, Frame DEF IInv
  <2>4. QueueInv' /\ WaitersDistinct'
    BY <2>1 DEF IInv, QueueInv, SpokenFor, WaitersDistinct, Waiting
  <2>5. QED
    BY <2>2, <2>3, <2>4 DEF IInv
<1>2. ASSUME NEW t \in Thread, Acquire(t) PROVE IInv'
  BY <1>2, ReadGrantKeeps, WriteGrantKeeps, SkipKeeps, RaiseKeeps,
     WaitReadKeeps, WaitWriteKeeps DEF Acquire
<1>3. ASSUME NEW t \in Thread, Resume(t) PROVE IInv'
  BY <1>3, ResumeKeeps
<1>4. ASSUME NEW t \in Thread, Release(t) PROVE IInv'
  BY <1>4, LeaveSkippedKeeps, ReleaseWriteKeeps, ReleaseReadKeeps,
     HandToReadersKeeps, WriteToWriterKeeps, ReadToWriterKeeps DEF Release
<1>5. QED
  BY <1>1, <1>2, <1>3, <1>4 DEF Next

(* The lock's state, its queues and the blocks its threads are inside      *)
(* agree in every reachable state.                                         *)
THEOREM Invariant == Spec => []IInv
BY InitIInv, StepIInv, PTL DEF Spec

(* Every variable keeps its type.                                          *)
THEOREM TypeCorrect == Spec => []TypeOK
<1>1. IInv => TypeOK
  BY DEF IInv
<1>2. QED
  BY <1>1, Invariant, PTL

(* No thread is inside any block while another is inside a write block.    *)
THEOREM MutualExclusion == Spec => []WriterIsAlone
<1>1. IInv => WriterIsAlone
  <2> SUFFICES ASSUME IInv, NEW t \in Thread, NEW u \in Thread,
                      t # u, Writes(t) > 0
               PROVE  stack[u] = <<>>
    BY DEF WriterIsAlone
  <2>1. stack[t] # <<>>
    BY CountEmpty DEF Writes
  <2>2. exclusive_owner = t /\ is_exclusive > 0
    <3>1. (IF exclusive_owner = t THEN is_exclusive ELSE 0) = Writes(t)
      BY <2>1 DEF IInv, ThreadInv
    <3>2. QED
      BY <3>1
  <2>3. shared_owners[u] = 0 /\ exclusive_owner # u
    BY <2>2, CountFacts DEF IInv, ModeInv
  <2>4. CASE Waiting(u)
    BY <2>4 DEF IInv, ThreadInv
  <2>5. CASE ~Waiting(u)
    <3>1. Reads(u) = 0 /\ Writes(u) = 0
      BY <2>3, <2>5 DEF IInv, ThreadInv
    <3>2. QED
      BY <3>1, EmptyStack
  <2>6. QED
    BY <2>4, <2>5
<1>2. QED
  BY <1>1, Invariant, PTL

(* A thread that is inside a block is never made to wait.                  *)
THEOREM NeverWaitsInside == Spec => []HolderNeverWaits
<1>1. IInv => HolderNeverWaits
  BY DEF IInv, ThreadInv, HolderNeverWaits
<1>2. QED
  BY <1>1, Invariant, PTL

(* release() always finds the lock held by its caller, in the mode of the  *)
(* block that ends, so it never raises LockingError.                       *)
THEOREM ReleaseNeverRaises == Spec => []ReleaseIsOwned
BY OwnedInv, Invariant, PTL

(* None of the class's assert statements fails.                            *)
THEOREM NoAssertionFails == Spec => []AssertionsHold
<1>1. IInv => AssertionsHold
  <2> SUFFICES ASSUME IInv PROVE AssertionsHold
    OBVIOUS
  <2>1. is_exclusive > 0 => is_shared = 0
    BY DEF IInv, ModeInv
  <2>2. ASSUME NEW t \in Thread, pc[t] = "waitS", t \notin asleep
        PROVE  is_exclusive = 0
    <3>1. shared_owners[t] = 1
      BY <2>2 DEF IInv, ThreadInv
    <3>2. is_shared # 0
      BY <3>1, CountFacts
    <3>3. QED
      BY <2>1, <3>2 DEF IInv, TypeOK
  <2>3. QED
    BY <2>1, <2>2 DEF AssertionsHold, IInv, QueueInv
<1>2. QED
  BY <1>1, Invariant, PTL

(* A thread asleep is queued for a lock that is taken, and a thread woken  *)
(* already has what it asked for.                                          *)
THEOREM WakeupsArrive == Spec => []NoLostWakeup
<1>1. IInv => NoLostWakeup
  <2> SUFFICES ASSUME IInv PROVE NoLostWakeup
    OBVIOUS
  <2>1. is_shared = 0 /\ is_exclusive = 0 => shared_queue = {} /\ exclusive_queue = <<>>
    BY DEF IInv, QueueInv, SpokenFor
  <2>2. ASSUME NEW t \in Thread
        PROVE  /\ pc[t] = "waitS" =>
                     IF t \in asleep THEN <<t, waiter[t]>> \in shared_queue
                                     ELSE shared_owners[t] = 1
               /\ pc[t] = "waitX" =>
                     IF t \in asleep
                     THEN \E i \in DOMAIN exclusive_queue : exclusive_queue[i] = <<t, waiter[t]>>
                     ELSE exclusive_owner = t
    BY DEF IInv, ThreadInv
  <2>3. QED
    BY <2>1, <2>2 DEF NoLostWakeup
<1>2. QED
  BY <1>1, Invariant, PTL

(* No two waiting threads share a Condition.                               *)
THEOREM ConditionsAreOwn == Spec => []WaitersDistinct
<1>1. IInv => WaitersDistinct
  BY DEF IInv
<1>2. QED
  BY <1>1, Invariant, PTL

(* The lock's counts are those of the blocks its threads are inside, so    *)
(* none is leaked, whatever exceptions unwound them.                       *)
THEOREM NothingLeaks == Spec => []CountsMatchBlocks
<1>1. IInv => CountsMatchBlocks
  BY DEF IInv, ThreadInv, CountsMatchBlocks
<1>2. QED
  BY <1>1, Invariant, PTL

-----------------------------------------------------------------------------
(* Refinement: the lock keeps the promises of RWLock.                      *)

(* What the lock's mode says of the blocks all threads are inside.         *)
LEMMA ModeFacts ==
    ASSUME IInv
    PROVE  /\ is_exclusive = 0 => \A u \in Thread : Writes(u) = 0
           /\ is_shared = 0 => \A u \in Thread : Reads(u) = 0
           /\ \A t, u \in Thread : exclusive_owner = t /\ u # t => Writes(u) = 0
<1>1. ASSUME NEW u \in Thread, Waiting(u) PROVE Reads(u) = 0 /\ Writes(u) = 0
  BY <1>1, CountEmpty DEF IInv, ThreadInv, Reads, Writes
<1>2. ASSUME NEW u \in Thread, ~Waiting(u)
      PROVE  /\ shared_owners[u] = Reads(u)
             /\ (IF exclusive_owner = u THEN is_exclusive ELSE 0) = Writes(u)
  BY <1>2 DEF IInv, ThreadInv
<1>3. is_shared = 0 => \A u \in Thread : shared_owners[u] = 0
  BY CountFacts
<1>4. QED
  BY <1>1, <1>2, <1>3

(* The four ways in which a step shows in the contract: a block of one     *)
(* kind more or less.                                                      *)
LEMMA OneBlockStep ==
    ASSUME NEW t \in Thread,
           \A u \in Thread : Reads(u) \in Nat /\ Writes(u) \in Nat,
           \A u \in Thread : Reads(u)' \in Nat /\ Writes(u)' \in Nat,
           \A u \in Thread \ {t} : stack'[u] = stack[u]
    PROVE  /\ /\ \A u \in Thread : Writes(u) = 0
              /\ Reads(t)' = Reads(t) + 1 /\ Writes(t)' = Writes(t)
              => RW!EnterRead(t)
           /\ /\ \A u \in Thread : Reads(u) = 0
              /\ \A u \in Thread \ {t} : Writes(u) = 0
              /\ Reads(t)' = Reads(t) /\ Writes(t)' = Writes(t) + 1
              => RW!EnterWrite(t)
           /\ Reads(t) = Reads(t)' + 1 /\ Writes(t) = Writes(t)' => RW!ExitRead(t)
           /\ Reads(t) = Reads(t)' /\ Writes(t) = Writes(t)' + 1 => RW!ExitWrite(t)
           /\ Reads(t) = Reads(t)' /\ Writes(t) = Writes(t)' => UNCHANGED RW!vars
<1> DEFINE reads == [u \in Thread |-> Reads(u)]
           writes == [u \in Thread |-> Writes(u)]
<1>1. \A u \in Thread \ {t} : Reads(u)' = Reads(u) /\ Writes(u)' = Writes(u)
  BY DEF Reads, Writes
<1>2. /\ reads' = [u \in Thread |-> Reads(u)'] /\ writes' = [u \in Thread |-> Writes(u)']
      /\ reads = [u \in Thread |-> Reads(u)] /\ writes = [u \in Thread |-> Writes(u)]
  OBVIOUS
<1>3. /\ Reads(t)' = Reads(t) => reads' = reads
      /\ Writes(t)' = Writes(t) => writes' = writes
  BY <1>1, <1>2
<1>4. /\ Reads(t)' = Reads(t) + 1 => reads' = [reads EXCEPT ![t] = @ + 1]
      /\ Writes(t)' = Writes(t) + 1 => writes' = [writes EXCEPT ![t] = @ + 1]
      /\ Reads(t) = Reads(t)' + 1 => reads' = [reads EXCEPT ![t] = @ - 1]
      /\ Writes(t) = Writes(t)' + 1 => writes' = [writes EXCEPT ![t] = @ - 1]
  <2>1. /\ Reads(t) = Reads(t)' + 1 => Reads(t)' = Reads(t) - 1
        /\ Writes(t) = Writes(t)' + 1 => Writes(t)' = Writes(t) - 1
    OBVIOUS
  <2>2. /\ reads' = [reads EXCEPT ![t] = Reads(t)']
        /\ writes' = [writes EXCEPT ![t] = Writes(t)']
    BY <1>1, <1>2
  <2>3. /\ [reads EXCEPT ![t] = @ + 1] = [reads EXCEPT ![t] = Reads(t) + 1]
        /\ [reads EXCEPT ![t] = @ - 1] = [reads EXCEPT ![t] = Reads(t) - 1]
        /\ [writes EXCEPT ![t] = @ + 1] = [writes EXCEPT ![t] = Writes(t) + 1]
        /\ [writes EXCEPT ![t] = @ - 1] = [writes EXCEPT ![t] = Writes(t) - 1]
    BY <1>2
  <2> HIDE DEF reads, writes
  <2>4. QED
    BY <2>1, <2>2, <2>3
<1>5. /\ \A u \in Thread : reads[u] = Reads(u) /\ writes[u] = Writes(u)
      /\ Reads(t) = Reads(t)' + 1 => Reads(t) > 0
      /\ Writes(t) = Writes(t)' + 1 => Writes(t) > 0
  OBVIOUS
<1>6. QED
  BY <1>3, <1>4, <1>5 DEF RW!EnterRead, RW!EnterWrite, RW!ExitRead, RW!ExitWrite, RW!vars

(* Every step of the lock is a step of the contract or invisible to it.    *)
LEMMA StepRefines == IInv /\ IInv' /\ [Next]_vars => [RW!Next]_RW!vars
<1> SUFFICES ASSUME IInv, IInv', [Next]_vars PROVE [RW!Next]_RW!vars
  OBVIOUS
<1>a. \A u \in Thread : Reads(u) \in Nat /\ Writes(u) \in Nat
  BY CountFacts
<1>b. \A u \in Thread : Reads(u)' \in Nat /\ Writes(u)' \in Nat
  <2>1. ASSUME NEW u \in Thread PROVE Reads(u)' \in Nat /\ Writes(u)' \in Nat
    <3>1. stack'[u] \in Seq(Block)
      BY DEF IInv, TypeOK
    <3>2. QED
      BY <3>1, PlacesFinite DEF Reads, Writes
  <2>2. QED
    BY <2>1
<1>1. CASE UNCHANGED vars
  <2>1. stack' = stack
    BY <1>1 DEF vars
  <2>2. QED
    BY <2>1 DEF RW!vars, Reads, Writes
<1>2. ASSUME NEW t \in Thread, ReenterRead(t) \/ TakeRead(t) PROVE RW!EnterRead(t)
  <2>1. Enter(t, "read") /\ is_exclusive = 0
    BY <1>2 DEF ReenterRead, TakeRead, Granted, OwnsShared, SpokenFor, IInv, TypeOK, ModeInv
  <2>2. /\ \A u \in Thread \ {t} : stack'[u] = stack[u]
        /\ Reads(t)' = Reads(t) + 1 /\ Writes(t)' = Writes(t)
    BY <1>a, <2>1, EnterFacts DEF IInv, Block
  <2>3. QED
    BY <1>a, <1>b, <2>1, <2>2, ModeFacts, OneBlockStep
<1>3. ASSUME NEW t \in Thread, ReenterWrite(t) \/ TakeWrite(t) PROVE RW!EnterWrite(t)
  <2>1. Enter(t, "write") /\ is_shared = 0 /\ (is_exclusive = 0 \/ exclusive_owner = t)
    BY <1>3, ThreadAssumption DEF ReenterWrite, TakeWrite, Granted, IInv, TypeOK, ModeInv
  <2>2. /\ \A u \in Thread \ {t} : stack'[u] = stack[u]
        /\ Reads(t)' = Reads(t) /\ Writes(t)' = Writes(t) + 1
    BY <1>a, <2>1, EnterFacts DEF IInv, Block
  <2>3. (\A u \in Thread : Reads(u) = 0) /\ \A u \in Thread \ {t} : Writes(u) = 0
    BY <2>1, ModeFacts
  <2>4. QED
    BY <1>a, <1>b, <2>2, <2>3, OneBlockStep
<1>4. ASSUME NEW t \in Thread, SafeReadSkips(t) PROVE UNCHANGED RW!vars
  <2>1. Enter(t, "noop")
    BY <1>4 DEF SafeReadSkips, Granted
  <2>2. /\ \A u \in Thread \ {t} : stack'[u] = stack[u]
        /\ Reads(t) = Reads(t)' /\ Writes(t) = Writes(t)'
    BY <1>a, <2>1, EnterFacts DEF IInv, Block
  <2>3. QED
    BY <1>a, <1>b, <2>2, OneBlockStep
<1>5. ASSUME NEW t \in Thread, DowngradeError(t) \/ UpgradeError(t) \/ WaitRead(t) \/ WaitWrite(t)
      PROVE  UNCHANGED RW!vars
  <2>1. stack' = stack
    BY <1>5 DEF DowngradeError, UpgradeError, Raises, WaitRead, WaitWrite, Sleep
  <2>2. QED
    BY <2>1 DEF RW!vars, Reads, Writes
<1>6. ASSUME NEW t \in Thread, Resume(t) PROVE RW!EnterRead(t) \/ RW!EnterWrite(t)
  <2>1. CASE pc[t] = "waitS"
    <3>1. Enter(t, "read") /\ shared_owners[t] = 1
      BY <1>6, <2>1 DEF Resume, IInv, ThreadInv
    <3>2. is_exclusive = 0
      <4>1. is_shared # 0
        BY <3>1, CountFacts
      <4>2. QED
        BY <4>1 DEF IInv, TypeOK, ModeInv
    <3>3. /\ \A u \in Thread \ {t} : stack'[u] = stack[u]
          /\ Reads(t)' = Reads(t) + 1 /\ Writes(t)' = Writes(t)
      BY <1>a, <3>1, EnterFacts DEF IInv, Block
    <3>4. QED
      BY <1>a, <1>b, <3>2, <3>3, ModeFacts, OneBlockStep
  <2>2. CASE pc[t] = "waitX"
    <3>1. Enter(t, "write") /\ exclusive_owner = t
      BY <1>6, <2>2 DEF Resume, IInv, ThreadInv
    <3>2. is_shared = 0
      BY <3>1, ThreadAssumption DEF IInv, ModeInv
    <3>3. /\ \A u \in Thread \ {t} : stack'[u] = stack[u]
          /\ Reads(t)' = Reads(t) /\ Writes(t)' = Writes(t) + 1
      BY <1>a, <3>1, EnterFacts DEF IInv, Block
    <3>4. (\A u \in Thread : Reads(u) = 0) /\ \A u \in Thread \ {t} : Writes(u) = 0
      BY <3>1, <3>2, ModeFacts
    <3>5. QED
      BY <1>a, <1>b, <3>3, <3>4, OneBlockStep
  <2>3. QED
    BY <1>6, <2>1, <2>2 DEF Resume, Waiting
<1>7. ASSUME NEW t \in Thread, Release(t)
      PROVE  RW!ExitRead(t) \/ RW!ExitWrite(t) \/ UNCHANGED RW!vars
  <2>1. Leave(t)
    BY <1>7 DEF Release, LeaveSkipped, ReleaseInnerWrite, ReleaseWriteToReaders,
       ReleaseWriteToWriter, ReleaseWriteFree, LastWrite, ReleaseInnerRead,
       ReleaseReadToWriter, ReleaseReadFree, DropShared
  <2>2. /\ \A u \in Thread \ {t} : stack'[u] = stack[u]
        /\ Top(t) \in Block
        /\ Reads(t) = Reads(t)' + (IF Top(t) = "read" THEN 1 ELSE 0)
        /\ Writes(t) = Writes(t)' + (IF Top(t) = "write" THEN 1 ELSE 0)
    BY <2>1, LeaveFacts
  <2>3. CASE Top(t) = "read"
    <3>1. Reads(t) = Reads(t)' + 1 /\ Writes(t) = Writes(t)'
      BY <1>b, <2>2, <2>3
    <3>2. QED
      BY <1>a, <1>b, <2>2, <3>1, OneBlockStep
  <2>4. CASE Top(t) = "write"
    <3>1. Reads(t) = Reads(t)' /\ Writes(t) = Writes(t)' + 1
      BY <1>b, <2>2, <2>4
    <3>2. QED
      BY <1>a, <1>b, <2>2, <3>1, OneBlockStep
  <2>5. CASE Top(t) = "noop"
    <3>1. Reads(t) = Reads(t)' /\ Writes(t) = Writes(t)'
      BY <1>b, <2>2, <2>5
    <3>2. QED
      BY <1>a, <1>b, <2>2, <3>1, OneBlockStep
  <2>6. QED
    BY <2>2, <2>3, <2>4, <2>5 DEF Block
<1>8. QED
  BY <1>1, <1>2, <1>3, <1>4, <1>5, <1>6, <1>7 DEF Next, Acquire, RW!Next

(* Seen as the blocks its threads are inside, SHLock is the lock that the  *)
(* docstring of create_locks() describes.                                  *)
THEOREM Refinement == Spec => Contract
<1>1. Init => RW!Init
  BY CountEmpty DEF Init, RW!Init, Reads, Writes
<1>2. IInv /\ IInv' /\ [Next]_vars => [RW!Next]_RW!vars
  BY StepRefines
<1>3. QED
  BY <1>1, <1>2, Invariant, PTL DEF Spec, Contract, RW!Spec
=============================================================================
