---------------------------- MODULE FutexProofs ----------------------------
(***************************************************************************)
(* Proofs about Futex for any set of tasks, address spaces and words.      *)
(***************************************************************************)
EXTENDS Futex, FiniteSetTheorems, TLAPS

Distinct(q) == \A i, j \in 1..Len(q) : q[i] = q[j] => i = j

-----------------------------------------------------------------------------
(* Facts about queues without repetitions. *)

(* What list_add_tail does to the set of waiters on a queue. *)
LEMMA AppendElems ==
    ASSUME NEW S, NEW q \in Seq(S), NEW t \in S
    PROVE  /\ Append(q, t) \in Seq(S)
           /\ Elems(Append(q, t)) = Elems(q) \cup {t}
           /\ Distinct(q) /\ t \notin Elems(q) => Distinct(Append(q, t))
BY DEF Elems, Distinct

(* A queue cut in two, as a wake and a requeue cut it. *)
LEMMA SplitElems ==
    ASSUME NEW S, NEW q \in Seq(S), NEW n \in 0..Len(q)
    PROVE  LET f == SubSeq(q, 1, n)  r == SubSeq(q, n + 1, Len(q)) IN
           /\ f \in Seq(S) /\ r \in Seq(S)
           /\ Len(f) = n /\ Len(r) = Len(q) - n
           /\ Elems(f) \cup Elems(r) = Elems(q)
           /\ Distinct(q) => /\ Distinct(f) /\ Distinct(r)
                             /\ Elems(f) \cap Elems(r) = {}
<1> DEFINE f == SubSeq(q, 1, n)
           r == SubSeq(q, n + 1, Len(q))
<1>1. f \in Seq(S) /\ Len(f) = n /\ \A i \in 1..n : f[i] = q[i]
  OBVIOUS
<1>2. r \in Seq(S) /\ Len(r) = Len(q) - n /\ \A i \in 1..(Len(q) - n) : r[i] = q[n + i]
  OBVIOUS
<1>3. Elems(f) \cup Elems(r) = Elems(q)
  <2>1. Elems(f) \subseteq Elems(q) /\ Elems(r) \subseteq Elems(q)
    BY <1>1, <1>2 DEF Elems
  <2>2. ASSUME NEW i \in 1..Len(q) PROVE q[i] \in Elems(f) \cup Elems(r)
    <3>1. CASE i <= n
      BY <1>1, <3>1 DEF Elems
    <3>2. CASE i > n
      <4>1. i - n \in 1..Len(r) /\ r[i - n] = q[i]
        BY <1>2, <3>2
      <4> QED BY <4>1 DEF Elems
    <3> QED BY <3>1, <3>2
  <2> QED BY <2>1, <2>2 DEF Elems
<1>4. ASSUME Distinct(q) PROVE Distinct(f) /\ Distinct(r) /\ Elems(f) \cap Elems(r) = {}
  <2>1. Distinct(f)
    BY <1>1, <1>4 DEF Distinct
  <2>2. Distinct(r)
    <3> SUFFICES ASSUME NEW i \in 1..Len(r), NEW j \in 1..Len(r), r[i] = r[j] PROVE i = j
      BY DEF Distinct
    <3>1. n + i \in 1..Len(q) /\ n + j \in 1..Len(q) /\ q[n + i] = q[n + j]
      BY <1>2
    <3>2. n + i = n + j
      BY <1>4, <3>1 DEF Distinct
    <3> QED BY <1>2, <3>2
  <2>3. ASSUME NEW i \in 1..Len(f), NEW j \in 1..Len(r) PROVE f[i] # r[j]
    <3>1. i \in 1..Len(q) /\ n + j \in 1..Len(q) /\ i # n + j
      BY <1>1, <1>2
    <3> QED BY <1>1, <1>2, <1>4, <3>1 DEF Distinct
  <2> QED BY <2>1, <2>2, <2>3 DEF Elems
<1> HIDE DEF f, r
<1> QED BY <1>1, <1>2, <1>3, <1>4 DEF f, r

(* Two queues joined: a requeue appends, and a rotation swaps two parts. *)
LEMMA JoinElems ==
    ASSUME NEW S, NEW q \in Seq(S), NEW r \in Seq(S)
    PROVE  /\ q \o r \in Seq(S)
           /\ Len(q \o r) = Len(q) + Len(r)
           /\ Elems(q \o r) = Elems(q) \cup Elems(r)
           /\ Distinct(q) /\ Distinct(r) /\ Elems(q) \cap Elems(r) = {} => Distinct(q \o r)
<1> DEFINE c == q \o r
<1>1. /\ c \in Seq(S) /\ Len(c) = Len(q) + Len(r)
      /\ \A i \in 1..Len(q) : c[i] = q[i]
      /\ \A i \in 1..Len(r) : c[Len(q) + i] = r[i]
  OBVIOUS
<1>2. \A i \in 1..Len(c) : \/ i \in 1..Len(q) /\ c[i] = q[i]
                           \/ i - Len(q) \in 1..Len(r) /\ c[i] = r[i - Len(q)]
  OBVIOUS
<1> HIDE DEF c
<1>3. Elems(c) = Elems(q) \cup Elems(r)
  <2>1. Elems(c) \subseteq Elems(q) \cup Elems(r)
    BY <1>2 DEF Elems
  <2>2. Elems(q) \subseteq Elems(c)
    BY <1>1 DEF Elems
  <2>3. ASSUME NEW i \in 1..Len(r) PROVE r[i] \in Elems(c)
    <3>1. Len(q) + i \in 1..Len(c)
      BY <1>1
    <3> QED BY <1>1, <3>1 DEF Elems
  <2> QED BY <2>1, <2>2, <2>3 DEF Elems
<1>4. ASSUME Distinct(q), Distinct(r), Elems(q) \cap Elems(r) = {}
      PROVE  Distinct(c)
  <2> SUFFICES ASSUME NEW i \in 1..Len(c), NEW j \in 1..Len(c), c[i] = c[j] PROVE i = j
    BY DEF Distinct
  <2>1. CASE i \in 1..Len(q) /\ c[i] = q[i] /\ j \in 1..Len(q) /\ c[j] = q[j]
    BY <1>4, <2>1 DEF Distinct
  <2>2. CASE i - Len(q) \in 1..Len(r) /\ c[i] = r[i - Len(q)] /\ j - Len(q) \in 1..Len(r) /\ c[j] = r[j - Len(q)]
    <3>1. i - Len(q) = j - Len(q)
      BY <1>4, <2>2 DEF Distinct
    <3> QED BY <3>1
  <2>3. ~(i \in 1..Len(q) /\ c[i] = q[i] /\ j - Len(q) \in 1..Len(r) /\ c[j] = r[j - Len(q)])
    BY <1>4 DEF Elems
  <2>4. ~(j \in 1..Len(q) /\ c[j] = q[j] /\ i - Len(q) \in 1..Len(r) /\ c[i] = r[i - Len(q)])
    BY <1>4 DEF Elems
  <2> QED BY <1>2, <2>1, <2>2, <2>3, <2>4
<1> QED BY <1>1, <1>3, <1>4 DEF c

(* What list_remove_safe does to a queue. *)
LEMMA WithoutElems ==
    ASSUME NEW S, NEW q \in Seq(S), NEW t, Distinct(q)
    PROVE  /\ Without(q, t) \in Seq(S)
           /\ Elems(Without(q, t)) = Elems(q) \ {t}
           /\ Distinct(Without(q, t))
<1>1. CASE t \notin Elems(q)
  BY <1>1 DEF Without
<1>2. CASE t \in Elems(q)
  <2> DEFINE i == CHOOSE j \in 1..Len(q) : q[j] = t
             f == SubSeq(q, 1, i - 1)
             g == SubSeq(q, i, Len(q))
             r == SubSeq(q, i + 1, Len(q))
  <2>1. i \in 1..Len(q) /\ q[i] = t
    BY <1>2 DEF Elems
  <2> HIDE DEF i
  <2>2. f \in Seq(S) /\ Distinct(f) /\ \A j \in 1..Len(f) : f[j] = q[j] /\ j < i
    BY <2>1 DEF Distinct
  <2>3. r \in Seq(S) /\ Distinct(r) /\ Len(r) = Len(q) - i /\ \A j \in 1..Len(r) : r[j] = q[i + j]
    BY <2>1 DEF Distinct
  <2>4. \A j \in 1..Len(q) : j < i => j \in 1..Len(f)
    BY <2>1
  <2> HIDE DEF f, r
  <2>5. Elems(f) \cap Elems(r) = {}
    <3>1. ASSUME NEW j \in 1..Len(f), NEW k \in 1..Len(r) PROVE f[j] # r[k]
      <4>1. j \in 1..Len(q) /\ i + k \in 1..Len(q) /\ j # i + k
        BY <2>1, <2>2, <2>3
      <4> QED BY <2>2, <2>3, <4>1 DEF Distinct
    <3> QED BY <3>1 DEF Elems
  <2>6. Elems(f) \cup Elems(r) = Elems(q) \ {t}
    <3>1. ASSUME NEW j \in 1..Len(f) PROVE f[j] \in Elems(q) \ {t}
      <4>1. j \in 1..Len(q) /\ j # i
        BY <2>1, <2>2
      <4> QED BY <2>1, <2>2, <4>1 DEF Distinct, Elems
    <3>2. ASSUME NEW j \in 1..Len(r) PROVE r[j] \in Elems(q) \ {t}
      <4>1. i + j \in 1..Len(q) /\ i + j # i
        BY <2>1, <2>3
      <4> QED BY <2>1, <2>3, <4>1 DEF Distinct, Elems
    <3>3. ASSUME NEW j \in 1..Len(q), q[j] # t PROVE q[j] \in Elems(f) \cup Elems(r)
      <4>1. CASE j < i
        BY <2>2, <2>4, <4>1 DEF Elems
      <4>2. CASE j > i
        <5>1. j - i \in 1..Len(r) /\ r[j - i] = q[j]
          BY <2>1, <2>3, <4>2
        <5> QED BY <5>1 DEF Elems
      <4> QED BY <2>1, <3>3, <4>1, <4>2
    <3> QED BY <3>1, <3>2, <3>3 DEF Elems
  <2>7. Without(q, t) = f \o r
    BY <1>2 DEF Without, i, f, r
  <2> QED BY <2>2, <2>3, <2>5, <2>6, <2>7, JoinElems
<1> QED BY <1>1, <1>2

(* A requeue onto the futex itself only reorders its queue. *)
LEMMA RotateElems ==
    ASSUME NEW S, NEW q \in Seq(S), NEW n \in Nat, Distinct(q)
    PROVE  /\ Rotate(q, n) \in Seq(S)
           /\ Elems(Rotate(q, n)) = Elems(q)
           /\ Distinct(Rotate(q, n))
<1>1. CASE Len(q) < 2
  BY <1>1 DEF Rotate
<1>2. CASE ~(Len(q) < 2)
  <2> DEFINE r == n % Len(q)
             f == SubSeq(q, 1, r)
             g == SubSeq(q, r + 1, Len(q))
  <2>1. r \in 0..Len(q)
    BY <1>2
  <2> HIDE DEF r
  <2>2. /\ f \in Seq(S) /\ g \in Seq(S)
        /\ Elems(f) \cup Elems(g) = Elems(q)
        /\ Distinct(f) /\ Distinct(g)
        /\ Elems(f) \cap Elems(g) = {}
    BY <2>1, SplitElems
  <2> HIDE DEF f, g
  <2>3. Rotate(q, n) = g \o f
    BY <1>2 DEF Rotate, f, g, r
  <2>4. /\ g \o f \in Seq(S) /\ Elems(g \o f) = Elems(g) \cup Elems(f)
        /\ Distinct(g \o f)
    BY <2>2, JoinElems
  <2> QED BY <2>2, <2>3, <2>4
<1> QED BY <1>1, <1>2

(* The number of waiters on a queue. *)
LEMMA DistinctCardinality ==
    ASSUME NEW S, NEW q \in Seq(S), Distinct(q)
    PROVE  IsFiniteSet(Elems(q)) /\ Cardinality(Elems(q)) = Len(q)
<1> DEFINE f == [i \in 1..Len(q) |-> q[i]]
<1>1. f \in Bijection(1..Len(q), Elems(q))
  BY DEF Elems, Distinct, Bijection, Injection, Surjection, IsInjective
<1>2. IsFiniteSet(1..Len(q)) /\ Cardinality(1..Len(q)) = Len(q)
  <2>1. Len(q) \in Nat
    OBVIOUS
  <2> QED BY <2>1, FS_Interval
<1> HIDE DEF f
<1> QED BY <1>1, <1>2, FS_Bijection DEF ExistsBijection
-----------------------------------------------------------------------------
(* The inductive invariant. *)

Types ==
    /\ futex_lock \in Task \cup {Nobody}
    /\ refcount \in [Key -> Int]
    /\ queue \in [Key -> Seq(Task)]
    /\ pc \in [Task -> {"user", "fail", "load", "wait", "exiting", "exited"}]
    /\ wait \in [Task -> Key \cup {Nobody}]
    /\ val \in [Task -> Val]
    /\ notified \subseteq Task
    /\ word \in [Key -> Val]
    /\ requeued \subseteq Task
    /\ owed \subseteq Key

(* futex_lock is held across a step exactly between futex_get and the end  *)
(* of the error path or the sleep; a task holds a reference exactly inside *)
(* futex_wait; only sleeping tasks are notified or requeued.               *)
Discipline ==
    /\ \A t \in Task : pc[t] \in {"load", "fail"} <=> futex_lock = t
    /\ \A t \in Task : pc[t] \in {"load", "fail", "wait"} <=> wait[t] \in Key
    /\ \A t \in notified \cup requeued : pc[t] = "wait"
    /\ \A t \in Task : pc[t] = "exiting" => ClearTid[t] \in Addr

(* Between its load and its sleep a task is where NoMissedWake needs it:   *)
(* no wake can settle a store it has not seen.                             *)
LoadFresh ==
    \A t \in Task : pc[t] = "load" /\ wait[t] \notin owed => word[wait[t]] = val[t]

IInv == Types /\ Discipline /\ RefcountExact /\ WaitersQueued /\ NoMissedWake /\ LoadFresh

LEMMA KeyFacts ==
    /\ Nobody \notin Key
    /\ \A t \in Task, a \in Addr : <<MemOf[t], a>> \in Key
BY MemAssumption DEF Key

(* The waiters of every queue are distinct, sleeping holders. *)
LEMMA QueueFacts ==
    ASSUME IInv, NEW k \in Key
    PROVE  /\ queue[k] \in Seq(Task) /\ Len(queue[k]) \in Nat
           /\ Distinct(queue[k])
           /\ Elems(queue[k]) = Sleepers(k)
BY DEF IInv, Types, WaitersQueued, Distinct

LEMMA HoldersFinite == \A k : IsFiniteSet(Holders(k)) /\ Cardinality(Holders(k)) \in Nat
BY TaskAssumption, FS_Subset, FS_CardinalityType DEF Holders

LEMMA InitIInv == Init => IInv
<1> SUFFICES ASSUME Init PROVE IInv
  OBVIOUS
<1> USE KeyFacts
<1>1. Types /\ Discipline /\ NoMissedWake /\ LoadFresh
  BY TaskAssumption, ClearTidAssumption DEF Init, Types, Discipline, NoMissedWake, LoadFresh
<1>2. RefcountExact
  <2>1. \A k \in Key : Holders(k) = {}
    BY DEF Init, Holders
  <2> QED BY <2>1, FS_EmptySet DEF Init, RefcountExact
<1>3. WaitersQueued
  BY DEF Init, WaitersQueued, Elems, Sleepers, Holders
<1> QED BY <1>1, <1>2, <1>3 DEF IInv

LEMMA StoreStep ==
    ASSUME IInv, NEW t \in Task, NEW a \in Addr, NEW v \in Val, Store(t, a, v)
    PROVE  IInv'
<1> USE KeyFacts DEF Store
<1>1. Types' /\ Discipline'
  BY DEF IInv, Types, Discipline
<1>2. RefcountExact' /\ WaitersQueued'
  BY DEF IInv, RefcountExact, WaitersQueued, Sleepers, Holders
<1>3. NoMissedWake' /\ LoadFresh'
  BY DEF IInv, Types, Discipline, NoMissedWake, LoadFresh
<1> QED BY <1>1, <1>2, <1>3 DEF IInv

LEMMA ExitStoreStep ==
    ASSUME IInv, NEW t \in Task, ExitStore(t)
    PROVE  IInv'
<1> USE KeyFacts, ClearTidAssumption DEF ExitStore
<1>1. Types' /\ Discipline'
  BY DEF IInv, Types, Discipline
<1>2. RefcountExact'
  BY DEF IInv, RefcountExact, Holders
<1>3. WaitersQueued'
  BY DEF IInv, Types, WaitersQueued, Sleepers, Holders
<1>4. NoMissedWake' /\ LoadFresh'
  BY DEF IInv, Types, Discipline, NoMissedWake, LoadFresh
<1> QED BY <1>1, <1>2, <1>3, <1>4 DEF IInv

(* futex_get adds the task to the holders of one futex ... *)
LEMMA GetReference ==
    ASSUME IInv, NEW t \in Task, NEW k \in Key, wait[t] \notin Key,
           wait' = [wait EXCEPT ![t] = k], refcount' = [refcount EXCEPT ![k] = @ + 1]
    PROVE  RefcountExact'
<1>1. t \notin Holders(k) /\ Holders(k)' = Holders(k) \cup {t}
  BY DEF IInv, Types, Holders
<1>2. \A j \in Key : j # k => Holders(j)' = Holders(j)
  BY DEF IInv, Types, Holders
<1>3. Cardinality(Holders(k)') = Cardinality(Holders(k)) + 1
  BY <1>1, HoldersFinite, FS_AddElement
<1> QED BY <1>2, <1>3 DEF IInv, Types, RefcountExact

(* ... and futex_put takes it away. *)
LEMMA PutReference ==
    ASSUME IInv, NEW t \in Task, NEW k \in Key, wait[t] = k,
           wait' = [wait EXCEPT ![t] = Nobody], refcount' = [refcount EXCEPT ![k] = @ - 1]
    PROVE  RefcountExact'
<1> USE KeyFacts
<1>1. t \in Holders(k) /\ Holders(k)' = Holders(k) \ {t}
  BY DEF IInv, Types, Holders
<1>2. \A j \in Key : j # k => Holders(j)' = Holders(j)
  BY DEF IInv, Types, Holders
<1>3. Cardinality(Holders(k)') = Cardinality(Holders(k)) - 1
  BY <1>1, HoldersFinite, FS_RemoveElement
<1> QED BY <1>2, <1>3 DEF IInv, Types, RefcountExact

(* A step that leaves the queues and the sleeping tasks alone. *)
LEMMA SameSleepers ==
    ASSUME IInv, queue' = queue, \A j \in Key : Sleepers(j)' = Sleepers(j)
    PROVE  WaitersQueued'
BY DEF IInv, WaitersQueued

(* A step that changes one queue, together with its sleeping tasks. *)
LEMMA OneQueue ==
    ASSUME IInv, NEW k \in Key,
           Elems(queue'[k]) = Sleepers(k)', Distinct(queue'[k]),
           \A j \in Key : j # k => queue'[j] = queue[j] /\ Sleepers(j)' = Sleepers(j)
    PROVE  WaitersQueued'
<1>1. ASSUME NEW j \in Key PROVE Elems(queue'[j]) = Sleepers(j)' /\ Distinct(queue'[j])
  <2>1. CASE j = k
    BY <2>1
  <2>2. CASE j # k
    BY <2>2, QueueFacts
  <2> QED BY <2>1, <2>2
<1> QED BY <1>1 DEF WaitersQueued, Distinct

LEMMA FutexWaitLoadStep ==
    ASSUME IInv, NEW t \in Task, NEW a \in Addr, NEW v \in Val, FutexWaitLoad(t, a, v)
    PROVE  IInv'
<1> USE KeyFacts
<1>1. PICK k \in Key : k = <<MemOf[t], a>>
  OBVIOUS
<1>2. Types' /\ Discipline'
  BY <1>1, TaskAssumption DEF IInv, Types, Discipline, FutexWaitLoad
<1>3. RefcountExact'
  BY <1>1, GetReference DEF IInv, Types, Discipline, FutexWaitLoad
<1>4. WaitersQueued'
  <2>1. \A j \in Key : Sleepers(j)' = Sleepers(j)
    BY <1>1 DEF IInv, Types, Discipline, Sleepers, Holders, FutexWaitLoad
  <2> QED BY <2>1, SameSleepers DEF FutexWaitLoad
<1>5. NoMissedWake' /\ LoadFresh'
  BY <1>1 DEF IInv, Types, Discipline, NoMissedWake, LoadFresh, FutexWaitLoad
<1> QED BY <1>2, <1>3, <1>4, <1>5 DEF IInv

LEMMA FutexWaitFailStep ==
    ASSUME IInv, NEW t \in Task, FutexWaitFail(t)
    PROVE  IInv'
<1> USE KeyFacts
<1>1. PICK k \in Key : k = wait[t]
  BY DEF IInv, Discipline, FutexWaitFail
<1>2. Types' /\ Discipline'
  BY <1>1, TaskAssumption, ClearTidAssumption DEF IInv, Types, Discipline, FutexWaitFail
<1>3. RefcountExact'
  BY <1>1, PutReference DEF FutexWaitFail
<1>4. WaitersQueued'
  <2>1. \A j \in Key : Sleepers(j)' = Sleepers(j)
    BY <1>1 DEF IInv, Types, Discipline, Sleepers, Holders, FutexWaitFail
  <2> QED BY <2>1, SameSleepers DEF FutexWaitFail
<1>5. NoMissedWake' /\ LoadFresh'
  BY <1>1 DEF IInv, Types, Discipline, NoMissedWake, LoadFresh, FutexWaitFail
<1> QED BY <1>2, <1>3, <1>4, <1>5 DEF IInv

LEMMA FutexWaitEnqueueStep ==
    ASSUME IInv, NEW t \in Task, FutexWaitEnqueue(t)
    PROVE  IInv'
<1> USE KeyFacts
<1>1. PICK k \in Key : k = wait[t]
  BY DEF IInv, Discipline, FutexWaitEnqueue
<1>2. /\ Append(queue[k], t) \in Seq(Task)
      /\ Elems(Append(queue[k], t)) = Sleepers(k) \cup {t}
      /\ Distinct(Append(queue[k], t))
  <2>1. t \notin Sleepers(k)
    BY DEF Sleepers, FutexWaitEnqueue
  <2> QED BY <2>1, QueueFacts, AppendElems
<1>3. Types' /\ Discipline'
  BY <1>1, <1>2, TaskAssumption DEF IInv, Types, Discipline, FutexWaitEnqueue
<1>4. RefcountExact'
  BY DEF IInv, RefcountExact, Holders, FutexWaitEnqueue
<1>5. WaitersQueued'
  <2>1. Sleepers(k)' = Sleepers(k) \cup {t}
    BY <1>1 DEF IInv, Types, Discipline, Sleepers, Holders, FutexWaitEnqueue
  <2>2. \A j \in Key : j # k => Sleepers(j)' = Sleepers(j)
    BY <1>1 DEF IInv, Types, Discipline, Sleepers, Holders, FutexWaitEnqueue
  <2>3. queue'[k] = Append(queue[k], t) /\ \A j \in Key : j # k => queue'[j] = queue[j]
    BY <1>1 DEF IInv, Types, FutexWaitEnqueue
  <2> QED BY <1>2, <2>1, <2>2, <2>3, OneQueue
<1>6. NoMissedWake' /\ LoadFresh'
  BY <1>1 DEF IInv, Types, Discipline, NoMissedWake, LoadFresh, FutexWaitEnqueue
<1> QED BY <1>3, <1>4, <1>5, <1>6 DEF IInv

LEMMA FutexWaitReturnStep ==
    ASSUME IInv, NEW t \in Task, FutexWaitReturn(t)
    PROVE  IInv'
<1> USE KeyFacts
<1>1. PICK k \in Key : k = wait[t]
  BY DEF IInv, Discipline, FutexWaitReturn
<1>2. /\ Without(queue[k], t) \in Seq(Task)
      /\ Elems(Without(queue[k], t)) = Sleepers(k) \ {t}
      /\ Distinct(Without(queue[k], t))
  BY QueueFacts, WithoutElems
<1>3. Types' /\ Discipline'
  BY <1>1, <1>2, TaskAssumption, ClearTidAssumption DEF IInv, Types, Discipline, FutexWaitReturn
<1>4. RefcountExact'
  BY <1>1, PutReference DEF FutexWaitReturn
<1>5. WaitersQueued'
  <2>1. Sleepers(k)' = Sleepers(k) \ {t}
    BY <1>1 DEF IInv, Types, Discipline, Sleepers, Holders, FutexWaitReturn
  <2>2. \A j \in Key : j # k => Sleepers(j)' = Sleepers(j)
    BY <1>1 DEF IInv, Types, Discipline, Sleepers, Holders, FutexWaitReturn
  <2>3. queue'[k] = Without(queue[k], t) /\ \A j \in Key : j # k => queue'[j] = queue[j]
    BY <1>1 DEF IInv, Types, FutexWaitReturn
  <2> QED BY <1>2, <2>1, <2>2, <2>3, OneQueue
<1>6. NoMissedWake' /\ LoadFresh'
  BY <1>1 DEF IInv, Types, Discipline, NoMissedWake, LoadFresh, FutexWaitReturn
<1> QED BY <1>3, <1>4, <1>5, <1>6 DEF IInv
(* The two parts of a queue that a wake makes. *)
LEMMA WakeFacts ==
    ASSUME IInv, NEW k \in Key, NEW n \in Nat
    PROVE  /\ Woken(k, n) \in Seq(Task) /\ Rest(k, n) \in Seq(Task)
           /\ Distinct(Rest(k, n))
           /\ Elems(Woken(k, n)) \cup Elems(Rest(k, n)) = Sleepers(k)
           /\ Elems(Woken(k, n)) \cap Elems(Rest(k, n)) = {}
<1>1. Least(n, Len(queue[k])) \in 0..Len(queue[k])
  BY QueueFacts DEF Least
<1> QED BY <1>1, QueueFacts, SplitElems DEF Woken, Rest

(* Sleepers of one futex do not sleep on another. *)
LEMMA SleepersDisjoint ==
    ASSUME NEW j, NEW k, j # k
    PROVE  Sleepers(j) \cap Sleepers(k) = {}
BY DEF Sleepers, Holders

LEMMA SettleFacts ==
    ASSUME NEW k, NEW q
    PROVE  /\ Settle(k, q) \subseteq owed
           /\ \A j : j \in owed /\ j \notin Settle(k, q) => j = k /\ q = <<>>
BY DEF Settle

LEMMA WakeFromStep ==
    ASSUME IInv, NEW t \in Task, NEW k \in Key, NEW n \in Nat, NEW from, NEW to,
           \/ from = "user" /\ to = "user"
           \/ from = "exiting" /\ to = "exited",
           WakeFrom(t, k, n, from, to)
    PROVE  IInv'
<1> USE KeyFacts
<1> DEFINE w == Elems(Woken(k, n))
<1>1. /\ w \cup Elems(Rest(k, n)) = Sleepers(k) /\ w \cap Elems(Rest(k, n)) = {}
      /\ Rest(k, n) \in Seq(Task) /\ Distinct(Rest(k, n))
  BY WakeFacts
<1>2. /\ notified' = notified \cup w /\ queue' = [queue EXCEPT ![k] = Rest(k, n)]
      /\ pc[t] = from /\ pc' = [pc EXCEPT ![t] = to] /\ futex_lock = Nobody
      /\ owed' = Settle(k, Rest(k, n))
      /\ UNCHANGED <<futex_lock, refcount, wait, val, word, requeued>>
  BY DEF WakeFrom
<1> HIDE DEF w
<1>3. w \subseteq Task /\ \A u \in w : pc[u] = "wait" /\ wait[u] = k
  BY <1>1 DEF Sleepers, Holders
<1>4. Types' /\ Discipline'
  <2>1. owed' \subseteq Key
    BY <1>2, SettleFacts DEF IInv, Types
  <2> QED BY <1>1, <1>2, <1>3, <2>1, TaskAssumption DEF IInv, Types, Discipline
<1>5. RefcountExact'
  BY <1>2 DEF IInv, RefcountExact, Holders
<1>6. Sleepers(k)' = Elems(Rest(k, n))
  <2>1. Sleepers(k)' = Sleepers(k) \ w
    BY <1>2 DEF IInv, Types, Sleepers, Holders
  <2> QED BY <1>1, <2>1
<1>7. WaitersQueued'
  <2>1. \A j \in Key : j # k => Sleepers(j)' = Sleepers(j)
    BY <1>2, <1>3 DEF IInv, Types, Sleepers, Holders
  <2>2. queue'[k] = Rest(k, n) /\ \A j \in Key : j # k => queue'[j] = queue[j]
    BY <1>2 DEF IInv, Types
  <2> QED BY <1>1, <1>6, <2>1, <2>2, OneQueue
<1>8. NoMissedWake'
  <2> SUFFICES ASSUME NEW u \in Task, pc'[u] = "wait", u \notin notified' \cup requeued',
                      wait'[u] \notin owed'
               PROVE  word'[wait'[u]] = val'[u]
    BY DEF NoMissedWake
  <2>1. pc[u] = "wait" /\ u \notin notified \cup requeued
    BY <1>2 DEF IInv, Types
  <2>2. CASE wait[u] \notin owed
    BY <1>2, <2>1, <2>2 DEF IInv, NoMissedWake
  <2>3. CASE wait[u] \in owed
    <3>1. wait[u] = k /\ Rest(k, n) = <<>>
      BY <1>2, <2>3, SettleFacts
    <3>2. u \in Sleepers(k)'
      BY <1>2, <3>1 DEF Sleepers, Holders
    <3> QED BY <1>6, <3>1, <3>2 DEF Elems
  <2> QED BY <2>2, <2>3
<1>9. LoadFresh'
  BY <1>2, TaskAssumption DEF IInv, Types, Discipline, LoadFresh
<1> QED BY <1>4, <1>5, <1>7, <1>8, <1>9 DEF IInv

(* The references of m waiters move with them. *)
LEMMA MoveReferencesExact ==
    ASSUME IInv, NEW k \in Key, NEW k2 \in Key, k # k2, NEW M \in SUBSET Holders(k),
           NEW m \in Nat, Cardinality(M) = m,
           refcount' = MoveReferences(k, k2, m), wait' = MoveWaiters(M, k2)
    PROVE  RefcountExact'
<1>1. Holders(k)' = Holders(k) \ M
  BY DEF IInv, Types, Holders, MoveWaiters
<1>2. Holders(k2)' = Holders(k2) \cup M /\ Holders(k2) \cap M = {}
  BY DEF IInv, Types, Holders, MoveWaiters
<1>3. \A j \in Key : j # k /\ j # k2 => Holders(j)' = Holders(j)
  BY DEF IInv, Types, Holders, MoveWaiters
<1>4. IsFiniteSet(M)
  BY HoldersFinite, FS_Subset
<1>5. Cardinality(Holders(k) \ M) = Cardinality(Holders(k)) - m
  <2>1. Holders(k) \cap M = M
    OBVIOUS
  <2> QED BY <2>1, HoldersFinite, FS_Difference
<1>6. Cardinality(Holders(k2) \cup M) = Cardinality(Holders(k2)) + m
  <2>1. Cardinality(Holders(k2) \cap M) = 0
    BY <1>2, FS_EmptySet
  <2> QED BY <1>4, <2>1, HoldersFinite, FS_Union
<1>7. /\ refcount'[k] = refcount[k] - m /\ refcount'[k2] = refcount[k2] + m
      /\ \A j \in Key : j # k /\ j # k2 => refcount'[j] = refcount[j]
  BY DEF IInv, Types, MoveReferences
<1> QED BY <1>1, <1>2, <1>3, <1>5, <1>6, <1>7 DEF IInv, RefcountExact
(* The first loop of a requeue, and a second one that finds its own futex. *)
LEMMA RequeueSameStep ==
    ASSUME IInv, NEW t \in Task, NEW a \in Addr, NEW n \in Nat, NEW m \in Nat,
           FutexRequeue(t, a, n, m, a)
    PROVE  IInv'
<1> USE KeyFacts
<1>1. PICK k \in Key : k = <<MemOf[t], a>>
  OBVIOUS
<1> DEFINE w == Elems(Woken(k, n))
           r == Rotate(Rest(k, n), m)
<1>2. /\ w \cup Elems(Rest(k, n)) = Sleepers(k) /\ w \cap Elems(Rest(k, n)) = {}
      /\ r \in Seq(Task) /\ Distinct(r) /\ Elems(r) = Elems(Rest(k, n))
  BY WakeFacts, RotateElems
<1>3. /\ notified' = notified \cup w /\ queue' = [queue EXCEPT ![k] = r]
      /\ pc[t] = "user" /\ futex_lock = Nobody
      /\ owed' = Settle(k, Rest(k, n))
      /\ UNCHANGED <<futex_lock, refcount, pc, wait, val, word, requeued>>
  BY <1>1 DEF FutexRequeue
<1> HIDE DEF w, r
<1>4. w \subseteq Task /\ \A u \in w : pc[u] = "wait" /\ wait[u] = k
  BY <1>2 DEF Sleepers, Holders
<1>5. Types' /\ Discipline'
  <2>1. owed' \subseteq Key
    BY <1>3, SettleFacts DEF IInv, Types
  <2> QED BY <1>2, <1>3, <1>4, <2>1 DEF IInv, Types, Discipline
<1>6. RefcountExact'
  BY <1>3 DEF IInv, RefcountExact, Holders
<1>7. Sleepers(k)' = Elems(Rest(k, n))
  <2>1. Sleepers(k)' = Sleepers(k) \ w
    BY <1>3 DEF Sleepers, Holders
  <2> QED BY <1>2, <2>1
<1>8. WaitersQueued'
  <2>1. \A j \in Key : j # k => Sleepers(j)' = Sleepers(j)
    BY <1>3, <1>4 DEF Sleepers, Holders
  <2>2. queue'[k] = r /\ \A j \in Key : j # k => queue'[j] = queue[j]
    BY <1>3 DEF IInv, Types
  <2> QED BY <1>2, <1>7, <2>1, <2>2, OneQueue
<1>9. NoMissedWake'
  <2> SUFFICES ASSUME NEW u \in Task, pc[u] = "wait", u \notin notified' \cup requeued,
                      wait[u] \notin owed'
               PROVE  word[wait[u]] = val[u]
    BY <1>3 DEF NoMissedWake
  <2>1. CASE wait[u] \notin owed
    BY <1>3, <2>1 DEF IInv, NoMissedWake
  <2>2. CASE wait[u] \in owed
    <3>1. wait[u] = k /\ Rest(k, n) = <<>>
      BY <1>3, <2>2, SettleFacts
    <3>2. u \in Sleepers(k)'
      BY <1>3, <3>1 DEF Sleepers, Holders
    <3> QED BY <1>7, <3>1, <3>2 DEF Elems
  <2> QED BY <2>1, <2>2
<1>10. LoadFresh'
  BY <1>3, TaskAssumption DEF IInv, Types, Discipline, LoadFresh
<1> QED BY <1>5, <1>6, <1>8, <1>9, <1>10 DEF IInv

(* A requeue to another futex. *)
LEMMA RequeueOtherStep ==
    ASSUME IInv, NEW t \in Task, NEW a \in Addr, NEW a2 \in Addr, a # a2,
           NEW n \in Nat, NEW m \in Nat, FutexRequeue(t, a, n, m, a2)
    PROVE  IInv'
<1> USE KeyFacts
<1>1. PICK k \in Key, k2 \in Key : k = <<MemOf[t], a>> /\ k2 = <<MemOf[t], a2>>
  OBVIOUS
<1>2. k # k2
  BY <1>1
<1> DEFINE w == Elems(Woken(k, n))
           rest == Rest(k, n)
           c == Least(m, Len(rest))
           moved == SubSeq(rest, 1, c)
           kept == SubSeq(rest, c + 1, Len(rest))
           M == Elems(moved)
           K == Elems(kept)
<1>3. /\ rest \in Seq(Task) /\ Distinct(rest)
      /\ w \cup Elems(rest) = Sleepers(k) /\ w \cap Elems(rest) = {}
  BY WakeFacts
<1>4. /\ pc[t] = "user" /\ futex_lock = Nobody
      /\ notified' = notified \cup w
      /\ queue' = [queue EXCEPT ![k] = kept, ![k2] = @ \o moved]
      /\ refcount' = MoveReferences(k, k2, c)
      /\ wait' = MoveWaiters(M, k2)
      /\ requeued' = requeued \cup M
      /\ owed' = Settle(k, kept)
      /\ UNCHANGED <<futex_lock, pc, val, word>>
  BY <1>1, <1>2 DEF FutexRequeue
<1> HIDE DEF w, rest
<1>5. c \in 0..Len(rest) /\ c \in Nat
  BY <1>3 DEF Least
<1> HIDE DEF c
<1>6. /\ moved \in Seq(Task) /\ kept \in Seq(Task) /\ Len(moved) = c
      /\ M \cup K = Elems(rest) /\ M \cap K = {}
      /\ Distinct(moved) /\ Distinct(kept)
  BY <1>3, <1>5, SplitElems
<1>7. Cardinality(M) = c
  BY <1>6, DistinctCardinality
<1> HIDE DEF moved, kept
<1>8. /\ queue[k2] \o moved \in Seq(Task)
      /\ Elems(queue[k2] \o moved) = Sleepers(k2) \cup M
      /\ Distinct(queue[k2] \o moved)
  <2>1. Sleepers(k2) \cap M = {}
    BY <1>2, <1>3, <1>6, SleepersDisjoint
  <2> DEFINE q == queue[k2]
  <2>2. q \in Seq(Task) /\ Distinct(q) /\ Elems(q) = Sleepers(k2)
    BY QueueFacts
  <2>3. moved \in Seq(Task) /\ Distinct(moved) /\ Elems(q) \cap Elems(moved) = {}
    BY <1>6, <2>1, <2>2
  <2> HIDE DEF q
  <2>4. q \o moved \in Seq(Task) /\ Elems(q \o moved) = Elems(q) \cup Elems(moved)
        /\ Distinct(q \o moved)
    BY ONLY <2>2, <2>3, JoinElems
  <2> QED BY <2>2, <2>4 DEF q
<1> HIDE DEF M, K
<1>9. /\ w \subseteq Sleepers(k) /\ M \subseteq Sleepers(k)
      /\ w \cap M = {} /\ K = Sleepers(k) \ (w \cup M)
  BY <1>3, <1>6
<1>10. \A u \in w \cup M : u \in Task /\ pc[u] = "wait" /\ wait[u] = k /\ u \notin notified
  BY <1>9 DEF Sleepers, Holders
<1>11. \A u \in Task : wait'[u] = IF u \in M THEN k2 ELSE wait[u]
  BY <1>4 DEF MoveWaiters
<1>12. Types'
  <2>1. owed' \subseteq Key
    BY <1>4, SettleFacts DEF IInv, Types
  <2>2. refcount' \in [Key -> Int]
    <3>1. refcount \in [Key -> Int] /\ c \in Int
      BY <1>5 DEF IInv, Types
    <3>2. MoveReferences(k, k2, c) \in [Key -> Int]
      BY <3>1 DEF MoveReferences
    <3> QED BY <1>4, <3>2
  <2>3. wait' \in [Task -> Key \cup {Nobody}]
    BY <1>4 DEF IInv, Types, MoveWaiters
  <2>4. queue' \in [Key -> Seq(Task)]
    BY <1>4, <1>6, <1>8 DEF IInv, Types
  <2>5. notified' \subseteq Task /\ requeued' \subseteq Task
    BY <1>4, <1>10 DEF IInv, Types
  <2> QED BY <1>4, <2>1, <2>2, <2>3, <2>4, <2>5 DEF IInv, Types
<1>13. Discipline'
  BY <1>4, <1>10, <1>11 DEF IInv, Types, Discipline
<1>14. RefcountExact'
  <2>1. M \subseteq Holders(k)
    BY <1>9 DEF Sleepers
  <2> QED BY <1>2, <1>4, <1>5, <1>7, <2>1, MoveReferencesExact
<1>15. Sleepers(k)' = K
  <2>1. Sleepers(k)' = Sleepers(k) \ (w \cup M)
    BY <1>2, <1>4, <1>10, <1>11 DEF Sleepers, Holders
  <2> QED BY <1>9, <2>1
<1>16. WaitersQueued'
  <2>1. Sleepers(k2)' = Sleepers(k2) \cup M
    BY <1>2, <1>4, <1>9, <1>10, <1>11 DEF Sleepers, Holders
  <2>2. \A j \in Key : j # k /\ j # k2 => Sleepers(j)' = Sleepers(j)
    BY <1>4, <1>10, <1>11 DEF Sleepers, Holders
  <2>3. /\ queue'[k] = kept /\ queue'[k2] = queue[k2] \o moved
        /\ \A j \in Key : j # k /\ j # k2 => queue'[j] = queue[j]
    BY <1>2, <1>4 DEF IInv, Types
  <2>4. ASSUME NEW j \in Key PROVE Elems(queue'[j]) = Sleepers(j)' /\ Distinct(queue'[j])
    <3>1. CASE j = k
      BY <1>6, <1>15, <2>3, <3>1 DEF K
    <3>2. CASE j = k2
      BY <1>8, <2>1, <2>3, <3>2
    <3>3. CASE j # k /\ j # k2
      BY <2>2, <2>3, <3>3, QueueFacts
    <3> QED BY <3>1, <3>2, <3>3
  <2> QED BY <2>4 DEF WaitersQueued, Distinct
<1>17. NoMissedWake'
  <2> SUFFICES ASSUME NEW u \in Task, pc[u] = "wait", u \notin notified' \cup requeued',
                      wait'[u] \notin owed'
               PROVE  word[wait'[u]] = val[u]
    BY <1>4 DEF NoMissedWake
  <2>1. wait'[u] = wait[u] /\ u \notin notified \cup requeued
    BY <1>4, <1>11
  <2>2. CASE wait[u] \notin owed
    BY <2>1, <2>2 DEF IInv, NoMissedWake
  <2>3. CASE wait[u] \in owed
    <3>1. wait[u] = k /\ kept = <<>>
      BY <1>4, <2>1, <2>3, SettleFacts
    <3>2. u \in Sleepers(k)'
      BY <1>4, <2>1, <3>1 DEF Sleepers, Holders
    <3>3. K = {}
      BY <3>1 DEF Elems, K
    <3> QED BY <1>15, <3>2, <3>3
  <2> QED BY <2>1, <2>2, <2>3
<1>18. LoadFresh'
  BY <1>4, TaskAssumption DEF IInv, Types, Discipline, LoadFresh
<1> QED BY <1>12, <1>13, <1>14, <1>16, <1>17, <1>18 DEF IInv

LEMMA StepIInv == IInv /\ [Next]_vars => IInv'
<1> SUFFICES ASSUME IInv, [Next]_vars PROVE IInv'
  OBVIOUS
<1> USE KeyFacts
<1>1. CASE UNCHANGED vars
  <2>1. \A j \in Key : Sleepers(j)' = Sleepers(j) /\ Holders(j)' = Holders(j)
    BY <1>1 DEF vars, Sleepers, Holders
  <2>2. WaitersQueued' /\ RefcountExact'
    BY <1>1, <2>1, SameSleepers DEF vars, IInv, RefcountExact
  <2>3. Types' /\ Discipline'
    BY <1>1 DEF vars, IInv, Types, Discipline
  <2>4. NoMissedWake' /\ LoadFresh'
    BY <1>1 DEF vars, IInv, NoMissedWake, LoadFresh
  <2> QED BY <2>2, <2>3, <2>4 DEF IInv
<1>2. ASSUME NEW t \in Task, NEW a \in Addr, NEW v \in Val, Store(t, a, v) PROVE IInv'
  BY <1>2, StoreStep
<1>3. ASSUME NEW t \in Task, NEW a \in Addr, NEW v \in Val, FutexWaitLoad(t, a, v) PROVE IInv'
  BY <1>3, FutexWaitLoadStep
<1>4. ASSUME NEW t \in Task, FutexWaitFail(t) \/ FutexWaitEnqueue(t) \/ FutexWaitReturn(t) PROVE IInv'
  BY <1>4, FutexWaitFailStep, FutexWaitEnqueueStep, FutexWaitReturnStep
<1>5. ASSUME NEW t \in Task, NEW a \in Addr, NEW n \in 0..MaxCount, FutexWake(t, a, n) PROVE IInv'
  BY <1>5, MaxCountAssumption, WakeFromStep DEF FutexWake
<1>6. ASSUME NEW t \in Task, NEW a \in Addr, NEW a2 \in Addr, NEW n \in 0..MaxCount,
             NEW m \in 0..MaxCount, FutexRequeue(t, a, n, m, a2)
      PROVE  IInv'
  <2>1. n \in Nat /\ m \in Nat
    BY MaxCountAssumption
  <2> QED BY <1>6, <2>1, RequeueSameStep, RequeueOtherStep
<1>7. ASSUME NEW t \in Task, ExitStore(t) PROVE IInv'
  BY <1>7, ExitStoreStep
<1>8. ASSUME NEW t \in Task, ExitWake(t) PROVE IInv'
  <2>1. <<MemOf[t], ClearTid[t]>> \in Key
    BY <1>8 DEF IInv, Discipline, ExitWake, WakeFrom
  <2> QED BY <1>8, <2>1, WakeFromStep DEF ExitWake
<1> QED BY <1>1, <1>2, <1>3, <1>4, <1>5, <1>6, <1>7, <1>8 DEF Next

-----------------------------------------------------------------------------

(* Everything IInv says follows for the properties the runs check. *)
LEMMA IInvImplies ==
    IInv => TypeOK /\ RefcountExact /\ QueueWithinRefcount /\ WaitersQueued /\ NoMissedWake
<1> SUFFICES ASSUME IInv
             PROVE  TypeOK /\ RefcountExact /\ QueueWithinRefcount /\ WaitersQueued /\ NoMissedWake
  OBVIOUS
<1>1. TypeOK
  <2>1. \A k \in Key : refcount[k] \in Nat
    BY HoldersFinite DEF IInv, RefcountExact
  <2>2. refcount \in [Key -> Nat]
    BY <2>1 DEF IInv, Types
  <2> QED BY <2>2 DEF IInv, Types, TypeOK
<1>2. QueueWithinRefcount
  <2> SUFFICES ASSUME NEW k \in Key PROVE Len(queue[k]) <= refcount[k]
    BY DEF QueueWithinRefcount
  <2>1. Cardinality(Sleepers(k)) = Len(queue[k])
    BY QueueFacts, DistinctCardinality
  <2>2. Cardinality(Sleepers(k)) <= Cardinality(Holders(k))
    <3>1. Sleepers(k) \subseteq Holders(k)
      BY DEF Sleepers
    <3> QED BY <3>1, HoldersFinite, FS_Subset
  <2> QED BY <2>1, <2>2 DEF IInv, RefcountExact
<1> QED BY <1>1, <1>2 DEF IInv

LEMMA Invariance == Spec => []IInv
<1>1. Init => IInv
  BY InitIInv
<1>2. IInv /\ [Next]_vars => IInv'
  BY StepIInv
<1> QED BY <1>1, <1>2, PTL DEF Spec

(* Reference counts stay natural numbers and queues hold tasks, for every  *)
(* interleaving of futex calls, timeouts and exits.                        *)
THEOREM TypeCorrect == Spec => []TypeOK
<1>1. IInv => TypeOK
  BY IInvImplies
<1> QED BY <1>1, Invariance, PTL

(* The reference count of a futex is the number of tasks inside futex_wait *)
(* that point to it, so futex_put_unlocked frees it exactly when the last  *)
(* one leaves, requeues included.                                          *)
THEOREM ReferencesCounted == Spec => []RefcountExact
<1>1. IInv => RefcountExact
  BY IInvImplies
<1> QED BY <1>1, Invariance, PTL

(* The two assertions of futex.c never fail. *)
THEOREM AssertionsHold == Spec => []QueueWithinRefcount
<1>1. IInv => QueueWithinRefcount
  BY IInvImplies
<1> QED BY <1>1, Invariance, PTL

(* No wake or requeue loses a waiter. *)
THEOREM NoWaiterLost == Spec => []WaitersQueued
<1>1. IInv => WaitersQueued
  BY IInvImplies
<1> QED BY <1>1, Invariance, PTL

(* A waiter sleeps past a store only while its wake is still due. *)
THEOREM WakesNotMissed == Spec => []NoMissedWake
<1>1. IInv => NoMissedWake
  BY IInvImplies
<1> QED BY <1>1, Invariance, PTL
=============================================================================
