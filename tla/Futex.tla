------------------------------- MODULE Futex -------------------------------
(***************************************************************************)
(* The futex table of kernel/futex.c: FUTEX_WAIT, FUTEX_WAKE and           *)
(* FUTEX_REQUEUE over a hash of reference counted futexes, each with a     *)
(* queue of waiters.  futex_lock protects the table and the queues; user   *)
(* code stores to the futex words without it.                              *)
(*                                                                         *)
(* A futex is named by its key <<mem, addr>>: futex_get_unlocked keeps at  *)
(* most one per key, and a refcount of 0 stands for "not in the hash".     *)
(* Allocation is assumed to succeed.                                       *)
(***************************************************************************)
EXTENDS Integers, Sequences, FiniteSets

CONSTANTS
    Task,       \* the threads that call sys_futex
    Mem,        \* address spaces
    Addr,       \* addresses used as futex words
    Unmapped,   \* the addresses mem_ptr finds no page for
    Val,        \* values of a futex word
    MemOf,      \* current->mem of each task
    Zero,       \* the value do_exit stores at clear_tid
    ClearTid,   \* clear_tid of each task, Nobody for a task without one
    MaxCount,   \* bound on wake_max and requeue_max
    Nobody      \* no task, no futex

ASSUME TaskAssumption == IsFiniteSet(Task) /\ Nobody \notin Task
ASSUME MemAssumption == MemOf \in [Task -> Mem] /\ Nobody \notin Mem \X Addr
ASSUME UnmappedAssumption == Unmapped \subseteq Addr
ASSUME ClearTidAssumption == Zero \in Val /\ ClearTid \in [Task -> Addr \cup {Nobody}]
ASSUME MaxCountAssumption == MaxCount \in Nat

VARIABLES
    futex_lock, \* the holder of futex_lock across a step, or Nobody
    refcount,   \* futex->refcount of each key
    queue,      \* futex->queue of each key: waiting tasks, oldest first
    pc,         \* where in futex_wait or do_exit each task is
    wait,       \* wait.futex: the futex the task holds a reference to
    val,        \* the val argument of the FUTEX_WAIT in progress
    notified,   \* tasks whose wait.cond was broadcast since they began to wait
    word,       \* the futex words in user memory
    requeued,   \* history: waiters moved away from the futex they compared
    owed        \* history: keys stored to since their queue was last emptied

vars == <<futex_lock, refcount, queue, pc, wait, val, notified, word, requeued, owed>>

Key == Mem \X Addr
Elems(s) == {s[i] : i \in 1..Len(s)}
Least(m, n) == IF m < n THEN m ELSE n
Holders(k) == {t \in Task : wait[t] = k}

Init ==
    /\ futex_lock = Nobody
    /\ refcount = [k \in Key |-> 0]
    /\ queue = [k \in Key |-> <<>>]
    /\ pc = [t \in Task |-> "user"]
    /\ wait = [t \in Task |-> Nobody]
    /\ val = [t \in Task |-> Zero]
    /\ notified = {}
    /\ word \in [Key -> Val]
    /\ requeued = {}
    /\ owed = {}

(* User code stores to a futex word; no kernel lock is involved. *)
Store(t, a, v) ==
    LET k == <<MemOf[t], a>> IN
    /\ pc[t] = "user"
    /\ a \notin Unmapped
    /\ word' = [word EXCEPT ![k] = v]
    /\ owed' = owed \cup {k}
    /\ UNCHANGED <<futex_lock, refcount, queue, pc, wait, val, notified, requeued>>

(* Mutant: the word is read before futex_lock is taken to join the queue. *)
FutexWaitLoadUnlocked(t, a, v) ==
    LET k == <<MemOf[t], a>> IN
    /\ pc[t] = "user"
    /\ futex_lock = Nobody
    /\ refcount' = [refcount EXCEPT ![k] = @ + 1]
    /\ wait' = [wait EXCEPT ![t] = k]
    /\ val' = [val EXCEPT ![t] = v]
    /\ pc' = [pc EXCEPT ![t] = IF a \in Unmapped \/ word[k] # v THEN "fail" ELSE "load"]
    /\ UNCHANGED <<futex_lock, queue, notified, word, requeued, owed>>

(* futex_wait up to futex_load: take the lock, get the futex, read the word. *)
FutexWaitLoad(t, a, v) ==
    LET k == <<MemOf[t], a>> IN
    /\ pc[t] = "user"
    /\ futex_lock = Nobody
    /\ futex_lock' = t
    /\ refcount' = [refcount EXCEPT ![k] = @ + 1]
    /\ wait' = [wait EXCEPT ![t] = k]
    /\ val' = [val EXCEPT ![t] = v]
    /\ pc' = [pc EXCEPT ![t] = IF a \in Unmapped \/ word[k] # v THEN "fail" ELSE "load"]
    /\ UNCHANGED <<queue, notified, word, requeued, owed>>

(* Mutant: the error path puts the futex twice. *)
FutexWaitFailTwice(t) ==
    /\ pc[t] = "fail"
    /\ refcount' = [refcount EXCEPT ![wait[t]] = @ - 2]
    /\ wait' = [wait EXCEPT ![t] = Nobody]
    /\ pc' = [pc EXCEPT ![t] = "user"]
    /\ val' = [val EXCEPT ![t] = Zero]
    /\ futex_lock' = Nobody
    /\ UNCHANGED <<queue, notified, word, requeued, owed>>

(* EFAULT (no page) or EAGAIN (another value): put the futex again. *)
FutexWaitFail(t) ==
    /\ pc[t] = "fail"
    /\ refcount' = [refcount EXCEPT ![wait[t]] = @ - 1]
    /\ wait' = [wait EXCEPT ![t] = Nobody]
    /\ pc' = [pc EXCEPT ![t] = "user"]
    /\ val' = [val EXCEPT ![t] = Zero]
    /\ futex_lock' = Nobody
    /\ UNCHANGED <<queue, notified, word, requeued, owed>>

(* The word had the value: join the queue and release the lock in wait_for. *)
FutexWaitEnqueue(t) ==
    /\ pc[t] = "load"
    /\ queue' = [queue EXCEPT ![wait[t]] = Append(@, t)]
    /\ pc' = [pc EXCEPT ![t] = "wait"]
    /\ futex_lock' = Nobody
    /\ UNCHANGED <<refcount, wait, val, notified, word, requeued, owed>>

(* Mutant: a waiter that times out stays on the queue. *)
WithoutNothing(q, t) == q

(* list_remove_safe on a queue that may or may not hold the task. *)
Without(q, t) ==
    IF t \in Elems(q)
    THEN LET i == CHOOSE j \in 1..Len(q) : q[j] = t
         IN  SubSeq(q, 1, i - 1) \o SubSeq(q, i + 1, Len(q))
    ELSE q

(* Mutant: wait_for goes back to sleep unless the task is on the queue. *)
FutexWaitReturnQueued(t) ==
    /\ pc[t] = "wait"
    /\ futex_lock = Nobody
    /\ t \in Elems(queue[wait[t]])
    /\ queue' = [queue EXCEPT ![wait[t]] = Without(@, t)]
    /\ refcount' = [refcount EXCEPT ![wait[t]] = @ - 1]
    /\ wait' = [wait EXCEPT ![t] = Nobody]
    /\ pc' = [pc EXCEPT ![t] = "user"]
    /\ notified' = notified \ {t}
    /\ requeued' = requeued \ {t}
    /\ val' = [val EXCEPT ![t] = Zero]
    /\ UNCHANGED <<futex_lock, word, owed>>

(* wait_for returns: notified, timed out or spuriously.  The task takes    *)
(* the lock again, leaves whatever queue it is on and puts the futex a     *)
(* requeue may have given it.                                              *)
FutexWaitReturn(t) ==
    /\ pc[t] = "wait"
    /\ futex_lock = Nobody
    /\ queue' = [queue EXCEPT ![wait[t]] = Without(@, t)]
    /\ refcount' = [refcount EXCEPT ![wait[t]] = @ - 1]
    /\ wait' = [wait EXCEPT ![t] = Nobody]
    /\ pc' = [pc EXCEPT ![t] = "user"]
    /\ notified' = notified \ {t}
    /\ requeued' = requeued \ {t}
    /\ val' = [val EXCEPT ![t] = Zero]
    /\ UNCHANGED <<futex_lock, word, owed>>

(* A store no longer owes a wake once the queue it concerns has been emptied. *)
Settle(k, q) == IF q = <<>> THEN owed \ {k} ELSE owed

(* Mutant: the woken waiters are notified but stay on the queue. *)
RestLinked(k, wake_max) == queue[k]

(* The first loop of futex_wakelike: notify and unlink the first wake_max  *)
(* waiters.  They keep their reference until they return.                  *)
Woken(k, wake_max) == SubSeq(queue[k], 1, Least(wake_max, Len(queue[k])))
Rest(k, wake_max) == SubSeq(queue[k], Least(wake_max, Len(queue[k])) + 1, Len(queue[k]))

(* futex_wakelike without a requeue, on behalf of a task that is at "from". *)
WakeFrom(t, k, wake_max, from, to) ==
    /\ pc[t] = from
    /\ futex_lock = Nobody
    /\ pc' = [pc EXCEPT ![t] = to]
    /\ notified' = notified \cup Elems(Woken(k, wake_max))
    /\ queue' = [queue EXCEPT ![k] = Rest(k, wake_max)]
    /\ owed' = Settle(k, Rest(k, wake_max))
    /\ UNCHANGED <<futex_lock, refcount, wait, val, word, requeued>>

FutexWake(t, a, wake_max) == WakeFrom(t, <<MemOf[t], a>>, wake_max, "user", "user")

(* list_for_each_entry_safe moving the head of a list to the tail of the   *)
(* same list: with two waiters or more the cursor never meets the end, so  *)
(* the loop runs requeue_max times.                                        *)
Rotate(q, n) ==
    IF Len(q) < 2 THEN q
    ELSE LET r == n % Len(q) IN SubSeq(q, r + 1, Len(q)) \o SubSeq(q, 1, r)

(* Mutant: a requeue moves the waiters but not their references. *)
MoveReferencesNot(k, k2, m) == refcount

(* The references and the wait.futex of the waiters a requeue moves. *)
MoveReferences(k, k2, m) == [refcount EXCEPT ![k] = @ - m, ![k2] = @ + m]
MoveWaiters(moved, k2) == [u \in Task |-> IF u \in moved THEN k2 ELSE wait[u]]

(* futex_wakelike(FUTEX_REQUEUE): wake as above, then move up to           *)
(* requeue_max of the others, with their references, to the second futex.  *)
FutexRequeue(t, a, wake_max, requeue_max, a2) ==
    LET k == <<MemOf[t], a>>
        k2 == <<MemOf[t], a2>>
        rest == Rest(k, wake_max)
        m == Least(requeue_max, Len(rest))
        moved == SubSeq(rest, 1, m)
        kept == SubSeq(rest, m + 1, Len(rest)) IN
    /\ pc[t] = "user"
    /\ futex_lock = Nobody
    /\ notified' = notified \cup Elems(Woken(k, wake_max))
    /\ IF k2 = k
       THEN /\ queue' = [queue EXCEPT ![k] = Rotate(rest, requeue_max)]
            /\ owed' = Settle(k, rest)
            /\ UNCHANGED <<refcount, wait, requeued>>
       ELSE /\ queue' = [queue EXCEPT ![k] = kept, ![k2] = @ \o moved]
            /\ refcount' = MoveReferences(k, k2, m)
            /\ wait' = MoveWaiters(Elems(moved), k2)
            /\ requeued' = requeued \cup Elems(moved)
            /\ owed' = Settle(k, kept)
    /\ UNCHANGED <<futex_lock, pc, val, word>>

(* do_exit with clear_tid set: clear the word without futex_lock and, if    *)
(* that did not fault, wake one waiter on it.                               *)
ExitStore(t) ==
    LET k == <<MemOf[t], ClearTid[t]>> IN
    /\ pc[t] = "user"
    /\ ClearTid[t] \in Addr \ Unmapped
    /\ word' = [word EXCEPT ![k] = Zero]
    /\ owed' = owed \cup {k}
    /\ pc' = [pc EXCEPT ![t] = "exiting"]
    /\ UNCHANGED <<futex_lock, refcount, queue, wait, val, notified, requeued>>

ExitWake(t) == WakeFrom(t, <<MemOf[t], ClearTid[t]>>, 1, "exiting", "exited")

Next ==
    \E t \in Task :
        \/ \E a \in Addr, v \in Val : Store(t, a, v) \/ FutexWaitLoad(t, a, v)
        \/ FutexWaitFail(t) \/ FutexWaitEnqueue(t) \/ FutexWaitReturn(t)
        \/ \E a \in Addr, n \in 0..MaxCount : FutexWake(t, a, n)
        \/ \E a, a2 \in Addr, n, m \in 0..MaxCount : FutexRequeue(t, a, n, m, a2)
        \/ ExitStore(t) \/ ExitWake(t)

(* The holder of futex_lock goes on; futex_lock is granted to every thread *)
(* that keeps asking for it; a broadcast wakes its waiter.                 *)
Fairness ==
    \A t \in Task :
        /\ WF_vars(FutexWaitFail(t) \/ FutexWaitEnqueue(t))
        /\ SF_vars(t \in notified /\ FutexWaitReturn(t))
        /\ SF_vars(ExitWake(t))

Spec == Init /\ [][Next]_vars /\ Fairness

-----------------------------------------------------------------------------

(* The state of the table, the waiters and the memory is well formed. *)
TypeOK ==
    /\ futex_lock \in Task \cup {Nobody}
    /\ refcount \in [Key -> Nat]
    /\ queue \in [Key -> Seq(Task)]
    /\ pc \in [Task -> {"user", "fail", "load", "wait", "exiting", "exited"}]
    /\ wait \in [Task -> Key \cup {Nobody}]
    /\ val \in [Task -> Val]
    /\ notified \subseteq Task
    /\ word \in [Key -> Val]
    /\ requeued \subseteq Task
    /\ owed \subseteq Key

(* A futex has exactly one reference for each task inside futex_wait whose *)
(* wait.futex points to it: nothing frees a futex in use (futex_put_unlocked) *)
(* and none is leaked, across returns, timeouts and requeues.              *)
RefcountExact == \A k \in Key : refcount[k] = Cardinality(Holders(k))

(* Both assertions of the file: a futex that is freed has an empty queue,  *)
(* and futex_wakelike never hands over more references than there are.     *)
QueueWithinRefcount == \A k \in Key : Len(queue[k]) <= refcount[k]

(* A task asleep in futex_wait that nobody has notified is on the queue of *)
(* the futex it has a reference to, once, and on no other, so that a wake  *)
(* or a requeue cannot lose it; nothing else is on a queue.                *)
Sleepers(k) == {t \in Holders(k) : pc[t] = "wait" /\ t \notin notified}
WaitersQueued ==
    \A k \in Key :
        /\ Elems(queue[k]) = Sleepers(k)
        /\ \A i, j \in 1..Len(queue[k]) : queue[k][i] = queue[k][j] => i = j

(* No wake is missed: a task goes on sleeping on a word that no longer has *)
(* the value it compared with only while a wake for that store is still    *)
(* due.  It holds because futex_wait keeps futex_lock from reading the     *)
(* word to joining the queue.                                              *)
NoMissedWake ==
    \A t \in Task :
        /\ pc[t] = "wait"
        /\ t \notin notified \cup requeued
        /\ wait[t] \notin owed
        => word[wait[t]] = val[t]

(* A waiter that futex_wakelike notified leaves futex_wait, whatever is    *)
(* waited for, woken or requeued meanwhile.                                *)
WokenReturns == \A t \in Task : t \in notified ~> pc[t] = "user"

=============================================================================
