------------------------------ MODULE Process ------------------------------
(***************************************************************************)
(* The life of tasks and thread groups: kernel/fork.c, kernel/task.c,      *)
(* kernel/exit.c and the parts of kernel/signal.c and kernel/calls.c that  *)
(* kill, stop and continue a group.                                        *)
(*                                                                         *)
(* A task is named by its pid and a thread group by the pid of its leader. *)
(* Everything the code does in one stretch under pids_lock is one step;    *)
(* the places where it lets go of the lock between two stretches are       *)
(* control states of pc:                                                   *)
(*   none   the slot pids[p].task is NULL                                  *)
(*   new    between task_create_ and the list_add of copy_task             *)
(*   run    in user mode, or about to enter a system call                  *)
(*   clone  in sys_clone, its child still "new"                            *)
(*   vfork  in sys_clone, waiting for vfork.done                           *)
(*   ret    a system call has returned, signals are looked at next         *)
(*   tell   receive_signals, after the queue and before the parent is told *)
(*   stop   in the loop of handle_interrupt that waits on stopped_cond     *)
(*   die    receive_signal has decided to call do_exit_group               *)
(*   exit   in do_exit, before it takes pids_lock                          *)
(*   wait   in do_wait, asleep on the group's child_exit                   *)
(*   gone   the thread is over and its task is still in the table          *)
(***************************************************************************)
EXTENDS Naturals, Sequences, FiniteSets, SequencesExt

CONSTANTS
    MaxPid,      \* MAX_PID
    Status,      \* the statuses programs pass to exit and exit_group
    Signal,      \* the signals programs send, a subset of KILL, STOP, CONT
    CloneKind,   \* the kinds of clone in use, a subset of fork, thread, vfork
    WaitId,      \* the pids programs wait for; 0 is any child (P_ALL)
    WaitOptions, \* sets of options of wait: nohang, untraced, exited, nowait
    Fault        \* the ways clone may fail, a subset of early, late

ASSUME ConstantsOK == /\ MaxPid \in Nat \ {0}
                      /\ Signal \subseteq {"KILL", "STOP", "CONT"}
                      /\ CloneKind \subseteq {"fork", "thread", "vfork"}
                      /\ WaitId \subseteq 0..MaxPid
                      /\ Fault \subseteq {"early", "late"}
                      /\ Status \cap {"zero", "stopped", "killed"} = {}

VARIABLES
    cur_pid,          \* the static of task_create_
    pc,
    leader,           \* task->group, by the pid of its leader
    threads,          \* the tasks whose group_links are on their group's list
    parent,           \* task->parent, 0 for NULL
    exiting, zombie,  \* the tasks with that flag
    exit_code,        \* task->exit_code
    doing_group_exit, stopped,   \* the groups with that flag
    group_exit_code,
    queue,            \* task->queue (and task->pending, the set of what is on it)
    child,            \* the local `task` of sys_clone
    want,             \* the arguments of do_wait
    done,             \* tasks whose vfork.done is set
    notified,         \* sleepers of child_exit a notify has woken
    promised,         \* history: the status the group's first exit_group was given
    adopted           \* history: tasks that changed parent as zombies

vars == <<cur_pid, pc, leader, threads, parent, exiting, zombie, exit_code,
          doing_group_exit, stopped, group_exit_code, queue, child, want, done,
          notified, promised, adopted>>

groupVars == <<doing_group_exit, stopped, group_exit_code, promised>>
treeVars == <<cur_pid, leader, threads, parent, exiting, zombie, exit_code, adopted>>

Pid == 1..MaxPid
Code == Status \cup {"zero", "stopped", "killed"}
AnyChild == 0
Want == [id : WaitId, options : WaitOptions]
NoWant == [id |-> AnyChild, options |-> {}]

Live == {p \in Pid : pc[p] # "none"}
Threads(g) == {t \in threads : leader[t] = g}

Init ==
    /\ cur_pid = 1
    /\ pc = [p \in Pid |-> IF p = 1 THEN "run" ELSE "none"]
    /\ leader = [p \in Pid |-> p]
    /\ threads = {1}
    /\ parent = [p \in Pid |-> 0]
    /\ exiting = {} /\ zombie = {}
    /\ exit_code = [p \in Pid |-> "zero"]
    /\ doing_group_exit = {} /\ stopped = {}
    /\ group_exit_code = [p \in Pid |-> "zero"]
    /\ queue = [p \in Pid |-> <<>>]
    /\ child = [p \in Pid |-> 0]
    /\ want = [p \in Pid |-> NoWant]
    /\ done = {} /\ notified = {}
    /\ promised = [p \in Pid |-> "zero"]
    /\ adopted = {}

----------------------------------------------------------------------------
(* fork, clone and vfork                                                   *)

\* The slots task_create_ skips: here a slot is free when it holds no task.
\* (The lists of process groups and sessions are in Session.)
FreePid == {q \in Pid : pc[q] = "none"}

\* The first free pid after cur_pid, going round at MAX_PID.
NextPid ==
    LET Distance(q) == (q + MaxPid - cur_pid - 1) % MaxPid
    IN  CHOOSE q \in FreePid : \A r \in FreePid : Distance(q) <= Distance(r)

\* sys_clone up to the end of the locked part of task_create_. With no free
\* pid the code searches for ever; MAX_PID is 2^15 there, and here no clone
\* is started then.
CloneCreate(p) ==
    /\ pc[p] = "run"
    /\ FreePid # {}
    /\ LET q == NextPid
       IN  /\ cur_pid' = q
           /\ pc' = [pc EXCEPT ![p] = "clone", ![q] = "new"]
           /\ leader' = [leader EXCEPT ![q] = leader[p]]
           /\ parent' = [parent EXCEPT ![q] = p]
           /\ queue' = [queue EXCEPT ![q] = queue[p]]
           /\ child' = [child EXCEPT ![p] = q]
    /\ UNCHANGED <<threads, exiting, zombie, exit_code, groupVars, want, done,
                   notified, adopted>>

\* The rest of task_create_ (the queue starts empty, whatever was sent to the
\* pid since it became visible) and the locked part of copy_task, with
\* tgroup_copy: the new group inherits everything but doing_group_exit.
CopyTask(p, q, kind) ==
    LET g == leader[p]
    IN  /\ queue' = [queue EXCEPT ![q] = <<>>]
        /\ threads' = threads \cup {q}
        /\ \/ /\ kind = "thread"
              /\ UNCHANGED <<leader, stopped, group_exit_code>>
           \/ /\ kind # "thread"
              /\ leader' = [leader EXCEPT ![q] = q]
              /\ stopped' = IF g \in stopped THEN stopped \cup {q} ELSE stopped
              /\ group_exit_code' = [group_exit_code EXCEPT ![q] = group_exit_code[g]]

\* copy_task succeeds: task_start, and a vfork goes on to wait for vfork.done.
CloneCopy(p, kind) ==
    LET q == child[p]
    IN  /\ pc[p] = "clone"
        /\ CopyTask(p, q, kind)
        /\ pc' = [pc EXCEPT ![q] = "run", ![p] = IF kind = "vfork" THEN "vfork" ELSE "ret"]
        /\ child' = [child EXCEPT ![p] = IF kind = "vfork" THEN q ELSE 0]
        /\ UNCHANGED <<cur_pid, parent, exiting, zombie, exit_code, doing_group_exit,
                       want, done, notified, promised, adopted>>

\* task_destroy, and with it the task's fields. The record of a destroyed task
\* reads like the zeroed one task_create_ starts from.
Destroyed(q) ==
    /\ leader' = [leader EXCEPT ![q] = q]
    /\ exiting' = exiting \ {q}
    /\ exit_code' = [exit_code EXCEPT ![q] = "zero"]

\* copy_task fails before the new task is on a list: no memory for the files,
\* the directory or the handlers.
CloneFailEarly(p) ==
    LET q == child[p]
    IN  /\ "early" \in Fault
        /\ pc[p] = "clone"
        /\ pc' = [pc EXCEPT ![q] = "none", ![p] = "ret"]
        /\ child' = [child EXCEPT ![p] = 0]
        /\ parent' = [parent EXCEPT ![q] = 0]
        /\ queue' = [queue EXCEPT ![q] = <<>>]
        /\ Destroyed(q)
        /\ UNCHANGED <<cur_pid, threads, zombie, groupVars, want, done, notified, adopted>>

\* copy_task fails on a thread id address that cannot be written, after the
\* list_add: nothing takes the task off the list again.
CloneFailLate(p, kind) ==
    LET q == child[p]
    IN  /\ "late" \in Fault
        /\ pc[p] = "clone"
        /\ CopyTask(p, q, kind)
        /\ pc' = [pc EXCEPT ![q] = "none", ![p] = "ret"]
        /\ child' = [child EXCEPT ![p] = 0]
        /\ parent' = [parent EXCEPT ![q] = 0]
        /\ UNCHANGED <<cur_pid, exiting, zombie, exit_code, doing_group_exit,
                       want, done, notified, promised, adopted>>

\* The end of a vfork: vfork.done is seen, task->vfork is reset and the call
\* returns.
VforkReturn(p) ==
    /\ pc[p] = "vfork"
    /\ p \in done
    /\ done' = done \ {p}
    /\ child' = [child EXCEPT ![p] = 0]
    /\ pc' = [pc EXCEPT ![p] = "ret"]
    /\ UNCHANGED <<treeVars, groupVars, queue, want, notified>>

\* vfork_notify: the task whose vfork.done the task q sets, if any.
VforkParents(q) == {p \in Pid : pc[p] = "vfork" /\ child[p] = q}

\* The part of execve that another task can see.
Exec(p) ==
    /\ pc[p] = "run"
    /\ VforkParents(p) # {}
    /\ done' = done \cup VforkParents(p)
    /\ pc' = [pc EXCEPT ![p] = "ret"]
    /\ UNCHANGED <<treeVars, groupVars, queue, child, want, notified>>

----------------------------------------------------------------------------
(* Signals that kill, stop and continue                                    *)

\* deliver_signal_unlocked: a signal already pending is dropped. The task is
\* not woken: wait_for never records what it sleeps on, so waiting_cond is NULL.
Queued(q, sig) == IF sig \in ToSet(q) THEN q ELSE Append(q, sig)

\* send_signal, with the default actions: SIGCONT is not queued.
SendSignal(t, sig) ==
    IF t \in zombie \cup exiting
    THEN UNCHANGED <<queue, stopped>>
    ELSE /\ queue' = IF sig = "CONT" THEN queue ELSE [queue EXCEPT ![t] = Queued(@, sig)]
         /\ stopped' = IF sig = "STOP" THEN stopped ELSE stopped \ {leader[t]}

\* kill, tkill and tgkill of one task: kill_task on what pid_get_task finds.
\* Nobody kills init or its threads: the system would halt.
Kill(p, t, sig) ==
    /\ pc[p] = "run"
    /\ t \in Live \ zombie
    /\ leader[t] # 1
    /\ SendSignal(t, sig)
    /\ pc' = [pc EXCEPT ![p] = "ret"]
    /\ UNCHANGED <<treeVars, doing_group_exit, group_exit_code, promised, child, want,
                   done, notified>>

\* receive_signals up to the end of its loop. Signals are taken in order; the
\* one that kills does not return. A task in user mode gets here by a timer
\* interrupt.
ReceiveSignals(p) ==
    LET g == leader[p]
        kills == "KILL" \in ToSet(queue[p])
        seen == SelectInSeq(queue[p], LAMBDA s : s = "KILL")
        taken == IF kills THEN SubSeq(queue[p], 1, seen - 1) ELSE queue[p]
        stops == "STOP" \in ToSet(taken)
    IN  /\ \/ pc[p] = "ret"
           \/ pc[p] = "run" /\ (queue[p] # <<>> \/ g \in stopped)
        /\ stopped' = IF stops THEN stopped \cup {g} ELSE stopped
        /\ group_exit_code' = IF stops THEN [group_exit_code EXCEPT ![g] = "stopped"]
                                       ELSE group_exit_code
        /\ queue' = [queue EXCEPT ![p] = IF kills THEN SubSeq(@, seen + 1, Len(@)) ELSE <<>>]
        /\ pc' = [pc EXCEPT ![p] = CASE kills -> "die"
                                     [] ~kills /\ g \in stopped -> "stop"
                                     [] OTHER -> "tell"]
        /\ UNCHANGED <<treeVars, doing_group_exit, promised, child, want, done, notified>>

\* The tasks asleep on the child_exit of group g.
Sleepers(g) == {t \in Pid : pc[t] = "wait" /\ leader[t] = g}

\* The rest of receive_signals, for a task whose group was not stopped when it
\* began: the parent of the task (not of its leader) hears that it is now.
TellParent(p) ==
    LET g == leader[p]
    IN  /\ pc[p] = "tell"
        /\ notified' = IF g \in stopped THEN notified \cup Sleepers(leader[parent[p]])
                                        ELSE notified
        /\ pc' = [pc EXCEPT ![p] = IF g \in stopped THEN "stop" ELSE "run"]
        /\ UNCHANGED <<treeVars, groupVars, queue, child, want, done>>

\* The end of handle_interrupt's loop.
Continue(p) ==
    /\ pc[p] = "stop"
    /\ leader[p] \notin stopped
    /\ pc' = [pc EXCEPT ![p] = "run"]
    /\ UNCHANGED <<treeVars, groupVars, queue, child, want, done, notified>>

----------------------------------------------------------------------------
(* exit and exit_group                                                     *)

\* sys_exit. Init's leader does not call it (see Kill).
Exit(p, status) ==
    /\ pc[p] = "run"
    /\ p # 1
    /\ exit_code' = [exit_code EXCEPT ![p] = status]
    /\ pc' = [pc EXCEPT ![p] = "exit"]
    /\ UNCHANGED <<cur_pid, leader, threads, parent, exiting, zombie, adopted,
                   groupVars, queue, child, want, done, notified>>


\* The status of a group after a call of do_exit_group.
GroupStatus(g, status) ==
    IF g \in doing_group_exit THEN group_exit_code[g] ELSE status

\* The locked part of do_exit_group.
DoExitGroup(p, status) ==
    LET g == leader[p]
    IN  /\ doing_group_exit' = doing_group_exit \cup {g}
        /\ group_exit_code' = [group_exit_code EXCEPT ![g] = GroupStatus(g, status)]
        /\ promised' = IF g \in doing_group_exit THEN promised
                                                 ELSE [promised EXCEPT ![g] = status]
        /\ exit_code' = [exit_code EXCEPT ![p] = GroupStatus(g, status)]
        /\ queue' = [t \in Pid |-> IF t \in Threads(g) THEN Queued(queue[t], "KILL")
                                                       ELSE queue[t]]
        /\ stopped' = stopped \ {g}
        /\ pc' = [pc EXCEPT ![p] = "exit"]
        /\ UNCHANGED <<cur_pid, leader, threads, parent, exiting, zombie, adopted,
                       child, want, done, notified>>

ExitGroup(p, status) == pc[p] = "run" /\ leader[p] # 1 /\ DoExitGroup(p, status)

\* Mutant of Die: the killed thread leaves without killing the group again.
DieAlone(p) ==
    /\ pc[p] = "die"
    /\ exit_code' = [exit_code EXCEPT ![p] = "killed"]
    /\ pc' = [pc EXCEPT ![p] = "exit"]
    /\ UNCHANGED <<cur_pid, leader, threads, parent, exiting, zombie, adopted,
                   groupVars, queue, child, want, done, notified>>

Die(p) == pc[p] = "die" /\ DoExitGroup(p, "killed")

\* Mutant of NewParents: p is not yet marked as exiting when it is called.
NewParentsEarly(p) ==
    LET others == {t \in Threads(leader[p]) : t \notin exiting}
    IN  IF others = {} THEN {1} ELSE others

\* find_new_parent, called with p already exiting: some other thread of the
\* group, or init.
NewParents(p) ==
    LET others == {t \in Threads(leader[p]) : t \notin exiting \cup {p}}
    IN  IF others = {} THEN {1} ELSE others

\* Mutant of GroupDead: the leader's own exit counts.
GroupDeadLeader(p) == p = leader[p]

\* exit_tgroup: whether p is the last thread of its group.
GroupDead(p) == Threads(leader[p]) = {p}

\* Mutant of Informed: the parent of the last thread is told.
InformedOwn(p) == leader[parent[p]]

\* The group whose child_exit is notified when p ends its group.
Informed(p) == leader[parent[leader[p]]]

\* What do_exit does under pids_lock: reparent the children, leave the group
\* (exit_tgroup), make the leader a zombie and tell its parent if that was the
\* last thread, and destroy the task unless it is the leader.
DoExit(p) ==
    LET g == leader[p]
        destroyed == IF p = g THEN {} ELSE {p}
    IN  /\ pc[p] = "exit"
        /\ \E np \in NewParents(p) :
              parent' = [c \in Pid |-> IF c \in destroyed THEN 0
                                       ELSE IF parent[c] = p THEN np ELSE parent[c]]
        /\ adopted' = adopted \cup {c \in zombie : parent[c] = p}
        /\ threads' = threads \ {p}
        /\ zombie' = IF GroupDead(p) THEN zombie \cup {g} ELSE zombie
        /\ notified' = IF GroupDead(p) THEN notified \cup Sleepers(Informed(p)) ELSE notified
        /\ done' = done \cup VforkParents(p)
        /\ queue' = [queue EXCEPT ![p] = <<>>]
        /\ exiting' = (exiting \cup {p}) \ destroyed
        /\ leader' = [leader EXCEPT ![p] = IF p = g THEN g ELSE p]
        /\ exit_code' = [exit_code EXCEPT ![p] = IF p = g THEN @ ELSE "zero"]
        /\ pc' = [pc EXCEPT ![p] = IF p = g THEN "gone" ELSE "none"]
        /\ UNCHANGED <<cur_pid, groupVars, child, want>>

----------------------------------------------------------------------------
(* wait                                                                    *)

\* The tasks do_wait looks at: the leaders among the caller's own children, or
\* the leader of the group of the task asked for, if that is a child of any
\* thread of the caller's group.
Candidates(p, id) ==
    IF id = AnyChild
    THEN {c \in Live : parent[c] = p /\ leader[c] = c}
    ELSE {leader[c] : c \in {x \in Live \cap {id} :
                                parent[x] # 0 /\ leader[parent[x]] = leader[p]}}

\* notify_if_stopped and reap_if_zombie
ReportsStop(c, options) ==
    "untraced" \in options /\ c \in stopped /\ group_exit_code[c] # "zero"
\* Mutant of ReportsExit: any exited leader can be reaped.
ReportsExitEarly(c, options) ==
    "exited" \in options /\ c \in exiting /\ ~ReportsStop(c, options)

ReportsExit(c, options) ==
    "exited" \in options /\ c \in zombie /\ ~ReportsStop(c, options)

\* reap_if_zombie without WNOWAIT: the group and the task are freed.
Reap(c) ==
    /\ parent' = [parent EXCEPT ![c] = 0]
    /\ zombie' = zombie \ {c}
    /\ adopted' = adopted \ {c}
    /\ doing_group_exit' = doing_group_exit \ {c}
    /\ stopped' = stopped \ {c}
    /\ group_exit_code' = [group_exit_code EXCEPT ![c] = "zero"]
    /\ promised' = [promised EXCEPT ![c] = "zero"]
    /\ Destroyed(c)

\* The wait call w of p is at its label retry: it has just been made, or a
\* notify (or a spurious wakeup) has ended the sleep.
AtRetry(p, w) == \/ pc[p] = "run"
                 \/ pc[p] = "wait" /\ w = want[p]


WaitReturns(p, reaped) ==
    /\ pc' = [q \in Pid |-> IF q = p THEN "ret" ELSE IF q \in reaped THEN "none" ELSE pc[q]]
    /\ want' = [want EXCEPT ![p] = NoWant]
    /\ notified' = notified \ {p}

WaitStopped(p, w) ==
    /\ AtRetry(p, w)
    /\ \E c \in Candidates(p, w.id) :
          /\ ReportsStop(c, w.options)
          /\ group_exit_code' = [group_exit_code EXCEPT ![c] = "zero"]
    /\ WaitReturns(p, {})
    /\ UNCHANGED <<treeVars, doing_group_exit, stopped, promised, queue, child, done>>

WaitExited(p, w) ==
    /\ AtRetry(p, w)
    /\ \E c \in Candidates(p, w.id) :
          /\ ReportsExit(c, w.options)
          /\ IF "nowait" \in w.options
             THEN WaitReturns(p, {}) /\ UNCHANGED <<treeVars, groupVars>>
             ELSE WaitReturns(p, {c}) /\ Reap(c) /\ UNCHANGED <<cur_pid, threads>>
    /\ UNCHANGED <<queue, child, done>>

\* No child at all (_ECHILD), or nothing to report and WNOHANG.
WaitNothing(p, w) ==
    /\ AtRetry(p, w)
    /\ \/ Candidates(p, w.id) = {}
       \/ /\ "nohang" \in w.options
          /\ \A c \in Candidates(p, w.id) :
                ~ReportsStop(c, w.options) /\ ~ReportsExit(c, w.options)
    /\ WaitReturns(p, {})
    /\ UNCHANGED <<treeVars, groupVars, queue, child, done>>

WaitSleep(p, w) ==
    /\ AtRetry(p, w)
    /\ "nohang" \notin w.options
    /\ Candidates(p, w.id) # {}
    /\ \A c \in Candidates(p, w.id) :
          ~ReportsStop(c, w.options) /\ ~ReportsExit(c, w.options)
    /\ pc' = [pc EXCEPT ![p] = "wait"]
    /\ want' = [want EXCEPT ![p] = w]
    /\ notified' = notified \ {p}
    /\ UNCHANGED <<treeVars, groupVars, queue, child, done>>

DoWait(p, w) ==
    WaitStopped(p, w) \/ WaitExited(p, w) \/ WaitNothing(p, w) \/ WaitSleep(p, w)

----------------------------------------------------------------------------
\* A destroyed task on a thread list is freed memory, and what the code does
\* once it walks there is undefined: the model ends.
ListsSound == threads \subseteq Live

Next ==
    ListsSound /\ \E p \in Pid :
        \/ CloneCreate(p)
        \/ \E kind \in CloneKind : CloneCopy(p, kind)
        \/ CloneFailEarly(p)
        \/ \E kind \in CloneKind : CloneFailLate(p, kind)
        \/ VforkReturn(p)
        \/ Exec(p)
        \/ \E t \in Pid, sig \in Signal : Kill(p, t, sig)
        \/ ReceiveSignals(p)
        \/ TellParent(p)
        \/ Continue(p)
        \/ \E status \in Status : Exit(p, status)
        \/ \E status \in Status : ExitGroup(p, status)
        \/ Die(p)
        \/ DoExit(p)
        \/ \E w \in Want : DoWait(p, w)

Spec == Init /\ [][Next]_vars

\* The kernel's own steps are taken: a thread inside the kernel runs on, a
\* thread in user mode meets a timer interrupt, and a sleeper that has been
\* notified gets pids_lock. What programs ask for is up to them.
Fairness ==
    \A p \in Pid :
        /\ WF_vars(\E kind \in CloneKind : CloneCopy(p, kind))
        /\ WF_vars(VforkReturn(p))
        /\ WF_vars(ReceiveSignals(p))
        /\ WF_vars(TellParent(p))
        /\ WF_vars(Continue(p))
        /\ WF_vars(Die(p))
        /\ WF_vars(DoExit(p))
        /\ WF_vars(p \in notified /\ DoWait(p, want[p]))

FairSpec == Spec /\ Fairness

----------------------------------------------------------------------------
(* Properties                                                              *)

\* Every variable has its type, and a sleeper that was notified is asleep.
TypeOK ==
    /\ cur_pid \in Pid
    /\ pc \in [Pid -> {"none", "new", "run", "clone", "vfork", "ret", "tell", "stop",
                       "die", "exit", "wait", "gone"}]
    /\ leader \in [Pid -> Pid] /\ parent \in [Pid -> 0..MaxPid]
    /\ child \in [Pid -> 0..MaxPid]
    /\ threads \in SUBSET Pid /\ exiting \in SUBSET Pid /\ zombie \in SUBSET Pid
    /\ doing_group_exit \in SUBSET Pid /\ stopped \in SUBSET Pid
    /\ exit_code \in [Pid -> Code] /\ group_exit_code \in [Pid -> Code]
    /\ promised \in [Pid -> Code]
    /\ \A p \in Pid : queue[p] \in Seq({"KILL", "STOP"}) /\ IsInjective(queue[p])
    /\ \A p \in Pid : want[p] \in Want \cup {NoWant}
    /\ done \in SUBSET Pid /\ adopted \in SUBSET Pid
    /\ \A t \in notified : t \in Pid /\ pc[t] = "wait"

\* The process tree is never left with a dangling edge: whatever order the
\* threads of a group and their parents exit and are reaped in, every task but
\* init has a parent that is in the table and has not passed the point in
\* do_exit where it gives its children away.
ParentAlive ==
    \A p \in Live \ {1} : parent[p] \in Live \ exiting

\* A leader that has exited stays in the table while other threads of its
\* group run, and is a zombie exactly from the moment the last one has gone:
\* neither reapable too early (the group would be freed under its threads) nor
\* never (do_exit and exit_tgroup).
ZombieIffGroupDead ==
    \A g \in {x \in Live : leader[x] = x} : g \in zombie <=> Threads(g) = {}

\* A group is never freed under its tasks: whatever thread reaps, exits or is
\* being created at that moment, the group a task in the table points to still
\* has its leader in the table (free in reap_if_zombie, "don't need to lock the
\* group since" in exit_tgroup).
GroupAllocated ==
    \A t \in Live : leader[t] \in Live /\ leader[leader[t]] = leader[t]

\* A task asleep in do_wait has missed no exit: unless a notify of child_exit
\* is on its way to it, none of the children it waits for has become a zombie
\* while it was their parent (notify in do_exit, child_exit in do_wait).
ZombieNotified ==
    \A t \in Pid :
        pc[t] = "wait" /\ t \notin notified /\ "exited" \in want[t].options
            => Candidates(t, want[t].id) \cap zombie \subseteq adopted


\* Nobody escapes a group exit ("kill everyone else in the group"). A thread
\* that a sibling was creating is not on the list do_exit_group walks, so it may
\* run on with nothing queued; but then some thread of the group has yet to act
\* on its own SIGKILL, and do_exit_group will walk the list again for it.
GroupExitReachesAll ==
    LET Doomed(t) == pc[t] = "die" \/ ("KILL" \in ToSet(queue[t]) /\ pc[t] # "exit")
    IN  \A t \in threads \cap Live :
            leader[t] \in doing_group_exit /\ pc[t] # "exit"
                => \E c \in Threads(leader[t]) : Doomed(c)


\* A queued SIGKILL is acted on: deliver_signal_unlocked interrupts whatever
\* the task is waiting for ("wake up any pthread condition waiters").
KillActedOn ==
    \A t \in Pid : ("KILL" \in ToSet(queue[t])) ~> ("KILL" \notin ToSet(queue[t]))
====
