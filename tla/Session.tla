------------------------------ MODULE Session ------------------------------
(***************************************************************************)
(* Sessions, process groups and the controlling terminal: kernel/group.c,  *)
(* the pid table of kernel/task.c, the lists fork and reaping maintain,    *)
(* and the ownership of a terminal in fs/tty.c and fs/pty.c.               *)
(*                                                                         *)
(* Processes have one thread here, so a thread group is named by the pid   *)
(* of its only task; threads are in Process. There is one terminal, the    *)
(* slave of a pseudoterminal whose master stays open. Every operation      *)
(* holds pids_lock throughout and is one step.                             *)
(***************************************************************************)
EXTENDS Naturals, FiniteSets

CONSTANTS
    MaxPid,     \* MAX_PID
    MaxFds,     \* bound: open files on the terminal
    Join,       \* TRUE if programs also move processes into existing groups
    UseTty,     \* TRUE if programs open the terminal
    Steal       \* TRUE if the superuser takes terminals away

ASSUME ConstantsOK == /\ MaxPid \in Nat \ {0} /\ MaxFds \in Nat
                      /\ {Join, UseTty, Steal} \subseteq BOOLEAN

VARIABLES
    cur_pid,            \* the static of task_create_
    state,              \* of pids[p].task: none, run or zombie
    parent,
    sid, pgid,          \* of the group
    session_at,         \* the pid whose session list the group is on
    pgroup_at,          \* the pid whose pgroup list the group is on
    tty,                \* the groups whose tty is the terminal
    tty_session, refcount,    \* fields of the terminal
    fds,                \* number of open files on it
    hung_up,            \* whether the master has been hung up
    crashed             \* a null struct pid was used: "no", "leave" or "steal"

vars == <<cur_pid, state, parent, sid, pgid, session_at, pgroup_at, tty,
          tty_session, refcount, fds, hung_up, crashed>>
procVars == <<cur_pid, state, parent, sid, pgid, session_at, pgroup_at>>
ttyVars == <<tty, tty_session, refcount, fds, hung_up>>

Pid == 1..MaxPid
Live == {p \in Pid : state[p] # "none"}
SessionList(q) == {g \in Live : session_at[g] = q}
PgroupList(q) == {g \in Live : pgroup_at[g] = q}

\* construct_task with task_setsid, for init. The master holds the first
\* reference of the terminal (pty_master_init).
Init ==
    /\ cur_pid = 1
    /\ state = [p \in Pid |-> IF p = 1 THEN "run" ELSE "none"]
    /\ parent = [p \in Pid |-> 0]
    /\ sid = [p \in Pid |-> p] /\ pgid = sid
    /\ session_at = sid /\ pgroup_at = sid
    /\ tty = {} /\ tty_session = 0
    /\ refcount = 1 /\ fds = 0 /\ hung_up = FALSE
    /\ crashed = "no"

----------------------------------------------------------------------------
\* Mutant of pid_empty: the lists of sessions are forgotten.
pid_empty_session(q) == state[q] = "none" /\ PgroupList(q) = {}

\* A slot that still heads a list is in use, even without a task.
pid_empty(q) == state[q] = "none" /\ SessionList(q) = {} /\ PgroupList(q) = {}

\* The search of task_create_, as in Process.
NextPid ==
    LET free == {q \in Pid : pid_empty(q)}
        Distance(q) == (q + MaxPid - cur_pid - 1) % MaxPid
    IN  CHOOSE q \in free : \A r \in free : Distance(q) <= Distance(r)

\* Mutant of Fork: the reference of the new group is not counted.
ForkUncounted(p) ==
    /\ crashed = "no" /\ state[p] = "run"
    /\ \E q \in Pid : pid_empty(q)
    /\ LET q == NextPid
       IN  /\ cur_pid' = q
           /\ state' = [state EXCEPT ![q] = "run"]
           /\ parent' = [parent EXCEPT ![q] = p]
           /\ sid' = [sid EXCEPT ![q] = sid[p]]
           /\ pgid' = [pgid EXCEPT ![q] = pgid[p]]
           /\ session_at' = [session_at EXCEPT ![q] = session_at[p]]
           /\ pgroup_at' = [pgroup_at EXCEPT ![q] = pgroup_at[p]]
           /\ tty' = IF p \in tty THEN tty \cup {q} ELSE tty
    /\ UNCHANGED <<refcount, tty_session, fds, hung_up, crashed>>

\* sys_fork with tgroup_copy: the new group goes on the lists of the old one,
\* next to it, and holds another reference to the terminal.
Fork(p) ==
    /\ crashed = "no" /\ state[p] = "run"
    /\ \E q \in Pid : pid_empty(q)
    /\ LET q == NextPid
       IN  /\ cur_pid' = q
           /\ state' = [state EXCEPT ![q] = "run"]
           /\ parent' = [parent EXCEPT ![q] = p]
           /\ sid' = [sid EXCEPT ![q] = sid[p]]
           /\ pgid' = [pgid EXCEPT ![q] = pgid[p]]
           /\ session_at' = [session_at EXCEPT ![q] = session_at[p]]
           /\ pgroup_at' = [pgroup_at EXCEPT ![q] = pgroup_at[p]]
           /\ tty' = IF p \in tty THEN tty \cup {q} ELSE tty
           /\ refcount' = IF p \in tty THEN refcount + 1 ELSE refcount
    /\ UNCHANGED <<tty_session, fds, hung_up, crashed>>

\* do_exit of the only thread: the children go to init, the lists stay as they
\* are until the process is reaped.
Exit(p) ==
    /\ crashed = "no" /\ state[p] = "run" /\ p # 1
    /\ state' = [state EXCEPT ![p] = "zombie"]
    /\ parent' = [c \in Pid |-> IF parent[c] = p THEN 1 ELSE parent[c]]
    /\ UNCHANGED <<cur_pid, sid, pgid, session_at, pgroup_at, ttyVars, crashed>>

\* task_leave_session, called with the group g about to leave its session
\* list. It asks the slot of the session whether the list is now empty, and
\* finds no slot when it holds no task and heads no list either.
SessionSlotNull(g) ==
    /\ state[sid[g]] = "none"
    /\ SessionList(sid[g]) \ {g} = {}
    /\ PgroupList(sid[g]) = {}

LeaveSession(g) ==
    IF g \notin tty
    THEN UNCHANGED <<tty, tty_session, refcount>>
    ELSE /\ tty' = tty \ {g}
         /\ refcount' = refcount - 1
         /\ tty_session' = IF SessionList(sid[g]) \ {g} = {} THEN 0 ELSE tty_session

\* Reaping: task_leave_session, off the group list, and task_destroy.
Reap(p, c) ==
    /\ crashed = "no" /\ state[p] = "run"
    /\ parent[c] = p /\ state[c] = "zombie"
    /\ \/ /\ c \in tty /\ SessionSlotNull(c)
          /\ crashed' = "leave"
          /\ UNCHANGED <<procVars, ttyVars>>
       \/ /\ ~(c \in tty /\ SessionSlotNull(c))
          /\ LeaveSession(c)
          /\ state' = [state EXCEPT ![c] = "none"]
          /\ parent' = [parent EXCEPT ![c] = 0]
          /\ sid' = [sid EXCEPT ![c] = c] /\ pgid' = [pgid EXCEPT ![c] = c]
          /\ session_at' = [session_at EXCEPT ![c] = c]
          /\ pgroup_at' = [pgroup_at EXCEPT ![c] = c]
          /\ UNCHANGED <<cur_pid, fds, hung_up, crashed>>

----------------------------------------------------------------------------
\* The check of sys_setpgid on a group to be joined: its list has a group at
\* the head (which one is not modelled) that is in the same session.
CanJoin(g, pg) == \E first \in PgroupList(pg) : sid[first] = sid[g]

\* sys_setpgid(id, pg). The group goes on the list of the slot of id.
SetPgid(p, id, pg) ==
    /\ crashed = "no" /\ state[p] = "run"
    /\ state[id] # "none"
    /\ id # pg => Join /\ CanJoin(id, pg)
    /\ id = p \/ parent[id] = p
    /\ sid[id] # id
    /\ pgid[id] # pg
    /\ pgid' = [pgid EXCEPT ![id] = pg]
    /\ pgroup_at' = [pgroup_at EXCEPT ![id] = id]
    /\ UNCHANGED <<cur_pid, state, parent, sid, session_at, ttyVars, crashed>>



\* task_setsid
SetSid(p) ==
    /\ crashed = "no" /\ state[p] = "run"
    /\ pgid[p] # p /\ sid[p] # p
    /\ \/ /\ p \in tty /\ SessionSlotNull(p)
          /\ crashed' = "leave"
          /\ UNCHANGED <<procVars, ttyVars>>
       \/ /\ ~(p \in tty /\ SessionSlotNull(p))
          /\ LeaveSession(p)
          /\ sid' = [sid EXCEPT ![p] = p] /\ pgid' = [pgid EXCEPT ![p] = p]
          /\ session_at' = [session_at EXCEPT ![p] = p]
          /\ pgroup_at' = [pgroup_at EXCEPT ![p] = p]
          /\ UNCHANGED <<cur_pid, state, parent, fds, hung_up, crashed>>

\* What kill(-pg, sig) returns when the caller may signal everybody:
\* kill_group on the list of the slot.
KillGroupResult(pg) ==
    CASE pid_empty(pg) -> "ESRCH"
      [] ~pid_empty(pg) /\ PgroupList(pg) = {} -> "EPERM"
      [] OTHER -> "0"

----------------------------------------------------------------------------
(* The terminal                                                            *)

\* tty_get (or the lookup of /dev/tty) and tty_open, with or without O_NOCTTY.
OpenTty(p, noctty) ==
    LET takes == ~noctty /\ tty_session = 0 /\ sid[p] = p /\ p \notin tty
    IN  /\ UseTty
        /\ crashed = "no" /\ state[p] = "run" /\ fds < MaxFds
        /\ fds' = fds + 1
        /\ refcount' = IF takes THEN refcount + 2 ELSE refcount + 1
        /\ tty' = IF takes THEN tty \cup {p} ELSE tty
        /\ tty_session' = IF takes THEN sid[p] ELSE tty_session
        /\ UNCHANGED <<procVars, hung_up, crashed>>

\* Mutant of CloseTty: a file is closed a second time.
CloseTtyTwice ==
    /\ crashed = "no"
    /\ hung_up' = (hung_up \/ refcount - 1 = (IF tty_session # 0 THEN 2 ELSE 1))
    /\ refcount' = refcount - 1
    /\ fds' = fds - 1
    /\ UNCHANGED <<procVars, tty, tty_session, crashed>>

\* tty_close of the last descriptor of an open file, with pty_slave_close.
CloseTty ==
    /\ crashed = "no" /\ fds > 0
    /\ hung_up' = (hung_up \/ refcount - 1 = (IF tty_session # 0 THEN 2 ELSE 1))
    /\ refcount' = refcount - 1
    /\ fds' = fds - 1
    /\ UNCHANGED <<procVars, tty, tty_session, crashed>>

\* tiocsctty, on an open file of the terminal. Whoever has to be robbed of it
\* is looked up in the list of the session the terminal names.
SetCtty(p, force) ==
    LET robbed == IF tty_session = 0 THEN {} ELSE SessionList(tty_session) \cap tty
    IN  /\ crashed = "no" /\ state[p] = "run" /\ fds > 0
        /\ ~(sid[p] = p /\ sid[p] = tty_session)
        /\ p \notin tty
        /\ tty_session # 0 => force
        /\ \/ /\ tty_session # 0 /\ pid_empty(tty_session)
              /\ crashed' = "steal"
              /\ UNCHANGED <<tty, refcount, tty_session>>
           \/ /\ ~(tty_session # 0 /\ pid_empty(tty_session))
              /\ tty' = (tty \ robbed) \cup {p}
              /\ refcount' = (refcount + 1) - Cardinality(robbed)
              /\ tty_session' = sid[p]
              /\ UNCHANGED crashed
        /\ UNCHANGED <<procVars, fds, hung_up>>

----------------------------------------------------------------------------
Next ==
    \/ \E p \in Pid :
          \/ Fork(p)
          \/ Exit(p)
          \/ \E c \in Pid : Reap(p, c)
          \/ \E id \in Pid, pg \in Pid : SetPgid(p, id, pg)
          \/ SetSid(p)
          \/ \E noctty \in BOOLEAN : OpenTty(p, noctty)
          \/ \E force \in {FALSE, Steal} : SetCtty(p, force)
    \/ CloseTty

Spec == Init /\ [][Next]_vars

----------------------------------------------------------------------------
(* Properties                                                              *)

\* Every variable has its type.
TypeOK ==
    /\ cur_pid \in Pid
    /\ state \in [Pid -> {"none", "run", "zombie"}]
    /\ parent \in [Pid -> 0..MaxPid]
    /\ sid \in [Pid -> Pid] /\ pgid \in [Pid -> Pid]
    /\ session_at \in [Pid -> Pid] /\ pgroup_at \in [Pid -> Pid]
    /\ tty \subseteq Live /\ tty_session \in 0..MaxPid
    /\ refcount \in Nat \ {0} /\ fds \in 0..MaxFds /\ hung_up \in BOOLEAN
    /\ crashed \in {"no", "leave", "steal"}

\* The terminal's reference count is the number of its references: the
\* master's, one for each open file and one for each group that has it as its
\* controlling terminal, through forks, new sessions, theft and reaping.
TtyRefcount == refcount = 1 + fds + Cardinality(tty)

\* A pid is not given to a new process while it still names a session
\* (pid_empty in task_create_): a task whose pid is the session of anybody is
\* the leader of that session.
SessionLeaderOwns ==
    \A g \in Live : state[sid[g]] # "none" => sid[sid[g]] = sid[g]



\* "killing a group should return an error only if no process can be signaled"
\* (kill_group).
KillGroupReaches ==
    \A pg \in Pid :
        (\E g \in Live : state[g] = "run" /\ pgid[g] = pg) => KillGroupResult(pg) = "0"
====
