------------------------------- MODULE Signal -------------------------------
(***************************************************************************)
(* The signals of one task, kernel/signal.c: the queue and the set of      *)
(* pending signals, the mask and its temporary replacement, the actions,   *)
(* and the frames of running handlers. Other tasks appear as senders.      *)
(*                                                                         *)
(* pc is "user" in user mode, "call" inside a system call that may block   *)
(* with a temporary mask, "ret" when a system call is over and             *)
(* receive_signals is next, "dead" after do_exit_group, and "hung" when    *)
(* the task waits for a lock that it holds itself.                         *)
(* Everything is done under sighand->lock, a step for each time it is held.*)
(***************************************************************************)
EXTENDS Naturals, Sequences, FiniteSets, SequencesExt

CONSTANTS
    Sig,            \* signals that can be caught, blocked or ignored
    Ignored,        \* those of Sig whose default action is to do nothing
    ActionMask,     \* the masks programs give to sigaction
    Call,           \* the calls in use, a subset of ppoll, sigtimedwait
    StackFault,     \* TRUE if the stack may be unwritable
    MaxFrames       \* bound: handlers running or about to

KILL == "KILL"
AllSigs == Sig \cup {KILL}

ASSUME ConstantsOK == /\ KILL \notin Sig
                      /\ Ignored \subseteq Sig
                      /\ ActionMask \subseteq SUBSET AllSigs
                      /\ Call \subseteq {"ppoll", "sigtimedwait"}
                      /\ StackFault \in BOOLEAN
                      /\ MaxFrames \in Nat

VARIABLES
    pc,
    queue, pending,     \* task->queue and task->pending
    blocked,            \* task->blocked
    saved_mask,         \* a sequence: empty when has_saved_mask is false
    action,             \* sighand->action
    frames,             \* handler frames on the stack, the innermost last
    base                \* history: the mask the program set outside handlers

vars == <<pc, queue, pending, blocked, saved_mask, action, frames, base>>

Action == [handler : {"DFL", "IGN"}, mask : {{}}, flags : {{}}]
          \cup [handler : {"CALL"}, mask : ActionMask,
                flags : SUBSET {"NODEFER", "RESETHAND"}]
Default == [handler |-> "DFL", mask |-> {}, flags |-> {}]
Frame == [sig : Sig, mask : SUBSET AllSigs]

Init ==
    /\ pc = "user"
    /\ queue = <<>> /\ pending = {}
    /\ blocked = {} /\ saved_mask = <<>>
    /\ action = [s \in Sig |-> Default]
    /\ frames = <<>>
    /\ base = {}

----------------------------------------------------------------------------
\* What a signal does (signal_action): "IGNORE", "KILL" or "CALL". The signals
\* that stop are in Process.
signal_action(act, s) ==
    CASE s = KILL -> "KILL"
      [] s # KILL /\ act[s].handler = "IGN" -> "IGNORE"
      [] s # KILL /\ act[s].handler = "CALL" -> "CALL"
      [] OTHER -> IF s \in Ignored THEN "IGNORE" ELSE "KILL"

\* Mutant of Send: a signal that is already pending is queued again.
SendTwice(s) ==
    /\ pc \notin {"dead", "hung"}
    /\ Len(frames) + Len(queue) < MaxFrames \/ s = KILL
    /\ signal_action(action, s) # "IGNORE"
    /\ queue' = Append(queue, s)
    /\ pending' = pending \cup {s}
    /\ UNCHANGED <<pc, blocked, saved_mask, action, frames, base>>

\* send_signal with deliver_signal_unlocked, from any task. The bound on
\* handlers is kept here.
Send(s) ==
    /\ pc \notin {"dead", "hung"}
    /\ Len(frames) + Len(queue) < MaxFrames \/ s = KILL
    /\ signal_action(action, s) # "IGNORE"
    /\ s \notin pending
    /\ queue' = Append(queue, s)
    /\ pending' = pending \cup {s}
    /\ UNCHANGED <<pc, blocked, saved_mask, action, frames, base>>

----------------------------------------------------------------------------
(* System calls of the task                                                *)

\* do_sigaction
Sigaction(s, act) ==
    /\ pc = "user"
    /\ action' = [action EXCEPT ![s] = act]
    /\ pc' = "ret"
    /\ UNCHANGED <<queue, pending, blocked, saved_mask, frames, base>>

\* sigmask_set
Blockable(mask) == mask \ {KILL}

\* sys_rt_sigprocmask with SIG_SETMASK; the other two forms set a mask as well.
Sigprocmask(mask) ==
    /\ pc = "user"
    /\ blocked' = Blockable(mask)
    /\ base' = IF frames = <<>> THEN Blockable(mask) ELSE base
    /\ pc' = "ret"
    /\ UNCHANGED <<queue, pending, saved_mask, action, frames>>


\* ppoll, pselect and epoll_pwait: sigmask_set_temp, and the call goes on.
Ppoll(mask) ==
    /\ "ppoll" \in Call
    /\ pc = "user"
    /\ saved_mask' = <<blocked>>
    /\ blocked' = Blockable(mask)
    /\ pc' = "call"
    /\ UNCHANGED <<queue, pending, action, frames, base>>

CallReturns ==
    /\ pc = "call"
    /\ pc' = "ret"
    /\ UNCHANGED <<queue, pending, blocked, saved_mask, action, frames, base>>

\* sys_rt_sigtimedwait with a timeout, which wait_for reports as a positive
\* error code: the loop ends and the first signal of the set is taken.
Sigtimedwait(set) ==
    LET i == SelectInSeq(queue, LAMBDA s : s \in set)
    IN  /\ "sigtimedwait" \in Call
        /\ pc = "user"
        /\ queue' = IF i = 0 THEN queue ELSE RemoveAt(queue, i)
        /\ pc' = "ret"
        /\ UNCHANGED <<pending, blocked, saved_mask, action, frames, base>>

\* sys_rt_sigreturn and sys_sigreturn
Sigreturn ==
    /\ pc = "user"
    /\ frames # <<>>
    /\ blocked' = Blockable(Last(frames).mask)
    /\ frames' = Front(frames)
    /\ pc' = "ret"
    /\ UNCHANGED <<queue, pending, saved_mask, action, base>>

----------------------------------------------------------------------------
(* Taking signals                                                          *)

\* Mutant of Walk: the temporary mask stays.
WalkTemporary == [pc |-> "user", kept |-> <<>>, pending |-> pending, action |-> action,
                  frames |-> frames, blocked |-> blocked, ignore |-> blocked]

\* What receive_signals works on while it walks the queue. ignore is its local
\* variable blocked; kept are the signals left on the queue.
Walk == [pc |-> "user", kept |-> <<>>, pending |-> pending, action |-> action,
         frames |-> frames,
         blocked |-> IF saved_mask = <<>> THEN blocked ELSE saved_mask[1],
         ignore |-> IF saved_mask = <<>> THEN blocked ELSE blocked \cap saved_mask[1]]

\* receive_signal for a caught signal: the frame keeps the mask, then the mask
\* grows.
CallHandler(w, s) ==
    LET act == w.action[s]
    IN  [w EXCEPT !.frames = Append(@, [sig |-> s, mask |-> w.blocked]),
                  !.blocked = @ \cup act.mask \cup (IF "NODEFER" \in act.flags THEN {} ELSE {s}),
                  !.action = IF "RESETHAND" \in act.flags THEN [@ EXCEPT ![s] = Default]
                                                          ELSE @]

\* One turn of the loop, with a writable stack or not. A frame that cannot be
\* written makes receive_signal call deliver_signal, which takes sighand->lock
\* again.
Take(w, s, writable) ==
    LET taken == [w EXCEPT !.pending = @ \ {s}]
        does == signal_action(w.action, s)
    IN  CASE w.pc # "user" \/ s \in w.ignore -> [w EXCEPT !.kept = Append(@, s)]
          [] w.pc = "user" /\ s \notin w.ignore /\ does = "IGNORE" -> taken
          [] w.pc = "user" /\ s \notin w.ignore /\ does = "KILL" -> [taken EXCEPT !.pc = "dead"]
          [] OTHER -> IF writable THEN CallHandler(taken, s)
                                  ELSE [CallHandler(taken, s) EXCEPT !.pc = "hung",
                                      !.frames = w.frames, !.action = w.action]

\* receive_signals, after a system call or on a timer interrupt.
ReceiveSignals(writable) ==
    LET w == FoldLeft(LAMBDA acc, s : Take(acc, s, writable), Walk, queue)
    IN  /\ pc = "ret" \/ (pc = "user" /\ queue # <<>>)
        /\ pc' = w.pc
        /\ queue' = w.kept
        /\ pending' = w.pending
        /\ blocked' = w.blocked
        /\ saved_mask' = <<>>
        /\ action' = w.action
        /\ frames' = w.frames
        /\ UNCHANGED base

----------------------------------------------------------------------------
Next ==
    \/ \E s \in AllSigs : Send(s)
    \/ \E s \in Sig, act \in Action : Sigaction(s, act)
    \/ \E mask \in SUBSET AllSigs :
          Sigprocmask(mask) \/ Ppoll(mask) \/ Sigtimedwait(mask)
    \/ CallReturns
    \/ Sigreturn
    \/ \E writable \in {TRUE, ~StackFault} : ReceiveSignals(writable)

Spec == Init /\ [][Next]_vars

----------------------------------------------------------------------------
(* Properties                                                              *)

\* Every variable has its type.
TypeOK ==
    /\ pc \in {"user", "call", "ret", "dead", "hung"}
    /\ queue \in Seq(AllSigs) /\ pending \subseteq AllSigs
    /\ blocked \subseteq AllSigs
    /\ Len(saved_mask) <= 1 /\ \A i \in DOMAIN saved_mask : saved_mask[i] \subseteq AllSigs
    /\ action \in [Sig -> Action]
    /\ \A i \in DOMAIN frames : frames[i] \in Frame
    /\ base \subseteq AllSigs

\* What is on the queue is pending and is there once, whatever is sent while
\* signals are taken, blocked or waited for: deliver_signal_unlocked can rely on
\* the set to tell what it need not queue.
QueuedOnce ==
    /\ ToSet(queue) \subseteq pending
    /\ IsInjective(queue)

\* "set the signal mask, restore it to what it was before on the next
\* receive_signals call" (sigmask_set_temp): however temporary masks, nested
\* handlers and returns from them follow each other, a program that is outside
\* all handlers has the mask it last set there, and the outermost frame holds
\* that mask while handlers run.
MaskRestored ==
    /\ pc = "user" /\ frames = <<>> => blocked = base
    /\ frames # <<>> => Head(frames).mask = base

\* sigpending reports, "as defined by the standard", signals that are waiting
\* to be received: none that is no longer on the queue.
SigpendingExact ==
    pc = "user" => pending \cap blocked \subseteq ToSet(queue)
====
