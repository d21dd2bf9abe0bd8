------------------------------ MODULE FileLock ------------------------------
(***************************************************************************)
(* POSIX record locks on one inode: fs/lock.c, and the commands of         *)
(* sys_fcntl (fs/fd.c) that reach it.  The inode keeps a list of ranges,   *)
(* grouped by owner; a request merges with, overrides and splits the       *)
(* ranges of its owner.  inode->lock is held by every call from end to     *)
(* end, so each call is one step.                                          *)
(*                                                                         *)
(* Offsets are 0..Top, Top standing for OFF_T_MAX; a request whose offsets *)
(* would leave that interval is not made.                                  *)
(***************************************************************************)
EXTENDS Integers, Sequences, SequencesExt

CONSTANTS
    Owner,  \* file descriptor tables: a lock belongs to current->files
    Top,    \* OFF_T_MAX
    Cmd,    \* the fcntl commands in use
    Mode    \* the access modes of the descriptors in use

ASSUME TopAssumption == Top \in Nat
ASSUME ModeAssumption == Mode \subseteq {"RDONLY", "WRONLY", "RDWR"}
ASSUME CmdAssumption == Cmd \subseteq {"SETLK", "SETLKW", "SETLK64", "SETLKW64"}

VARIABLES
    posix_locks,    \* inode->posix_locks
    refused         \* the command the last call failed with EAGAIN, or "none"

vars == <<posix_locks, refused>>

Offset == 0..Top
Lock == [start : Offset, end : Offset, type : {"RD", "WR"}, owner : Owner]

Init ==
    /\ posix_locks = <<>>
    /\ refused = "none"

file_locks_overlap(a, b) == a.end >= b.start /\ b.end >= a.start

(* Mutant: only the lock that is already there can be exclusive. *)
file_locks_conflict_held(a, b) ==
    a.owner # b.owner /\ file_locks_overlap(a, b) /\ a.type = "WR"

file_locks_conflict(a, b) ==
    /\ a.owner # b.owner
    /\ file_locks_overlap(a, b)
    /\ a.type = "WR" \/ b.type = "WR"

file_locks_adjacent(a, b) == a.end = b.start - 1 \/ b.end = a.start - 1

file_lock_test(request) ==
    SelectSeq(posix_locks, LAMBDA lock : file_locks_conflict(lock, request))


SubtractTooMuch(lock, request) ==
    IF request.start > lock.start /\ request.end < lock.end
    THEN <<[lock EXCEPT !.end = request.start - 1], [lock EXCEPT !.start = request.end + 1]>>
    ELSE IF request.start <= lock.start /\ request.end >= lock.end THEN <<>>
    ELSE IF lock.start < request.start THEN <<[lock EXCEPT !.end = request.start - 1]>>
    ELSE <<[lock EXCEPT !.start = request.end + 2]>>

(* What is left of a lock of another type that overlaps the request. *)
Subtract(lock, request) ==
    IF request.start > lock.start /\ request.end < lock.end
    THEN <<[lock EXCEPT !.end = request.start - 1], [lock EXCEPT !.start = request.end + 1]>>
    ELSE IF request.start <= lock.start /\ request.end >= lock.end THEN <<>>
    ELSE IF lock.start < request.start THEN <<[lock EXCEPT !.end = request.start - 1]>>
    ELSE <<[lock EXCEPT !.start = request.end + 1]>>

(* One iteration over a lock of the request's owner: the request grows     *)
(* over what it merges with, and the lock is kept, shortened, split or     *)
(* deleted.                                                                *)
Place(acc, lock) ==
    LET r == acc.request IN
    CASE /\ r.type = lock.type
         /\ file_locks_overlap(lock, r) \/ file_locks_adjacent(r, lock) ->
            [acc EXCEPT !.request.start = IF lock.start < @ THEN lock.start ELSE @,
                        !.request.end = IF lock.end > @ THEN lock.end ELSE @]
      [] r.type # lock.type /\ file_locks_overlap(lock, r) ->
            [acc EXCEPT !.kept = @ \o Subtract(lock, r)]
      [] OTHER -> [acc EXCEPT !.kept = Append(@, lock)]

(* The loop stops at the end of the first run of locks of the owner. *)
GroupStart(o) == SelectInSeq(posix_locks, LAMBDA lock : lock.owner = o)
GroupEnd(o) ==
    LET first == GroupStart(o)
        other == {i \in first..Len(posix_locks) : posix_locks[i].owner # o}
    IN  IF other = {} THEN Len(posix_locks) ELSE Min(other) - 1

(* Mutant: the new lock goes to the front of the list. *)
InsertFront(before, kept, lock, after) == lock \o before \o kept \o after

(* list_add_before the lock the loop stopped at. *)
Insert(before, kept, lock, after) == before \o kept \o lock \o after

(* file_lock_acquire, once no lock conflicts. *)
file_lock_acquire(request) ==
    LET n == Len(posix_locks)
        found == GroupStart(request.owner) > 0
        first == IF found THEN GroupStart(request.owner) ELSE n + 1
        last == IF found THEN GroupEnd(request.owner) ELSE n
        done == FoldLeft(Place, [request |-> request, kept |-> <<>>],
                         SubSeq(posix_locks, first, last))
        new == IF request.type = "UN" THEN <<>> ELSE <<done.request>>
    IN  Insert(SubSeq(posix_locks, 1, first - 1), done.kept, new,
               SubSeq(posix_locks, last + 1, n))

(* file_lock_from_flock after the offset of whence is added to start. *)
file_lock_from_flock(start, len) ==
    CASE len > 0 -> [start |-> start, end |-> start + len - 1]
      [] len < 0 -> [start |-> start - 1 + len + 1, end |-> start - 1]
      [] len = 0 -> [start |-> start, end |-> Top]

(* Mutant: the length of a range is the difference of its ends. *)
flock_from_file_lock_short(lock) ==
    [start |-> lock.start, len |-> IF lock.end # Top THEN lock.end - lock.start ELSE 0]

flock_from_file_lock(lock) ==
    [start |-> lock.start, len |-> IF lock.end # Top THEN lock.end - lock.start + 1 ELSE 0]

(* The modes fcntl_setlk refuses with EBADF. *)
WrongMode(type, mode) == <<type, mode>> \in {<<"RD", "WRONLY">>, <<"WR", "RDONLY">>}

(* The blocking argument sys_fcntl passes: each pair of commands is        *)
(* compared with the waiting command of the other pair.                    *)
Blocking(cmd) == IF cmd \in {"SETLK", "SETLKW"} THEN cmd = "SETLKW64" ELSE cmd = "SETLKW"

(* fcntl_setlk.  With blocking it would sleep on posix_unlock and try      *)
(* again; sys_fcntl never asks for that (see Blocking).                    *)
fcntl_setlk(o, cmd, type, mode, start, len) ==
    LET range == file_lock_from_flock(start, len)
        request == [start |-> range.start, end |-> range.end, type |-> type, owner |-> o]
        conflict == type # "UN" /\ file_lock_test(request) # <<>> IN
    /\ range.start \in Offset /\ range.end \in Offset
    /\ \/ /\ WrongMode(type, mode)
          /\ refused' = "none"
          /\ UNCHANGED posix_locks
       \/ /\ ~WrongMode(type, mode)
          /\ conflict
          /\ ~Blocking(cmd)
          /\ refused' = cmd
          /\ UNCHANGED posix_locks
       \/ /\ ~WrongMode(type, mode)
          /\ ~conflict
          /\ posix_locks' = file_lock_acquire(request)
          /\ refused' = "none"

(* fdtable_close of any descriptor of the file. *)
file_lock_remove_owned_by(o) ==
    /\ posix_locks' = SelectSeq(posix_locks, LAMBDA lock : lock.owner # o)
    /\ UNCHANGED refused

Next ==
    \E o \in Owner :
        \/ \E cmd \in Cmd, type \in {"RD", "WR", "UN"}, mode \in Mode,
              start \in Offset, len \in (-Top)..(Top + 1) :
                fcntl_setlk(o, cmd, type, mode, start, len)
        \/ file_lock_remove_owned_by(o)

Spec == Init /\ [][Next]_vars

-----------------------------------------------------------------------------

(* The list holds well formed locks with at least one byte. *)
TypeOK ==
    /\ posix_locks \in Seq(Lock)
    /\ \A i \in 1..Len(posix_locks) : posix_locks[i].start <= posix_locks[i].end
    /\ refused \in Cmd \cup {"none"}

(* No two owners hold conflicting locks, after any sequence of merges,     *)
(* splits, overrides and closes.                                           *)
NoConflict ==
    \A i, j \in 1..Len(posix_locks) : ~file_locks_conflict(posix_locks[i], posix_locks[j])

(* The form file_lock_acquire relies on: the locks are grouped by owner,   *)
(* ranges of one owner are disjoint, and ranges of one owner and type that *)
(* touch have been merged.                                                 *)
Canonical ==
    \A i, j \in 1..Len(posix_locks) :
        LET a == posix_locks[i]  b == posix_locks[j] IN
        i < j /\ a.owner = b.owner =>
            /\ \A k \in i..j : posix_locks[k].owner = a.owner
            /\ ~file_locks_overlap(a, b)
            /\ a.type = b.type => a.end + 1 # b.start /\ b.end + 1 # a.start

(* What fcntl_getlk reports of a blocking lock, read back as a request,    *)
(* covers exactly that lock.                                               *)
GetlkRoundTrip ==
    \A i \in 1..Len(posix_locks) :
        LET lock == posix_locks[i]
            flock == flock_from_file_lock(lock)
        IN  file_lock_from_flock(flock.start, flock.len) = [start |-> lock.start, end |-> lock.end]

(* The type an owner's locks give each byte. *)
HeldType(o, p) ==
    IF \E i \in 1..Len(posix_locks) : posix_locks[i].owner = o /\ p \in posix_locks[i].start..posix_locks[i].end
    THEN posix_locks[CHOOSE i \in 1..Len(posix_locks) :
             posix_locks[i].owner = o /\ p \in posix_locks[i].start..posix_locks[i].end].type
    ELSE "UN"

Bytes == INSTANCE ByteLocks WITH held <- [o \in Owner |-> [p \in Offset |-> HeldType(o, p)]]


(* sys_fcntl: a command of the waiting kind waits for the conflicting lock *)
(* instead of failing because of it.                                       *)
WaitingCommandsWait == refused \notin {"SETLKW", "SETLKW64"}
=============================================================================
