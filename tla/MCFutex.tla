------------------------------ MODULE MCFutex ------------------------------
(***************************************************************************)
(* Instances of Futex: three threads of one process for the queues, and    *)
(* two processes that use the same addresses, one of them unmapped.        *)
(***************************************************************************)
EXTENDS Futex, TLC

CONSTANTS t1, t2, t3, m1, m2, a1, a2

(* t1 has a clear_tid and may exit; the others may be exchanged. *)
MCTask == {t1, t2, t3}
MCMemOf == [t \in MCTask |-> m1]
MCMemOfTwo == [t \in MCTask |-> IF t = t3 THEN m2 ELSE m1]
MCClearTid == [t \in MCTask |-> IF t = t1 THEN a1 ELSE Nobody]
MCSymmetry == Permutations({t2, t3})
=============================================================================
