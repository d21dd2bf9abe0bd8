----------------------------- MODULE ByteLocks -----------------------------
(***************************************************************************)
(* What POSIX record locks on one file promise: every owner holds a lock   *)
(* type, or none, on every byte; a request sets the type of a range of     *)
(* bytes at once, unless another owner's lock on one of them forbids it.   *)
(***************************************************************************)
EXTENDS Integers

CONSTANTS Owner, Top

VARIABLE held    \* the lock each owner has on each byte

Byte == 0..Top
Compatible(a, b) == a = "UN" \/ b = "UN" \/ (a = "RD" /\ b = "RD")

Init == held = [o \in Owner |-> [p \in Byte |-> "UN"]]

(* The locks h once the bytes of a range are given a type. *)
Update(h, o, type, range) ==
    [h EXCEPT ![o] = [p \in Byte |-> IF p \in range THEN type ELSE @[p]]]

Grantable(h, o, type, range) ==
    \A u \in Owner \ {o}, p \in range : Compatible(h[u][p], type)

(* A lock or, with type "UN", an unlock of a range; or, when the owner     *)
(* closes the file, the loss of all its locks on it.                       *)
Next ==
    LET h == held
        h2 == held' IN
    \E o \in Owner :
        \/ \E type \in {"RD", "WR", "UN"}, s, e \in Byte :
               s <= e /\ h2 = Update(h, o, type, s..e) /\ Grantable(h, o, type, s..e)
        \/ h2 = Update(h, o, "UN", Byte)

Spec == Init /\ [][Next]_held
=============================================================================
