----------------------------- MODULE MCFileLock -----------------------------
(***************************************************************************)
(* Instances of FileLock: two or three owners and a file of a few bytes,   *)
(* the last of which is OFF_T_MAX.                                         *)
(***************************************************************************)
EXTENDS FileLock

CONSTANTS o1, o2, o3
MCSymmetry == Permutations(Owner)
=============================================================================
