------------------------------ MODULE MCSignal ------------------------------
(* Instances of Signal: the masks given to sigaction.                      *)
EXTENDS Signal

NoMask == {{}}
KillMask == {{}, {"B", KILL}}
====
