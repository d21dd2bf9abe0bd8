----------------------------- MODULE MCProcess -----------------------------
(* Instances of Process: the options of wait that programs use.            *)
EXTENDS Process

ExitedOnly == {{"exited"}}
WithNowait == {{"exited"}, {"exited", "nohang"}, {"exited", "nowait"}}
NeverBlocks == {{"exited", "untraced", "nohang"}}
====
