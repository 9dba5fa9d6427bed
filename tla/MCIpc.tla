------------------------------- MODULE MCIpc -------------------------------
(* Ipc for TLC: one client that writes lines of most kinds, enough to      *)
(* pass the command limit, and one that comes while or after it is served. *)
EXTENDS Ipc

CONSTANTS c1, c2

MCConns == {c1, c2}

MCLineKinds == [c \in MCConns |->
    IF c = c1 THEN AllKinds \ {"bad", "hello"} ELSE {"command", "bad", "hello"}]

MCMaxLines == [c \in MCConns |-> IF c = c1 THEN 3 ELSE 1]
=============================================================================
