---------------------------- MODULE MCSupervisor ----------------------------
(* Supervisor for TLC: the sets of commands the users of each run send. *)
EXTENDS Supervisor, TLC

MCMost == Commands \ {Do("Restart")}
MCQuit == {Do("Quit")}
MCNone == {}

Symmetry == Permutations(Servers)
=============================================================================
