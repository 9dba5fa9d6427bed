--------------------------- MODULE ConfigRegister ---------------------------
(***************************************************************************)
(* What ConfigManager promises about config.toml: an atomic register.  A   *)
(* save takes effect at one moment, completely, or not at all (it failed,  *)
(* or its process died); until then every load sees the value from before. *)
(* Only the user's editor changes the value in any other way.              *)
(***************************************************************************)
EXTENDS Naturals

CONSTANTS Procs, Values, None

VARIABLES
    value,      \* what load() returns
    pending,    \* per process, the value it is saving, or None
    edits       \* how often the user's editor wrote the file

vars == <<value, pending, edits>>

Init ==
    /\ value \in Values
    /\ pending = [p \in Procs |-> None]
    /\ edits = 0

Save(p, c) ==
    /\ pending[p] = None
    /\ pending' = [pending EXCEPT ![p] = c]
    /\ UNCHANGED <<value, edits>>

TakeEffect(p) ==
    /\ pending[p] # None
    /\ value' = pending[p]
    /\ pending' = [pending EXCEPT ![p] = None]
    /\ UNCHANGED edits

GiveUp(p) ==
    /\ pending[p] # None
    /\ pending' = [pending EXCEPT ![p] = None]
    /\ UNCHANGED <<value, edits>>

Edit(c) ==
    /\ value' = c
    /\ edits' = edits + 1
    /\ UNCHANGED pending

Next ==
    \/ \E p \in Procs : TakeEffect(p) \/ GiveUp(p) \/ \E c \in Values : Save(p, c)
    \/ \E c \in Values : Edit(c)

Spec == Init /\ [][Next]_vars
=============================================================================
