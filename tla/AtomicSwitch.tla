---------------------------- MODULE AtomicSwitch ----------------------------
(***************************************************************************)
(* What KillSwitch promises on a host where its commands work: a switch.   *)
(* An enable() closes the filter at one moment and a disable() opens it at *)
(* one moment, however many commands they take; until then the filter is   *)
(* as before, after it as wanted, and no call returns without it.  A       *)
(* process that dies leaves the filter as it is; one that ends in order,   *)
(* or starts, may open it and never closes it.                             *)
(***************************************************************************)

VARIABLES
    filter,   \* "open" or "closed"
    want,     \* what the call in progress is for, "none" between calls
    life      \* of the daemon: "up" or "down"

vars == <<filter, want, life>>

Init == filter = "open" /\ want = "none" /\ life = "down"

Call(w) ==
    /\ life = "up" /\ want = "none"
    /\ want' = w
    /\ UNCHANGED <<filter, life>>

Act ==
    /\ want # "none"
    /\ filter' = want
    /\ UNCHANGED <<want, life>>

Return ==
    /\ want # "none"
    /\ filter' = want
    /\ want' = "none"
    /\ UNCHANGED life

Die ==
    /\ life' = "down" /\ want' = "none"
    /\ UNCHANGED filter

\* The orderly end, in two steps, and the start: each may clean up.
CleansUp ==
    /\ life' = "down" \/ life = "down"
    /\ want = "none"
    /\ filter' \in {filter, "open"}
    /\ UNCHANGED want

Next ==
    \/ \E w \in {"open", "closed"} : Call(w)
    \/ Act \/ Return \/ Die \/ CleansUp

Spec == Init /\ [][Next]_vars
=============================================================================
