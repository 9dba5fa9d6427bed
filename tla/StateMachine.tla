---------------------------- MODULE StateMachine ----------------------------
(***************************************************************************)
(* StateMachine of src/state/machine.rs driven by handle_event alone, in   *)
(* any order of events: what the transition table promises by itself.      *)
(***************************************************************************)
EXTENDS VpnState

VARIABLES
    machine,   \* the machine: its state and its retry counter
    last       \* the event handle_event was last called with

vars == <<machine, last>>

NoEvent == EventOf("NoEvent", NoServer)

Init ==
    /\ machine = InitialMachine
    /\ last = NoEvent

HandleEvent(e) ==
    /\ machine' = ComputeTransition(machine, e)
    /\ last' = e

Next == \E e \in Events : HandleEvent(e)

Spec == Init /\ [][Next]_vars

----------------------------------------------------------------------------
(* The type invariant. *)
TypeOK ==
    /\ machine \in Machines
    /\ last \in Events \cup {NoEvent}

\* Exactly the Disconnected state has no server: server_name() is what every
\* handler uses to decide whose drop an event announces.
ServerIffActive ==
    machine.state.server = NoServer <=> machine.state.kind = "Disconnected"

\* The debug_assert of handle_event: the attempt shown to the user is the
\* canonical retry counter.
AttemptIsRetries ==
    machine.state.kind = "Reconnecting" => machine.state.attempt = machine.retries

\* A retry cycle never shows an attempt beyond the budget: attempt 1 is free
\* (it is set when the connection is lost, whatever max_retries is), every
\* later one is strictly below max_retries.
RetryBudget ==
    /\ machine.state.kind = "Reconnecting" =>
           machine.state.attempt = 1 \/ machine.state.attempt < MaxRetries
    /\ machine.state.kind \in {"Disconnected", "Connecting"} =>
           machine.retries = 0

\* The machine claims a tunnel only on evidence: it enters Connected for a
\* server only because NetworkManager named that server, or because a health
\* check passed on the server it was already degraded on.
ConnectedOnEvidence ==
    [][machine'.state.kind = "Connected" /\ machine'.state # machine.state =>
          \/ last'.type \in {"NmVpnUp", "NmVpnChanged"}
             /\ last'.server = machine'.state.server
          \/ last'.type = "HealthOk"
             /\ machine.state.kind = "Degraded"
             /\ machine.state.server = machine'.state.server]_vars

\* Inside a retry cycle the attempt only climbs: no event (a second drop, a
\* wake, a request for another server) restarts it, changes its server or skips
\* an attempt.  With RetryBudget, a cycle is at most MaxRetries attempts long.
AttemptsClimb ==
    [][machine.state.kind = "Reconnecting" /\ machine'.state.kind = "Reconnecting" =>
          \/ machine' = machine
          \/ machine'.state = Reconnecting(machine.state.server, machine.state.attempt + 1)]_vars

\* PROMISES.md PR4: a health verdict of degraded or dead leaves Connected.
LeakSignalLeavesConnected ==
    last.type \in {"HealthDegraded", "HealthDead"} =>
        machine.state.kind # "Connected"
=============================================================================
