------------------------------ MODULE VpnState ------------------------------
(***************************************************************************)
(* The pure part of the VPN state machine of src/state: the states, the    *)
(* events and the transition rules, as operators on a machine value        *)
(*                                                                         *)
(*     m = [state |-> VpnState, retries |-> u32]                           *)
(*                                                                         *)
(* StateMachine runs them as a specification of their own; Supervisor      *)
(* applies them from its handlers.                                         *)
(***************************************************************************)
EXTENDS Naturals

CONSTANTS
    Servers,     \* the VPN profiles NetworkManager knows
    NoServer,    \* stands for Rust's None where a profile name is optional
    MaxRetries   \* StateMachineConfig.max_retries (config: 0..100)

ASSUME ServersAssumption == NoServer \notin Servers
ASSUME MaxRetriesAssumption == MaxRetries \in Nat

----------------------------------------------------------------------------
(* States.  A state is a record; `server` is NoServer and `attempt` 0 in   *)
(* the variants that do not carry the field.  Failure reasons are dropped: *)
(* nothing branches on them.                                               *)

StateOf(k, s, n) == [kind |-> k, server |-> s, attempt |-> n]

Disconnected == StateOf("Disconnected", NoServer, 0)
Connecting(s) == StateOf("Connecting", s, 0)
Connected(s) == StateOf("Connected", s, 0)
Degraded(s) == StateOf("Degraded", s, 0)
Reconnecting(s, n) == StateOf("Reconnecting", s, n)
Failed(s) == StateOf("Failed", s, 0)

Kinds == {"Disconnected", "Connecting", "Connected", "Degraded",
          "Reconnecting", "Failed"}

VpnStates == [kind : Kinds, server : Servers \cup {NoServer}, attempt : Nat]

\* server_name(): None exactly in Disconnected.
ServerName(st) == st.server

\* is_busy(): the states in which a resync that finds no VPN changes nothing.
IsBusy(st) == st.kind \in {"Connecting", "Reconnecting"}

----------------------------------------------------------------------------
(* Events. *)

EventOf(t, s) == [type |-> t, server |-> s]

UserEnable(s) == EventOf("UserEnable", s)
NmVpnUp(s) == EventOf("NmVpnUp", s)
NmVpnChanged(s) == EventOf("NmVpnChanged", s)
UserDisable == EventOf("UserDisable", NoServer)
NmVpnDown == EventOf("NmVpnDown", NoServer)
HealthOk == EventOf("HealthOk", NoServer)
HealthDegraded == EventOf("HealthDegraded", NoServer)
HealthDead == EventOf("HealthDead", NoServer)
Wake == EventOf("Wake", NoServer)
Timeout == EventOf("Timeout", NoServer)
ConnectionFailed == EventOf("ConnectionFailed", NoServer)

ServerEvents == {"UserEnable", "NmVpnUp", "NmVpnChanged"}

PlainEvents == {"UserDisable", "NmVpnDown", "NmDeviceChanged", "HealthOk",
                "HealthDegraded", "HealthDead", "Sleep", "Wake", "Timeout",
                "ConnectionFailed", "EndpointFailed"}

Events == [type : ServerEvents, server : Servers]
              \cup [type : PlainEvents, server : {NoServer}]

----------------------------------------------------------------------------
(* Transition rules.  Each operator returns the next machine; returning m  *)
(* itself is the source's (None, _): no transition.                        *)

To(st, r) == [state |-> st, retries |-> r]

\* Mutant of Retry: the budget is one too large.
RetryOneTooMany(m) ==
    LET r == m.retries + 1
    IN  IF r > MaxRetries THEN To(Failed(m.state.server), r)
                          ELSE To(Reconnecting(m.state.server, r), r)

\* One more retry: give up when the budget is used, else keep reconnecting
\* with the attempt number derived from the counter.
Retry(m) ==
    LET r == m.retries + 1
    IN  IF r >= MaxRetries THEN To(Failed(m.state.server), r)
                           ELSE To(Reconnecting(m.state.server, r), r)

\* A connection that was up is lost: a new retry cycle starts at attempt 1.
Lost(m) == To(Reconnecting(m.state.server, 1), 1)

\* The rules that apply in every state, tried when no per-state rule matched.
FallThrough(m, e) ==
    IF e.type = "UserDisable" THEN To(Disconnected, 0) ELSE m

FromDisconnected(m, e) ==
    CASE e.type = "UserEnable" -> To(Connecting(e.server), 0)
      [] e.type = "NmVpnUp" -> To(Connected(e.server), 0)
      [] OTHER -> FallThrough(m, e)

FromConnecting(m, e) ==
    CASE e.type = "NmVpnUp" -> To(Connected(e.server), 0)
      [] e.type = "ConnectionFailed" -> To(Disconnected, 0)
      [] e.type \in {"Timeout", "NmVpnDown"} -> Retry(m)
      [] OTHER -> FallThrough(m, e)

FromConnected(m, e) ==
    CASE e.type = "HealthDegraded" -> To(Degraded(m.state.server), m.retries)
      [] e.type = "NmVpnDown" -> Lost(m)
      [] e.type = "NmVpnChanged" -> To(Connected(e.server), 0)
      [] OTHER -> FallThrough(m, e)

FromDegraded(m, e) ==
    CASE e.type \in {"HealthDead", "NmVpnDown"} -> Lost(m)
      [] e.type = "HealthOk" -> To(Connected(m.state.server), m.retries)
      [] OTHER -> FallThrough(m, e)

\* Mutants of FromReconnecting: a passing probe is taken for a tunnel; a
\* further drop restarts the cycle.
FromReconnectingHealthOk(m, e) ==
    CASE e.type = "NmVpnUp" -> To(Connected(e.server), 0)
      [] e.type = "HealthOk" -> To(Connected(m.state.server), 0)
      [] e.type = "ConnectionFailed" -> To(Disconnected, 0)
      [] e.type = "Timeout" -> Retry(m)
      [] OTHER -> FallThrough(m, e)

FromReconnectingRestarts(m, e) ==
    CASE e.type = "NmVpnUp" -> To(Connected(e.server), 0)
      [] e.type = "ConnectionFailed" -> To(Disconnected, 0)
      [] e.type = "Timeout" -> Retry(m)
      [] e.type = "NmVpnDown" -> Lost(m)
      [] OTHER -> FallThrough(m, e)

FromReconnecting(m, e) ==
    CASE e.type = "NmVpnUp" -> To(Connected(e.server), 0)
      [] e.type = "ConnectionFailed" -> To(Disconnected, 0)
      [] e.type = "Timeout" -> Retry(m)
      [] OTHER -> FallThrough(m, e)

\* Mutant of FromFailed: an external recovery goes unnoticed.
FromFailedIgnoresUp(m, e) ==
    CASE e.type = "UserEnable" -> To(Connecting(e.server), 0)
      [] OTHER -> FallThrough(m, e)

FromFailed(m, e) ==
    CASE e.type = "UserEnable" -> To(Connecting(e.server), 0)
      [] e.type = "NmVpnUp" -> To(Connected(e.server), 0)
      [] OTHER -> FallThrough(m, e)

ComputeTransition(m, e) ==
    CASE m.state.kind = "Disconnected" -> FromDisconnected(m, e)
      [] m.state.kind = "Connecting" -> FromConnecting(m, e)
      [] m.state.kind = "Connected" -> FromConnected(m, e)
      [] m.state.kind = "Degraded" -> FromDegraded(m, e)
      [] m.state.kind = "Reconnecting" -> FromReconnecting(m, e)
      [] m.state.kind = "Failed" -> FromFailed(m, e)

\* set_state: the escape hatch.  It keeps the retry counter, except that
\* forcing Disconnected clears it.
Forced(m, st) == To(st, IF st.kind = "Disconnected" THEN 0 ELSE m.retries)

Machines == [state : VpnStates, retries : Nat]

InitialMachine == To(Disconnected, 0)
=============================================================================
