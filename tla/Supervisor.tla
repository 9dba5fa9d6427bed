----------------------------- MODULE Supervisor -----------------------------
(***************************************************************************)
(* VpnSupervisor of src/supervisor: one task that selects between tray     *)
(* commands, IPC commands, D-Bus events, the NetworkManager poll, the      *)
(* health tick and the health probe's answer, and runs the chosen handler  *)
(* to its end.  The long handlers (handle_connect, attempt_reconnect) wait *)
(* on NetworkManager many times; `pc` says where the task is, and          *)
(* NetworkManager, the D-Bus monitor and the user move between its steps.  *)
(*                                                                         *)
(* Left to other modules: the kill switch (Protection), what a probe       *)
(* concludes (HealthChecker); here a probe's verdict is any verdict.       *)
(***************************************************************************)
EXTENDS VpnState, Sequences, FiniteSets

CONSTANTS
    External,        \* profiles somebody else (nm-applet, nmcli) may start
    UserCommands,    \* the commands the tray and the IPC clients may send
    NmcliFails,      \* may an nmcli query fail (and so report no VPN)?
    HealthEnabled,   \* health_check_interval_secs > 0
    AutoConnects,    \* may auto_connect be set in the config?
    Wakes,           \* may the machine suspend and resume?
    DbusCap,         \* capacity of the D-Bus event channel
    DeferCap,        \* bound on deferred_commands (unbounded in the code)
    RetryCap,        \* bound on the retry counter: a wake resync keeps it, so
                     \* it grows with every failure after a wake (u32 in the code)
    ConnectAttempts  \* MAX_CONNECT_ATTEMPTS

ASSUME SupervisorAssumption ==
    /\ External \subseteq Servers
    /\ {NmcliFails, HealthEnabled, AutoConnects, Wakes} \subseteq BOOLEAN
    /\ {DbusCap, DeferCap, RetryCap, ConnectAttempts} \subseteq Nat \ {0}

VARIABLES
    machine,   \* the state machine; shared.state follows it in every handler
    auto,      \* shared.auto_reconnect
    nm,        \* NetworkManager: the state of every profile
    dbus,      \* events waiting in the D-Bus channel
    deferred,  \* deferred_commands
    pc,        \* where the supervisor task is
    ctx,       \* switch_ctx: in_progress, from, completed_time still fresh
    timing,    \* the TimingState fields the handlers test
    probing,   \* health_probe_in_flight
    exiting    \* exit_state.should_exit

vars == <<machine, auto, nm, dbus, deferred, pc, ctx, timing, probing, exiting>>

\* What a tray or IPC command may be: a connect to a server, or one of the
\* others.  "Settings" stands for the toggles, the reload and the commands that
\* only report or redraw: of what is modelled here they change auto, or nothing.
Connect(s) == [do |-> "Connect", server |-> s]
Do(c) == [do |-> c, server |-> NoServer]
Commands == {Connect(s) : s \in Servers}
                \cup {Do(c) : c \in {"Disconnect", "Settings", "Restart", "Quit"}}

ASSUME CommandsAssumption == UserCommands \subseteq Commands

NmStates == {"inactive", "activating", "activated", "deactivating"}

\* A D-Bus event; `during` records whether a switch was in progress when it
\* was sent (a history bit, no handler reads it).
NmEvents == [type : {"Activating", "Activated", "Deactivated", "Failed"},
             server : Servers, during : BOOLEAN]

ConnectSteps == {"settle", "up", "monitor"}
ReconnectSteps == {"check", "try", "backoff", "reup", "verify"}
Labels == {"start", "sync", "auto", "loop", "drain", "stopped"} \cup ConnectSteps \cup ReconnectSteps

At(l) == [at |-> l, server |-> NoServer, n |-> 0, ipc |-> FALSE, lost |-> FALSE]

TypeOK ==
    /\ machine \in Machines
    /\ auto \in BOOLEAN
    /\ nm \in [Servers -> NmStates]
    /\ dbus \in Seq(NmEvents)
    /\ deferred \in Seq(Commands)
    /\ pc \in [at : Labels, server : Servers \cup {NoServer}, n : Nat,
              ipc : BOOLEAN, lost : BOOLEAN]
    /\ ctx \in [inProgress : BOOLEAN, from : Servers \cup {NoServer}, fresh : BOOLEAN]
    /\ timing \in [grace : BOOLEAN, resynced : BOOLEAN, debounce : BOOLEAN,
                   cancelled : BOOLEAN, busy : BOOLEAN]
    /\ probing \in BOOLEAN
    /\ exiting \in BOOLEAN

Init ==
    /\ machine = InitialMachine
    /\ auto \in BOOLEAN
    /\ nm \in [Servers -> {"inactive", "activated"}]
    /\ dbus = <<>>
    /\ deferred = <<>>
    /\ pc = At("start")
    /\ ctx = [inProgress |-> FALSE, from |-> NoServer, fresh |-> FALSE]
    /\ timing = [grace |-> FALSE, resynced |-> FALSE, debounce |-> FALSE,
                 cancelled |-> FALSE, busy |-> FALSE]
    /\ probing = FALSE
    /\ exiting = FALSE

----------------------------------------------------------------------------
(* NetworkManager, as the supervisor sees it through nmcli and D-Bus. *)

InState(q, st) == {s \in Servers : q[s] = st}

\* get_all_active_vpns: every profile that is not inactive.
ActiveIn(q) == {s \in Servers : q[s] # "inactive"}

SeveralActive(q) == \E s, t \in ActiveIn(q) : s # t

\* What a query may return: the truth, or nothing when nmcli fails.
Answers == {nm} \cup {[s \in Servers |-> "inactive"] : b \in {NmcliFails} \cap {TRUE}}

\* select_best_vpn: an activated profile, else an activating one, else a
\* deactivating one; the first in nmcli's order, which is arbitrary.
BestVpns(q) ==
    CASE InState(q, "activated") # {} -> InState(q, "activated")
      [] InState(q, "activated") = {} /\ InState(q, "activating") # {} ->
             InState(q, "activating")
      [] OTHER -> InState(q, "deactivating")

OrNone(S) == IF S = {} THEN {NoServer} ELSE S

\* get_active_vpn: the best profile if it is activated.
ActiveVpns(q) == OrNone(InState(q, "activated"))

Ev(t, s) == [type |-> t, server |-> s, during |-> ctx.inProgress]

\* The D-Bus monitor relays signals with try_send: one is lost when the
\* channel is full, inside the 500 ms dedup window, for WireGuard profiles,
\* and while the monitor reconnects.  Relay(q, S) leaves in the channel q
\* followed by one of the sequences of S that fits.
Relay(q, S) ==
    \E kept \in S :
        /\ Len(q) + Len(kept) <= DbusCap
        /\ dbus' = q \o kept

Maybe(a) == {<<>>, <<a>>}
MaybeBoth(a, b) == {<<>>, <<a>>, <<b>>, <<a, b>>}
MaybeAll(E) ==
    UNION {{f \in [1 .. n -> E] : \A i, j \in 1 .. n : f[i] = f[j] => i = j}
              : n \in 0 .. DbusCap}

\* nm.disconnect on each profile of S: those in D go down, the others fail
\* (a profile that is not active counts as disconnected).
NmDisconnect(q, S, D) ==
    /\ D \in SUBSET S
    /\ nm' = [s \in Servers |-> IF s \in D THEN "inactive" ELSE nm[s]]
    /\ Relay(q, MaybeAll({Ev("Deactivated", s) : s \in D \cap ActiveIn(nm)}))

\* nm.connect(s): ok when nmcli reports success or "already active"; an error
\* leaves the profile down (rejected), activating (timeout) or untouched.
NmConnect(s, ok) ==
    \/ /\ ok
       /\ nm[s] \in {"activating", "activated"}
       /\ UNCHANGED <<nm, dbus>>
    \/ /\ ok
       /\ nm[s] # "activated"
       /\ nm' = [nm EXCEPT ![s] = "activated"]
       /\ Relay(dbus, MaybeBoth(Ev("Activating", s), Ev("Activated", s)))
    \/ /\ ~ok
       /\ \/ /\ nm[s] # "activated"
             /\ nm' = [nm EXCEPT ![s] = "inactive"]
             /\ Relay(dbus, MaybeBoth(Ev("Activating", s), Ev("Failed", s)))
          \/ /\ nm[s] # "activated"
             /\ nm' = [nm EXCEPT ![s] = "activating"]
             /\ Relay(dbus, Maybe(Ev("Activating", s)))
          \/ UNCHANGED <<nm, dbus>>

\* What NetworkManager does by itself or for somebody else.
NmMove(s, from, to, evs) ==
    /\ nm[s] = from
    /\ nm' = [nm EXCEPT ![s] = to]
    /\ Relay(dbus, evs)
    /\ UNCHANGED <<machine, auto, deferred, pc, ctx, timing, probing, exiting>>

NmStart(s) == s \in External /\ NmMove(s, "inactive", "activating", Maybe(Ev("Activating", s)))
NmUp(s) == NmMove(s, "activating", "activated", Maybe(Ev("Activated", s)))
NmFail(s) == NmMove(s, "activating", "inactive", Maybe(Ev("Failed", s)))
NmStop(s) == NmMove(s, "activated", "deactivating", {<<>>})
NmGone(s) == NmMove(s, "deactivating", "inactive",
                    Maybe(Ev("Deactivated", s)) \cup Maybe(Ev("Failed", s)))

----------------------------------------------------------------------------
(* Shared pieces of the handlers. *)

Current == ServerName(machine.state)

\* dispatch followed by sync_shared_state.
Dispatch(e) == machine' = ComputeTransition(machine, e)

\* machine.set_state followed by sync_shared_state.
SetState(st) == machine' = Forced(machine, st)

\* attempt_reconnect up to its first query, on the machine m the caller left:
\* the duplicate guard, then the debounce, which returns without a word.
StartReconnect(s, m) ==
    /\ machine' = m
    /\ IF timing.busy \/ timing.debounce
       THEN UNCHANGED <<pc, timing>>
       ELSE /\ timing' = [timing EXCEPT !.debounce = TRUE, !.cancelled = FALSE,
                                        !.busy = TRUE]
            /\ pc' = [At("check") EXCEPT !.server = s]

\* A drop the caller noticed: reconnect, or settle in st.
DropOr(s, e, st) ==
    IF auto THEN StartReconnect(s, ComputeTransition(machine, e))
            ELSE SetState(st) /\ UNCHANGED <<pc, timing>>

\* Mutant of Return: the deferred commands are forgotten.
ReturnForgets(ipc, stop, d) ==
    IF ipc /\ stop THEN At("stopped") ELSE At("loop")

\* Where the task goes after a handler: an IPC command is followed by the exit
\* check; the others go on draining deferred commands d, if any.
Return(ipc, stop, d) ==
    CASE ipc /\ stop -> At("stopped")
      [] ~ipc /\ d # <<>> -> At("drain")
      [] OTHER -> At("loop")

----------------------------------------------------------------------------
(* handle_connect. *)

\* The switch context, the grace period, and the disconnection of every other
\* active VPN.  n records whether there were any.
BeginConnect(s, ipc) ==
    \E q \in Answers : \E D \in SUBSET Servers :
        LET others == ActiveIn(q) \ {s}
            froms == IF Current \notin {s, NoServer} THEN {Current}
                     ELSE IF ctx.from # NoServer THEN {ctx.from}
                     ELSE OrNone(others)
        IN  /\ \E f \in froms :
                   ctx' = [ctx EXCEPT !.inProgress = TRUE, !.from = f]
            /\ timing' = [timing EXCEPT !.grace = TRUE]
            /\ NmDisconnect(dbus, others, D)
            /\ pc' = [At("settle") EXCEPT !.server = s, !.ipc = ipc,
                                          !.n = IF others = {} THEN 0 ELSE 1]
            /\ UNCHANGED <<machine, auto, probing, exiting>>

\* Mutant of FinishConnect: a failed attempt leaves in_progress set.
FinishConnectForgetsFlag(ok) ==
    /\ ctx' = [inProgress |-> ~ok, fresh |-> ok,
               from |-> IF ok THEN ctx.from ELSE NoServer]
    /\ timing' = [timing EXCEPT !.grace = FALSE]
    /\ Dispatch(IF ok THEN NmVpnUp(pc.server) ELSE ConnectionFailed)
    /\ pc' = Return(pc.ipc, exiting, deferred)

\* The end of handle_connect, merged with the step that decides it.
FinishConnect(ok) ==
    /\ ctx' = [inProgress |-> FALSE, fresh |-> ok,
               from |-> IF ok THEN ctx.from ELSE NoServer]
    /\ timing' = [timing EXCEPT !.grace = FALSE]
    /\ Dispatch(IF ok THEN NmVpnUp(pc.server) ELSE ConnectionFailed)
    /\ pc' = Return(pc.ipc, exiting, deferred)

NextConnectAttempt ==
    IF pc.n < ConnectAttempts
    THEN /\ pc' = [pc EXCEPT !.at = "up", !.n = @ + 1]
         /\ UNCHANGED <<machine, ctx, timing>>
    ELSE FinishConnect(FALSE)

\* Wait for the others to go (forcing them once the wait times out), then
\* announce the attempt to the state machine.
ConnectSettle ==
    /\ pc.at = "settle"
    /\ \E D \in SUBSET Servers :
           NmDisconnect(dbus, IF pc.n = 0 THEN {} ELSE ActiveIn(nm) \ {pc.server}, D)
    /\ Dispatch(UserEnable(pc.server))
    /\ pc' = [pc EXCEPT !.at = "up", !.n = 1]
    /\ UNCHANGED <<auto, deferred, ctx, timing, probing, exiting>>

ConnectUp ==
    /\ pc.at = "up"
    /\ \/ /\ NmConnect(pc.server, TRUE)
          /\ pc' = [pc EXCEPT !.at = "monitor"]
          /\ UNCHANGED <<machine, ctx, timing>>
       \/ /\ NmConnect(pc.server, FALSE)
          /\ NextConnectAttempt
    /\ UNCHANGED <<auto, deferred, probing, exiting>>

\* Mutant of ConnectMonitor: a VPN that is still activating counts as up.
ConnectMonitorHasty ==
    /\ pc.at = "monitor"
    /\ \E q \in Answers :
           IF q[pc.server] \in {"activated", "activating"}
           THEN FinishConnect(TRUE) ELSE NextConnectAttempt
    /\ UNCHANGED <<auto, nm, dbus, deferred, probing, exiting>>

\* The monitor loop: activated is success, activating waits until the polls
\* run out, anything else ends the attempt.
ConnectMonitor ==
    /\ pc.at = "monitor"
    /\ \E q \in Answers :
           IF q[pc.server] = "activated" THEN FinishConnect(TRUE) ELSE NextConnectAttempt
    /\ UNCHANGED <<auto, nm, dbus, deferred, probing, exiting>>

----------------------------------------------------------------------------
(* The short user commands, and the branches of the main loop that run them. *)

HandleDisconnect ==
    \E D \in SUBSET ({Current} \ {NoServer}) :
        /\ NmDisconnect(dbus, {Current} \ {NoServer}, D)
        /\ timing' = [timing EXCEPT !.cancelled = TRUE,
                                    !.grace = @ \/ Current # NoServer]
        /\ machine' = IF D = {} THEN machine ELSE ComputeTransition(machine, UserDisable)
        /\ UNCHANGED <<auto, ctx, exiting>>

\* Commands that end within the step.  handle_restart requests the exit only
\* if it could spawn the new daemon.
ShortCommand(c) ==
    \/ /\ c.do = "Disconnect"
       /\ HandleDisconnect
    \/ /\ c.do = "Settings"
       /\ auto' \in BOOLEAN
       /\ UNCHANGED <<machine, nm, dbus, ctx, timing, exiting>>
    \/ /\ c.do \in {"Restart", "Quit"}
       /\ exiting' \in {TRUE} \cup {b \in {exiting} : c.do = "Restart"}
       /\ UNCHANGED <<machine, auto, nm, dbus, ctx, timing>>

\* select! on the tray channel: the exit is checked after Restart and Quit only.
TrayCommand(c) ==
    /\ pc.at = "loop"
    /\ \/ /\ c.do = "Connect"
          /\ BeginConnect(c.server, FALSE)
       \/ /\ ShortCommand(c)
          /\ pc' = At(IF exiting' /\ c.do \in {"Restart", "Quit"} THEN "stopped" ELSE "loop")
          /\ UNCHANGED probing
    /\ UNCHANGED deferred

\* select! on the IPC channel: the exit is checked after every command.
IpcCommand(c) ==
    /\ pc.at = "loop"
    /\ \/ /\ c.do = "Connect"
          /\ BeginConnect(c.server, TRUE)
       \/ /\ ShortCommand(c)
          /\ pc' = Return(TRUE, exiting', deferred)
          /\ UNCHANGED probing
    /\ UNCHANGED deferred

\* attempt_reconnect runs the commands it deferred; nothing checks the exit.
DrainDeferred ==
    /\ pc.at = "drain"
    /\ deferred' = Tail(deferred)
    /\ \/ /\ Head(deferred).do = "Connect"
          /\ BeginConnect(Head(deferred).server, FALSE)
       \/ /\ ShortCommand(Head(deferred))
          /\ pc' = Return(FALSE, exiting', deferred')
          /\ UNCHANGED probing

----------------------------------------------------------------------------
(* handle_dbus_event. *)

\* A late deactivation of the VPN the last switch left.
Late(e) == e.type = "Deactivated" /\ e.server = ctx.from

\* The early returns.
Ignored(e) ==
    \/ ctx.inProgress
    \/ timing.resynced
    \/ Late(e) /\ ctx.fresh
    \/ timing.grace

\* The switch context is forgotten on the first late deactivation that comes
\* after the window, even when the grace period then drops the event.
ForgetSwitch(e) ==
    ctx' = IF Late(e) /\ ~ctx.inProgress /\ ~timing.resynced /\ ~ctx.fresh
           THEN [ctx EXCEPT !.from = NoServer] ELSE ctx

DbusEvent(t) ==
    /\ pc.at = "loop"
    /\ dbus # <<>>
    /\ Head(dbus).type = t
    /\ ForgetSwitch(Head(dbus))
    /\ UNCHANGED <<auto, deferred, probing, exiting>>

DbusIgnored ==
    \E t \in {"Activating", "Activated", "Deactivated", "Failed"} :
        /\ DbusEvent(t)
        /\ Ignored(Head(dbus))
        /\ dbus' = Tail(dbus)
        /\ UNCHANGED <<machine, nm, pc, timing>>

\* Newest wins: the old VPN of the machine is disconnected, or else, when
\* several are active, all the others.
DbusActivated ==
    /\ DbusEvent("Activated")
    /\ ~Ignored(Head(dbus))
    /\ \E q \in Answers : \E D \in SUBSET Servers :
           LET s == Head(dbus).server
               olds == IF Current \notin {s, NoServer} THEN {Current}
                       ELSE IF SeveralActive(q) THEN ActiveIn(q) \ {s} ELSE {}
           IN  /\ NmDisconnect(Tail(dbus), olds, D)
               /\ Dispatch(NmVpnUp(s))
    /\ UNCHANGED <<pc, timing>>

DbusActivating ==
    /\ DbusEvent("Activating")
    /\ ~Ignored(Head(dbus))
    /\ LET s == Head(dbus).server
       IN  IF machine.state \in {Connecting(s), Connected(s)}
           THEN UNCHANGED machine ELSE Dispatch(UserEnable(s))
    /\ dbus' = Tail(dbus)
    /\ UNCHANGED <<nm, pc, timing>>

DbusDeactivated ==
    /\ DbusEvent("Deactivated")
    /\ ~Ignored(Head(dbus))
    /\ \/ /\ Head(dbus).server # Current
          /\ UNCHANGED <<machine, pc, timing>>
       \/ /\ Head(dbus).server = Current
          /\ IF machine.state.kind \in {"Connected", "Degraded"}
             THEN DropOr(Current, NmVpnDown, Disconnected)
             ELSE SetState(Disconnected) /\ UNCHANGED <<pc, timing>>
    /\ dbus' = Tail(dbus)
    /\ UNCHANGED nm

\* VpnFailed is acted on whatever the machine is doing and whoever failed.
DbusFailed ==
    /\ machine.retries <= RetryCap
    /\ DbusEvent("Failed")
    /\ ~Ignored(Head(dbus))
    /\ DropOr(Head(dbus).server, NmVpnDown, Failed(Head(dbus).server))
    /\ dbus' = Tail(dbus)
    /\ UNCHANGED nm

----------------------------------------------------------------------------
(* The poll, the wake resync and the health checks. *)

\* poll_nm_state on one profile NetworkManager reports (NoServer: none).
PollOne(q, s) ==
    LET st == machine.state
        nmState == IF s = NoServer THEN "none" ELSE q[s]
    IN  CASE st.kind = "Connected" /\ nmState = "none" ->
                 DropOr(st.server, NmVpnDown, Disconnected)
          [] st.kind = "Connected" /\ nmState = "activated" /\ s # st.server ->
                 Dispatch(NmVpnChanged(s)) /\ UNCHANGED <<pc, timing>>
          [] \/ st.kind \in {"Disconnected", "Failed"} /\ nmState = "activated"
             \/ st = Connecting(s) /\ nmState = "activated" ->
                 Dispatch(NmVpnUp(s)) /\ UNCHANGED <<pc, timing>>
          [] st.kind = "Disconnected" /\ nmState = "activating" ->
                 Dispatch(UserEnable(s)) /\ UNCHANGED <<pc, timing>>
          [] OTHER -> UNCHANGED <<machine, pc, timing>>

PollTick ==
    /\ pc.at = "loop"
    /\ ~ctx.inProgress
    /\ ~timing.grace
    /\ \E q \in Answers :
           \/ /\ ~SeveralActive(q)
              /\ \E s \in OrNone(ActiveIn(q)) : PollOne(q, s)
              /\ UNCHANGED <<nm, dbus>>
           \/ /\ SeveralActive(q)
              /\ \E keep \in ActiveIn(q), D \in SUBSET Servers :
                     /\ Current \in ActiveIn(q) => keep = Current
                     /\ NmDisconnect(dbus, ActiveIn(q) \ {keep}, D)
                     /\ IF Current = keep THEN UNCHANGED machine
                                          ELSE Dispatch(NmVpnUp(keep))
              /\ UNCHANGED <<pc, timing>>
    /\ UNCHANGED <<auto, deferred, ctx, probing, exiting>>

\* A poll tick that finds the wall clock ahead of the monotonic one: the
\* Wake event (no transition), then force_state_resync, which believes
\* NetworkManager, drops the queued events and ignores the next ones.
WakeTick ==
    /\ Wakes
    /\ pc.at = "loop"
    /\ \E q \in Answers : \E s \in OrNone(BestVpns(q)) :
           CASE s = NoServer ->
                    IF IsBusy(machine.state) THEN Dispatch(Wake) ELSE SetState(Disconnected)
             [] s # NoServer /\ q[s] = "activated" -> SetState(Connected(s))
             [] s # NoServer /\ q[s] = "activating" -> SetState(Connecting(s))
             [] OTHER -> SetState(Disconnected)
    /\ timing' = [timing EXCEPT !.grace = FALSE, !.resynced = TRUE]
    /\ dbus' = <<>>
    /\ UNCHANGED <<auto, nm, deferred, pc, ctx, probing, exiting>>

\* Mutant of OutOfSync: Connected is not compared with NetworkManager.
OutOfSyncTrustsConnected(st, a) ==
    \/ st.kind \in {"Disconnected", "Reconnecting", "Failed"} /\ a # NoServer
    \/ st.kind = "Degraded" /\ a # st.server
    \/ st.kind = "Connecting" /\ a = NoServer /\ ~auto

\* sync_state_from_nm: the arms that report a correction...
OutOfSync(st, a) ==
    \/ st.kind \in {"Disconnected", "Reconnecting", "Failed"} /\ a # NoServer
    \/ st.kind \in {"Connected", "Degraded"} /\ a # st.server
    \/ st.kind = "Connecting" /\ a = NoServer /\ ~auto

\* ... and what they do.
SyncStateFromNm(a) ==
    /\ IF a = NoServer THEN SetState(Disconnected) ELSE Dispatch(NmVpnUp(a))
    /\ timing' = [timing EXCEPT !.cancelled = @ \/ machine.state.kind = "Reconnecting"]

\* begin_health_check: a correction skips the cycle; otherwise a probe is
\* launched, unless checks are suspended or there is no tunnel to probe.
HealthTick ==
    /\ HealthEnabled
    /\ pc.at = "loop"
    /\ ~probing
    /\ \E q \in Answers : \E a \in ActiveVpns(q) :
           \/ /\ OutOfSync(machine.state, a)
              /\ SyncStateFromNm(a)
              /\ UNCHANGED probing
           \/ /\ ~OutOfSync(machine.state, a)
              /\ machine.state.kind \in {"Connected", "Degraded"}
              /\ probing' = TRUE
              /\ UNCHANGED <<machine, timing>>
    /\ UNCHANGED <<auto, nm, dbus, deferred, pc, ctx, exiting>>

\* finish_health_check with the verdict v, against the state of the moment.
ProbeDone(v) ==
    /\ pc.at = "loop"
    /\ probing
    /\ probing' = FALSE
    /\ LET st == machine.state
       IN  CASE v = "Dead" /\ st.kind \in {"Connected", "Degraded"} ->
                    DropOr(st.server, HealthDead, Disconnected)
             [] v = "Degraded" /\ st.kind = "Connected" ->
                    Dispatch(HealthDegraded) /\ UNCHANGED <<pc, timing>>
             [] v = "Healthy" /\ st.kind = "Degraded" ->
                    Dispatch(HealthOk) /\ UNCHANGED <<pc, timing>>
             [] OTHER -> UNCHANGED <<machine, pc, timing>>
    /\ UNCHANGED <<auto, nm, dbus, deferred, ctx, exiting>>

----------------------------------------------------------------------------
(* attempt_reconnect_inner, step by step. *)

\* The loop is left: the deferred commands d come next.
EndReconnect(t, d) ==
    /\ timing' = [t EXCEPT !.busy = FALSE]
    /\ pc' = Return(FALSE, FALSE, d)

\* should_attempt_reconnect found an active VPN a: believe it and stop.
ResolvedBy(a) == Dispatch(NmVpnUp(a)) /\ EndReconnect(timing, deferred)

GiveUp == SetState(Failed(pc.server)) /\ EndReconnect(timing, deferred)

\* Mutants of NextAttempt: one attempt too many; the same attempt for ever.
NextAttemptOneTooMany ==
    IF pc.n <= MaxRetries
    THEN /\ pc' = [pc EXCEPT !.at = "try", !.n = @ + 1]
         /\ UNCHANGED <<machine, timing>>
    ELSE GiveUp

NextAttemptStuck ==
    IF pc.n < MaxRetries
    THEN /\ pc' = [pc EXCEPT !.at = "try"]
         /\ UNCHANGED <<machine, timing>>
    ELSE GiveUp

NextAttempt ==
    IF pc.n < MaxRetries
    THEN /\ pc' = [pc EXCEPT !.at = "try", !.n = @ + 1]
         /\ UNCHANGED <<machine, timing>>
    ELSE GiveUp

\* The first query, and the check that the profile still exists (it may have
\* been deleted, or the listing may fail).
ReconnectCheck ==
    /\ pc.at = "check"
    /\ \E q \in Answers : \E a \in ActiveVpns(q) :
           \/ a # NoServer /\ ResolvedBy(a)
           \/ a = NoServer /\ NextAttempt
           \/ a = NoServer /\ NmcliFails /\ Dispatch(ConnectionFailed)
                           /\ EndReconnect(timing, deferred)
    /\ UNCHANGED <<auto, nm, dbus, deferred, ctx, probing, exiting>>

\* One turn of the loop: the cancellation flag, the query, the new state.
ReconnectTry ==
    /\ pc.at = "try"
    /\ \E q \in Answers : \E a \in ActiveVpns(q) :
           IF timing.cancelled
           THEN SetState(Disconnected) /\ EndReconnect(timing, deferred)
           ELSE IF a # NoServer
           THEN ResolvedBy(a)
           ELSE /\ SetState(Reconnecting(pc.server, pc.n))
                /\ pc' = [pc EXCEPT !.at = "backoff"]
                /\ UNCHANGED timing
    /\ UNCHANGED <<auto, nm, dbus, deferred, ctx, probing, exiting>>

BackoffElapsed ==
    /\ pc.at = "backoff"
    /\ pc' = [pc EXCEPT !.at = "reup"]
    /\ UNCHANGED <<machine, auto, nm, dbus, deferred, ctx, timing, probing, exiting>>

\* During the backoff every command but Disconnect is kept for later.
BackoffDefer(c) ==
    /\ pc.at = "backoff"
    /\ c.do # "Disconnect"
    /\ Len(deferred) < DeferCap
    /\ deferred' = Append(deferred, c)
    /\ UNCHANGED <<machine, auto, nm, dbus, pc, ctx, timing, probing, exiting>>

\* Disconnect cancels the loop, during the backoff and during the verify delay.
CancelReconnect(c) ==
    /\ pc.at \in {"backoff", "verify"}
    /\ c.do = "Disconnect"
    /\ \E D \in SUBSET Servers : NmDisconnect(dbus, {pc.server}, D)
    /\ SetState(Disconnected)
    /\ EndReconnect([timing EXCEPT !.grace = TRUE], deferred)
    /\ UNCHANGED <<auto, deferred, ctx, probing, exiting>>

ReconnectUp ==
    /\ pc.at = "reup"
    /\ \/ /\ NmConnect(pc.server, TRUE)
          /\ pc' = [pc EXCEPT !.at = "verify"]
          /\ UNCHANGED <<machine, timing>>
       \/ /\ NmConnect(pc.server, FALSE)
          /\ NextAttempt
    /\ UNCHANGED <<auto, deferred, ctx, probing, exiting>>

\* The verify delay takes commands with try_recv and keeps only Disconnect;
\* pc.lost records that another one was taken.
VerifyTake(c) ==
    /\ pc.at = "verify"
    /\ c.do # "Disconnect"
    /\ pc' = [pc EXCEPT !.lost = TRUE]
    /\ UNCHANGED <<machine, auto, nm, dbus, deferred, ctx, timing, probing, exiting>>

VerifyElapsed ==
    /\ pc.at = "verify"
    /\ \E q \in Answers : \E a \in ActiveVpns(q) :
           IF a = pc.server THEN ResolvedBy(a) ELSE NextAttempt
    /\ UNCHANGED <<auto, nm, dbus, deferred, ctx, probing, exiting>>

----------------------------------------------------------------------------
(* Startup, the passage of time, and the whole. *)

\* initial_nm_sync disconnects all active VPNs but the first of nmcli's order...
Startup ==
    /\ pc.at = "start"
    /\ \E q \in Answers : \E keep \in OrNone(ActiveIn(q)), D \in SUBSET Servers :
           NmDisconnect(dbus, ActiveIn(q) \ {keep}, D)
    /\ pc' = At("sync")
    /\ UNCHANGED <<machine, auto, deferred, ctx, timing, probing, exiting>>

\* ... waits a second and adopts the best VPN.  auto_connect, if configured,
\* applies when there was none.
InitialSync ==
    /\ pc.at = "sync"
    /\ \E q \in Answers : \E s \in OrNone(BestVpns(q)) :
           CASE s # NoServer /\ q[s] = "activated" -> Dispatch(NmVpnUp(s))
             [] s # NoServer /\ q[s] = "activating" -> Dispatch(UserEnable(s))
             [] OTHER -> UNCHANGED machine
    /\ \/ pc' = At("loop")
       \/ AutoConnects /\ machine'.state = Disconnected /\ pc' = At("auto")
    /\ UNCHANGED <<auto, nm, dbus, deferred, ctx, timing, probing, exiting>>

\* auto_connect to last_server or to the first profile listed.
AutoConnect ==
    /\ pc.at = "auto"
    /\ \E s \in Servers : BeginConnect(s, FALSE)
    /\ UNCHANGED deferred

\* A window closes: the 5 s grace, the 2 s after a resync, the 5 s after a
\* switch, the 5 s between reconnects.
WindowCloses ==
    /\ \/ /\ \E w \in {"grace", "resynced", "debounce"} :
                 timing[w] /\ timing' = [timing EXCEPT ![w] = FALSE]
          /\ UNCHANGED ctx
       \/ /\ ctx.fresh
          /\ ctx' = [ctx EXCEPT !.fresh = FALSE]
          /\ UNCHANGED timing
    /\ UNCHANGED <<machine, auto, nm, dbus, deferred, pc, probing, exiting>>

Verdicts == {"Healthy", "Degraded", "Dead", "Suspended"}

\* The steps of the supervisor task.  A tray or IPC command is whatever its
\* sender put in the channel, so each receive takes any command of UserCommands.
SupervisorNext ==
    \/ Startup \/ InitialSync \/ AutoConnect
    \/ \E c \in UserCommands :
           TrayCommand(c) \/ IpcCommand(c) \/ BackoffDefer(c)
              \/ CancelReconnect(c) \/ VerifyTake(c)
    \/ DrainDeferred
    \/ ConnectSettle \/ ConnectUp \/ ConnectMonitor
    \/ DbusIgnored \/ DbusActivated \/ DbusActivating \/ DbusDeactivated \/ DbusFailed
    \/ PollTick \/ WakeTick \/ HealthTick
    \/ \E v \in Verdicts : ProbeDone(v)
    \/ ReconnectCheck \/ ReconnectTry \/ BackoffElapsed \/ ReconnectUp \/ VerifyElapsed

\* The steps of NetworkManager and of the clock.
EnvironmentNext ==
    \/ \E s \in Servers : NmStart(s) \/ NmUp(s) \/ NmFail(s) \/ NmStop(s) \/ NmGone(s)
    \/ WindowCloses

Next == SupervisorNext \/ EnvironmentNext

Spec == Init /\ [][Next]_vars

\* Inside a handler the task goes on: every wait on NetworkManager is bounded
\* by the nmcli timeout and every sleep ends.
TaskStep ==
    \/ Startup \/ InitialSync \/ AutoConnect \/ DrainDeferred
    \/ ConnectSettle \/ ConnectUp \/ ConnectMonitor
    \/ ReconnectCheck \/ ReconnectTry \/ BackoffElapsed \/ ReconnectUp \/ VerifyElapsed

DbusStep ==
    DbusIgnored \/ DbusActivated \/ DbusActivating \/ DbusDeactivated \/ DbusFailed

\* select! picks at random among its ready branches and an interval tick stays
\* ready until it is taken, so a branch that is ready again and again is taken:
\* strong fairness for the ticks, the probe's answer and the D-Bus channel.
Fairness ==
    /\ WF_vars(TaskStep)
    /\ WF_vars(WindowCloses)
    /\ SF_vars(PollTick)
    /\ SF_vars(HealthTick)
    /\ SF_vars(\E v \in Verdicts : ProbeDone(v))
    /\ SF_vars(DbusStep)

FairSpec == Spec /\ Fairness

----------------------------------------------------------------------------
(* Safety. *)

\* The flags that guard against races say exactly where the task is.  The
\* task is alone, so at the main loop no switch is in progress and no
\* reconnect is running, and inside the reconnect loop nobody has set
\* reconnect_cancelled: those three tests never succeed, and everything they
\* were meant to hold off is held off by the task being busy.
FlagsFollowControl ==
    /\ ctx.inProgress <=> pc.at \in ConnectSteps
    /\ timing.busy <=> pc.at \in ReconnectSteps
    /\ pc.at \in ReconnectSteps => ~timing.cancelled

\* A command deferred during a reconnect is run before the main loop takes
\* anything else: the loop never resumes with one left.
DeferredDrained ==
    pc.at \in {"start", "sync", "auto", "loop", "check"} => deferred = <<>>

\* While the reconnect loop waits, dials or verifies, the state shown is the
\* attempt that is running: nothing else moves the machine under it.
AttemptShown ==
    pc.at \in {"backoff", "reup", "verify"} =>
        machine.state = Reconnecting(pc.server, pc.n) /\ pc.n \in 1 .. MaxRetries

\* Connected(s) is claimed anew only on NetworkManager's word: s is activated
\* at that moment, or the activation of s is the event being handled (it may
\* be stale by then), or a probe passed on s, which was degraded, or the poll
\* chose to keep s among several VPNs (in whatever state s is).
ConnectedOnNmWord ==
    [][machine'.state.kind = "Connected" /\ machine'.state # machine.state =>
          LET s == machine'.state.server
          IN  \/ nm[s] = "activated"
              \/ SeveralActive(nm) /\ s \in ActiveIn(nm)
              \/ dbus # <<>> /\ Head(dbus).type = "Activated" /\ Head(dbus).server = s
              \/ machine.state = Degraded(s) /\ probing]_vars

----------------------------------------------------------------------------
(* Liveness, under Fairness. *)

\* A false "connected" does not last: the poll or the health check notices.
HonestConnected ==
    \A s \in Servers : []<>(machine.state = Connected(s) => nm[s] = "activated")

\* A tunnel the machine does not know of does not last either.
TunnelNoticed ==
    []<>(machine.state.kind \in {"Disconnected", "Failed"} => InState(nm, "activated") = {})

\* Every handler ends.
LoopReturns ==
    pc.at # "loop" ~> pc.at \in {"loop", "stopped"}

----------------------------------------------------------------------------
(* What comments and documents say of the supervisor. *)

\* machine.rs: the attempt shown is always the retry counter.
AttemptIsRetries ==
    machine.state.kind = "Reconnecting" => machine.state.attempt = machine.retries

\* mod.rs: commands that arrive during a reconnect are deferred and drained.
NoCommandLost == ~pc.lost

\* handle_dbus_event: D-Bus events of a switch in progress are all ignored.
SwitchEventsIgnored ==
    [][dbus # <<>> /\ Head(dbus).during /\ dbus' = Tail(dbus) => machine' = machine]_vars

\* ARCHITECTURE.md: if the machine says connected, you are connected; after a
\* successful switch it names the VPN that was switched to.
SwitchReportsTarget ==
    [][ctx.inProgress /\ ~ctx'.inProgress /\ ctx'.fresh =>
          machine'.state = Connected(pc.server)]_vars

\* reconnect.rs: attempt_reconnect is triggered by a connection drop.
ReconnectOnlyAfterDrop ==
    [][pc.at = "loop" /\ pc'.at = "check" => machine.state.server = pc'.server]_vars

\* state_sync.rs: a health tick updates the state to match NetworkManager.
DegradedFollowsNm ==
    \A s \in Servers :
        []<>(machine.state = Degraded(s) => nm[s] # "inactive" \/ InState(nm, "activated") = {})

\* HEADLESS.md: if the VPN drops, Shroud reconnects.
DropAnswered ==
    auto /\ machine.state.kind = "Connected" /\ ActiveIn(nm) = {}
        ~> ~auto \/ pc.at \in ReconnectSteps \/ ActiveIn(nm) # {}

\* ARCHITECTURE.md: Reconnecting is left by success or by giving up.
ReconnectingResolves ==
    machine.state.kind = "Reconnecting" ~> machine.state.kind # "Reconnecting"

\* CLI.md: quit stops the daemon.
QuitStops == exiting ~> pc.at = "stopped"
=============================================================================
