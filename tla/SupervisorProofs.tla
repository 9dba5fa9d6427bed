-------------------------- MODULE SupervisorProofs --------------------------
(***************************************************************************)
(* Proofs about Supervisor, for every set of profiles, every set of        *)
(* commands, every max_retries and every channel capacity: the type        *)
(* invariant, and that the race flags, the deferred commands and the       *)
(* attempt shown agree with where the supervisor task is.                  *)
(***************************************************************************)
EXTENDS Supervisor, TLAPS

----------------------------------------------------------------------------
(* The transition rules of VpnState keep a machine sound *)

\* A machine that a handler may meet: well typed, naming a server in every state
\* but Disconnected, and without an attempt while it is degraded.
Sound(m) ==
    /\ m \in Machines
    /\ m.state.kind # "Disconnected" => m.state.server \in Servers
    /\ m.state.kind = "Degraded" => m.state = Degraded(m.state.server)

\* An event that carries a server when its kind does.
SoundEvent(e) == e.type \in ServerEvents => e.server \in Servers

\* Each state constructor makes a sound machine.
LEMMA SoundStates ==
    ASSUME NEW s \in Servers, NEW n \in Nat, NEW r \in Nat
    PROVE  /\ Sound(To(Disconnected, r))
           /\ Sound(To(Connecting(s), r))
           /\ Sound(To(Connected(s), r))
           /\ Sound(To(Degraded(s), r))
           /\ Sound(To(Reconnecting(s, n), r))
           /\ Sound(To(Failed(s), r))
BY DEF Sound, To, Disconnected, Connecting, Connected, Degraded, Reconnecting, Failed,
       StateOf, Machines, VpnStates, Kinds

\* Disconnected is sound with any retry count.
LEMMA SoundDisconnected ==
    ASSUME NEW r \in Nat
    PROVE  Sound(To(Disconnected, r))
BY DEF Sound, To, Disconnected, StateOf, Machines, VpnStates, Kinds

\* compute_transition keeps a machine sound.
LEMMA TransitionSound ==
    ASSUME NEW m, Sound(m), NEW e, SoundEvent(e)
    PROVE  Sound(ComputeTransition(m, e))
<1>1. /\ m.state.kind \in Kinds
      /\ m.retries \in Nat
      /\ m.retries + 1 \in Nat
    BY DEF Sound, Machines, VpnStates
<1>2. Sound(FallThrough(m, e))
    BY SoundDisconnected DEF FallThrough
<1>3. m.state.kind # "Disconnected" => m.state.server \in Servers
    BY DEF Sound
<1>4. m.state.kind # "Disconnected" => Sound(Retry(m)) /\ Sound(Lost(m))
    BY <1>1, <1>3, SoundStates DEF Retry, Lost
<1>5. e.type \in ServerEvents => e.server \in Servers
    BY DEF SoundEvent
<1>6. Sound(To(Disconnected, 0))
    BY SoundDisconnected
<1>7. CASE m.state.kind = "Disconnected"
    BY <1>2, <1>5, <1>7, SoundStates DEF ComputeTransition, FromDisconnected, ServerEvents
<1>8. CASE m.state.kind = "Connecting"
    BY <1>2, <1>4, <1>5, <1>6, <1>8, SoundStates
       DEF ComputeTransition, FromConnecting, ServerEvents
<1>9. CASE m.state.kind = "Connected"
    BY <1>1, <1>2, <1>3, <1>4, <1>5, <1>9, SoundStates
       DEF ComputeTransition, FromConnected, ServerEvents
<1>10. CASE m.state.kind = "Degraded"
    BY <1>1, <1>2, <1>3, <1>4, <1>10, SoundStates
       DEF ComputeTransition, FromDegraded
<1>11. CASE m.state.kind = "Reconnecting"
    BY <1>2, <1>4, <1>5, <1>6, <1>11, SoundStates
       DEF ComputeTransition, FromReconnecting, ServerEvents
<1>12. CASE m.state.kind = "Failed"
    BY <1>2, <1>5, <1>12, SoundStates DEF ComputeTransition, FromFailed, ServerEvents
<1> QED
    BY <1>1, <1>7, <1>8, <1>9, <1>10, <1>11, <1>12 DEF Kinds

\* set_state keeps a machine sound, whichever state of a server it forces.
LEMMA ForcedSound ==
    ASSUME NEW m, Sound(m)
    PROVE  /\ Sound(Forced(m, Disconnected))
           /\ \A s \in Servers :
                  /\ Sound(Forced(m, Connecting(s)))
                  /\ Sound(Forced(m, Connected(s)))
                  /\ Sound(Forced(m, Failed(s)))
                  /\ \A n \in Nat : Sound(Forced(m, Reconnecting(s, n)))
<1>1. m.retries \in Nat
    BY DEF Sound, Machines
<1> QED
    BY <1>1, SoundStates, SoundDisconnected DEF Forced

\* The events the supervisor dispatches.
LEMMA SoundEvents ==
    /\ \A s \in Servers :
           SoundEvent(UserEnable(s)) /\ SoundEvent(NmVpnUp(s)) /\ SoundEvent(NmVpnChanged(s))
    /\ SoundEvent(UserDisable) /\ SoundEvent(NmVpnDown) /\ SoundEvent(ConnectionFailed)
    /\ SoundEvent(HealthOk) /\ SoundEvent(HealthDegraded) /\ SoundEvent(HealthDead)
    /\ SoundEvent(Wake)
BY DEF SoundEvent, ServerEvents, EventOf, UserEnable, NmVpnUp, NmVpnChanged, UserDisable,
       NmVpnDown, ConnectionFailed, HealthOk, HealthDegraded, HealthDead, Wake

----------------------------------------------------------------------------
(* The invariant of the supervisor task *)

\* The machine is sound, so that the handlers that reconnect know a server.
MachineSound == Sound(machine)

\* Inside a connect or a reconnect the task knows its target.
TaskNamesServer ==
    pc.at \in ConnectSteps \cup ReconnectSteps => pc.server \in Servers

\* An attempt of the reconnect loop is numbered from 1 to max_retries.
AttemptNumbered ==
    pc.at \in ReconnectSteps \ {"check"} => pc.n \in 1 .. MaxRetries

\* An IPC connect is taken from the main loop, where nothing is deferred.
IpcFindsNoneDeferred ==
    pc.at \in ConnectSteps /\ pc.ipc => deferred = <<>>

\* The task drains only when there is something to drain.
DrainHasWork == pc.at = "drain" => deferred # <<>>

IndInv ==
    /\ TypeOK
    /\ FlagsFollowControl
    /\ DeferredDrained
    /\ AttemptShown
    /\ MachineSound
    /\ TaskNamesServer
    /\ AttemptNumbered
    /\ IpcFindsNoneDeferred
    /\ DrainHasWork

----------------------------------------------------------------------------
(* NetworkManager and the D-Bus channel. *)

NmTyped == nm \in [Servers -> NmStates] /\ dbus \in Seq(NmEvents)

\* What the monitor relays keeps the D-Bus channel a sequence of events.
LEMMA RelayTyped ==
    ASSUME NEW q \in Seq(NmEvents), NEW S, S \subseteq Seq(NmEvents), Relay(q, S)
    PROVE  dbus' \in Seq(NmEvents)
BY DEF Relay

\* An event the monitor makes, stamped with the switch in progress, is one.
LEMMA EvTyped ==
    ASSUME ctx.inProgress \in BOOLEAN, NEW s \in Servers,
           NEW t \in {"Activating", "Activated", "Deactivated", "Failed"}
    PROVE  Ev(t, s) \in NmEvents
BY DEF Ev, NmEvents

\* One or two events of which any may be lost make a sequence of events.
LEMMA MaybeTyped ==
    ASSUME NEW a \in NmEvents, NEW b \in NmEvents
    PROVE  /\ Maybe(a) \subseteq Seq(NmEvents)
           /\ MaybeBoth(a, b) \subseteq Seq(NmEvents)
BY DEF Maybe, MaybeBoth

\* So do the events of a set, in any order, of which any may be lost.
LEMMA MaybeAllTyped ==
    ASSUME NEW E, E \subseteq NmEvents
    PROVE  MaybeAll(E) \subseteq Seq(NmEvents)
<1>1. DbusCap \in Nat
    BY SupervisorAssumption
<1> SUFFICES ASSUME NEW n \in 0 .. DbusCap, NEW f \in [1 .. n -> E]
             PROVE  f \in Seq(NmEvents)
    BY DEF MaybeAll
<1>2. n \in Nat
    BY <1>1
<1>3. f \in [1 .. n -> NmEvents]
    OBVIOUS
<1> QED
    BY <1>2, <1>3

\* Disconnecting profiles keeps NetworkManager and the channel well typed.
LEMMA NmDisconnectTyped ==
    ASSUME nm \in [Servers -> NmStates], ctx.inProgress \in BOOLEAN,
           NEW q \in Seq(NmEvents), NEW S, NEW D, NmDisconnect(q, S, D)
    PROVE  NmTyped'
<1>1. nm' \in [Servers -> NmStates]
    BY DEF NmDisconnect, NmStates
<1>2. {Ev("Deactivated", s) : s \in D \cap ActiveIn(nm)} \subseteq NmEvents
    BY EvTyped DEF ActiveIn
<1>3. dbus' \in Seq(NmEvents)
    BY <1>2, MaybeAllTyped, RelayTyped DEF NmDisconnect
<1> QED
    BY <1>1, <1>3 DEF NmTyped

\* So does activating one.
LEMMA NmConnectTyped ==
    ASSUME NmTyped, ctx.inProgress \in BOOLEAN, NEW s \in Servers, NEW ok, NmConnect(s, ok)
    PROVE  NmTyped'
<1>1. nm' \in [Servers -> NmStates]
    BY DEF NmTyped, NmConnect, NmStates
<1>2. /\ MaybeBoth(Ev("Activating", s), Ev("Activated", s)) \subseteq Seq(NmEvents)
      /\ MaybeBoth(Ev("Activating", s), Ev("Failed", s)) \subseteq Seq(NmEvents)
      /\ Maybe(Ev("Activating", s)) \subseteq Seq(NmEvents)
    BY EvTyped, MaybeTyped
<1>3. \/ dbus' = dbus
      \/ Relay(dbus, MaybeBoth(Ev("Activating", s), Ev("Activated", s)))
      \/ Relay(dbus, MaybeBoth(Ev("Activating", s), Ev("Failed", s)))
      \/ Relay(dbus, Maybe(Ev("Activating", s)))
    BY DEF NmConnect
<1>4. dbus' \in Seq(NmEvents)
    BY <1>2, <1>3, RelayTyped DEF NmTyped
<1> QED
    BY <1>1, <1>4 DEF NmTyped

\* What a query may return names only known profiles.
LEMMA QueriesTyped ==
    ASSUME nm \in [Servers -> NmStates], NEW q \in Answers
    PROVE  /\ q \in [Servers -> NmStates]
           /\ ActiveIn(q) \subseteq Servers
           /\ BestVpns(q) \subseteq Servers
           /\ ActiveVpns(q) \subseteq Servers \cup {NoServer}
           /\ OrNone(BestVpns(q)) \subseteq Servers \cup {NoServer}
           /\ OrNone(ActiveIn(q)) \subseteq Servers \cup {NoServer}
<1>1. q \in [Servers -> NmStates]
    BY DEF Answers, NmStates
<1>2. \A st : InState(q, st) \subseteq Servers
    BY DEF InState
<1>3. ActiveIn(q) \subseteq Servers
    BY DEF ActiveIn
<1>4. BestVpns(q) \subseteq Servers
    BY <1>2 DEF BestVpns
<1> QED
    BY <1>1, <1>2, <1>3, <1>4 DEF ActiveVpns, OrNone

----------------------------------------------------------------------------
(* Steps of the task, by what they do to the control state. *)

CtxType == [inProgress : BOOLEAN, from : Servers \cup {NoServer}, fresh : BOOLEAN]
TimingType == [grace : BOOLEAN, resynced : BOOLEAN, debounce : BOOLEAN,
               cancelled : BOOLEAN, busy : BOOLEAN]
PcType == [at : Labels, server : Servers \cup {NoServer}, n : Nat,
           ipc : BOOLEAN, lost : BOOLEAN]

\* The parts of the state that no control flag depends on stay well formed.
DataKept ==
    /\ Sound(machine')
    /\ NmTyped'
    /\ auto' \in BOOLEAN
    /\ probing' \in BOOLEAN
    /\ exiting' \in BOOLEAN
    /\ deferred' \in Seq(Commands)

\* What the steps below use of the invariant: the machine is sound, names are typed.
LEMMA Facts ==
    ASSUME IndInv
    PROVE  /\ Sound(machine) /\ machine \in Machines
           /\ Current \in Servers \cup {NoServer}
           /\ NmTyped /\ nm \in [Servers -> NmStates] /\ dbus \in Seq(NmEvents)
           /\ auto \in BOOLEAN /\ probing \in BOOLEAN /\ exiting \in BOOLEAN
           /\ deferred \in Seq(Commands)
           /\ pc \in PcType /\ ctx \in CtxType /\ timing \in TimingType
           /\ ctx.inProgress \in BOOLEAN
BY DEF IndInv, TypeOK, MachineSound, Sound, NmTyped, Current, ServerName, Machines,
       VpnStates, PcType, CtxType, TimingType

\* The control at a label without an attempt is typed.
LEMMA AtTyped ==
    ASSUME NEW l \in Labels
    PROVE  /\ At(l) \in PcType
           /\ At(l).at = l /\ At(l).n = 0 /\ At(l).ipc = FALSE
           /\ \A s \in Servers :
                  /\ [At(l) EXCEPT !.server = s] \in PcType
                  /\ [At(l) EXCEPT !.server = s].at = l
                  /\ [At(l) EXCEPT !.server = s].server = s
                  /\ [At(l) EXCEPT !.server = s].n = 0
BY DEF At, PcType

\* So is the control at the next attempt.
LEMMA NumberedTyped ==
    ASSUME NEW p \in PcType, NEW l \in Labels
    PROVE  LET q == [p EXCEPT !.at = l, !.n = @ + 1]
           IN  /\ q \in PcType /\ q.at = l /\ q.server = p.server /\ q.ipc = p.ipc
               /\ q.n = p.n + 1
<1>1. p.n + 1 \in Nat
    BY DEF PcType
<1>2. [p EXCEPT !.at = l, !.n = p.n + 1] \in PcType
    BY <1>1 DEF PcType
<1> QED
    BY <1>2 DEF PcType

\* A handler of the main loop that comes back to it, or to draining.
LEMMA QuietStep ==
    ASSUME IndInv, DataKept, ctx' \in CtxType, timing' \in TimingType,
           ~ctx'.inProgress, ~timing'.busy,
           NEW l \in {"loop", "drain", "stopped", "sync", "auto"}, pc' = At(l),
           l \in {"loop", "sync", "auto"} => deferred' = <<>>,
           l = "drain" => deferred' # <<>>
    PROVE  IndInv'
<1>1. pc' \in PcType /\ pc'.at = l
    BY AtTyped DEF Labels
<1> QED
    BY <1>1 DEF IndInv, DataKept, TypeOK, NmTyped, MachineSound, Sound, FlagsFollowControl,
                DeferredDrained, AttemptShown, TaskNamesServer, AttemptNumbered,
                IpcFindsNoneDeferred, DrainHasWork, ConnectSteps, ReconnectSteps,
                PcType, CtxType, TimingType

\* A step that moves neither the task nor its flags nor, if the reconnect loop
\* is showing an attempt, the machine.
LEMMA BackgroundStep ==
    ASSUME IndInv, DataKept, ctx' \in CtxType, timing' \in TimingType,
           ctx'.inProgress = ctx.inProgress, timing'.busy = timing.busy,
           pc.at \in ReconnectSteps => timing'.cancelled = timing.cancelled,
           pc' = pc, deferred' = deferred,
           pc.at \in {"backoff", "reup", "verify"} => machine' = machine
    PROVE  IndInv'
<1>1. pc' \in PcType
    BY Facts
<1>2. TypeOK' /\ MachineSound'
    BY <1>1 DEF TypeOK, DataKept, NmTyped, MachineSound, Sound, PcType, CtxType, TimingType
<1>3. FlagsFollowControl'
    BY DEF IndInv, FlagsFollowControl
<1>4. AttemptShown'
    BY DEF IndInv, AttemptShown
<1>5. /\ DeferredDrained' /\ TaskNamesServer' /\ AttemptNumbered'
      /\ IpcFindsNoneDeferred' /\ DrainHasWork'
    BY DEF IndInv, DeferredDrained, TaskNamesServer, AttemptNumbered,
           IpcFindsNoneDeferred, DrainHasWork
<1> QED
    BY <1>2, <1>3, <1>4, <1>5 DEF IndInv

\* attempt_reconnect is entered from the main loop.
LEMMA ReconnectStarts ==
    ASSUME IndInv, pc.at = "loop", DataKept, ctx' \in CtxType,
           ctx'.inProgress = ctx.inProgress, UNCHANGED deferred,
           NEW s \in Servers, StartReconnect(s, machine')
    PROVE  IndInv'
<1>1. ~ctx.inProgress /\ ~timing.busy /\ deferred = <<>>
    BY DEF IndInv, FlagsFollowControl, DeferredDrained, ConnectSteps, ReconnectSteps
<1>2. CASE timing.debounce
    BY <1>1, <1>2, Facts, BackgroundStep DEF StartReconnect
<1>3. CASE ~timing.debounce
    <2>1. /\ timing' = [timing EXCEPT !.debounce = TRUE, !.cancelled = FALSE, !.busy = TRUE]
          /\ pc' = [At("check") EXCEPT !.server = s]
        BY <1>1, <1>3 DEF StartReconnect
    <2>2. timing' \in TimingType /\ timing'.busy /\ ~timing'.cancelled
        BY <2>1, Facts DEF TimingType
    <2>3. pc' \in PcType /\ pc'.at = "check" /\ pc'.server = s
        BY <2>1, AtTyped DEF Labels, ReconnectSteps
    <2> QED
        BY <1>1, <2>2, <2>3
           DEF IndInv, DataKept, TypeOK, NmTyped, MachineSound, Sound, FlagsFollowControl,
               DeferredDrained, AttemptShown, TaskNamesServer, AttemptNumbered,
               IpcFindsNoneDeferred, DrainHasWork, ConnectSteps, ReconnectSteps,
               PcType, CtxType, TimingType
<1> QED
    BY <1>2, <1>3

\* A step of handle_connect that stays inside it.
LEMMA ConnectStep ==
    ASSUME IndInv, DataKept, ctx' \in CtxType, timing' \in TimingType,
           ctx'.inProgress, ~timing'.busy,
           pc' \in PcType, pc'.at \in ConnectSteps, pc'.server \in Servers,
           pc'.ipc => deferred' = <<>>
    PROVE  IndInv'
BY DEF IndInv, DataKept, TypeOK, NmTyped, MachineSound, Sound, FlagsFollowControl,
       DeferredDrained, AttemptShown, TaskNamesServer, AttemptNumbered,
       IpcFindsNoneDeferred, DrainHasWork, ConnectSteps, ReconnectSteps,
       PcType, CtxType, TimingType

\* A step of attempt_reconnect_inner that stays inside it, past the check.
LEMMA ReconnectStep ==
    ASSUME IndInv, DataKept, ctx' = ctx, timing' = timing, pc.at \in ReconnectSteps,
           pc' \in PcType, pc'.at \in ReconnectSteps \ {"check"},
           pc'.server \in Servers, pc'.n \in 1 .. MaxRetries,
           pc'.at # "try" => machine'.state = Reconnecting(pc'.server, pc'.n)
    PROVE  IndInv'
<1>1. ~ctx.inProgress /\ timing.busy /\ ~timing.cancelled
    BY DEF IndInv, FlagsFollowControl, ConnectSteps, ReconnectSteps
<1>2. ctx' \in CtxType /\ timing' \in TimingType
    BY Facts
<1> QED
    BY <1>1, <1>2
       DEF IndInv, DataKept, TypeOK, NmTyped, MachineSound, Sound, FlagsFollowControl,
           DeferredDrained, AttemptShown, TaskNamesServer, AttemptNumbered,
           IpcFindsNoneDeferred, DrainHasWork, ConnectSteps, ReconnectSteps,
           PcType, CtxType, TimingType

----------------------------------------------------------------------------
(* The handlers. *)

\* handle_connect, up to the disconnection of the other VPNs.
LEMMA BeginConnectKeeps ==
    ASSUME IndInv, pc.at \in {"loop", "drain", "auto"},
           NEW s \in Servers, NEW ipc \in BOOLEAN, BeginConnect(s, ipc),
           deferred' \in Seq(Commands), ipc => deferred' = <<>>
    PROVE  IndInv'
<1>1. PICK q \in Answers, D \in SUBSET Servers :
          LET others == ActiveIn(q) \ {s}
              froms == IF Current \notin {s, NoServer} THEN {Current}
                       ELSE IF ctx.from # NoServer THEN {ctx.from}
                       ELSE OrNone(others)
          IN  /\ \E f \in froms :
                     ctx' = [ctx EXCEPT !.inProgress = TRUE, !.from = f]
              /\ timing' = [timing EXCEPT !.grace = TRUE]
              /\ NmDisconnect(dbus, others, D)
              /\ pc' = [At("settle") EXCEPT !.server = s, !.ipc = ipc,
                                            !.n = IF others = {} THEN 0 ELSE 1]
              /\ UNCHANGED <<machine, auto, probing, exiting>>
    BY DEF BeginConnect
<1>2. ctx' \in CtxType /\ ctx'.inProgress
    BY ZenonT(30), <1>1, Facts, QueriesTyped DEF CtxType, OrNone
<1>3. timing' \in TimingType /\ ~timing'.busy
    <2>1. ~timing.busy
        BY DEF IndInv, FlagsFollowControl, ReconnectSteps
    <2> QED
        BY <1>1, <2>1, Facts DEF TimingType
<1>4. NmTyped'
    BY <1>1, Facts, NmDisconnectTyped
<1>5. DataKept
    BY <1>1, <1>4, Facts DEF DataKept
<1>6. pc' \in PcType /\ pc'.at = "settle" /\ pc'.server = s /\ pc'.ipc = ipc
    BY <1>1 DEF At, PcType, Labels, ConnectSteps
<1> QED
    BY <1>2, <1>3, <1>5, <1>6, ConnectStep DEF ConnectSteps

\* The commands that end within their step.
LEMMA ShortCommandKeeps ==
    ASSUME IndInv, NEW c \in Commands, ShortCommand(c)
    PROVE  /\ Sound(machine') /\ NmTyped' /\ auto' \in BOOLEAN /\ exiting' \in BOOLEAN
           /\ ctx' = ctx
           /\ timing' \in TimingType /\ timing'.busy = timing.busy
<1> USE Facts
<1>1. CASE HandleDisconnect
    <2>1. PICK D \in SUBSET ({Current} \ {NoServer}) :
              /\ NmDisconnect(dbus, {Current} \ {NoServer}, D)
              /\ timing' = [timing EXCEPT !.cancelled = TRUE,
                                          !.grace = @ \/ Current # NoServer]
              /\ machine' = IF D = {} THEN machine
                            ELSE ComputeTransition(machine, UserDisable)
              /\ UNCHANGED <<auto, ctx, exiting>>
        BY <1>1 DEF HandleDisconnect
    <2>2. Sound(machine')
        BY <2>1, TransitionSound, SoundEvents
    <2>3. NmTyped'
        BY <2>1, NmDisconnectTyped
    <2> QED
        BY <2>1, <2>2, <2>3 DEF TimingType
<1>2. CASE c.do = "Settings" /\ auto' \in BOOLEAN
               /\ UNCHANGED <<machine, nm, dbus, ctx, timing, exiting>>
    BY <1>2 DEF NmTyped
<1>3. CASE exiting' \in {TRUE} \cup {b \in {exiting} : c.do = "Restart"}
               /\ UNCHANGED <<machine, auto, nm, dbus, ctx, timing>>
    BY <1>3 DEF NmTyped
<1> QED
    BY <1>1, <1>2, <1>3 DEF ShortCommand

\* A drop seen from the main loop: a reconnect starts, or the machine settles.
LEMMA DropKeeps ==
    ASSUME IndInv, pc.at = "loop", NEW s \in Servers, NEW e, SoundEvent(e),
           NEW st \in {Disconnected, Failed(s)}, DropOr(s, e, st),
           NmTyped', UNCHANGED <<auto, deferred, exiting>>, probing' \in BOOLEAN,
           ctx' \in CtxType, ctx'.inProgress = ctx.inProgress
    PROVE  IndInv'
<1> USE Facts
<1>1. Sound(ComputeTransition(machine, e)) /\ Sound(Forced(machine, st))
    BY TransitionSound, ForcedSound
<1>2. CASE auto
    <2>1. StartReconnect(s, ComputeTransition(machine, e))
        BY <1>2 DEF DropOr
    <2>2. StartReconnect(s, machine') /\ machine' = ComputeTransition(machine, e)
        BY <2>1 DEF StartReconnect
    <2>3. DataKept
        BY <1>1, <2>2 DEF DataKept
    <2> QED
        BY <2>2, <2>3, ReconnectStarts
<1>3. CASE ~auto
    <2>1. machine' = Forced(machine, st) /\ UNCHANGED <<pc, timing>>
        BY <1>3 DEF DropOr, SetState
    <2>2. DataKept
        BY <1>1, <2>1 DEF DataKept
    <2> QED
        BY <2>1, <2>2, BackgroundStep
<1> QED
    BY <1>2, <1>3

\* A handler of the main loop that only tells the machine something.
LEMMA LoopStep ==
    ASSUME IndInv, pc.at = "loop", Sound(machine'), NmTyped',
           UNCHANGED <<auto, deferred, pc, exiting>>, probing' \in BOOLEAN,
           ctx' \in CtxType, ctx'.inProgress = ctx.inProgress,
           timing' \in TimingType, timing'.busy = timing.busy
    PROVE  IndInv'
<1>1. DataKept
    BY Facts DEF DataKept
<1> QED
    BY <1>1, BackgroundStep DEF ReconnectSteps

\* The end of handle_connect and the end of the reconnect loop.
LEMMA ReturnKeeps ==
    ASSUME IndInv, DataKept, ctx' \in CtxType, timing' \in TimingType,
           ~ctx'.inProgress, ~timing'.busy,
           NEW ipc \in BOOLEAN, NEW stop \in BOOLEAN, pc' = Return(ipc, stop, deferred'),
           ipc => deferred' = <<>>
    PROVE  IndInv'
<1>1. \/ pc' = At("stopped")
      \/ pc' = At("drain") /\ deferred' # <<>>
      \/ pc' = At("loop") /\ deferred' = <<>>
    BY DEF Return
<1>2. CASE pc' = At("stopped")
    BY <1>2, QuietStep
<1>3. CASE pc' = At("drain") /\ deferred' # <<>>
    BY <1>3, QuietStep
<1>4. CASE pc' = At("loop") /\ deferred' = <<>>
    BY <1>4, QuietStep
<1> QED
    BY <1>1, <1>2, <1>3, <1>4

\* Startup and the commands.
LEMMA StartupKeeps ==
    ASSUME IndInv, Startup \/ InitialSync \/ AutoConnect
    PROVE  IndInv'
<1> USE Facts
<1>1. CASE Startup
    <2>1. ~ctx.inProgress /\ ~timing.busy /\ deferred = <<>>
        BY <1>1 DEF Startup, IndInv, FlagsFollowControl, DeferredDrained,
                    ConnectSteps, ReconnectSteps
    <2>2. NmTyped'
        BY <1>1, NmDisconnectTyped DEF Startup
    <2>3. DataKept
        BY <1>1, <2>2 DEF Startup, DataKept
    <2> QED
        BY <1>1, <2>1, <2>3, QuietStep DEF Startup
<1>2. CASE InitialSync
    <2>1. ~ctx.inProgress /\ ~timing.busy /\ deferred = <<>>
        BY <1>2 DEF InitialSync, IndInv, FlagsFollowControl, DeferredDrained,
                    ConnectSteps, ReconnectSteps
    <2>2. Sound(machine')
        BY <1>2, QueriesTyped, TransitionSound, SoundEvents DEF InitialSync, Dispatch
    <2>3. DataKept
        BY <1>2, <2>2 DEF InitialSync, DataKept, NmTyped
    <2> QED
        BY <1>2, <2>1, <2>3, QuietStep DEF InitialSync
<1>3. CASE AutoConnect
    BY <1>3, BeginConnectKeeps DEF AutoConnect
<1> QED
    BY <1>1, <1>2, <1>3

\* A command taken from the tray or from IPC keeps the invariant.
LEMMA CommandKeeps ==
    ASSUME IndInv, NEW c \in Commands, TrayCommand(c) \/ IpcCommand(c)
    PROVE  IndInv'
<1> USE Facts
<1>1. /\ pc.at = "loop" /\ UNCHANGED deferred
      /\ ~ctx.inProgress /\ ~timing.busy /\ deferred = <<>>
    BY DEF TrayCommand, IpcCommand, IndInv, FlagsFollowControl, DeferredDrained,
           ConnectSteps, ReconnectSteps
<1>2. CASE c.do = "Connect" /\ \E ipc \in BOOLEAN : BeginConnect(c.server, ipc)
    <2>1. c.server \in Servers
        BY <1>2 DEF Commands, Connect, Do
    <2> QED
        BY <1>1, <1>2, <2>1, BeginConnectKeeps
<1>3. CASE /\ ShortCommand(c) /\ UNCHANGED probing
           /\ \/ pc' = At(IF exiting' /\ c.do \in {"Restart", "Quit"} THEN "stopped" ELSE "loop")
              \/ pc' = Return(TRUE, exiting', deferred)
    <2>1. DataKept /\ ctx' = ctx /\ timing' \in TimingType /\ ~timing'.busy
          /\ exiting' \in BOOLEAN
        BY <1>1, <1>3, ShortCommandKeeps DEF DataKept
    <2>2. pc' = At("stopped") \/ pc' = At("loop")
        BY <1>1, <1>3 DEF Return
    <2> QED
        BY <1>1, <2>1, <2>2, QuietStep
<1> QED
    BY <1>2, <1>3 DEF TrayCommand, IpcCommand

\* A deferred command taken after the reconnect keeps the invariant.
LEMMA DrainKeeps ==
    ASSUME IndInv, DrainDeferred
    PROVE  IndInv'
<1> USE Facts
<1>1. pc.at = "drain" /\ deferred # <<>> /\ ~ctx.inProgress /\ ~timing.busy
    BY DEF DrainDeferred, IndInv, DrainHasWork, FlagsFollowControl,
           ConnectSteps, ReconnectSteps
<1>2. deferred' \in Seq(Commands) /\ Head(deferred) \in Commands
    BY <1>1 DEF DrainDeferred
<1>3. CASE Head(deferred).do = "Connect" /\ BeginConnect(Head(deferred).server, FALSE)
    <2>1. Head(deferred).server \in Servers
        BY <1>2, <1>3 DEF Commands, Connect, Do
    <2> QED
        BY <1>1, <1>2, <1>3, <2>1, BeginConnectKeeps
<1>4. CASE /\ ShortCommand(Head(deferred)) /\ UNCHANGED probing
           /\ pc' = Return(FALSE, exiting', deferred')
    <2>1. DataKept /\ ctx' = ctx /\ timing' \in TimingType /\ ~timing'.busy
          /\ exiting' \in BOOLEAN
        BY <1>1, <1>2, <1>4, ShortCommandKeeps DEF DataKept
    <2> QED
        BY <1>1, <1>4, <2>1, ReturnKeeps
<1> QED
    BY <1>3, <1>4 DEF DrainDeferred

\* The rest of handle_connect.
LEMMA FinishConnectKeeps ==
    ASSUME IndInv, pc.at \in ConnectSteps, NEW ok \in BOOLEAN, FinishConnect(ok), NmTyped',
           UNCHANGED <<auto, deferred, probing, exiting>>
    PROVE  IndInv'
<1> USE Facts
<1>1. /\ pc.server \in Servers /\ pc.ipc \in BOOLEAN /\ ~timing.busy
      /\ pc.ipc => deferred = <<>>
    BY DEF IndInv, TaskNamesServer, IpcFindsNoneDeferred, FlagsFollowControl, PcType,
           ConnectSteps, ReconnectSteps
<1>2. Sound(machine')
    BY <1>1, TransitionSound, SoundEvents DEF FinishConnect, Dispatch
<1>3. ctx' \in CtxType /\ ~ctx'.inProgress /\ timing' \in TimingType /\ ~timing'.busy
    BY <1>1 DEF FinishConnect, CtxType, TimingType
<1>4. DataKept
    BY <1>2 DEF DataKept
<1>5. pc' = Return(pc.ipc, exiting, deferred')
    BY DEF FinishConnect
<1> QED
    BY <1>1, <1>3, <1>4, <1>5, ReturnKeeps

\* So does handle_connect when it turns to its next attempt, or gives up.
LEMMA NextConnectAttemptKeeps ==
    ASSUME IndInv, pc.at \in ConnectSteps, NextConnectAttempt, NmTyped',
           UNCHANGED <<auto, deferred, probing, exiting>>
    PROVE  IndInv'
<1> USE Facts
<1>1. CASE pc.n < ConnectAttempts
    <2>1. /\ pc.server \in Servers /\ ~timing.busy /\ ctx.inProgress
          /\ pc.ipc => deferred = <<>>
        BY DEF IndInv, TaskNamesServer, IpcFindsNoneDeferred, FlagsFollowControl,
               ConnectSteps, ReconnectSteps
    <2>2. pc' = [pc EXCEPT !.at = "up", !.n = @ + 1] /\ UNCHANGED <<machine, ctx, timing>>
        BY <1>1 DEF NextConnectAttempt
    <2>3. /\ pc' \in PcType /\ pc'.at = "up" /\ pc'.server = pc.server
          /\ pc'.ipc = pc.ipc
        BY <2>2, NumberedTyped DEF Labels, ConnectSteps
    <2>4. DataKept
        BY <2>2 DEF DataKept
    <2> QED
        BY <2>1, <2>2, <2>3, <2>4, ConnectStep DEF ConnectSteps
<1>2. CASE ~(pc.n < ConnectAttempts)
    BY <1>2, FinishConnectKeeps DEF NextConnectAttempt
<1> QED
    BY <1>1, <1>2

\* So do the waits of handle_connect.
LEMMA ConnectKeeps ==
    ASSUME IndInv, ConnectSettle \/ ConnectUp \/ ConnectMonitor
    PROVE  IndInv'
<1> USE Facts
<1>1. /\ pc.at \in ConnectSteps /\ pc.server \in Servers
      /\ ~timing.busy /\ ctx.inProgress
      /\ pc.ipc => deferred = <<>>
    BY DEF ConnectSettle, ConnectUp, ConnectMonitor, IndInv, TaskNamesServer,
           IpcFindsNoneDeferred, FlagsFollowControl, ConnectSteps, ReconnectSteps
<1>2. CASE ConnectSettle
    <2>1. NmTyped'
        BY <1>2, NmDisconnectTyped DEF ConnectSettle
    <2>2. Sound(machine')
        BY <1>1, <1>2, TransitionSound, SoundEvents DEF ConnectSettle, Dispatch
    <2>3. DataKept
        BY <1>2, <2>1, <2>2 DEF ConnectSettle, DataKept
    <2>4. /\ pc' \in PcType /\ pc'.at = "up" /\ pc'.server = pc.server
          /\ pc'.ipc = pc.ipc
        BY <1>2 DEF ConnectSettle, PcType, Labels, ConnectSteps
    <2> QED
        BY <1>1, <1>2, <2>3, <2>4, ConnectStep DEF ConnectSettle, ConnectSteps
<1>3. CASE ConnectUp
    <2>1. NmTyped'
        BY <1>1, <1>3, NmConnectTyped DEF ConnectUp
    <2>2. CASE pc' = [pc EXCEPT !.at = "monitor"] /\ UNCHANGED <<machine, ctx, timing>>
        <3>1. DataKept
            BY <1>3, <2>1, <2>2 DEF ConnectUp, DataKept
        <3>2. /\ pc' \in PcType /\ pc'.at = "monitor" /\ pc'.server = pc.server
              /\ pc'.ipc = pc.ipc
            BY <2>2 DEF PcType, Labels, ConnectSteps
        <3> QED
            BY <1>1, <1>3, <2>2, <3>1, <3>2, ConnectStep DEF ConnectUp, ConnectSteps
    <2>3. CASE NextConnectAttempt
        BY <1>1, <1>3, <2>1, <2>3, NextConnectAttemptKeeps DEF ConnectUp
    <2> QED
        BY <1>3, <2>2, <2>3 DEF ConnectUp
<1>4. CASE ConnectMonitor
    <2>1. NmTyped' /\ UNCHANGED <<auto, deferred, probing, exiting>>
        BY <1>4 DEF ConnectMonitor, NmTyped
    <2>2. FinishConnect(TRUE) \/ NextConnectAttempt
        BY <1>4 DEF ConnectMonitor
    <2> QED
        BY <1>1, <2>1, <2>2, FinishConnectKeeps, NextConnectAttemptKeeps
<1> QED
    BY <1>2, <1>3, <1>4

\* handle_dbus_event.
LEMMA DbusKeeps ==
    ASSUME IndInv, DbusStep
    PROVE  IndInv'
<1> USE Facts
<1> DEFINE e == Head(dbus)
<1>1. /\ pc.at = "loop" /\ dbus # <<>> /\ ForgetSwitch(e)
      /\ UNCHANGED <<auto, deferred, probing, exiting>>
    BY DEF DbusStep, DbusIgnored, DbusActivated, DbusActivating, DbusDeactivated,
           DbusFailed, DbusEvent
<1>2. e \in NmEvents /\ e.server \in Servers /\ Tail(dbus) \in Seq(NmEvents)
    <2>1. e \in NmEvents /\ Tail(dbus) \in Seq(NmEvents)
        BY <1>1
    <2> QED
        BY <2>1 DEF NmEvents
<1>3. ctx' \in CtxType /\ ctx'.inProgress = ctx.inProgress
    BY <1>1 DEF ForgetSwitch, CtxType
<1>4. nm' = nm /\ dbus' = Tail(dbus) => NmTyped'
    BY <1>2 DEF NmTyped
<1> HIDE DEF e
<1>5. CASE DbusIgnored
    BY <1>1, <1>3, <1>4, <1>5, LoopStep DEF DbusIgnored
<1>6. CASE DbusActivated
    <2>1. PICK q \in Answers, D \in SUBSET Servers :
              /\ NmDisconnect(Tail(dbus),
                              IF Current \notin {e.server, NoServer} THEN {Current}
                              ELSE IF SeveralActive(q) THEN ActiveIn(q) \ {e.server} ELSE {},
                              D)
              /\ Dispatch(NmVpnUp(e.server))
        BY <1>6 DEF DbusActivated, e
    <2>2. NmTyped'
        BY <1>2, <2>1, NmDisconnectTyped
    <2>3. Sound(machine')
        BY <1>2, <2>1, TransitionSound, SoundEvents DEF Dispatch
    <2> QED
        BY <1>1, <1>3, <1>6, <2>2, <2>3, LoopStep DEF DbusActivated
<1>7. CASE DbusActivating
    <2>1. Sound(machine')
        BY <1>2, <1>7, TransitionSound, SoundEvents DEF DbusActivating, Dispatch, e
    <2> QED
        BY <1>1, <1>3, <1>4, <1>7, <2>1, LoopStep DEF DbusActivating
<1>8. CASE DbusDeactivated
    <2>1. NmTyped'
        BY <1>4, <1>8 DEF DbusDeactivated
    <2>2. CASE UNCHANGED <<machine, pc, timing>>
        BY <1>1, <1>3, <2>1, <2>2, LoopStep
    <2>3. CASE e.server = Current /\ DropOr(Current, NmVpnDown, Disconnected)
        BY <1>1, <1>2, <1>3, <2>1, <2>3, DropKeeps, SoundEvents
    <2>4. CASE SetState(Disconnected) /\ UNCHANGED <<pc, timing>>
        BY <1>1, <1>3, <2>1, <2>4, LoopStep, ForcedSound DEF SetState
    <2> QED
        BY <1>8, <2>2, <2>3, <2>4 DEF DbusDeactivated, e
<1>9. CASE DbusFailed
    BY <1>1, <1>2, <1>3, <1>4, <1>9, DropKeeps, SoundEvents DEF DbusFailed, e
<1> QED
    BY <1>5, <1>6, <1>7, <1>8, <1>9 DEF DbusStep

\* poll_nm_state.
LEMMA PollKeeps ==
    ASSUME IndInv, PollTick
    PROVE  IndInv'
<1> USE Facts
<1>1. pc.at = "loop" /\ UNCHANGED <<auto, deferred, ctx, probing, exiting>>
    BY DEF PollTick
<1>2. ASSUME NEW q \in Answers, NEW s \in OrNone(ActiveIn(q)), PollOne(q, s),
             UNCHANGED <<nm, dbus>>
      PROVE  IndInv'
    <2>1. s \in Servers \cup {NoServer} /\ NmTyped'
        BY <1>2, QueriesTyped DEF NmTyped
    <2>2. CASE machine.state.kind = "Connected"
               /\ DropOr(machine.state.server, NmVpnDown, Disconnected)
        <3>1. machine.state.server \in Servers
            BY <2>2 DEF Sound
        <3> QED
            BY <1>1, <2>1, <2>2, <3>1, DropKeeps, SoundEvents
    <2>3. CASE s # NoServer /\ UNCHANGED <<pc, timing>>
               /\ (Dispatch(NmVpnChanged(s)) \/ Dispatch(NmVpnUp(s)) \/ Dispatch(UserEnable(s)))
        <3>1. Sound(machine')
            BY <2>1, <2>3, TransitionSound, SoundEvents DEF Dispatch
        <3> QED
            BY <1>1, <2>1, <2>3, <3>1, LoopStep
    <2>4. CASE UNCHANGED <<machine, pc, timing>>
        BY <1>1, <2>1, <2>4, LoopStep
    <2> QED
        BY <1>2, <2>2, <2>3, <2>4 DEF PollOne
<1>3. ASSUME NEW q \in Answers, NEW keep \in ActiveIn(q), NEW D \in SUBSET Servers,
             NmDisconnect(dbus, ActiveIn(q) \ {keep}, D), UNCHANGED <<pc, timing>>,
             machine' = machine \/ Dispatch(NmVpnUp(keep))
      PROVE  IndInv'
    <2>1. keep \in Servers /\ NmTyped'
        BY <1>3, QueriesTyped, NmDisconnectTyped
    <2>2. Sound(machine')
        BY <1>3, <2>1, TransitionSound, SoundEvents DEF Dispatch
    <2> QED
        BY <1>1, <1>3, <2>1, <2>2, LoopStep
<1> QED
    BY <1>2, <1>3 DEF PollTick

\* The wake resync and the health checks.
LEMMA TickKeeps ==
    ASSUME IndInv, WakeTick \/ HealthTick
    PROVE  IndInv'
<1> USE Facts
<1>1. CASE WakeTick
    <2>1. PICK q \in Answers : \E s \in OrNone(BestVpns(q)) :
              \/ Dispatch(Wake) \/ SetState(Disconnected)
              \/ s # NoServer /\ (SetState(Connected(s)) \/ SetState(Connecting(s)))
        BY <1>1 DEF WakeTick
    <2>2. OrNone(BestVpns(q)) \subseteq Servers \cup {NoServer}
        BY QueriesTyped
    <2>3. Sound(machine')
        BY <2>1, <2>2, TransitionSound, ForcedSound, SoundEvents DEF Dispatch, SetState
    <2>4. timing' \in TimingType /\ timing'.busy = timing.busy
        BY <1>1 DEF WakeTick, TimingType
    <2>5. NmTyped'
        BY <1>1 DEF WakeTick, NmTyped
    <2> QED
        BY <1>1, <2>3, <2>4, <2>5, LoopStep DEF WakeTick
<1>2. CASE HealthTick
    <2>1. PICK q \in Answers : \E a \in ActiveVpns(q) :
              \/ SyncStateFromNm(a) /\ UNCHANGED probing
              \/ probing' = TRUE /\ UNCHANGED <<machine, timing>>
        BY <1>2 DEF HealthTick
    <2>2. ActiveVpns(q) \subseteq Servers \cup {NoServer}
        BY QueriesTyped
    <2>3. Sound(machine')
        BY <2>1, <2>2, TransitionSound, ForcedSound, SoundEvents
           DEF SyncStateFromNm, Dispatch, SetState
    <2>4. timing' \in TimingType /\ timing'.busy = timing.busy
        BY <2>1 DEF SyncStateFromNm, TimingType
    <2>5. NmTyped' /\ probing' \in BOOLEAN
        BY <1>2, <2>1 DEF HealthTick, NmTyped
    <2> QED
        BY <1>2, <2>3, <2>4, <2>5, LoopStep DEF HealthTick
<1> QED
    BY <1>1, <1>2

\* So does a health probe's verdict, whatever it is.
LEMMA ProbeKeeps ==
    ASSUME IndInv, NEW v \in Verdicts, ProbeDone(v)
    PROVE  IndInv'
<1> USE Facts
<1>1. /\ pc.at = "loop" /\ UNCHANGED <<auto, nm, dbus, deferred, ctx, exiting>>
      /\ probing' \in BOOLEAN /\ NmTyped'
    BY DEF ProbeDone, NmTyped
<1>2. CASE machine.state.kind \in {"Connected", "Degraded"}
           /\ DropOr(machine.state.server, HealthDead, Disconnected)
    <2>1. machine.state.server \in Servers
        BY <1>2 DEF Sound
    <2> QED
        BY <1>1, <1>2, <2>1, DropKeeps, SoundEvents
<1>3. CASE (Dispatch(HealthDegraded) \/ Dispatch(HealthOk) \/ machine' = machine)
           /\ UNCHANGED <<pc, timing>>
    <2>1. Sound(machine')
        BY <1>3, TransitionSound, SoundEvents DEF Dispatch
    <2> QED
        BY <1>1, <1>3, <2>1, LoopStep
<1> QED
    BY <1>2, <1>3 DEF ProbeDone

\* Leaving the reconnect loop.
LEMMA EndReconnectKeeps ==
    ASSUME IndInv, pc.at \in ReconnectSteps, Sound(machine'), NmTyped',
           UNCHANGED <<auto, deferred, ctx, probing, exiting>>,
           NEW t \in TimingType, EndReconnect(t, deferred)
    PROVE  IndInv'
<1> USE Facts
<1>1. ~ctx'.inProgress /\ ctx' \in CtxType
    BY DEF IndInv, FlagsFollowControl, ConnectSteps, ReconnectSteps
<1>2. timing' \in TimingType /\ ~timing'.busy
    BY DEF EndReconnect, TimingType
<1>3. DataKept
    BY DEF DataKept
<1>4. pc' = Return(FALSE, FALSE, deferred')
    BY DEF EndReconnect
<1> QED
    BY <1>1, <1>2, <1>3, <1>4, ReturnKeeps

\* So does the reconnect loop when it turns to its next attempt, or gives up.
LEMMA NextAttemptKeeps ==
    ASSUME IndInv, pc.at \in ReconnectSteps, NextAttempt, NmTyped',
           UNCHANGED <<auto, deferred, ctx, probing, exiting>>
    PROVE  IndInv'
<1> USE Facts
<1>1. pc.server \in Servers /\ pc.n \in Nat
    BY DEF IndInv, TaskNamesServer, PcType
<1>2. CASE pc.n < MaxRetries
    <2>1. pc' = [pc EXCEPT !.at = "try", !.n = @ + 1] /\ UNCHANGED <<machine, timing>>
        BY <1>2 DEF NextAttempt
    <2>2. /\ pc' \in PcType /\ pc'.at = "try" /\ pc'.server = pc.server
          /\ pc'.n = pc.n + 1
        BY <2>1, NumberedTyped DEF Labels, ReconnectSteps
    <2>3. pc'.n \in 1 .. MaxRetries
        BY <1>1, <1>2, <2>2, MaxRetriesAssumption
    <2>4. DataKept
        BY <2>1 DEF DataKept
    <2> QED
        BY <1>1, <2>1, <2>2, <2>3, <2>4, ReconnectStep DEF ReconnectSteps
<1>3. CASE ~(pc.n < MaxRetries)
    <2>1. SetState(Failed(pc.server)) /\ EndReconnect(timing, deferred)
        BY <1>3 DEF NextAttempt, GiveUp
    <2>2. Sound(machine')
        BY <1>1, <2>1, ForcedSound DEF SetState
    <2> QED
        BY <2>1, <2>2, EndReconnectKeeps
<1> QED
    BY <1>2, <1>3

\* A VPN that NetworkManager reports active ends the loop.
LEMMA ResolvedKeeps ==
    ASSUME IndInv, pc.at \in ReconnectSteps, NEW a \in Servers, ResolvedBy(a), NmTyped',
           UNCHANGED <<auto, deferred, ctx, probing, exiting>>
    PROVE  IndInv'
<1> USE Facts
<1>1. Sound(machine')
    BY TransitionSound, SoundEvents DEF ResolvedBy, Dispatch
<1> QED
    BY <1>1, EndReconnectKeeps DEF ResolvedBy

\* So does the check before the reconnect loop.
LEMMA ReconnectCheckKeeps ==
    ASSUME IndInv, ReconnectCheck
    PROVE  IndInv'
<1> USE Facts
<1>1. /\ pc.at \in ReconnectSteps /\ NmTyped'
      /\ UNCHANGED <<auto, deferred, ctx, probing, exiting>>
    BY DEF ReconnectCheck, ReconnectSteps, NmTyped
<1>2. PICK q \in Answers : \E a \in ActiveVpns(q) :
          \/ a # NoServer /\ ResolvedBy(a)
          \/ NextAttempt
          \/ Dispatch(ConnectionFailed) /\ EndReconnect(timing, deferred)
    BY DEF ReconnectCheck
<1>3. ActiveVpns(q) \subseteq Servers \cup {NoServer}
    BY QueriesTyped
<1>4. CASE Dispatch(ConnectionFailed) /\ EndReconnect(timing, deferred)
    <2>1. Sound(machine')
        BY <1>4, TransitionSound, SoundEvents DEF Dispatch
    <2> QED
        BY <1>1, <1>4, <2>1, EndReconnectKeeps
<1> QED
    BY <1>1, <1>2, <1>3, <1>4, ResolvedKeeps, NextAttemptKeeps

\* So does the check at the head of each attempt.
LEMMA ReconnectTryKeeps ==
    ASSUME IndInv, ReconnectTry
    PROVE  IndInv'
<1> USE Facts
<1>1. /\ pc.at = "try" /\ pc.at \in ReconnectSteps /\ NmTyped'
      /\ UNCHANGED <<auto, deferred, ctx, probing, exiting>>
      /\ pc.server \in Servers /\ pc.n \in 1 .. MaxRetries /\ pc.n \in Nat
    BY DEF ReconnectTry, ReconnectSteps, NmTyped, IndInv, TaskNamesServer, AttemptNumbered,
           PcType
<1>2. PICK q \in Answers : \E a \in ActiveVpns(q) :
          \/ SetState(Disconnected) /\ EndReconnect(timing, deferred)
          \/ a # NoServer /\ ResolvedBy(a)
          \/ /\ SetState(Reconnecting(pc.server, pc.n))
             /\ pc' = [pc EXCEPT !.at = "backoff"]
             /\ UNCHANGED timing
    BY DEF ReconnectTry
<1>3. ActiveVpns(q) \subseteq Servers \cup {NoServer}
    BY QueriesTyped
<1>4. CASE SetState(Disconnected) /\ EndReconnect(timing, deferred)
    <2>1. Sound(machine')
        BY <1>4, ForcedSound DEF SetState
    <2> QED
        BY <1>1, <1>4, <2>1, EndReconnectKeeps
<1>5. CASE /\ SetState(Reconnecting(pc.server, pc.n))
           /\ pc' = [pc EXCEPT !.at = "backoff"]
           /\ UNCHANGED timing
    <2>1. Sound(machine') /\ machine'.state = Reconnecting(pc.server, pc.n)
        BY <1>1, <1>5, ForcedSound DEF SetState, Forced, To
    <2>2. /\ pc' \in PcType /\ pc'.at = "backoff" /\ pc'.server = pc.server
          /\ pc'.n = pc.n
        BY <1>5 DEF PcType, Labels, ReconnectSteps
    <2>3. DataKept
        BY <1>1, <2>1 DEF DataKept
    <2> QED
        BY <1>1, <1>5, <2>1, <2>2, <2>3, ReconnectStep DEF ReconnectSteps
<1> QED
    BY <1>1, <1>2, <1>3, <1>4, <1>5, ResolvedKeeps

\* Inside the loop, from one wait to the next.
LEMMA MoveOnKeeps ==
    ASSUME IndInv, pc.at \in {"backoff", "reup", "verify"}, NmTyped',
           UNCHANGED <<machine, auto, deferred, ctx, timing, probing, exiting>>,
           NEW l \in {"reup", "verify"}, NEW b \in BOOLEAN,
           pc' = [pc EXCEPT !.at = l] \/ pc' = [pc EXCEPT !.lost = b]
    PROVE  IndInv'
<1> USE Facts
<1>1. /\ pc.server \in Servers /\ pc.n \in 1 .. MaxRetries
      /\ machine.state = Reconnecting(pc.server, pc.n)
    BY DEF IndInv, TaskNamesServer, AttemptNumbered, AttemptShown, ReconnectSteps
<1>2. /\ pc' \in PcType /\ pc'.at \in {"backoff", "reup", "verify"}
      /\ pc'.server = pc.server /\ pc'.n = pc.n
    BY DEF PcType, Labels, ReconnectSteps
<1>3. DataKept
    BY DEF DataKept
<1> QED
    BY <1>1, <1>2, <1>3, ReconnectStep DEF ReconnectSteps

\* So do the backoff, the connect and the verification of an attempt.
LEMMA ReconnectKeeps ==
    ASSUME IndInv, BackoffElapsed \/ ReconnectUp \/ VerifyElapsed
    PROVE  IndInv'
<1> USE Facts
<1>1. /\ pc.at \in {"backoff", "reup", "verify"} /\ pc.at \in ReconnectSteps
      /\ pc.server \in Servers
      /\ UNCHANGED <<auto, deferred, ctx, probing, exiting>>
    BY DEF BackoffElapsed, ReconnectUp, VerifyElapsed, ReconnectSteps, IndInv, TaskNamesServer
<1>2. CASE BackoffElapsed
    BY <1>1, <1>2, MoveOnKeeps DEF BackoffElapsed, NmTyped
<1>3. CASE ReconnectUp
    <2>1. NmTyped'
        BY <1>1, <1>3, NmConnectTyped DEF ReconnectUp
    <2> QED
        BY <1>1, <1>3, <2>1, MoveOnKeeps, NextAttemptKeeps DEF ReconnectUp
<1>4. CASE VerifyElapsed
    <2>1. NmTyped'
        BY <1>4 DEF VerifyElapsed, NmTyped
    <2> QED
        BY <1>1, <1>4, <2>1, ResolvedKeeps, NextAttemptKeeps DEF VerifyElapsed
<1> QED
    BY <1>2, <1>3, <1>4

\* The commands the loop takes while it waits.
LEMMA WaitingCommandKeeps ==
    ASSUME IndInv, NEW c \in Commands, BackoffDefer(c) \/ CancelReconnect(c) \/ VerifyTake(c)
    PROVE  IndInv'
<1> USE Facts
<1>1. pc.at \in ReconnectSteps
    BY DEF BackoffDefer, CancelReconnect, VerifyTake, ReconnectSteps
<1>2. CASE BackoffDefer(c)
    <2>1. deferred' \in Seq(Commands) /\ pc.at = "backoff"
        BY <1>2 DEF BackoffDefer
    <2>2. UNCHANGED <<machine, auto, nm, dbus, pc, ctx, timing, probing, exiting>>
        BY <1>2 DEF BackoffDefer
    <2>3. DataKept
        BY <2>1, <2>2 DEF DataKept, NmTyped
    <2>4. /\ pc.server \in Servers /\ pc.n \in 1 .. MaxRetries
          /\ machine.state = Reconnecting(pc.server, pc.n)
        BY <2>1 DEF IndInv, TaskNamesServer, AttemptNumbered, AttemptShown, ReconnectSteps
    <2> QED
        BY <1>1, <2>1, <2>2, <2>3, <2>4, ReconnectStep DEF ReconnectSteps
<1>3. CASE CancelReconnect(c)
    <2>1. NmTyped'
        BY <1>3, NmDisconnectTyped DEF CancelReconnect
    <2>2. Sound(machine')
        BY <1>3, ForcedSound DEF CancelReconnect, SetState
    <2>3. [timing EXCEPT !.grace = TRUE] \in TimingType
        BY DEF TimingType
    <2> QED
        BY <1>1, <1>3, <2>1, <2>2, <2>3, EndReconnectKeeps DEF CancelReconnect
<1>4. CASE VerifyTake(c)
    BY <1>4, MoveOnKeeps DEF VerifyTake, NmTyped
<1> QED
    BY <1>2, <1>3, <1>4

\* NetworkManager and the clock.
LEMMA EnvironmentKeeps ==
    ASSUME IndInv, EnvironmentNext
    PROVE  IndInv'
<1> USE Facts
<1>1. CASE WindowCloses
    <2>1. /\ timing' \in TimingType /\ timing'.busy = timing.busy
          /\ timing'.cancelled = timing.cancelled
        BY <1>1 DEF WindowCloses, TimingType
    <2>2. ctx' \in CtxType /\ ctx'.inProgress = ctx.inProgress
        BY <1>1 DEF WindowCloses, CtxType
    <2>3. DataKept
        BY <1>1 DEF WindowCloses, DataKept, NmTyped
    <2> QED
        BY <1>1, <2>1, <2>2, <2>3, BackgroundStep DEF WindowCloses
<1>2. ASSUME NEW s \in Servers, NEW from, NEW to \in NmStates, NEW evs,
             evs \subseteq Seq(NmEvents), NmMove(s, from, to, evs)
      PROVE  IndInv'
    <2>1. NmTyped'
        BY <1>2, RelayTyped DEF NmMove, NmTyped
    <2>2. DataKept
        BY <1>2, <2>1 DEF NmMove, DataKept
    <2> QED
        BY <1>2, <2>2, BackgroundStep DEF NmMove
<1>3. ASSUME NEW s \in Servers,
             NmStart(s) \/ NmUp(s) \/ NmFail(s) \/ NmStop(s) \/ NmGone(s)
      PROVE  IndInv'
    <2>1. /\ Maybe(Ev("Activating", s)) \subseteq Seq(NmEvents)
          /\ Maybe(Ev("Activated", s)) \subseteq Seq(NmEvents)
          /\ Maybe(Ev("Failed", s)) \subseteq Seq(NmEvents)
          /\ Maybe(Ev("Deactivated", s)) \subseteq Seq(NmEvents)
          /\ {<<>>} \subseteq Seq(NmEvents)
        BY EvTyped, MaybeTyped
    <2>2. /\ "activating" \in NmStates /\ "activated" \in NmStates
          /\ "inactive" \in NmStates /\ "deactivating" \in NmStates
        BY DEF NmStates
    <2>3. Maybe(Ev("Deactivated", s)) \cup Maybe(Ev("Failed", s)) \subseteq Seq(NmEvents)
        BY <2>1
    <2> QED
        BY <1>2, <1>3, <2>1, <2>2, <2>3 DEF NmStart, NmUp, NmFail, NmStop, NmGone
<1> QED
    BY <1>1, <1>3 DEF EnvironmentNext

----------------------------------------------------------------------------
(* The theorems. *)

\* Every step of the event loop and of NetworkManager keeps the invariant.
LEMMA InductiveStep == IndInv /\ [Next]_vars => IndInv'
<1> SUFFICES ASSUME IndInv, [Next]_vars PROVE IndInv'
    OBVIOUS
<1>1. CASE UNCHANGED vars
    <2>1. DataKept
        BY <1>1, Facts DEF vars, DataKept, NmTyped
    <2> QED
        BY <1>1, <2>1, Facts, BackgroundStep DEF vars
<1>2. CASE SupervisorNext
    <2>1. ASSUME NEW c \in UserCommands,
                 TrayCommand(c) \/ IpcCommand(c) \/ BackoffDefer(c)
                     \/ CancelReconnect(c) \/ VerifyTake(c)
          PROVE  IndInv'
        BY <2>1, CommandsAssumption, CommandKeeps, WaitingCommandKeeps
    <2>2. CASE Startup \/ InitialSync \/ AutoConnect \/ DrainDeferred
        BY <2>2, StartupKeeps, DrainKeeps
    <2>3. CASE ConnectSettle \/ ConnectUp \/ ConnectMonitor
        BY <2>3, ConnectKeeps
    <2>4. CASE DbusStep
        BY <2>4, DbusKeeps
    <2>5. CASE PollTick \/ WakeTick \/ HealthTick
        BY <2>5, PollKeeps, TickKeeps
    <2>6. CASE \E v \in Verdicts : ProbeDone(v)
        BY <2>6, ProbeKeeps
    <2>7. CASE ReconnectCheck \/ ReconnectTry \/ BackoffElapsed \/ ReconnectUp \/ VerifyElapsed
        BY <2>7, ReconnectCheckKeeps, ReconnectTryKeeps, ReconnectKeeps
    <2> QED
        BY <1>2, <2>1, <2>2, <2>3, <2>4, <2>5, <2>6, <2>7 DEF SupervisorNext, DbusStep
<1>3. CASE EnvironmentNext
    BY <1>3, EnvironmentKeeps
<1> QED
    BY <1>1, <1>2, <1>3 DEF Next

\* A new supervisor satisfies the invariant.
LEMMA InitiallyInv == Init => IndInv
<1> SUFFICES ASSUME Init PROVE IndInv
    OBVIOUS
<1>1. Sound(machine)
    BY SoundDisconnected DEF Init, InitialMachine
<1>2. pc \in PcType /\ pc.at = "start"
    BY AtTyped DEF Init, Labels
<1>3. TypeOK
    <2>1. nm \in [Servers -> NmStates]
        BY DEF Init, NmStates
    <2>2. machine \in Machines
        BY <1>1 DEF Sound
    <2>3. dbus \in Seq(NmEvents) /\ deferred \in Seq(Commands)
        BY DEF Init
    <2>4. ctx \in CtxType /\ timing \in TimingType
        BY DEF Init, CtxType, TimingType
    <2> QED
        BY <1>2, <2>1, <2>2, <2>3, <2>4 DEF Init, TypeOK, PcType, CtxType, TimingType
<1> QED
    BY <1>1, <1>2, <1>3
       DEF Init, IndInv, MachineSound, FlagsFollowControl, DeferredDrained, AttemptShown,
           TaskNamesServer, AttemptNumbered, IpcFindsNoneDeferred, DrainHasWork,
           ConnectSteps, ReconnectSteps

\* The invariant holds throughout every run of the daemon.
LEMMA Invariance == Spec => []IndInv
    BY InitiallyInv, InductiveStep, PTL DEF Spec

\* Every variable of the supervisor keeps its type.
THEOREM TypeCorrect == Spec => []TypeOK
<1>1. IndInv => TypeOK
    BY DEF IndInv
<1> QED
    BY <1>1, Invariance, PTL

\* switch_ctx.in_progress and reconnect_in_progress say exactly where the task
\* is, and nobody cancels a running reconnect through the flag.
THEOREM FlagsFollowControlHolds == Spec => []FlagsFollowControl
<1>1. IndInv => FlagsFollowControl
    BY DEF IndInv
<1> QED
    BY <1>1, Invariance, PTL

\* The main loop never resumes with a deferred command left.
THEOREM DeferredDrainedHolds == Spec => []DeferredDrained
<1>1. IndInv => DeferredDrained
    BY DEF IndInv
<1> QED
    BY <1>1, Invariance, PTL

\* The attempt shown is the attempt running, between 1 and max_retries.
THEOREM AttemptShownHolds == Spec => []AttemptShown
<1>1. IndInv => AttemptShown
    BY DEF IndInv
<1> QED
    BY <1>1, Invariance, PTL

----------------------------------------------------------------------------
(* Who says that a tunnel is up *)

\* NetworkManager's word for s: it is activated, the poll finds it among several
\* active VPNs, or its activation is the event at hand.
Word(s) ==
    \/ nm[s] = "activated"
    \/ SeveralActive(nm) /\ s \in ActiveIn(nm)
    \/ dbus # <<>> /\ Head(dbus).type = "Activated" /\ Head(dbus).server = s

\* What ConnectedOnNmWord says of a step.
OnWord ==
    machine'.state.kind = "Connected" /\ machine'.state # machine.state =>
        LET s == machine'.state.server
        IN  \/ nm[s] = "activated"
            \/ SeveralActive(nm) /\ s \in ActiveIn(nm)
            \/ dbus # <<>> /\ Head(dbus).type = "Activated" /\ Head(dbus).server = s
            \/ machine.state = Degraded(s) /\ probing

\* The transition rules that lead to Connected.
LEMMA EntersConnected ==
    ASSUME NEW m, Sound(m), NEW e,
           ComputeTransition(m, e).state.kind = "Connected",
           ComputeTransition(m, e).state # m.state
    PROVE  \/ /\ e.type \in {"NmVpnUp", "NmVpnChanged"}
              /\ ComputeTransition(m, e).state.server = e.server
           \/ /\ e.type = "HealthOk"
              /\ m.state = Degraded(ComputeTransition(m, e).state.server)
<1>1. m.state.kind \in Kinds
    BY DEF Sound, Machines, VpnStates
<1>2. \A st, r : To(st, r).state = st
    BY DEF To
<1>3. \A s, n : /\ Disconnected.kind # "Connected" /\ Connecting(s).kind # "Connected"
                /\ Degraded(s).kind # "Connected" /\ Failed(s).kind # "Connected"
                /\ Reconnecting(s, n).kind # "Connected" /\ Connected(s).server = s
    BY DEF Disconnected, Connecting, Connected, Degraded, Reconnecting, Failed, StateOf
<1>4. /\ FallThrough(m, e).state \in {m.state, Disconnected}
      /\ Retry(m).state.kind # "Connected" /\ Lost(m).state.kind # "Connected"
    BY SMTT(20), <1>2, <1>3 DEF FallThrough, Retry, Lost
<1>5. CASE m.state.kind = "Disconnected"
    BY <1>2, <1>3, <1>4, <1>5 DEF ComputeTransition, FromDisconnected
<1>6. CASE m.state.kind = "Connecting"
    BY <1>2, <1>3, <1>4, <1>6 DEF ComputeTransition, FromConnecting
<1>7. CASE m.state.kind = "Connected"
    BY <1>2, <1>3, <1>4, <1>7 DEF ComputeTransition, FromConnected
<1>8. CASE m.state.kind = "Degraded"
    BY <1>2, <1>3, <1>4, <1>8 DEF ComputeTransition, FromDegraded, Sound
<1>9. CASE m.state.kind = "Reconnecting"
    BY <1>2, <1>3, <1>4, <1>9 DEF ComputeTransition, FromReconnecting
<1>10. CASE m.state.kind = "Failed"
    BY <1>2, <1>3, <1>4, <1>10 DEF ComputeTransition, FromFailed
<1> QED
    BY <1>1, <1>5, <1>6, <1>7, <1>8, <1>9, <1>10 DEF Kinds

\* The machine does not move, or moves by an event or to a state that makes no
\* claim of a tunnel.
Claimless ==
    \/ machine' = machine
    \/ \E e : /\ e.type \notin {"NmVpnUp", "NmVpnChanged", "HealthOk"}
              /\ machine' = ComputeTransition(machine, e)
    \/ \E st : st.kind # "Connected" /\ SetState(st)

\* The events and the states that make no claim.
LEMMA NoClaim ==
    /\ \A e \in {UserDisable, NmVpnDown, HealthDegraded, HealthDead, Wake,
                 ConnectionFailed} :
           Dispatch(e) => Claimless
    /\ \A s : Dispatch(UserEnable(s)) => Claimless
    /\ SetState(Disconnected) => Claimless
    /\ \A s : SetState(Connecting(s)) \/ SetState(Failed(s)) => Claimless
    /\ \A s, n : SetState(Reconnecting(s, n)) => Claimless
<1>1. \A e \in {UserDisable, NmVpnDown, HealthDegraded, HealthDead, Wake,
                ConnectionFailed} :
          e.type \notin {"NmVpnUp", "NmVpnChanged", "HealthOk"}
    BY DEF UserDisable, NmVpnDown, HealthDegraded, HealthDead, Wake, ConnectionFailed,
           EventOf
<1>2. \A s : UserEnable(s).type \notin {"NmVpnUp", "NmVpnChanged", "HealthOk"}
    BY DEF UserEnable, EventOf
<1>3. \A s, n : /\ Disconnected.kind # "Connected" /\ Connecting(s).kind # "Connected"
                /\ Failed(s).kind # "Connected" /\ Reconnecting(s, n).kind # "Connected"
    BY DEF Disconnected, Connecting, Failed, Reconnecting, StateOf
<1> QED
    BY <1>1, <1>2, <1>3 DEF Claimless, Dispatch

\* What each way of moving the machine needs for OnWord.
LEMMA Moves ==
    ASSUME IndInv
    PROVE  /\ Claimless => OnWord
           /\ \A s : Word(s) /\ Dispatch(NmVpnUp(s)) => OnWord
           /\ \A s : Word(s) /\ Dispatch(NmVpnChanged(s)) => OnWord
           /\ \A s : Word(s) /\ SetState(Connected(s)) => OnWord
           /\ probing /\ Dispatch(HealthOk) => OnWord
<1>1. Sound(machine)
    BY Facts
<1>2. \A st : SetState(st) => machine'.state = st
    BY DEF SetState, Forced, To
<1>3. \A s : Connected(s).server = s
    BY DEF Connected, StateOf
<1>4. /\ \A s : NmVpnUp(s).type = "NmVpnUp" /\ NmVpnUp(s).server = s
      /\ \A s : NmVpnChanged(s).type = "NmVpnChanged" /\ NmVpnChanged(s).server = s
      /\ HealthOk.type = "HealthOk"
    BY DEF NmVpnUp, NmVpnChanged, HealthOk, EventOf
<1>5. ASSUME machine' = machine PROVE OnWord
    BY <1>5 DEF OnWord
<1>6. ASSUME NEW s, Word(s), Dispatch(NmVpnUp(s)) \/ Dispatch(NmVpnChanged(s))
      PROVE  OnWord
    BY SMTT(20), <1>1, <1>4, <1>6, EntersConnected DEF Dispatch, OnWord, Word
<1>7. ASSUME NEW s, Word(s), SetState(Connected(s)) PROVE OnWord
    BY <1>2, <1>3, <1>7 DEF OnWord, Word
<1>8. ASSUME probing, Dispatch(HealthOk) PROVE OnWord
    BY <1>1, <1>4, <1>8, EntersConnected DEF Dispatch, OnWord
<1>9. ASSUME NEW e, e.type \notin {"NmVpnUp", "NmVpnChanged", "HealthOk"},
             machine' = ComputeTransition(machine, e)
      PROVE  OnWord
    BY <1>1, <1>9, EntersConnected DEF OnWord
<1>10. ASSUME NEW st, st.kind # "Connected", SetState(st) PROVE OnWord
    BY <1>2, <1>10 DEF OnWord
<1>11. Claimless => OnWord
    BY <1>5, <1>9, <1>10 DEF Claimless
<1> QED
    BY <1>6, <1>7, <1>8, <1>11

\* An answer of NetworkManager is its word: it is the truth, or names nobody.
LEMMA AnswersAreWords ==
    ASSUME IndInv, NEW q \in Answers
    PROVE  /\ \A s \in Servers : q[s] = "activated" => Word(s)
           /\ \A a \in ActiveVpns(q) : a # NoServer => Word(a)
           /\ SeveralActive(q) => \A s \in ActiveIn(q) : Word(s)
<1>1. q = nm \/ (\A s \in Servers : q[s] = "inactive")
    BY DEF Answers
<1>2. \A s \in Servers : q[s] = "activated" => Word(s)
    BY <1>1 DEF Word
<1>3. \A a \in ActiveVpns(q) : a # NoServer => a \in Servers /\ q[a] = "activated"
    BY DEF ActiveVpns, OrNone, InState
<1>4. SeveralActive(q) => q = nm
    BY <1>1 DEF SeveralActive, ActiveIn
<1> QED
    BY <1>2, <1>3, <1>4 DEF Word

\* A drop, and the reconnect it may start, make no claim.
LEMMA DropsMakeNoClaim ==
    ASSUME NEW s, NEW st, st.kind # "Connected",
           NEW e \in {NmVpnDown, HealthDead}, DropOr(s, e, st)
    PROVE  Claimless
<1>1. Dispatch(e) \/ SetState(st)
    BY DEF DropOr, StartReconnect, Dispatch
<1>2. SetState(st) => Claimless
    BY DEF Claimless
<1> QED
    BY <1>1, <1>2, NoClaim

\* Startup, the commands and handle_connect: only initial_nm_sync and the
\* monitor loop claim a tunnel, each on the answer it has just read.
LEMMA CommandsOnWord ==
    ASSUME IndInv,
           \/ Startup \/ InitialSync \/ AutoConnect \/ DrainDeferred
           \/ ConnectSettle \/ ConnectUp \/ ConnectMonitor
           \/ \E c : TrayCommand(c) \/ IpcCommand(c) \/ BackoffDefer(c)
                        \/ CancelReconnect(c) \/ VerifyTake(c)
    PROVE  OnWord
<1> USE Moves
<1>1. \A s, b : BeginConnect(s, b) => Claimless
    BY DEF BeginConnect, Claimless
<1>2. \A c : ShortCommand(c) => Claimless
    BY NoClaim DEF ShortCommand, HandleDisconnect, Claimless, Dispatch
<1>3. FinishConnect(FALSE) => Claimless
    BY NoClaim DEF FinishConnect
<1>4. NextConnectAttempt => Claimless
    BY <1>3 DEF NextConnectAttempt, Claimless
<1>5. CASE Startup
    BY <1>5 DEF Startup, Claimless
<1>6. CASE InitialSync
    <2>1. PICK q \in Answers : \E s \in OrNone(BestVpns(q)) :
              CASE s # NoServer /\ q[s] = "activated" -> Dispatch(NmVpnUp(s))
                [] s # NoServer /\ q[s] = "activating" -> Dispatch(UserEnable(s))
                [] OTHER -> UNCHANGED machine
        BY <1>6 DEF InitialSync
    <2>2. PICK s \in OrNone(BestVpns(q)) :
              CASE s # NoServer /\ q[s] = "activated" -> Dispatch(NmVpnUp(s))
                [] s # NoServer /\ q[s] = "activating" -> Dispatch(UserEnable(s))
                [] OTHER -> UNCHANGED machine
        BY <2>1
    <2>3. s \in Servers \cup {NoServer}
        BY QueriesTyped, Facts DEF NmTyped
    <2>4. CASE s # NoServer /\ q[s] = "activated"
        BY <2>2, <2>3, <2>4, AnswersAreWords
    <2>5. CASE s # NoServer /\ q[s] = "activating"
        BY <2>2, <2>5, NoClaim
    <2> QED
        BY <2>2, <2>4, <2>5 DEF Claimless
<1>7. CASE AutoConnect \/ DrainDeferred
    BY <1>1, <1>2, <1>7 DEF AutoConnect, DrainDeferred
<1>8. CASE ConnectSettle
    BY <1>8, NoClaim DEF ConnectSettle
<1>9. CASE ConnectUp
    BY <1>4, <1>9 DEF ConnectUp, Claimless
<1>10. CASE ConnectMonitor
    <2>1. PICK q \in Answers :
              IF q[pc.server] = "activated" THEN FinishConnect(TRUE) ELSE NextConnectAttempt
        BY <1>10 DEF ConnectMonitor
    <2>2. pc.server \in Servers
        BY <1>10 DEF ConnectMonitor, IndInv, TaskNamesServer, ConnectSteps, ReconnectSteps
    <2>3. CASE q[pc.server] = "activated"
        BY <2>1, <2>2, <2>3, AnswersAreWords DEF FinishConnect
    <2> QED
        BY <1>4, <2>1, <2>3
<1>11. ASSUME NEW c, TrayCommand(c) \/ IpcCommand(c) PROVE OnWord
    BY <1>1, <1>2, <1>11 DEF TrayCommand, IpcCommand
<1>12. ASSUME NEW c, BackoffDefer(c) \/ VerifyTake(c) PROVE OnWord
    BY <1>12 DEF BackoffDefer, VerifyTake, Claimless
<1>13. ASSUME NEW c, CancelReconnect(c) PROVE OnWord
    BY <1>13, NoClaim DEF CancelReconnect
<1> QED
    BY <1>5, <1>6, <1>7, <1>8, <1>9, <1>10, <1>11, <1>12, <1>13

\* The D-Bus events: only the activation at hand is a claim.
LEMMA EventsOnWord ==
    ASSUME IndInv, DbusStep
    PROVE  OnWord
<1> USE Moves
<1>1. \A s : Disconnected.kind # "Connected" /\ Failed(s).kind # "Connected"
    BY DEF Disconnected, Failed, StateOf
<1>2. CASE DbusIgnored
    BY <1>2 DEF DbusIgnored, Claimless
<1>3. CASE DbusActivated
    <2>1. Word(Head(dbus).server)
        BY <1>3 DEF DbusActivated, DbusEvent, Word
    <2> QED
        BY <1>3, <2>1 DEF DbusActivated
<1>4. CASE DbusActivating
    BY <1>4, NoClaim DEF DbusActivating, Claimless
<1>5. CASE DbusDeactivated
    <2>1. \/ machine' = machine \/ SetState(Disconnected)
          \/ DropOr(Current, NmVpnDown, Disconnected)
        BY <1>5 DEF DbusDeactivated
    <2> QED
        BY <1>1, <2>1, NoClaim, DropsMakeNoClaim DEF Claimless
<1>6. CASE DbusFailed
    BY <1>1, <1>6, DropsMakeNoClaim DEF DbusFailed
<1> QED
    BY <1>2, <1>3, <1>4, <1>5, <1>6 DEF DbusStep

\* The poll believes the answer it read, or keeps one of several VPNs.
LEMMA PollOnWord ==
    ASSUME IndInv, PollTick
    PROVE  OnWord
<1> USE Moves
<1>1. PICK q \in Answers :
          \/ ~SeveralActive(q) /\ \E s \in OrNone(ActiveIn(q)) : PollOne(q, s)
          \/ /\ SeveralActive(q)
             /\ \E keep \in ActiveIn(q) : machine' = machine \/ Dispatch(NmVpnUp(keep))
    BY DEF PollTick
<1>2. ASSUME NEW s \in OrNone(ActiveIn(q)), PollOne(q, s) PROVE OnWord
    <2>1. s \in Servers \cup {NoServer}
        BY QueriesTyped, Facts
    <2>2. \/ machine' = machine \/ Dispatch(UserEnable(s))
          \/ DropOr(machine.state.server, NmVpnDown, Disconnected)
          \/ /\ s # NoServer /\ q[s] = "activated"
             /\ Dispatch(NmVpnUp(s)) \/ Dispatch(NmVpnChanged(s))
        BY <1>2 DEF PollOne
    <2>3. Disconnected.kind # "Connected"
        BY DEF Disconnected, StateOf
    <2>4. CASE s # NoServer /\ q[s] = "activated"
               /\ (Dispatch(NmVpnUp(s)) \/ Dispatch(NmVpnChanged(s)))
        BY <2>1, <2>4, AnswersAreWords
    <2> QED
        BY <2>2, <2>3, <2>4, NoClaim, DropsMakeNoClaim DEF Claimless
<1>3. ASSUME SeveralActive(q), NEW keep \in ActiveIn(q),
             machine' = machine \/ Dispatch(NmVpnUp(keep))
      PROVE  OnWord
    BY <1>3, AnswersAreWords DEF Claimless
<1> QED
    BY <1>1, <1>2, <1>3

\* The wake resync and the health checks: a resync and a correction believe the
\* answer they read, and a passed probe lifts the degraded mark only.
LEMMA TicksOnWord ==
    ASSUME IndInv, WakeTick \/ HealthTick \/ \E v : ProbeDone(v)
    PROVE  OnWord
<1> USE Moves
<1>1. CASE WakeTick
    <2>1. PICK q \in Answers : \E s \in OrNone(BestVpns(q)) :
              \/ Dispatch(Wake) \/ SetState(Disconnected) \/ SetState(Connecting(s))
              \/ s # NoServer /\ q[s] = "activated" /\ SetState(Connected(s))
        BY <1>1 DEF WakeTick
    <2>2. OrNone(BestVpns(q)) \subseteq Servers \cup {NoServer}
        BY QueriesTyped, Facts
    <2> QED
        BY <2>1, <2>2, NoClaim, AnswersAreWords
<1>2. CASE HealthTick
    <2>1. PICK q \in Answers : \E a \in ActiveVpns(q) :
              \/ machine' = machine \/ SetState(Disconnected)
              \/ a # NoServer /\ Dispatch(NmVpnUp(a))
        BY <1>2 DEF HealthTick, SyncStateFromNm
    <2> QED
        BY <2>1, NoClaim, AnswersAreWords DEF Claimless
<1>3. ASSUME NEW v, ProbeDone(v) PROVE OnWord
    <2>1. probing
        BY <1>3 DEF ProbeDone
    <2>2. \/ machine' = machine \/ Dispatch(HealthDegraded) \/ Dispatch(HealthOk)
          \/ DropOr(machine.state.server, HealthDead, Disconnected)
        BY <1>3 DEF ProbeDone
    <2>3. Disconnected.kind # "Connected"
        BY DEF Disconnected, StateOf
    <2> QED
        BY <2>1, <2>2, <2>3, NoClaim, DropsMakeNoClaim DEF Claimless
<1> QED
    BY <1>1, <1>2, <1>3

\* The reconnect loop ends on a tunnel only when a query names one.
LEMMA ReconnectOnWord ==
    ASSUME IndInv,
           \/ ReconnectCheck \/ ReconnectTry \/ BackoffElapsed \/ ReconnectUp
           \/ VerifyElapsed
    PROVE  OnWord
<1> USE Moves
<1>1. NextAttempt => Claimless
    BY NoClaim DEF NextAttempt, GiveUp, Claimless
<1>2. \A a : ResolvedBy(a) => Dispatch(NmVpnUp(a))
    BY DEF ResolvedBy
<1>3. CASE ReconnectCheck
    <2>1. PICK q \in Answers : \E a \in ActiveVpns(q) :
              \/ a # NoServer /\ ResolvedBy(a)
              \/ NextAttempt \/ Dispatch(ConnectionFailed)
        BY <1>3 DEF ReconnectCheck
    <2> QED
        BY <1>1, <1>2, <2>1, NoClaim, AnswersAreWords
<1>4. CASE ReconnectTry
    <2>1. PICK q \in Answers : \E a \in ActiveVpns(q) :
              \/ a # NoServer /\ ResolvedBy(a)
              \/ SetState(Disconnected) \/ SetState(Reconnecting(pc.server, pc.n))
        BY <1>4 DEF ReconnectTry
    <2> QED
        BY <1>2, <2>1, NoClaim, AnswersAreWords
<1>5. CASE BackoffElapsed
    BY <1>5 DEF BackoffElapsed, Claimless
<1>6. CASE ReconnectUp
    BY <1>1, <1>6 DEF ReconnectUp, Claimless
<1>7. CASE VerifyElapsed
    <2>1. PICK q \in Answers : \E a \in ActiveVpns(q) :
              IF a = pc.server THEN ResolvedBy(a) ELSE NextAttempt
        BY <1>7 DEF VerifyElapsed
    <2>2. pc.server # NoServer
        BY <1>7, ServersAssumption
           DEF VerifyElapsed, IndInv, TaskNamesServer, ConnectSteps, ReconnectSteps
    <2> QED
        BY <1>1, <1>2, <2>1, <2>2, AnswersAreWords
<1> QED
    BY <1>3, <1>4, <1>5, <1>6, <1>7

\* Connected is claimed anew only on NetworkManager's word, by whichever handler.
LEMMA OnWordStep == IndInv /\ [Next]_vars => OnWord
<1> SUFFICES ASSUME IndInv, [Next]_vars PROVE OnWord
    OBVIOUS
<1> USE Moves
<1>1. CASE UNCHANGED vars
    BY <1>1 DEF vars, Claimless
<1>2. CASE SupervisorNext
    BY <1>2, CommandsOnWord, EventsOnWord, PollOnWord, TicksOnWord, ReconnectOnWord
       DEF SupervisorNext, DbusStep
<1>3. CASE EnvironmentNext
    BY <1>3 DEF EnvironmentNext, WindowCloses, NmStart, NmUp, NmFail, NmStop, NmGone,
                NmMove, Claimless
<1> QED
    BY <1>1, <1>2, <1>3 DEF Next

\* Whatever the interleaving of commands, events, polls, probes and reconnects,
\* the supervisor shows a new Connected only on NetworkManager's word at that
\* moment, on the activation event at hand, or on a probe that passed while the
\* same server was degraded.
THEOREM ConnectedOnNmWordHolds == Spec => ConnectedOnNmWord
<1>1. IndInv /\ [Next]_vars =>
          (machine'.state.kind = "Connected" /\ machine'.state # machine.state =>
              LET s == machine'.state.server
              IN  \/ nm[s] = "activated"
                  \/ SeveralActive(nm) /\ s \in ActiveIn(nm)
                  \/ dbus # <<>> /\ Head(dbus).type = "Activated" /\ Head(dbus).server = s
                  \/ machine.state = Degraded(s) /\ probing)
    BY OnWordStep DEF OnWord
<1> QED
    BY <1>1, Invariance, PTL DEF Spec, ConnectedOnNmWord
=============================================================================
