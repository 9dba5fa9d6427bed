------------------------- MODULE StateMachineProofs -------------------------
(***************************************************************************)
(* Proofs about StateMachine, for every set of servers and every           *)
(* max_retries: the type invariant, the relation between the state and the *)
(* retry counter, and the two action properties; and about Desktop, for    *)
(* every capacity of its channel: the daemon runs that machine, and the    *)
(* tray ends up showing its state.                                         *)
(***************************************************************************)
EXTENDS Desktop, TLAPS

\* The states told apart by their kind.
LEMMA KindsOfStates ==
    ASSUME NEW s, NEW n
    PROVE  /\ Disconnected.kind = "Disconnected"
           /\ Connecting(s).kind = "Connecting"
           /\ Connected(s).kind = "Connected" /\ Connected(s).server = s
           /\ Degraded(s).kind = "Degraded"
           /\ Reconnecting(s, n).kind = "Reconnecting"
           /\ Failed(s).kind = "Failed"
BY DEF Disconnected, Connecting, Connected, Degraded, Reconnecting, Failed, StateOf

\* The invariant is inductive as a whole and not by parts: Retry derives the
\* attempt from the counter, so RetryBudget needs AttemptIsRetries, and the
\* counter starts from 0 only because RetryBudget says so of Connecting.
IndInv == TypeOK /\ ServerIffActive /\ AttemptIsRetries /\ RetryBudget

\* What a transition may produce from a well-formed machine.
MachineInv(m) ==
    /\ m \in Machines
    /\ m.state.server = NoServer <=> m.state.kind = "Disconnected"
    /\ m.state.kind = "Reconnecting" => m.state.attempt = m.retries
    /\ m.state.kind = "Reconnecting" => m.state.attempt = 1 \/ m.state.attempt < MaxRetries
    /\ m.state.kind \in {"Disconnected", "Connecting"} => m.retries = 0

\* The invariant speaks of the machine and of the type of the last event.
LEMMA IndInvIsMachineInv ==
    IndInv <=> MachineInv(machine) /\ last \in Events \cup {NoEvent}
BY DEF IndInv, TypeOK, ServerIffActive, AttemptIsRetries, RetryBudget, MachineInv

\* from_connecting and from_reconnecting: one more retry keeps the budget.
LEMMA RetryKeeps ==
    ASSUME NEW m, MachineInv(m), m.state.kind \in {"Connecting", "Reconnecting"}
    PROVE  MachineInv(Retry(m))
BY MaxRetriesAssumption, ServersAssumption
   DEF MachineInv, Retry, To, Failed, Reconnecting, StateOf, Machines, VpnStates, Kinds

\* from_connected and from_degraded: losing the tunnel opens a cycle at 1.
LEMMA LostKeeps ==
    ASSUME NEW m, MachineInv(m), m.state.kind \in {"Connected", "Degraded"}
    PROVE  MachineInv(Lost(m))
BY MaxRetriesAssumption, ServersAssumption
   DEF MachineInv, Lost, To, Reconnecting, StateOf, Machines, VpnStates, Kinds

\* The rules common to all states.
LEMMA FallThroughKeeps ==
    ASSUME NEW m, MachineInv(m), NEW e
    PROVE  MachineInv(FallThrough(m, e))
BY ServersAssumption
   DEF MachineInv, FallThrough, To, Disconnected, StateOf, Machines, VpnStates, Kinds

\* compute_transition keeps every machine well formed, whatever the event.
LEMMA TransitionKeeps ==
    ASSUME NEW m, MachineInv(m), NEW e \in Events
    PROVE  MachineInv(ComputeTransition(m, e))
<1> USE DEF MachineInv
<1>1. /\ m \in Machines
      /\ m.state.kind \in Kinds
      /\ m.state \in VpnStates
    BY DEF Machines, VpnStates
<1>2. e.type \in ServerEvents => e.server \in Servers /\ e.server # NoServer
    BY ServersAssumption DEF Events, ServerEvents, PlainEvents
<1>3. MachineInv(To(Disconnected, 0))
    BY ServersAssumption
       DEF To, Disconnected, StateOf, Machines, VpnStates, Kinds
<1>4. ASSUME NEW s \in Servers
      PROVE  MachineInv(To(Connecting(s), 0)) /\ MachineInv(To(Connected(s), 0))
    BY ServersAssumption
       DEF To, Connecting, Connected, StateOf, Machines, VpnStates, Kinds
<1>5. m.state.kind # "Disconnected" =>
          /\ MachineInv(To(Connected(m.state.server), m.retries))
          /\ MachineInv(To(Degraded(m.state.server), m.retries))
    BY <1>1, ServersAssumption
       DEF To, Connected, Degraded, StateOf, Machines, VpnStates, Kinds
<1>6. MachineInv(FallThrough(m, e))
    BY FallThroughKeeps
<1>7. m.state.kind \in {"Connecting", "Reconnecting"} => MachineInv(Retry(m))
    BY RetryKeeps
<1>8. m.state.kind \in {"Connected", "Degraded"} => MachineInv(Lost(m))
    BY LostKeeps
<1> HIDE DEF MachineInv
<1>9. CASE m.state.kind = "Disconnected"
    BY <1>2, <1>4, <1>6, <1>9 DEF ComputeTransition, FromDisconnected, ServerEvents
<1>10. CASE m.state.kind = "Connecting"
    BY <1>2, <1>3, <1>4, <1>6, <1>7, <1>10
       DEF ComputeTransition, FromConnecting, ServerEvents
<1>11. CASE m.state.kind = "Connected"
    BY <1>2, <1>4, <1>5, <1>6, <1>8, <1>11
       DEF ComputeTransition, FromConnected, ServerEvents
<1>12. CASE m.state.kind = "Degraded"
    BY <1>2, <1>5, <1>6, <1>8, <1>12
       DEF ComputeTransition, FromDegraded, ServerEvents
<1>13. CASE m.state.kind = "Reconnecting"
    BY <1>2, <1>3, <1>4, <1>6, <1>7, <1>13
       DEF ComputeTransition, FromReconnecting, ServerEvents
<1>14. CASE m.state.kind = "Failed"
    BY <1>2, <1>4, <1>6, <1>14 DEF ComputeTransition, FromFailed, ServerEvents
<1> QED
    BY <1>1, <1>9, <1>10, <1>11, <1>12, <1>13, <1>14 DEF Kinds

----------------------------------------------------------------------------
(* The invariants. *)

\* handle_event in any state, with any event, keeps the invariant.
LEMMA InductiveStep == IndInv /\ [Next]_vars => IndInv'
<1> SUFFICES ASSUME IndInv, [Next]_vars PROVE IndInv'
    OBVIOUS
<1>1. MachineInv(machine) /\ last \in Events \cup {NoEvent}
    BY IndInvIsMachineInv
<1>2. CASE UNCHANGED vars
    BY <1>2 DEF vars, IndInv, TypeOK, ServerIffActive, AttemptIsRetries, RetryBudget
<1>3. ASSUME NEW e \in Events, HandleEvent(e)
      PROVE  IndInv'
    <2>1. MachineInv(machine')
        BY <1>1, <1>3, TransitionKeeps DEF HandleEvent
    <2>2. last' \in Events \cup {NoEvent}
        BY <1>3 DEF HandleEvent
    <2> QED
        BY <2>1, <2>2
           DEF IndInv, TypeOK, ServerIffActive, AttemptIsRetries, RetryBudget, MachineInv
<1> QED
    BY <1>2, <1>3 DEF Next

\* handle_event keeps the inductive invariant in every order of events.
LEMMA Invariance == Spec => []IndInv
<1>1. Init => IndInv
    BY ServersAssumption
       DEF Init, IndInv, TypeOK, ServerIffActive, AttemptIsRetries, RetryBudget,
           InitialMachine, To, Disconnected, StateOf, Machines, VpnStates, Kinds
<1> QED
    BY <1>1, InductiveStep, PTL DEF Spec

\* Every reachable machine is a well-formed VpnState with a natural counter.
THEOREM TypeCorrect == Spec => []TypeOK
<1>1. IndInv => TypeOK
    BY DEF IndInv
<1> QED
    BY <1>1, Invariance, PTL

\* server_name() is None exactly in Disconnected.
THEOREM ServerIffActiveHolds == Spec => []ServerIffActive
<1>1. IndInv => ServerIffActive
    BY DEF IndInv
<1> QED
    BY <1>1, Invariance, PTL

\* The debug_assert of handle_event never fires: the attempt is the counter.
THEOREM AttemptIsRetriesHolds == Spec => []AttemptIsRetries
<1>1. IndInv => AttemptIsRetries
    BY DEF IndInv
<1> QED
    BY <1>1, Invariance, PTL

\* A retry cycle stays within max_retries, and a fresh attempt starts from 0.
THEOREM RetryBudgetHolds == Spec => []RetryBudget
<1>1. IndInv => RetryBudget
    BY DEF IndInv
<1> QED
    BY <1>1, Invariance, PTL

----------------------------------------------------------------------------
(* The action properties. *)

\* The machine enters Connected(s) only because NetworkManager named s, or
\* because a probe passed while it was degraded on s.
THEOREM ConnectedOnEvidenceHolds == Spec => ConnectedOnEvidence
<1> DEFINE Evidence ==
        machine'.state.kind = "Connected" /\ machine'.state # machine.state =>
            \/ last'.type \in {"NmVpnUp", "NmVpnChanged"}
               /\ last'.server = machine'.state.server
            \/ last'.type = "HealthOk"
               /\ machine.state.kind = "Degraded"
               /\ machine.state.server = machine'.state.server
<1>1. ASSUME IndInv, NEW e \in Events, HandleEvent(e)
      PROVE  Evidence
    <2>1. /\ machine' = ComputeTransition(machine, e)
          /\ last' = e
          /\ machine.state.kind \in Kinds
        BY <1>1 DEF HandleEvent, IndInv, TypeOK, Machines, VpnStates
    <2>2. \A st, r : To(st, r).state = st
        BY DEF To
    <2>3. FallThrough(machine, e).state \in {machine.state, Disconnected}
        BY <2>2 DEF FallThrough
    <2>4. /\ Retry(machine).state.kind # "Connected"
          /\ Lost(machine).state.kind # "Connected"
        BY DEF Retry, Lost, To, Failed, Reconnecting, StateOf
    <2>5. CASE machine.state.kind = "Disconnected"
        BY <2>1, <2>2, <2>3, <2>5, KindsOfStates DEF ComputeTransition, FromDisconnected
    <2>6. CASE machine.state.kind = "Connecting"
        BY <2>1, <2>2, <2>3, <2>4, <2>6, KindsOfStates DEF ComputeTransition, FromConnecting
    <2>7. CASE machine.state.kind = "Connected"
        BY <2>1, <2>2, <2>3, <2>4, <2>7, KindsOfStates DEF ComputeTransition, FromConnected
    <2>8. CASE machine.state.kind = "Degraded"
        BY <2>1, <2>2, <2>3, <2>4, <2>8, KindsOfStates DEF ComputeTransition, FromDegraded
    <2>9. CASE machine.state.kind = "Reconnecting"
        BY <2>1, <2>2, <2>3, <2>4, <2>9, KindsOfStates DEF ComputeTransition, FromReconnecting
    <2>10. CASE machine.state.kind = "Failed"
        BY <2>1, <2>2, <2>3, <2>10, KindsOfStates DEF ComputeTransition, FromFailed
    <2> QED
        BY <2>1, <2>5, <2>6, <2>7, <2>8, <2>9, <2>10 DEF Kinds
<1>2. IndInv /\ [Next]_vars => [Evidence]_vars
    BY <1>1 DEF Next
<1> QED
    BY <1>2, Invariance, PTL DEF Spec, ConnectedOnEvidence

\* Inside a retry cycle the attempt climbs by one or nothing changes.
THEOREM AttemptsClimbHolds == Spec => AttemptsClimb
<1> DEFINE Climb ==
        machine.state.kind = "Reconnecting" /\ machine'.state.kind = "Reconnecting" =>
            \/ machine' = machine
            \/ machine'.state = Reconnecting(machine.state.server, machine.state.attempt + 1)
<1>1. ASSUME IndInv, NEW e \in Events, HandleEvent(e),
             machine.state.kind = "Reconnecting", machine'.state.kind = "Reconnecting"
      PROVE  \/ machine' = machine
             \/ machine'.state = Reconnecting(machine.state.server, machine.state.attempt + 1)
    <2>1. machine' = FromReconnecting(machine, e)
        BY <1>1 DEF HandleEvent, ComputeTransition
    <2>2. \A st, r : To(st, r).state = st
        BY DEF To
    <2>3. machine.state.attempt = machine.retries
        BY <1>1 DEF IndInv, AttemptIsRetries
    <2>4. \/ Retry(machine).state = Failed(machine.state.server)
          \/ Retry(machine).state = Reconnecting(machine.state.server, machine.state.attempt + 1)
        BY <2>2, <2>3 DEF Retry
    <2> QED
        BY <1>1, <2>1, <2>2, <2>4, KindsOfStates DEF FromReconnecting, FallThrough
<1>2. IndInv /\ [Next]_vars => [Climb]_vars
    BY <1>1 DEF Next
<1> QED
    BY <1>2, Invariance, PTL DEF Spec, AttemptsClimb

----------------------------------------------------------------------------
(* The desktop daemon. *)

Shots == [state : VpnStates, ks : BOOLEAN]

\* What the tray and the signal handler send: a connect names a server.
Requests == {c \in Commands : c.op = "connect" => c.server \in Servers}

DeskTypes ==
    /\ ks \in BOOLEAN
    /\ ui \in [handle : {"none", "up", "failed"}, drawn : BOOLEAN, cached : Shots]
    /\ threads \in Seq(Shots) /\ Len(threads) <= MaxThreads
    /\ queue \in Seq(Requests) /\ Len(queue) <= QueueCap
    /\ life \in {"running", "exited"} /\ quit \in BOOLEAN /\ taken \in BOOLEAN

\* The newest update under way carries the machine's state.  An update reaches
\* only a tray that is up, and a tray that is up stays up.
Newest ==
    /\ ui.drawn => ui.handle = "up"
    /\ threads # <<>> => threads[Len(threads)].state = machine.state
    /\ threads = <<>> /\ ui.drawn => ui.cached.state = machine.state

DeskInv == IndInv /\ DeskTypes /\ (InOrder => Newest)

\* TrayBridge::update takes the state the machine has after the move.
LEMMA UpdateKeeps ==
    ASSUME DeskTypes, NEW m \in Machines, NEW k \in BOOLEAN, Update(m, k)
    PROVE  /\ threads' \in Seq(Shots) /\ Len(threads') <= MaxThreads
           /\ threads' # <<>> /\ threads'[Len(threads')].state = m.state
<1>1. /\ Snapshot(m, k) \in Shots
      /\ Snapshot(m, k).state = m.state
    BY DEF Snapshot, Shots, Machines
<1>2. threads \in Seq(Shots) /\ MaxThreads \in Nat
    BY DesktopAssumption DEF DeskTypes
<1>3. threads' = Append(threads, Snapshot(m, k)) /\ Len(threads) < MaxThreads
    BY DEF Update
<1> HIDE DEF Shots
<1> QED
    BY <1>1, <1>2, <1>3

\* try_send queues the command or drops it.
LEMMA SendKeeps ==
    ASSUME DeskTypes, NEW c \in Requests, TrySend(c)
    PROVE  queue' \in Seq(Requests) /\ Len(queue') <= QueueCap
<1>1. queue \in Seq(Requests) /\ Len(queue) <= QueueCap /\ QueueCap \in Nat
    BY DesktopAssumption DEF DeskTypes
<1> QED
    BY <1>1 DEF TrySend

\* The commands the daemon makes itself.
LEMMA PlainRequests ==
    ASSUME NEW op \in {"disconnect", "killswitch", "other", "restart", "quit"}
    PROVE  Command(op, NoServer) \in Requests
BY DEF Command, Requests, Commands

\* A click sends a request: the menu offers to connect only to servers.
LEMMA MenuRequests == Menu \subseteq Requests
<1>1. \A s \in Servers : Command("connect", s) \in Requests
    BY DEF Command, Requests, Commands
<1> QED
    BY <1>1, PlainRequests DEF Menu

\* An update thread takes its snapshot out of the list, and the tray shows it.
LEMMA ThreadKeeps ==
    ASSUME DeskInv, NEW i \in 1..MaxThreads, RunThread(i)
    PROVE  DeskInv'
<1>1. /\ i \in 1..Len(threads) /\ (InOrder => i = 1)
      /\ threads' = SubSeq(threads, 1, i - 1) \o SubSeq(threads, i + 1, Len(threads))
      /\ ui' = IF ui.handle = "up"
               THEN [ui EXCEPT !.cached = threads[i], !.drawn = TRUE] ELSE ui
      /\ UNCHANGED <<machine, last, ks, queue, life, quit, taken>>
    BY DEF RunThread, vars
<1>2. /\ threads \in Seq(Shots) /\ Len(threads) \in Nat /\ Len(threads) <= MaxThreads
      /\ ui \in [handle : {"none", "up", "failed"}, drawn : BOOLEAN, cached : Shots]
      /\ MaxThreads \in Nat
    BY DesktopAssumption DEF DeskInv, DeskTypes
<1>3. IndInv'
    BY <1>1 DEF DeskInv, IndInv, TypeOK, ServerIffActive, AttemptIsRetries, RetryBudget
<1>4. threads[i] \in Shots
    BY <1>1, <1>2
<1>5. ui' \in [handle : {"none", "up", "failed"}, drawn : BOOLEAN, cached : Shots]
    BY <1>1, <1>2, <1>4
<1>6. threads' \in Seq(Shots) /\ Len(threads') = Len(threads) - 1
    BY <1>1, <1>2
<1>7. DeskTypes'
    BY <1>1, <1>2, <1>5, <1>6 DEF DeskInv, DeskTypes
<1>8. ASSUME InOrder PROVE Newest'
    <2>1. Newest /\ i = 1
        BY <1>1, <1>8 DEF DeskInv
    <2>2. threads' = Tail(threads)
        BY <1>1, <1>2, <2>1
    <2>3. ui'.drawn => ui'.handle = "up"
        BY <1>1, <1>2, <2>1 DEF Newest
    <2>4. CASE Len(threads) = 1
        <3>1. threads' = <<>>
            BY <1>6, <2>4
        <3>2. threads # <<>>
            BY <2>4
        <3>3. threads[1].state = machine.state
            BY <2>1, <2>4, <3>2 DEF Newest
        <3>4. ui'.drawn => ui'.cached = threads[1]
            BY <1>1, <1>2, <2>1 DEF Newest
        <3> QED
            BY <1>1, <2>3, <3>1, <3>3, <3>4 DEF Newest
    <2>5. CASE Len(threads) > 1
        <3>1. threads' # <<>> /\ threads # <<>>
            BY <1>2, <1>6, <2>5
        <3>2. Tail(threads)[Len(threads) - 1] = threads[Len(threads)]
            BY <1>2, <2>5
        <3> QED
            BY <1>1, <1>6, <2>1, <2>2, <2>3, <3>1, <3>2 DEF Newest
    <2>6. Len(threads) = 1 \/ Len(threads) > 1
        BY <1>2, <1>6
    <2> QED
        BY <2>4, <2>5, <2>6
<1> QED
    BY <1>3, <1>7, <1>8 DEF DeskInv

\* A step of the supervisor's task: the machine stays or takes one event, and
\* when it moves the tray is told of the state it moved to.
Told ==
    /\ ks' \in BOOLEAN
    /\ \/ UNCHANGED <<machine, last, threads>>
       \/ /\ \/ UNCHANGED <<machine, last>>
             \/ \E e \in Events : HandleEvent(e)
          /\ Update(machine', ks')

\* Such a step keeps the machine's invariant, the list of updates and, for a
\* tray that it leaves alone, what the newest of them says.
LEMMA ToldKeeps ==
    ASSUME DeskInv, Told, UNCHANGED ui
    PROVE  /\ [Next]_vars /\ IndInv'
           /\ threads' \in Seq(Shots) /\ Len(threads') <= MaxThreads
           /\ InOrder => Newest'
<1>1. [Next]_vars
    BY DEF Told, Next, vars
<1>2. IndInv'
    BY <1>1, InductiveStep DEF DeskInv
<1>3. machine' \in Machines /\ ks' \in BOOLEAN
    BY <1>2 DEF IndInv, TypeOK, Told
<1>4. CASE UNCHANGED <<machine, last, threads>>
    BY <1>1, <1>2, <1>4 DEF DeskInv, DeskTypes, Newest
<1>5. CASE Update(machine', ks')
    <2>1. /\ threads' \in Seq(Shots) /\ Len(threads') <= MaxThreads
          /\ threads' # <<>> /\ threads'[Len(threads')].state = machine'.state
        BY <1>3, <1>5, UpdateKeeps DEF DeskInv
    <2> QED
        BY <1>1, <1>2, <2>1 DEF DeskInv, Newest
<1> QED
    BY <1>4, <1>5 DEF Told

\* Each handler of the supervisor's task is such a step.
LEMMA SupervisorTells ==
    ASSUME DeskInv,
           \/ \E e \in Events : Event(e)
           \/ SetKillSwitch \/ Serve \/ ReconnectTakes
    PROVE  /\ Told /\ UNCHANGED ui
           /\ queue' \in Seq(Requests) /\ Len(queue') <= QueueCap
           /\ life' \in {"running", "exited"} /\ quit' \in BOOLEAN /\ taken' \in BOOLEAN
<1>1. /\ ks \in BOOLEAN
      /\ queue \in Seq(Requests) /\ Len(queue) <= QueueCap /\ QueueCap \in Nat
      /\ life \in {"running", "exited"} /\ quit \in BOOLEAN /\ taken \in BOOLEAN
    BY DesktopAssumption DEF DeskInv, DeskTypes
<1>2. queue # <<>> =>
          /\ Head(queue) \in Requests
          /\ Tail(queue) \in Seq(Requests) /\ Len(Tail(queue)) <= QueueCap
    BY <1>1
<1>3. CASE \E e \in Events : Event(e)
    BY <1>1, <1>3 DEF Event, Told
<1>4. CASE SetKillSwitch
    BY <1>1, <1>4 DEF SetKillSwitch, Told, vars
<1>5. CASE ReconnectTakes
    BY <1>1, <1>2, <1>5 DEF ReconnectTakes, Told, vars
<1>6. CASE Serve
    <2> DEFINE c == Head(queue)
    <2>1. /\ queue' = Tail(queue) /\ queue # <<>> /\ c \in Requests
          /\ UNCHANGED <<ui, quit, taken>>
        BY <1>2, <1>6 DEF Serve
    <2>2. /\ UserDisable \in Events
          /\ c.op = "connect" => UserEnable(c.server) \in Events
        BY <2>1 DEF UserDisable, UserEnable, EventOf, Events, ServerEvents, PlainEvents, Requests
    <2>3. \/ \E e \in Events : Act(e)
          \/ ToggleKillSwitch \/ Redraw \/ Leave(TRUE) \/ Leave(FALSE)
        <3> HIDE DEF c
        <3>1. CASE c.op = "connect"
            BY <1>6, <2>2, <3>1 DEF Serve, c
        <3>2. CASE c.op = "disconnect"
            BY <1>6, <2>2, <3>2 DEF Serve, c
        <3>3. CASE c.op = "killswitch"
            BY <1>6, <3>3 DEF Serve, c
        <3>4. CASE c.op = "other"
            BY <1>6, <3>4 DEF Serve, c
        <3>5. CASE c.op \notin {"connect", "disconnect", "killswitch", "other"}
            BY <1>6, <3>5 DEF Serve, c, Leave
        <3> QED
            BY <3>1, <3>2, <3>3, <3>4, <3>5
    <2>4. /\ Told
          /\ life' \in {"running", "exited"}
        <3>1. CASE \E e \in Events : Act(e)
            BY <1>1, <3>1 DEF Act, Told, vars
        <3>2. CASE ToggleKillSwitch
            BY <1>1, <3>2 DEF ToggleKillSwitch, Told, Update, vars
        <3>3. CASE Redraw
            BY <1>1, <3>3 DEF Redraw, Told, Update, vars
        <3>4. CASE Leave(TRUE) \/ Leave(FALSE)
            BY <1>1, <3>4 DEF Leave, Told, vars
        <3> QED
            BY <2>3, <3>1, <3>2, <3>3, <3>4
    <2> QED
        BY <1>1, <1>2, <2>1, <2>4
<1> QED
    BY <1>3, <1>4, <1>5, <1>6

\* The tray and the signal handler leave the machine and the updates alone.
LEMMA TrayKeeps ==
    ASSUME DeskInv,
           SpawnTray \/ SpawnTrayFails \/ (\E c \in Commands : Click(c)) \/ Signal
    PROVE  DeskInv' /\ UNCHANGED vars
<1>1. /\ ui \in [handle : {"none", "up", "failed"}, drawn : BOOLEAN, cached : Shots]
      /\ DeskTypes /\ IndInv
    BY DEF DeskInv, DeskTypes
<1>2. Command("quit", NoServer) \in Requests
    BY PlainRequests
<1>3. /\ UNCHANGED <<machine, last, ks, threads, life, taken>>
      /\ quit' \in BOOLEAN
    BY <1>1 DEF SpawnTray, SpawnTrayFails, Click, Signal, vars, DeskTypes
<1>4. queue' \in Seq(Requests) /\ Len(queue') <= QueueCap
    <2>1. CASE SpawnTray
        BY <1>1, <2>1 DEF SpawnTray, DeskTypes
    <2>2. CASE SpawnTrayFails
        BY <1>1, <1>2, <2>2, SendKeeps DEF SpawnTrayFails
    <2>3. CASE \E c \in Commands : Click(c)
        BY <1>1, <2>3, SendKeeps, MenuRequests DEF Click
    <2>4. CASE Signal
        BY <1>1, <1>2, <2>4, SendKeeps DEF Signal
    <2> QED
        BY <2>1, <2>2, <2>3, <2>4
<1>5. \/ ui' = ui
      \/ /\ ui.handle = "none"
         /\ ui' = [ui EXCEPT !.handle = "up"] \/ ui' = [ui EXCEPT !.handle = "failed"]
    BY DEF SpawnTray, SpawnTrayFails, Click, Signal
<1>6. /\ ui' \in [handle : {"none", "up", "failed"}, drawn : BOOLEAN, cached : Shots]
      /\ ui'.drawn = ui.drawn /\ ui'.cached = ui.cached
      /\ ui'.handle = ui.handle \/ ui.handle = "none"
    BY <1>1, <1>5
<1>7. IndInv'
    BY <1>1, <1>3 DEF IndInv, TypeOK, ServerIffActive, AttemptIsRetries, RetryBudget
<1>8. DeskTypes'
    BY <1>1, <1>3, <1>4, <1>6 DEF DeskTypes
<1>9. InOrder => Newest'
    BY <1>3, <1>6 DEF DeskInv, Newest
<1> QED
    BY <1>3, <1>7, <1>8, <1>9 DEF DeskInv, vars

\* Every step of the daemon keeps the invariant and moves the machine, if at
\* all, by one event of handle_event.
LEMMA DeskStep == DeskInv /\ [DeskNext]_allVars => DeskInv' /\ [Next]_vars
<1> SUFFICES ASSUME DeskInv, [DeskNext]_allVars PROVE DeskInv' /\ [Next]_vars
    OBVIOUS
<1>1. CASE UNCHANGED allVars
    BY <1>1 DEF allVars, deskVars, vars, DeskInv, IndInv, TypeOK, ServerIffActive,
                AttemptIsRetries, RetryBudget, DeskTypes, Newest
<1>2. CASE \/ \E e \in Events : Event(e)
           \/ SetKillSwitch \/ Serve \/ ReconnectTakes
    <2>1. /\ Told /\ UNCHANGED ui
          /\ queue' \in Seq(Requests) /\ Len(queue') <= QueueCap
          /\ life' \in {"running", "exited"} /\ quit' \in BOOLEAN /\ taken' \in BOOLEAN
        BY <1>2, SupervisorTells
    <2>2. /\ [Next]_vars /\ IndInv'
          /\ threads' \in Seq(Shots) /\ Len(threads') <= MaxThreads
          /\ InOrder => Newest'
        BY <2>1, ToldKeeps
    <2>3. ks' \in BOOLEAN
        BY <2>1 DEF Told
    <2> QED
        BY <2>1, <2>2, <2>3 DEF DeskInv, DeskTypes
<1>3. CASE \E i \in 1..MaxThreads : RunThread(i)
    BY <1>3, ThreadKeeps DEF RunThread
<1>4. CASE SpawnTray \/ SpawnTrayFails \/ (\E c \in Commands : Click(c)) \/ Signal
    BY <1>4, TrayKeeps
<1> QED
    BY <1>1, <1>2, <1>3, <1>4 DEF DeskNext

\* The invariant holds from run_daemon_mode's start on.
LEMMA DeskAlways == DeskSpec => []DeskInv
<1>1. Init => IndInv
    BY ServersAssumption
       DEF Init, IndInv, TypeOK, ServerIffActive, AttemptIsRetries, RetryBudget,
           InitialMachine, To, Disconnected, StateOf, Machines, VpnStates, Kinds
<1>2. ASSUME DeskInit PROVE DeskInv
    <2>1. IndInv /\ machine = InitialMachine
        BY <1>1, <1>2 DEF DeskInit, Init
    <2>2. Snapshot(InitialMachine, FALSE) \in Shots
        BY <2>1 DEF Snapshot, Shots, IndInv, TypeOK, Machines
    <2>3. /\ threads = <<>> /\ threads \in Seq(Shots) /\ Len(threads) <= MaxThreads
          /\ queue \in Seq(Requests) /\ Len(queue) <= QueueCap
        BY <1>2, DesktopAssumption DEF DeskInit
    <2>4. ui \in [handle : {"none", "up", "failed"}, drawn : BOOLEAN, cached : Shots]
        BY <1>2, <2>2 DEF DeskInit
    <2>5. DeskTypes
        BY <1>2, <2>3, <2>4 DEF DeskInit, DeskTypes
    <2> QED
        BY <1>2, <2>1, <2>3, <2>5 DEF DeskInit, DeskInv, Newest
<1> QED
    BY <1>2, DeskStep, PTL DEF DeskSpec

\* The daemon implements the machine: whatever the tray, the signal handler and
\* the update threads do, and in whatever order commands are served, the state
\* moves only as handle_event allows.  What is proved of Spec holds of it too.
THEOREM DesktopRunsTheMachine == DeskSpec => Spec
<1>1. DeskInit => Init
    BY DEF DeskInit
<1> QED
    BY <1>1, DeskAlways, DeskStep, PTL DEF DeskSpec, Spec

\* Once an update has reached the tray and none is under way, the tray shows the
\* state the supervisor is in, for update threads that run in order
\* (TrayBridge::update after every sync_shared_state).
THEOREM TrayTruthHolds == DeskSpec => []TrayTruth
<1>1. DeskInv => TrayTruth
    BY DEF DeskInv, Newest, TrayTruth
<1> QED
    BY <1>1, DeskAlways, PTL
=============================================================================
