------------------------------- MODULE Desktop -------------------------------
(***************************************************************************)
(* The desktop daemon as run_daemon_mode of src/main.rs wires it: the tray *)
(* (src/tray/service.rs) on its own thread, the supervisor's task, the     *)
(* signal handler, and the two ways between them: commands through a       *)
(* bounded channel that drops when it is full, and updates of the tray     *)
(* that each run on a short-lived thread (src/supervisor/tray_bridge.rs).  *)
(*                                                                         *)
(* The supervisor appears here as the machine handle_event drives and the  *)
(* two settings the tray shows.  Supervisor has its handlers step by step, *)
(* set_state included; it publishes every move as Event does here.         *)
(***************************************************************************)
EXTENDS StateMachine, Sequences

CONSTANTS
    QueueCap,     \* capacity of the command channel (16 in the code)
    MaxThreads,   \* bound: update threads that have not run yet
    InOrder       \* whether update threads run in the order they were spawned

ASSUME DesktopAssumption ==
    /\ QueueCap \in Nat \ {0} /\ MaxThreads \in Nat \ {0} /\ InOrder \in BOOLEAN

VARIABLES
    ks,        \* kill_switch of SharedState
    ui,        \* the tray: its handle, cached_state, whether an update reached it
    threads,   \* the snapshots update threads were spawned with
    queue,     \* commands from the tray and the signal handler
    life,      \* the supervisor task: "running" or "exited"
    quit,      \* history: a Quit entered the channel
    taken      \* history: a reconnect took a Quit from the channel

deskVars == <<ks, ui, threads, queue, life, quit, taken>>

allVars == <<vars, deskVars>>

Snapshot(m, k) == [state |-> m.state, ks |-> k]

Command(op, s) == [op |-> op, server |-> s]

DeskInit ==
    /\ Init
    /\ ks = FALSE
    /\ ui = [handle |-> "none", drawn |-> FALSE,
             cached |-> Snapshot(InitialMachine, FALSE)]
    /\ threads = <<>> /\ queue = <<>> /\ life = "running"
    /\ quit = FALSE /\ taken = FALSE

----------------------------------------------------------------------------
(* TrayBridge::update: a copy of the shared state for a new thread.  Only  *)
(* the supervisor's task writes the shared state, so its try_read succeeds. *)

\* Mutant of Update: the machine is copied before it moves.
UpdateStale(m, k) ==
    /\ Len(threads) < MaxThreads
    /\ threads' = Append(threads, Snapshot(machine, k))

Update(m, k) ==
    /\ Len(threads) < MaxThreads
    /\ threads' = Append(threads, Snapshot(m, k))

(* The thread: without a tray its update is lost. *)
RunThread(i) ==
    /\ i \in 1..Len(threads) /\ (InOrder => i = 1)
    /\ ui' = IF ui.handle = "up"
             THEN [ui EXCEPT !.cached = threads[i], !.drawn = TRUE] ELSE ui
    /\ threads' = SubSeq(threads, 1, i - 1) \o SubSeq(threads, i + 1, Len(threads))
    /\ UNCHANGED <<vars, ks, queue, life, quit, taken>>

(* try_send: a full channel drops the command. *)
TrySend(c) == queue' = IF Len(queue) < QueueCap THEN Append(queue, c) ELSE queue

----------------------------------------------------------------------------
(* The supervisor.  Every handler that moves the machine dispatches, syncs *)
(* the shared state and updates the tray.                                  *)

Event(e) ==
    /\ life = "running"
    /\ HandleEvent(e)
    /\ Update(machine', ks)
    /\ UNCHANGED <<ks, ui, queue, life, quit, taken>>

(* `shroud ks on|off` and the poll's sync_killswitch_state set the flag and *)
(* do not update the tray.                                                  *)
SetKillSwitch ==
    /\ life = "running"
    /\ ks' = ~ks
    /\ UNCHANGED <<vars, ui, threads, queue, life, quit, taken>>

ToggleKillSwitch ==
    /\ \E k \in BOOLEAN : ks' = k /\ Update(machine, k)
    /\ UNCHANGED <<vars, life>>

(* A connect or disconnect may also end before it dispatches anything. *)
Act(e) ==
    /\ \/ HandleEvent(e) /\ Update(machine', ks)
       \/ UNCHANGED <<vars, threads>>
    /\ UNCHANGED <<ks, life>>

(* Refresh and the toggles of what is not modelled redraw the tray; Open   *)
(* Log and a toggle that fails do not.                                     *)
Redraw ==
    /\ Update(machine, ks) \/ UNCHANGED threads
    /\ UNCHANGED <<vars, ks, life>>

Leave(always) ==
    /\ life' = "exited" \/ (~always /\ UNCHANGED life)
    /\ UNCHANGED <<vars, ks, threads>>

(* self.rx.recv() and its match. *)
Serve ==
    /\ life = "running" /\ queue # <<>>
    /\ queue' = Tail(queue)
    /\ LET c == Head(queue)
       IN  CASE c.op = "connect" -> Act(UserEnable(c.server))
             [] c.op = "disconnect" -> Act(UserDisable)
             [] c.op = "killswitch" -> ToggleKillSwitch
             [] c.op = "other" -> Redraw
             [] OTHER -> Leave(c.op = "quit")
    /\ UNCHANGED <<ui, quit, taken>>

(* A reconnect reads the channel itself.  It defers commands to its end,   *)
(* which is Serve later, except that a deferred Quit or Restart then only  *)
(* sets the exit flag; what it reads during its verify delay is lost.      *)
ReconnectTakes ==
    /\ life = "running" /\ machine.state.kind = "Reconnecting" /\ queue # <<>>
    /\ queue' = Tail(queue)
    /\ taken' = (taken \/ Head(queue).op = "quit")
    /\ UNCHANGED <<vars, ks, ui, threads, life, quit>>

----------------------------------------------------------------------------
(* The tray. *)

SpawnTray ==
    /\ ui.handle = "none"
    /\ ui' = [ui EXCEPT !.handle = "up"]
    /\ UNCHANGED <<vars, ks, threads, queue, life, quit, taken>>

\* Mutant of SpawnTrayFails: the error is only logged.
SpawnTrayFailsMute ==
    /\ ui.handle = "none"
    /\ ui' = [ui EXCEPT !.handle = "failed"]
    /\ UNCHANGED <<vars, ks, threads, queue, life, quit, taken>>

SpawnTrayFails ==
    /\ ui.handle = "none"
    /\ ui' = [ui EXCEPT !.handle = "failed"]
    /\ TrySend(Command("quit", NoServer))
    /\ UNCHANGED <<vars, ks, threads, life, quit, taken>>

(* menu(): what can be clicked depends on the cached state. *)
Menu ==
    LET st == ui.cached.state
    IN  {Command("connect", s) : s \in {t \in Servers : t # st.server /\ ~IsBusy(st)}}
            \cup {Command(op, NoServer) :
                    op \in {"killswitch", "other", "restart", "quit"}}
            \cup (IF st.kind \in {"Connected", "Degraded"}
                  THEN {Command("disconnect", NoServer)} ELSE {})

Click(c) ==
    /\ ui.handle = "up" /\ life = "running" /\ c \in Menu
    /\ TrySend(c)
    /\ quit' = (quit \/ (c.op = "quit" /\ Len(queue) < QueueCap))
    /\ UNCHANGED <<vars, ks, ui, threads, life, taken>>

(* The Ctrl-C handler: a channel it cannot send into is taken for a         *)
(* supervisor that is gone, and rules, lock and socket (state of KillSwitch *)
(* and InstanceLock) are removed; the process goes on.                      *)
Signal ==
    /\ life = "running"
    /\ TrySend(Command("quit", NoServer))
    /\ quit' = (quit \/ Len(queue) < QueueCap)
    /\ UNCHANGED <<vars, ks, ui, threads, life, taken>>

Commands == [op : {"connect", "disconnect", "killswitch", "other",
                   "restart", "quit"}, server : Servers \cup {NoServer}]

DeskNext ==
    \/ \E e \in Events : Event(e)
    \/ SetKillSwitch \/ Serve \/ ReconnectTakes
    \/ \E i \in 1..MaxThreads : RunThread(i)
    \/ SpawnTray \/ SpawnTrayFails
    \/ \E c \in Commands : Click(c)
    \/ Signal

(* The update threads run; select! picks a ready branch at random, so the  *)
(* commands get their turn however many events arrive.                     *)
DeskSpec ==
    /\ DeskInit /\ [][DeskNext]_allVars
    /\ SF_allVars(Serve) /\ WF_allVars(RunThread(1))

----------------------------------------------------------------------------
DeskTypeOK ==
    /\ TypeOK
    /\ ks \in BOOLEAN
    /\ ui.handle \in {"none", "up", "failed"} /\ ui.drawn \in BOOLEAN
    /\ Len(threads) <= MaxThreads /\ Len(queue) <= QueueCap
    /\ life \in {"running", "exited"} /\ {quit, taken} \subseteq BOOLEAN

(* While update threads run in the order they were spawned: once one has   *)
(* reached the tray and none is left, the tray shows the state the         *)
(* supervisor is in (TrayBridge::update after every sync_shared_state).    *)
TrayTruth ==
    InOrder /\ ui.drawn /\ threads = <<>> => ui.cached.state = machine.state

(* The daemon ends when it was told to: a Quit in the channel is reached   *)
(* behind whatever was clicked before, and a tray that could not be        *)
(* spawned takes the daemon down with it (main.rs) -- unless a reconnect   *)
(* took the Quit.                                                          *)
QuitHeard == quit \/ ui.handle = "failed" ~> life = "exited" \/ taken

----------------------------------------------------------------------------
(* Claims of the code that do not hold. *)

\* main.rs: "Supervisor not running, performing fallback cleanup" -- a signal
\* that meets a channel it cannot send into meets a supervisor that is gone.
FallbackOnlyWhenGone == life = "running" => Len(queue) < QueueCap

\* tray_bridge.rs: "Push the current shared state to the system tray." -- the
\* tray that is up and has no update to come shows the state and the kill switch.
TrayCatchesUp ==
    ui.handle = "up" /\ threads = <<>> =>
        ui.cached.state = machine.state /\ ui.cached.ks = ks
=============================================================================
