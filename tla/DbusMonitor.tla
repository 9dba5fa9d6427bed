----------------------------- MODULE DbusMonitor -----------------------------
(***************************************************************************)
(* NmMonitor of src/dbus/monitor.rs and the loop of src/main.rs that       *)
(* starts a new one whenever it ends: NetworkManager's signals about one   *)
(* VPN profile, the name lookups, the deduplication window and its sweep,  *)
(* and the bounded channel to the supervisor.                              *)
(*                                                                         *)
(* NetworkManager announces a change on two interfaces, each with its own  *)
(* numbering of the states, and gives every activation a path of its own.  *)
(* Time passes in ticks; ages are counted up to the sweep's threshold.     *)
(***************************************************************************)
EXTENDS Integers, Sequences, FiniteSets

CONSTANTS
    Window,      \* EVENT_DEDUP_WINDOW_MS, in ticks
    MaxEntries,  \* MAX_DEDUP_ENTRIES
    Backoff,     \* BASE_DELAY_SECS of the restart loop, in ticks
    ChannelCap,  \* capacity of the channel to the supervisor
    BusCap,      \* bound: signals on their way
    MaxPaths,    \* bound: activations
    Prompt       \* are signals handled before the clock moves?

ASSUME MonitorAssumption ==
    /\ {Window, MaxEntries, ChannelCap, BusCap, MaxPaths} \subseteq Nat \ {0}
    /\ Backoff \in Nat /\ Backoff >= Window
    /\ Prompt \in BOOLEAN

Sweep == 2 * Window   \* cleanup_threshold

Long == IF Backoff > Sweep THEN Backoff ELSE Sweep   \* where ages stop

Types == {"activating", "activated", "failed", "deactivated"}

VARIABLES
    nm,       \* the profile: its phase, its path, whether the object exists,
              \* and the time since it last went down
    busUp,    \* is the system bus there?
    bus,      \* the monitor's message stream
    mon,      \* the monitor: "down", "subscribed" or "listening"; time since down
    cache,    \* connection_names: the paths whose name is known
    recent,   \* recent_events: type -> age; absent types are not in its domain
    pruned,   \* age of last_prune (Long: none or long ago)
    chan,     \* events in the channel
    told,     \* history: the last event put into the channel since the profile's
              \* last activation began
    sent,     \* history: type -> time since an event of it was accepted
    echoed,   \* history: some event was accepted within Window of its like
    watched,  \* history: the monitor has seen this activation from its start,
              \* and it began no sooner than Window after the one before
    dropped   \* history: a full channel dropped an event

monitorVars == <<nm, busUp, bus, mon, cache, recent, pruned, chan, told, sent, echoed, watched, dropped>>

Older(age) == IF age < Long THEN age + 1 ELSE age

MonitorInit ==
    /\ nm = [phase |-> "down", path |-> 0, object |-> FALSE, since |-> Long]
    /\ busUp = TRUE /\ bus = <<>>
    /\ mon = [at |-> "down", since |-> Long]
    /\ cache = {} /\ recent = <<>> /\ pruned = Long /\ chan = 0
    /\ told = "nothing" /\ sent = [t \in Types |-> Long]
    /\ echoed = FALSE /\ watched = FALSE /\ dropped = FALSE

----------------------------------------------------------------------------
(* NetworkManager. *)

Signal(interface, state) == [interface |-> interface, state |-> state, path |-> nm'.path]

(* A change of the profile, with the signals that announce it. *)
Announce(new, signals) ==
    /\ nm' = new
    /\ bus' = IF mon.at = "down" THEN bus ELSE bus \o signals
    /\ Len(bus') <= BusCap
    /\ UNCHANGED <<busUp, mon, cache, recent, pruned, chan, sent, echoed, dropped>>

NmActivates ==
    /\ nm.phase = "down" /\ ~nm.object /\ nm.path < MaxPaths
    /\ Announce([nm EXCEPT !.phase = "activating", !.path = @ + 1, !.object = TRUE],
                <<Signal("vpn", 1), Signal("active", 1)>>)
    /\ watched' = (mon.at # "down" /\ nm.since >= Window) /\ told' = "nothing"

NmProceeds ==
    /\ nm.phase = "activating"
    /\ Announce(nm, <<Signal("vpn", 3)>>)
    /\ UNCHANGED <<told, watched>>

NmUp ==
    /\ nm.phase = "activating"
    /\ Announce([nm EXCEPT !.phase = "activated"],
                <<Signal("vpn", 5), Signal("active", 2)>>)
    /\ UNCHANGED <<told, watched>>

NmFails ==
    /\ nm.phase = "activating"
    /\ Announce([nm EXCEPT !.phase = "down", !.since = 0],
                <<Signal("vpn", 6), Signal("active", 4)>>)
    /\ UNCHANGED <<told, watched>>

NmDown ==
    /\ nm.phase \in {"activating", "activated"}
    /\ Announce([nm EXCEPT !.phase = "down", !.since = 0],
                <<Signal("active", 3), Signal("vpn", 7), Signal("active", 4)>>)
    /\ UNCHANGED <<told, watched>>

NmRemoves ==
    /\ nm.phase = "down" /\ nm.object
    /\ Announce([nm EXCEPT !.object = FALSE], <<>>)
    /\ UNCHANGED <<told, watched>>

----------------------------------------------------------------------------
(* The monitor's life: run() and the loop around it. *)

Subscribe ==
    /\ mon.at = "down" /\ busUp /\ mon.since >= Backoff
    /\ mon' = [mon EXCEPT !.at = "subscribed"]
    /\ UNCHANGED <<nm, busUp, bus, cache, recent, pruned, chan, told, sent, echoed, watched,
                   dropped>>

(* populate_connection_names; a failure is only logged. *)
Populate ==
    /\ mon.at = "subscribed"
    /\ mon' = [mon EXCEPT !.at = "listening"]
    /\ cache' \in {{}, IF nm.object THEN {nm.path} ELSE {}}
    /\ UNCHANGED <<nm, busUp, bus, recent, pruned, chan, told, sent, echoed, watched, dropped>>

(* The stream ends, or a call on the bus fails: run() returns, the monitor *)
(* is consumed with all it remembers, and the loop sleeps.                 *)
Forget ==
    /\ bus' = <<>> /\ cache' = {} /\ recent' = <<>> /\ pruned' = Long
    /\ told' = "nothing" /\ watched' = FALSE
    /\ UNCHANGED <<nm, busUp, chan, sent, echoed, dropped>>

\* Mutant of Ends: the loop breaks on an error.
EndsForGood ==
    /\ mon.at \in {"subscribed", "listening"} /\ ~busUp
    /\ mon' = [at |-> "ended", since |-> 0]
    /\ Forget

Ends ==
    /\ mon.at \in {"subscribed", "listening"} /\ ~busUp
    /\ mon' = [at |-> "down", since |-> 0]
    /\ Forget

BusFails ==
    /\ busUp
    /\ busUp' = FALSE
    /\ UNCHANGED <<nm, bus, mon, cache, recent, pruned, chan, told, sent, echoed, watched, dropped>>

BusReturns ==
    /\ ~busUp /\ mon.at \notin {"subscribed", "listening"}
    /\ busUp' = TRUE
    /\ UNCHANGED <<nm, bus, mon, cache, recent, pruned, chan, told, sent, echoed, watched, dropped>>

----------------------------------------------------------------------------
(* handle_vpn_state_changed and handle_active_state_changed. *)

EventType(s) ==
    CASE s.interface = "vpn" /\ s.state \in 1..4 -> "activating"
      [] s.interface = "vpn" /\ s.state = 5 -> "activated"
      [] s.interface = "vpn" /\ s.state = 6 -> "failed"
      [] s.interface = "vpn" /\ s.state = 7 -> "deactivated"
      [] s.interface = "active" /\ s.state = 1 -> "activating"
      [] s.interface = "active" /\ s.state = 2 -> "activated"
      [] s.interface = "active" /\ s.state = 4 -> "deactivated"
      [] OTHER -> "none"

(* A property of the active connection can be read while its object exists. *)
Readable(path) == nm.object /\ nm.path = path

\* Mutant of Named: the cache is not looked at.
NamedByAsking(s) == Readable(s.path)

(* is_vpn_connection is asked first for Active; the name is taken from the *)
(* cache or asked for.  Without it the event is not processed.             *)
Named(s) ==
    /\ s.interface = "active" => Readable(s.path)
    /\ s.path \in cache \/ Readable(s.path)

Duplicate(t) == t \in DOMAIN recent /\ recent[t] < Window

SweepDue == pruned >= Sweep \/ Cardinality(DOMAIN recent) > MaxEntries

\* Mutant of Swept: entries leave before the window ends.
SweptHalf ==
    IF SweepDue
    THEN [t \in {u \in DOMAIN recent : 2 * recent[u] < Window} |-> recent[t]]
    ELSE recent

Swept ==
    IF SweepDue
    THEN [t \in {u \in DOMAIN recent : recent[u] < Sweep} |-> recent[t]]
    ELSE recent

(* should_process_event accepts t: sweep when due, record, send. *)
Accept(t) ==
    /\ recent' = [u \in DOMAIN Swept \cup {t} |-> IF u = t THEN 0 ELSE Swept[u]]
    /\ pruned' = IF SweepDue THEN 0 ELSE pruned
    /\ sent' = [sent EXCEPT ![t] = 0] /\ echoed' = (echoed \/ sent[t] < Window)
    /\ IF chan < ChannelCap
       THEN chan' = chan + 1 /\ told' = t /\ UNCHANGED dropped
       ELSE dropped' = TRUE /\ UNCHANGED <<chan, told>>

Ignore == UNCHANGED <<recent, pruned, sent, echoed, chan, told, dropped>>

Handle ==
    /\ mon.at = "listening" /\ bus # <<>>
    /\ bus' = Tail(bus)
    /\ LET s == Head(bus)
           t == EventType(s)
           known == IF Named(s) THEN cache \cup {s.path} ELSE cache
       IN  \/ /\ Named(s) /\ t # "none" /\ ~Duplicate(t)
              /\ cache' = IF t = "deactivated" THEN known \ {s.path} ELSE known
              /\ Accept(t)
           \/ /\ ~Named(s) \/ t = "none" \/ Duplicate(t)
              /\ cache' = known
              /\ Ignore
    /\ UNCHANGED <<nm, busUp, mon, watched>>

(* The supervisor receives an event. *)
Deliver ==
    /\ chan > 0
    /\ chan' = chan - 1
    /\ UNCHANGED <<nm, busUp, bus, mon, cache, recent, pruned, told, sent, echoed, watched, dropped>>

TimePasses ==
    /\ Prompt => mon.at = "down" \/ (mon.at = "listening" /\ bus = <<>>)
    /\ nm' = [nm EXCEPT !.since = Older(@)]
    /\ mon' = [mon EXCEPT !.since = IF mon.at = "down" THEN Older(@) ELSE @]
    /\ recent' = [t \in DOMAIN recent |-> Older(recent[t])]
    /\ pruned' = Older(pruned)
    /\ sent' = [t \in Types |-> Older(sent[t])]
    /\ UNCHANGED <<busUp, bus, cache, chan, told, echoed, watched, dropped>>

MonitorNext ==
    \/ NmActivates \/ NmProceeds \/ NmUp \/ NmFails \/ NmDown \/ NmRemoves
    \/ Subscribe \/ Populate \/ Ends \/ BusFails \/ BusReturns
    \/ Handle \/ Deliver \/ TimePasses

(* The tasks run and time passes; the bus and NetworkManager owe nothing. *)
MonitorSpec ==
    /\ MonitorInit /\ [][MonitorNext]_monitorVars
    /\ WF_monitorVars(Subscribe) /\ WF_monitorVars(Populate) /\ WF_monitorVars(Ends)
    /\ WF_monitorVars(Handle) /\ WF_monitorVars(TimePasses)

----------------------------------------------------------------------------
(* The type invariant. *)
MonitorTypeOK ==
    /\ nm \in [phase : {"down", "activating", "activated"}, path : 0..MaxPaths,
               object : BOOLEAN, since : 0..Long]
    /\ Len(bus) <= BusCap /\ chan \in 0..ChannelCap /\ cache \subseteq 1..MaxPaths
    /\ mon \in [at : {"down", "subscribed", "listening"}, since : 0..Long]
    /\ DOMAIN recent \subseteq Types /\ told \in Types \cup {"nothing"}

(* No echo: two events of the same kind about a profile are at least the   *)
(* deduplication window apart, whatever the sweep of should_process_event  *)
(* removed in between, and even when a new monitor, which remembers        *)
(* nothing, has taken over.                                                *)
NoEcho == ~echoed

(* The end of a change is told: once the signals are handled, the last     *)
(* event sent for an activation that was watched from its start is the     *)
(* phase it is in, although both interfaces announce every change, one of  *)
(* them is dropped as a duplicate, and the object may be gone before its   *)
(* name is asked for.  For an activation that is not a flap, with signals  *)
(* handled as they come, and while the channel has room.                   *)
LastWordTold ==
    mon.at = "listening" /\ bus = <<>> /\ watched /\ ~dropped /\ Prompt =>
        IF nm.phase = "down" THEN told \in {"nothing", "failed", "deactivated"}
                             ELSE told = nm.phase

(* The monitor comes back: while the bus is there, the loop of main.rs     *)
(* gets to a monitor that listens.                                         *)
MonitorListens == []<>(mon.at = "listening" \/ ~busUp)

----------------------------------------------------------------------------
(* Claims that do not hold. *)

\* monitor.rs: "Cache of active connection paths to names".
CacheIsActive ==
    mon.at = "listening" /\ bus = <<>> /\ ~nm.object => cache = {}

\* LastWordTold for a profile that flaps: the second activation is a duplicate
\* (main.rs: "larger buffer for VPN flapping").
FlapsTold ==
    mon.at = "listening" /\ bus = <<>> /\ ~dropped /\ told # "nothing" =>
        (nm.phase = "activated" => told = "activated")
=============================================================================
