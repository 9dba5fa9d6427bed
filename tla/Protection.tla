----------------------------- MODULE Protection -----------------------------
(***************************************************************************)
(* The kill switch as the supervisor uses it: what the handlers of         *)
(* src/supervisor do with KillSwitch, with the setting kill_switch_enabled *)
(* of the configuration and with the flag the tray and the CLI show.       *)
(*                                                                         *)
(* A handler is one task that waits for enable() or disable() to return;   *)
(* `doing` says which handler waits.  The VPN is reduced to whether it is  *)
(* up, being reconnected, or down (Supervisor has the rest).               *)
(***************************************************************************)
EXTENDS KillSwitch

CONSTANT Requests   \* what the user may ask for, a subset of AllRequests

AllRequests == {"toggle", "on", "off", "connect", "disconnect", "reload",
                "edit", "quit", "restart"}

ASSUME ProtectionAssumption == Requests \subseteq AllRequests

VARIABLES
    cfg,      \* kill_switch_enabled, in memory and in the file
    shared,   \* SharedState.kill_switch: what the tray and the CLI show
    vpn,      \* the tunnel: "up", "retry" (in attempt_reconnect), "failed" (no
              \* tunnel, but the state machine names a server) or "down"
    doing,    \* the handler that runs, "none" between handlers
    want      \* what a toggle or an IPC request asked the kill switch to be

userVars == <<cfg, shared, vpn, doing, want>>
vars == <<ksVars, userVars>>

Tunnels == {"up", "retry", "failed", "down"}
Handlers == {"none", "toggle", "set", "pre", "suspend", "connecting", "post",
             "disconnect", "launch", "startup", "restart"}

\* The event loop is between two handlers; while it reconnects it serves only
\* a disconnect.
Free == Idle /\ doing = "none"
Serving == Free /\ vpn # "retry"
Returned(h) == Idle /\ doing = h

\* The handler saves the setting: config_store.config and save().  (A write
\* that fails leaves the old file; so does Edit, right after.)
Save(b) == cfg' = [mem |-> b, disk |-> b]

----------------------------------------------------------------------------
(* toggle_kill_switch, from the tray or by IPC KillSwitchToggle *)

Toggle ==
    /\ "toggle" \in Requests /\ Serving
    /\ want' = ~cfg.mem
    /\ IF want' THEN Enable ELSE Disable
    /\ doing' = "toggle"
    /\ UNCHANGED <<cfg, shared, vpn>>

\* The flag follows the struct, the setting is saved only if the struct obeyed;
\* a disable() that failed because the kernel has no such table counts as done,
\* for the flag alone.
ToggleDone ==
    /\ Returned("toggle")
    /\ \/ shared' = ks.enabled
       \/ call.ret = "err" /\ ~want /\ shared' = FALSE
    /\ IF call.ret = "ok" /\ ks.enabled = want THEN Save(want) ELSE UNCHANGED cfg
    /\ doing' = "none"
    /\ UNCHANGED <<ksVars, vpn, want>>

----------------------------------------------------------------------------
(* IPC KillSwitch { enable } *)

Set(b) ==
    /\ (IF b THEN "on" ELSE "off") \in Requests /\ Serving
    /\ ks.enabled # b
    /\ want' = b
    /\ IF b THEN Enable ELSE Disable
    /\ doing' = "set"
    /\ UNCHANGED <<cfg, shared, vpn>>

SetDone ==
    /\ Returned("set")
    /\ IF call.ret = "ok" THEN shared' = ks.enabled /\ Save(ks.enabled)
                          ELSE UNCHANGED <<cfg, shared>>
    /\ doing' = "none"
    /\ UNCHANGED <<ksVars, vpn, want>>

----------------------------------------------------------------------------
(* handle_connect.  `first`: the kill switch goes first (pre_connect, and  *)
(* the profile names its server by address).                               *)

ConnectNow(first) ==
    /\ ~cfg.mem \/ (first <=> ks.enabled)
    /\ doing' = "connecting"
    /\ UNCHANGED <<ksVars, cfg, shared, vpn, want>>

ConnectProtected ==
    /\ cfg.mem /\ ~ks.enabled
    /\ Enable
    /\ doing' = "pre"
    /\ UNCHANGED <<cfg, shared, vpn, want>>

ConnectSuspended ==
    /\ cfg.mem /\ ks.enabled
    /\ Disable
    /\ doing' = "suspend"
    /\ UNCHANGED <<cfg, shared, vpn, want>>

Connect ==
    /\ "connect" \in Requests /\ Serving
    /\ \E first \in BOOLEAN :
          \/ ConnectNow(first)
          \/ first /\ ConnectProtected
          \/ ~first /\ ConnectSuspended

\* Ok from enable() sets the flag, Ok from disable() clears it.
ConnectGoesOn ==
    /\ Returned("pre") \/ Returned("suspend")
    /\ shared' = IF call.ret = "ok" THEN doing = "pre" ELSE shared
    /\ doing' = "connecting"
    /\ UNCHANGED <<ksVars, cfg, vpn, want>>

\* Mutant of ConnectUp: only connect-first ordering enables after the connect.
ConnectUpTrusts ==
    /\ Returned("connecting") /\ ~ks.cooling
    /\ vpn' = "up"
    /\ IF cfg.mem /\ ~shared
       THEN Enable /\ doing' = "post"
       ELSE doing' = "none" /\ UNCHANGED ksVars
    /\ UNCHANGED <<cfg, shared, want>>

\* The tunnel is up at least 500 ms after the request (the monitor sleeps that
\* long before it looks), so a cooldown of an earlier call is over.
ConnectUp ==
    /\ Returned("connecting") /\ ~ks.cooling
    /\ vpn' = "up"
    /\ IF cfg.mem /\ ~ks.enabled
       THEN Enable /\ doing' = "post"
       ELSE doing' = "none" /\ UNCHANGED ksVars
    /\ UNCHANGED <<cfg, shared, want>>

ConnectFails ==
    /\ Returned("connecting")
    /\ vpn' = "down"
    /\ doing' = "none"
    /\ UNCHANGED <<ksVars, cfg, shared, want>>

\* After the post-connect enable(), and after the one at startup.
PostDone ==
    /\ Returned("post") \/ Returned("startup")
    /\ shared' = (shared \/ call.ret = "ok")
    /\ doing' = "none"
    /\ UNCHANGED <<ksVars, cfg, vpn, want>>

----------------------------------------------------------------------------
(* handle_disconnect; a NetworkManager that refuses changes nothing *)

Disconnect ==
    /\ "disconnect" \in Requests /\ Free /\ vpn \in {"up", "failed"}
    /\ vpn' = "down"
    /\ IF ks.enabled THEN Disable /\ doing' = "disconnect"
                     ELSE doing' = "none" /\ UNCHANGED ksVars
    /\ UNCHANGED <<cfg, shared, want>>

DisconnectDone ==
    /\ Returned("disconnect")
    /\ shared' = FALSE
    /\ doing' = "none"
    /\ UNCHANGED <<ksVars, cfg, vpn, want>>

----------------------------------------------------------------------------
(* The tunnel, outside the handlers above *)

\* Mutant of Lose: the kill switch is suspended for the reconnect.
LoseSuspends ==
    /\ Free /\ vpn = "up"
    /\ vpn' \in {"retry", "failed", "down"}
    /\ IF vpn' = "retry" THEN Disable ELSE UNCHANGED ksVars
    /\ UNCHANGED <<cfg, shared, doing, want>>

\* It drops; attempt_reconnect starts, or does not (debounce, auto-reconnect
\* off, a resync that finds the tunnel gone).
Lose ==
    /\ Free /\ vpn = "up"
    /\ vpn' \in {"retry", "failed", "down"}
    /\ UNCHANGED <<ksVars, cfg, shared, doing, want>>

\* attempt_reconnect ends with a tunnel or without one.
EndRetry ==
    /\ Free /\ vpn = "retry"
    /\ vpn' \in {"up", "failed", "down"}
    /\ UNCHANGED <<ksVars, cfg, shared, doing, want>>

\* The user disconnects while it waits.
CancelRetry ==
    /\ "disconnect" \in Requests /\ Free /\ vpn = "retry"
    /\ vpn' = "down"
    /\ UNCHANGED <<ksVars, cfg, shared, doing, want>>

\* Somebody else starts it, and the supervisor follows.
Appear ==
    /\ Free /\ vpn \in {"failed", "down"}
    /\ vpn' = "up"
    /\ UNCHANGED <<ksVars, cfg, shared, doing, want>>

----------------------------------------------------------------------------
(* The configuration file *)

\* The user edits it.
Edit ==
    /\ "edit" \in Requests
    /\ cfg' = [cfg EXCEPT !.disk = ~@]
    /\ UNCHANGED <<ksVars, shared, vpn, doing, want>>

\* reload_configuration compares the new configuration with what
\* config_store.reload() has just put in its place: nothing is refused.
Reload ==
    /\ "reload" \in Requests /\ Serving
    /\ cfg' = [cfg EXCEPT !.mem = cfg.disk]
    /\ shared' = cfg.disk
    /\ UNCHANGED <<ksVars, vpn, doing, want>>

----------------------------------------------------------------------------
(* Health tick, quit, restart, crash, start *)

\* Mutant of HealthSync: the rules are checked, the flag is left as it is.
HealthSyncSilent ==
    /\ Serving
    /\ SyncState
    /\ UNCHANGED userVars

\* sync_killswitch_state, on every health tick.
HealthSync ==
    /\ Serving
    /\ SyncState
    /\ shared' = ks'.enabled
    /\ UNCHANGED <<cfg, vpn, doing, want>>

QuitRequest ==
    /\ "quit" \in Requests /\ Serving
    /\ Quit
    /\ UNCHANGED userVars

\* handle_restart and IPC Restart leave the rules to graceful_shutdown.
RestartRequest ==
    /\ "restart" \in Requests /\ Serving
    /\ Goto("exiting")
    /\ doing' = "restart"
    /\ UNCHANGED <<host, fw, ks, faults, cfg, shared, vpn, want>>

Die ==
    /\ Crash \/ Exit
    /\ shared' = FALSE
    /\ doing' = "none"
    /\ UNCHANGED <<cfg, vpn, want>>

\* A new process: stale rules are cleaned up, the configuration is read, and
\* run() shows the rules it finds or, with the VPN up, installs them.
Launch ==
    /\ Start
    /\ cfg' = [cfg EXCEPT !.mem = cfg.disk]
    /\ shared' = ks'.enabled
    /\ vpn' \in {"up", "down"}
    /\ doing' = IF ~ks'.enabled /\ cfg.disk /\ vpn' = "up" THEN "launch" ELSE "none"
    /\ UNCHANGED want

Restore ==
    /\ Returned("launch")
    /\ Enable
    /\ doing' = "startup"
    /\ UNCHANGED <<cfg, shared, vpn, want>>

----------------------------------------------------------------------------
\* The commands of the call in progress, and what happens by itself.
Working == KsStep /\ UNCHANGED userVars
Passing == (CoolDown \/ Tamper) /\ UNCHANGED userVars

ProtInit ==
    /\ Init
    /\ cfg \in {[mem |-> b, disk |-> b] : b \in BOOLEAN}
    /\ shared = FALSE
    /\ vpn = "down"
    /\ doing = "none"
    /\ want = FALSE

Finish == \/ ToggleDone \/ SetDone \/ ConnectGoesOn \/ ConnectUp \/ ConnectFails
          \/ PostDone \/ DisconnectDone \/ Restore

ProtNext ==
    \/ Toggle \/ \E b \in BOOLEAN : Set(b)
    \/ Connect \/ Disconnect \/ Finish
    \/ Lose \/ EndRetry \/ CancelRetry \/ Appear \/ Edit \/ Reload
    \/ HealthSync \/ QuitRequest \/ RestartRequest \/ Die \/ Launch
    \/ Working \/ Passing

ProtSpec == ProtInit /\ [][ProtNext]_vars

\* Commands and handlers run on, time passes, a reconnect is bounded, and the
\* health tick, one branch of a fair select!, is served again and again however
\* often the loop is busy when it fires.
ProtFairSpec ==
    /\ ProtSpec
    /\ WF_vars(Working) /\ WF_vars(Finish) /\ WF_vars(EndRetry)
    /\ WF_vars(CoolDown /\ UNCHANGED userVars)
    /\ WF_vars(Exit /\ Die)
    /\ SF_vars(HealthSync)

----------------------------------------------------------------------------
(* The type invariant. *)
ProtTypeOK ==
    /\ cfg \in [mem : BOOLEAN, disk : BOOLEAN]
    /\ shared \in BOOLEAN
    /\ vpn \in Tunnels
    /\ doing \in Handlers
    /\ want \in BOOLEAN

Alive == call.pc \notin {"exiting", "dead"}

\* A connect that succeeds leaves traffic filtered if the setting asks for it:
\* in both orders of handle_connect, and when the enable() that goes first did
\* nothing because the user had just disconnected.
ConnectProtects ==
    [][(ConnectUp \/ PostDone) /\ doing' = "none" /\ cfg.mem => Filters(fw')]_vars

\* The kill switch fails closed: filtered traffic is opened by a user who turns
\* the switch off or disconnects, by connect-first ordering, by a shutdown or by
\* the cleanup of the next start; never because the tunnel drops, a reconnect
\* goes on or gives up, the health tick looks, the configuration is reloaded or
\* the process crashes.
FailsClosed ==
    [][Filters(fw) /\ ~Filters(fw') =>
          \/ doing \in {"toggle", "set"} /\ ~want
          \/ doing \in {"disconnect", "suspend"}
          \/ call'.pc = "exiting" \/ call.pc \in {"exiting", "dead"}]_vars

\* The flag the tray and the CLI show heals: whenever it disagrees with the
\* filter (a call skipped in the cooldown, a reload) it comes to agree again,
\* unless the process ends, or a failed cleanup left a jump to an empty chain,
\* which sync_state takes for a kill switch.
ClaimHeals ==
    shared # Filters(fw) ~> (shared = Filters(fw) \/ fw.v4 = "hollow" \/ ~Alive)

\* reload_configuration, "Refuse security-critical downgrades via config file
\* reload": a reload does not turn the setting off.
ReloadRefuses == [][Reload /\ cfg.mem => cfg'.mem]_vars

\* docs/CLI.md, ks on, "Enable the kill switch": a request to switch it on does
\* not end by saving the setting as off.
OnNeverSavesOff == [][SetDone /\ want /\ cfg.disk => cfg'.disk]_vars

\* handle_disconnect, "Disable kill switch on intentional disconnect. Otherwise
\* user loses all network access": afterwards nothing filters.
DisconnectUnblocks == [][DisconnectDone => ~Filters(fw')]_vars

\* The same of a disconnect that arrives while the supervisor reconnects.
CancelUnblocks == [][CancelRetry => ~Filters(fw')]_vars

\* handle_restart, "We intentionally do NOT disable the kill switch here": a
\* restart leaves the rules for the new process.
RestartKeepsRules == [][doing = "restart" /\ Filters(fw) /\ Exit => Filters(fw')]_vars

\* run(), "will enable when VPN connects": with the setting on and the tunnel up
\* traffic comes to be filtered.
DeferredEnable ==
    (Alive /\ cfg.mem /\ vpn = "up") ~>
        (Filters(fw) \/ ~Alive \/ ~cfg.mem \/ vpn # "up")
=============================================================================
