------------------------------ MODULE Autostart ------------------------------
(***************************************************************************)
(* `shroud autostart`, src/autostart.rs and handle_autostart_command of    *)
(* src/cli/handlers.rs, against a daemon that has its own copy of the      *)
(* settings: starting on login is a desktop file, connecting on login is   *)
(* auto_connect in config.toml, and each side changes both.                *)
(***************************************************************************)
EXTENDS ConfigFile

ASSUME AutostartAssumption ==
    /\ Procs = {"daemon", "cli"}
    /\ Configs = [auto : BOOLEAN, ks : BOOLEAN]

VARIABLES
    desktop,   \* the autostart entry exists (Autostart::is_enabled)
    policy,    \* the systemd drop-in with the restart policy exists
    oldUnit,   \* a systemd unit of an older version is installed
    daemon,    \* the daemon: pc, and mem, ConfigStore's copy of the settings
    cli,       \* the command: pc, the state it wants and the settings it loaded
    word       \* history: the last `autostart` that finished while no daemon ran

startVars == <<desktop, policy, oldUnit, daemon, cli, word>>

NoDaemon == [pc |-> "down", mem |-> Default]

NoCli == [pc |-> "idle", want |-> FALSE, val |-> Default]

StartInit ==
    /\ FileInit
    /\ desktop \in BOOLEAN /\ policy = desktop /\ oldUnit \in BOOLEAN
    /\ daemon = NoDaemon /\ cli = NoCli /\ word = "none"

----------------------------------------------------------------------------
(* The autostart entry.  Each call returns its Result; the old unit and    *)
(* the restart policy are best effort.                                     *)

InstallRestartPolicy == policy' \in {policy, TRUE}

RemoveRestartPolicy == policy' \in {policy, FALSE}

CleanupOldSystemd == oldUnit' \in {oldUnit, FALSE}

Enable == desktop' = TRUE /\ InstallRestartPolicy /\ CleanupOldSystemd

(* No binary, or the entry could not be written (or not completely). *)
EnableFails == desktop' \in {desktop, TRUE} /\ CleanupOldSystemd /\ UNCHANGED policy

Disable == desktop' = FALSE /\ RemoveRestartPolicy /\ UNCHANGED oldUnit

DisableFails ==
    /\ desktop
    /\ UNCHANGED <<desktop, policy, oldUnit>>

SetEntry(on) == (on /\ Enable) \/ (~on /\ Disable)

SetEntryFails(on) == (on /\ EnableFails) \/ (~on /\ DisableFails)

----------------------------------------------------------------------------
(* The command: first the entry, then load, set auto_connect, save.        *)

CliAutostart(action) ==
    LET on == IF action = "toggle" THEN ~desktop ELSE action = "on"
    IN  /\ cli.pc = "idle"
        /\ \/ SetEntry(on) /\ cli' = [NoCli EXCEPT !.pc = "load", !.want = on]
           \/ SetEntryFails(on) /\ UNCHANGED cli
        /\ word' = "none"
        /\ UNCHANGED <<daemon, fileVars>>

CliLoads ==
    /\ cli.pc = "load"
    /\ BeginLoad("cli")
    /\ cli' = [cli EXCEPT !.pc = "set", !.val = Load(conf)]
    /\ UNCHANGED <<desktop, policy, oldUnit, daemon, word>>

CliSaves ==
    /\ cli.pc = "set"
    /\ BeginSave("cli", [cli.val EXCEPT !.auto = cli.want])
    /\ cli' = [cli EXCEPT !.pc = "exit"]
    /\ UNCHANGED <<desktop, policy, oldUnit, daemon, word>>

(* It exits with 0 even when the settings could not be saved. *)
CliExits ==
    /\ cli.pc = "exit" /\ At("cli", "idle")
    /\ cli' = NoCli
    /\ word' = IF daemon.pc = "down" /\ desktop = cli.want /\ Load(conf).auto = cli.want
               THEN (IF cli.want THEN "on" ELSE "off") ELSE "none"
    /\ UNCHANGED <<desktop, policy, oldUnit, daemon, fileVars>>

Dies(p) == IF At(p, "idle") THEN UNCHANGED fileVars ELSE Abandon(p)

CliDies ==
    /\ cli.pc # "idle"
    /\ Dies("cli")
    /\ cli' = NoCli
    /\ UNCHANGED <<desktop, policy, oldUnit, daemon, word>>

----------------------------------------------------------------------------
(* The daemon's side. *)

DaemonIdle == At("daemon", "idle")

DaemonStarts ==
    /\ daemon.pc = "down"
    /\ BeginLoad("daemon")
    /\ daemon' = [pc |-> "starting", mem |-> Load(conf)]
    /\ UNCHANGED <<desktop, policy, oldUnit, cli, word>>

\* Mutant of Migrates: the entry is not looked at.
MigratesAlways ==
    /\ daemon.pc = "starting" /\ DaemonIdle
    /\ LET mem == [daemon.mem EXCEPT !.auto = TRUE]
       IN  BeginSave("daemon", mem) /\ daemon' = [pc |-> "up", mem |-> mem]
    /\ UNCHANGED <<desktop, policy, oldUnit, cli, word>>

(* run(): an entry without auto_connect is taken for an old installation. *)
Migrates ==
    /\ daemon.pc = "starting" /\ DaemonIdle
    /\ IF desktop /\ ~daemon.mem.auto
       THEN LET mem == [daemon.mem EXCEPT !.auto = TRUE]
            IN  BeginSave("daemon", mem) /\ daemon' = [pc |-> "up", mem |-> mem]
       ELSE daemon' = [daemon EXCEPT !.pc = "up"] /\ UNCHANGED fileVars
    /\ UNCHANGED <<desktop, policy, oldUnit, cli, word>>

(* Any other setting: the whole copy is saved. *)
SetsKillSwitch ==
    /\ daemon.pc = "up" /\ DaemonIdle
    /\ LET mem == [daemon.mem EXCEPT !.ks = ~@]
       IN  BeginSave("daemon", mem) /\ daemon' = [daemon EXCEPT !.mem = mem]
    /\ UNCHANGED <<desktop, policy, oldUnit, cli, word>>

TrayTogglesAutostart ==
    /\ daemon.pc = "up" /\ DaemonIdle
    /\ \/ LET mem == [daemon.mem EXCEPT !.auto = ~desktop]
          IN  /\ SetEntry(~desktop)
              /\ BeginSave("daemon", mem) /\ daemon' = [daemon EXCEPT !.mem = mem]
       \/ SetEntryFails(~desktop) /\ UNCHANGED <<daemon, fileVars>>
    /\ word' = "none"
    /\ UNCHANGED cli

Reloads ==
    /\ daemon.pc = "up" /\ DaemonIdle
    /\ BeginLoad("daemon")
    /\ daemon' = [daemon EXCEPT !.mem = Load(conf)]
    /\ UNCHANGED <<desktop, policy, oldUnit, cli, word>>

DaemonStops ==
    /\ daemon.pc # "down"
    /\ Dies("daemon")
    /\ daemon' = NoDaemon
    /\ UNCHANGED <<desktop, policy, oldUnit, cli, word>>

----------------------------------------------------------------------------
Files ==
    /\ \E p \in Procs : FileSteps(p)
    /\ UNCHANGED startVars

UserEdits ==
    /\ \E f \in Contents : Edit(f)
    /\ word' = "none"
    /\ UNCHANGED <<desktop, policy, oldUnit, daemon, cli>>

StartNext ==
    \/ \E action \in {"on", "off", "toggle"} : CliAutostart(action)
    \/ CliLoads \/ CliSaves \/ CliExits \/ CliDies
    \/ DaemonStarts \/ Migrates \/ SetsKillSwitch \/ TrayTogglesAutostart
    \/ Reloads \/ DaemonStops
    \/ Files \/ UserEdits

StartSpec == StartInit /\ [][StartNext]_<<fileVars, startVars>>

----------------------------------------------------------------------------
StartTypeOK ==
    /\ FileTypeOK
    /\ desktop \in BOOLEAN /\ policy \in BOOLEAN /\ oldUnit \in BOOLEAN
    /\ daemon \in [pc : {"down", "starting", "up"}, mem : Configs]
    /\ cli \in [pc : {"idle", "load", "set", "exit"}, want : BOOLEAN, val : Configs]
    /\ word \in {"none", "on", "off"}

(* The last `shroud autostart` that saved auto_connect while no daemon ran *)
(* decides whether the daemons started after it connect on login           *)
(* ("couple auto_connect config with autostart state", cli/handlers.rs):   *)
(* no save, migration, reload or crash of theirs turns it round.           *)
LastWordHolds ==
    daemon.pc = "up" => /\ word = "on" => daemon.mem.auto
                        /\ word = "off" => ~daemon.mem.auto

(* Not so with a daemon running: its next save writes its old copy back.   *)
(* "VPN Shroud will start and auto-connect on next login" is made good by  *)
(* the migration at the next start, "Autostart and auto-connect disabled"  *)
(* (cli/handlers.rs) is not.                                               *)
AutostartSticks == [][cli.pc = "idle" /\ cli'.pc = "idle" /\ desktop' = desktop /\ edits' = edits
                        /\ ~desktop /\ ~Load(conf).auto => ~Load(conf)'.auto]_<<fileVars, startVars>>
=============================================================================
