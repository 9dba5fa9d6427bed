------------------------------ MODULE Headless ------------------------------
(***************************************************************************)
(* The headless daemon, src/headless/runtime.rs, as systemd sees it: the   *)
(* boot kill switch (src/killswitch/boot.rs) goes up first, the supervisor *)
(* is spawned, the VPN is connected with nmcli directly, then the service  *)
(* is ready and waits for a signal.  systemd may start it again at any end.*)
(*                                                                         *)
(* Two rule sets meet in the kernel: the chain SHROUD_BOOT_KS and the      *)
(* runtime kill switch of the supervisor (KillSwitch has its inside).      *)
(***************************************************************************)
EXTENDS Naturals

CONSTANTS
    Sections,     \* the [headless] sections to consider
    MaxFaults,    \* bound: iptables commands that fail
    MaxRuns       \* bound: times systemd starts the daemon

ASSUME HeadlessAssumption ==
    /\ Sections \subseteq [onBoot : BOOLEAN, require : BOOLEAN, auto : BOOLEAN,
                           persist : BOOLEAN, attempts : Nat, ksEnabled : BOOLEAN,
                           nft : BOOLEAN]
    /\ MaxFaults \in Nat /\ MaxRuns \in Nat

VARIABLES
    cfg,       \* the configuration; attempts: max_reconnect_attempts, 0 = forever
    pc,        \* the step of run_headless
    boot,      \* SHROUD_BOOT_KS: exists, full (it ends in DROP), jumped to, IPv6 too
    rt,        \* the runtime kill switch: "none", "under" or "over" the boot jump
    sup,       \* the supervisor task: "off", "starting", "running", "ended"
    vpn,       \* the tunnel is up
    tried,     \* attempts of auto_connect_nmcli
    systemd,   \* what the service last notified: "none", "ready", "stopping"
    sig,       \* a SIGTERM or SIGINT is pending
    closed,    \* history: the boot kill switch went up and was not given up
    faults, runs

vars == <<cfg, pc, boot, rt, sup, vpn, tried, systemd, sig, closed, faults, runs>>

NoBoot == [exists |-> FALSE, full |-> FALSE, jump |-> FALSE, six |-> FALSE]

Init ==
    /\ cfg \in Sections
    /\ pc = "off" /\ boot = NoBoot /\ rt = "none" /\ sup = "off" /\ vpn = FALSE
    /\ tried = 0 /\ systemd = "none" /\ sig = FALSE /\ closed = FALSE
    /\ faults = 0 /\ runs = 0

----------------------------------------------------------------------------
(* What leaves the host.  iptables goes through OUTPUT in order and the    *)
(* first verdict counts; an nft table has a hook of its own, so both must  *)
(* accept.  The runtime kill switch accepts the VPN servers and tunnels.   *)

BootDrops == boot.jump /\ boot.full

Leaves(kind) ==
    LET rtAccepts == kind \in {"handshake", "tunnel"}
    IN  CASE rt = "none" -> ~BootDrops
          [] rt = "over" /\ ~cfg.nft -> rtAccepts
          [] OTHER -> rtAccepts /\ ~BootDrops

Working == pc \notin {"off", "failed", "dead", "done"}

\* Nothing but the step of the main task.
MainOnly == UNCHANGED <<cfg, rt, sup, vpn, sig, runs>>

Proceed(p) == pc' = p

----------------------------------------------------------------------------
(* Boot kill switch: enable_boot_killswitch, step by step.  Every iptables *)
(* command may fail; ip6tables is best effort.                             *)

DetectMode(headlessFlag, desktopFlag, env) ==
    CASE headlessFlag -> "headless"
      [] ~headlessFlag /\ desktopFlag -> "desktop"
      [] ~headlessFlag /\ ~desktopFlag /\ env = "headless" -> "headless"
      [] OTHER -> "desktop"

\* main() in headless mode: no lock, no cleanup of an earlier run's rules.
Start ==
    /\ ~Working /\ runs < MaxRuns
    /\ \E h, d \in BOOLEAN, e \in {"unset", "headless", "desktop", "typo"} :
          DetectMode(h, d, e) = "headless"
    /\ runs' = runs + 1
    /\ Proceed(IF cfg.onBoot THEN "create" ELSE "spawn")
    /\ tried' = 0 /\ systemd' = "none" /\ sig' = FALSE
    /\ UNCHANGED <<cfg, boot, rt, sup, vpn, closed, faults>>

BootFails ==
    /\ faults < MaxFaults /\ faults' = faults + 1
    /\ Proceed(IF cfg.require THEN "failed" ELSE "spawn")
    /\ UNCHANGED <<tried, systemd>>

\* create_boot_chain: a chain that is already there is flushed, jumped to or not.
CreateBootChain ==
    /\ pc = "create"
    /\ \/ /\ boot' = [boot EXCEPT !.exists = TRUE, !.full = FALSE]
          /\ closed' = FALSE
          /\ Proceed("rules") /\ UNCHANGED <<tried, systemd, faults>>
       \/ BootFails /\ UNCHANGED <<boot, closed>>
    /\ MainOnly

\* Mutant of AddBootRules: the final DROP is missing.
AddBootRulesNoDrop ==
    /\ pc = "rules"
    /\ Proceed("unhook") /\ UNCHANGED <<boot, tried, systemd, faults>>
    /\ UNCHANGED closed /\ MainOnly

AddBootRules ==
    /\ pc = "rules"
    /\ \/ /\ boot' = [boot EXCEPT !.full = TRUE]
          /\ Proceed("unhook") /\ UNCHANGED <<tried, systemd, faults>>
       \/ BootFails /\ UNCHANGED boot
    /\ UNCHANGED closed /\ MainOnly

\* insert_boot_chain_jump: the old jumps go, then the new one comes.
RemoveOldJumps ==
    /\ pc = "unhook"
    /\ boot' = [boot EXCEPT !.jump = FALSE]
    /\ Proceed("hook") /\ UNCHANGED <<tried, systemd, faults, closed>>
    /\ MainOnly

\* The new jump is OUTPUT's first rule: a runtime kill switch is now under it.
InsertBootJump ==
    /\ pc = "hook"
    /\ \/ /\ \E six \in BOOLEAN : boot' = [boot EXCEPT !.jump = TRUE, !.six = six]
          /\ rt' = IF rt = "none" THEN rt ELSE "under"
          /\ closed' = TRUE
          /\ Proceed("spawn") /\ UNCHANGED <<tried, systemd, faults>>
       \/ BootFails /\ UNCHANGED <<boot, closed, rt>>
    /\ UNCHANGED <<cfg, sup, vpn, sig, runs>>

----------------------------------------------------------------------------
(* Steps 2 to 7: spawn the tasks, connect, tell systemd *)

Spawn ==
    /\ pc = "spawn"
    /\ sup' = "starting"
    /\ Proceed(IF cfg.auto THEN "connect" ELSE "notify")
    /\ UNCHANGED <<cfg, boot, rt, vpn, tried, systemd, sig, closed, faults, runs>>

\* Mutant of RetryOrGiveUp: a host whose VPN does not come is opened again.
RetryOrGiveUpOpens ==
    /\ tried' = IF cfg.attempts = 0 THEN 0 ELSE tried + 1
    /\ IF cfg.attempts = 0 \/ tried + 1 < cfg.attempts
       THEN Proceed("connect") /\ UNCHANGED boot
       ELSE Proceed("notify") /\ boot' = NoBoot

RetryOrGiveUp ==
    /\ tried' = IF cfg.attempts = 0 THEN 0 ELSE tried + 1
    /\ Proceed(IF cfg.attempts = 0 \/ tried + 1 < cfg.attempts THEN "connect" ELSE "notify")
    /\ UNCHANGED boot

\* auto_connect_nmcli, one attempt: nm::connect can succeed only if the
\* handshake gets out; two seconds later the tunnel is looked for.
AutoConnect ==
    /\ pc = "connect"
    /\ \/ /\ Leaves("handshake") \/ vpn
          /\ vpn' = TRUE
          /\ Proceed("check") /\ UNCHANGED <<tried, boot>>
       \/ RetryOrGiveUp /\ UNCHANGED vpn
    /\ UNCHANGED <<cfg, rt, sup, systemd, sig, closed, faults, runs>>

CheckActive ==
    /\ pc = "check"
    /\ IF vpn THEN Proceed(IF cfg.onBoot THEN "handover" ELSE "notify") /\ UNCHANGED <<tried, boot>>
              ELSE RetryOrGiveUp
    /\ UNCHANGED <<cfg, rt, sup, vpn, systemd, sig, closed, faults, runs>>

\* disable_boot_killswitch ignores every error.
HandOver ==
    /\ pc = "handover"
    /\ \/ boot' = NoBoot /\ UNCHANGED faults
       \/ faults < MaxFaults /\ faults' = faults + 1 /\ UNCHANGED boot
    /\ closed' = FALSE
    /\ Proceed("notify") /\ UNCHANGED <<tried, systemd>>
    /\ MainOnly

NotifyReady ==
    /\ pc = "notify"
    /\ systemd' = "ready"
    /\ Proceed("ready") /\ UNCHANGED <<boot, tried, closed, faults>>
    /\ MainOnly

----------------------------------------------------------------------------
(* Signals, and steps 8 to 11.  Handlers are installed after notify_ready: *)
(* until then a signal has its default effect.                             *)

Signal ==
    /\ Working /\ ~sig
    /\ IF pc \in {"ready", "cleanup", "abort"}
       THEN sig' = TRUE /\ UNCHANGED <<pc, sup>>
       ELSE pc' = "dead" /\ sup' = "off" /\ UNCHANGED sig
    /\ UNCHANGED <<cfg, boot, rt, vpn, tried, systemd, closed, faults, runs>>

\* A crash of the process, or SIGKILL.
Die ==
    /\ Working
    /\ pc' = "dead" /\ sup' = "off"
    /\ UNCHANGED <<cfg, boot, rt, vpn, tried, systemd, sig, closed, faults, runs>>

\* Mutant of Shutdown: the loop treats every signal like SIGHUP.
ShutdownIgnored ==
    /\ pc = "ready" /\ sig /\ sig' = FALSE
    /\ UNCHANGED <<cfg, pc, boot, rt, sup, vpn, tried, systemd, closed, faults, runs>>

Shutdown ==
    /\ pc = "ready" /\ sig
    /\ systemd' = "stopping"
    /\ Proceed(IF cfg.persist THEN "abort" ELSE "cleanup")
    /\ UNCHANGED <<boot, tried, closed, faults>>
    /\ MainOnly

\* cleanup_all removes both chains and the table, or some command fails.
CleanupAll ==
    /\ pc = "cleanup"
    /\ \/ boot' = NoBoot /\ rt' = "none" /\ UNCHANGED faults
       \/ faults < MaxFaults /\ faults' = faults + 1 /\ UNCHANGED <<boot, rt>>
    /\ closed' = FALSE
    /\ Proceed("abort")
    /\ UNCHANGED <<cfg, sup, vpn, tried, systemd, sig, runs>>

\* The tasks are aborted (and waited for at most 5 s), the socket removed.
AbortTasks ==
    /\ pc = "abort"
    /\ sup' = "off"
    /\ Proceed("done")
    /\ UNCHANGED <<cfg, boot, rt, vpn, tried, systemd, sig, closed, faults, runs>>

----------------------------------------------------------------------------
(* The supervisor task, as far as it touches the firewall, and NetworkManager *)

SupOnly == UNCHANGED <<cfg, pc, boot, tried, systemd, sig, closed, faults, runs>>

\* Its start: rules that are there are kept; else the setting is restored, but
\* only if the VPN is up already.
SupStarts ==
    /\ sup = "starting" /\ sup' = "running"
    /\ \/ rt = "none" /\ cfg.ksEnabled /\ vpn /\ rt' = "over"
       \/ UNCHANGED rt
    /\ UNCHANGED vpn /\ SupOnly

\* `shroud ks on/off`, or the ordering of handle_connect.
SupSwitches ==
    /\ sup = "running"
    /\ rt' = IF rt = "none" THEN "over" ELSE "none"
    /\ UNCHANGED <<sup, vpn>> /\ SupOnly

SupConnects ==
    /\ sup = "running" /\ ~vpn
    /\ rt' = IF cfg.ksEnabled /\ rt = "none" THEN "over" ELSE rt
    /\ vpn' = TRUE
    /\ UNCHANGED sup /\ SupOnly
    /\ Leaves("handshake")'

\* `shroud quit`, or a panic of the task: nobody waits for it.  Quit cleans up
\* (both chains) if the runtime kill switch is on.
SupEnds ==
    /\ sup \in {"starting", "running"} /\ sup' = "ended"
    /\ \/ /\ sup = "running" /\ rt # "none"
          /\ rt' = "none" /\ boot' = NoBoot /\ closed' = FALSE
       \/ UNCHANGED <<rt, boot, closed>>
    /\ UNCHANGED <<cfg, pc, vpn, tried, systemd, sig, faults, runs>>

VpnDrops == vpn /\ vpn' = FALSE /\ UNCHANGED <<rt, sup>> /\ SupOnly

----------------------------------------------------------------------------
Main ==
    \/ CreateBootChain \/ AddBootRules \/ RemoveOldJumps \/ InsertBootJump
    \/ Spawn \/ AutoConnect \/ CheckActive \/ HandOver \/ NotifyReady
    \/ Shutdown \/ CleanupAll \/ AbortTasks

Next ==
    \/ Main \/ Start \/ Signal \/ Die
    \/ SupStarts \/ SupSwitches \/ SupConnects \/ SupEnds \/ VpnDrops

\* The runtime goes on executing the main task; nothing else is promised.
Spec == Init /\ [][Next]_vars /\ WF_vars(Main)

----------------------------------------------------------------------------
TypeOK ==
    /\ cfg \in Sections
    /\ boot \in [exists : BOOLEAN, full : BOOLEAN, jump : BOOLEAN, six : BOOLEAN]
    /\ rt \in {"none", "under", "over"}
    /\ sup \in {"off", "starting", "running", "ended"}
    /\ tried \in 0..cfg.attempts
    /\ Working \/ sup = "off"

\* HEADLESS.md, "blocks ALL traffic until VPN connects", for IPv4: from the
\* moment the boot kill switch is up until auto-connect has seen a tunnel, a
\* clean shutdown without persist_kill_switch, or the next start, nothing leaves
\* that is not for a VPN server or tunnel -- whatever signals, crashes, failed
\* attempts and toggles of the runtime kill switch come in between.
ClosedUntilConnected == closed => ~Leaves("public")

\* A host that is closed is opened only by these: the hand-over once a tunnel
\* was seen, a shutdown, the supervisor's switch or its end, and a new start that
\* rebuilds a chain an earlier run left.
OpensOnlyOnPurpose ==
    [][~Leaves("public") /\ Leaves("public")' =>
          \/ pc = "handover" /\ pc' = "notify"
          \/ pc = "cleanup" /\ ~cfg.persist
          \/ rt # "none" /\ rt' = "none"
          \/ pc \in {"create", "unhook"} /\ runs > 1]_vars

\* The service settles: with a bounded number of attempts it gets to READY or
\* fails, and a signal ends it (unless it dies first).
Settles ==
    /\ pc = "create" /\ cfg.attempts > 0 ~> pc \in {"ready", "failed", "dead"}
    /\ sig ~> ~Working

\* HEADLESS.md: with the boot kill switch up, "VPN connects".
HandshakeGetsOut == pc = "connect" => vpn \/ Leaves("handshake")

\* HEADLESS.md: "boot rules replaced with normal kill switch rules".
Transfers == [][pc = "handover" /\ cfg.ksEnabled => rt' # "none"]_vars

\* RESILIENCE.md: if Shroud stops responding, systemd restarts it.
WatchdogMeansAlive == pc = "ready" => sup # "ended"

\* HEADLESS.md: persist_kill_switch, traffic stays blocked after Shroud exits.
PersistHolds == [][cfg.persist /\ ~Leaves("public") /\ pc = "create" => ~Leaves("public")']_vars

\* CONFIGURATION.md: require_kill_switch, fail startup if it cannot be enabled.
RequiredCoversIpv6 == pc = "ready" /\ cfg.onBoot /\ cfg.require /\ closed => boot.six

\* HEADLESS.md: `shroud ks off` gets a locked-out administrator back in.
KsOffUnlocks == [][rt # "none" /\ rt' = "none" => Leaves("public")']_vars
=============================================================================
