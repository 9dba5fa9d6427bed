----------------------------- MODULE KillSwitch -----------------------------
(***************************************************************************)
(* KillSwitch of src/killswitch/firewall and the cleanup of                *)
(* src/killswitch/cleanup.rs, over the packet filter they edit.            *)
(*                                                                         *)
(* enable() and disable() edit the filter one sudo command at a time; the  *)
(* model takes one step per group of commands whose order matters, so that *)
(* the process may die, and a command may fail, between any two of them.   *)
(* What the rules match is left out: a chain is complete or it is not.     *)
(***************************************************************************)
EXTENDS Naturals

CONSTANTS
    Hosts,       \* which tools the machine has, one of KindsOfHost each
    MaxFaults,   \* how many sudo commands may fail for no lasting reason
    Tampering    \* may another program flush the filter?

KindsOfHost == {"nft", "iptables", "legacy"}

ASSUME KillSwitchAssumption ==
    /\ Hosts \subseteq KindsOfHost
    /\ MaxFaults \in Nat
    /\ Tampering \in BOOLEAN

VARIABLES
    host,    \* "nft": nft works (and iptables); "iptables": no nft;
             \* "legacy": no nft, and iptables cannot reach the kernel while
             \* iptables-legacy can
    fw,      \* the rules in the kernel
    ks,      \* the KillSwitch struct
    call,    \* where the enable() or disable() in progress is, and what the
             \* last one returned
    faults   \* commands failed so far

ksVars == <<host, fw, ks, call, faults>>

----------------------------------------------------------------------------
(* The packet filter (external).  v4 is the SHROUD_KILLSWITCH chain in the *)
(* table of whichever iptables works here:                                 *)
(*   "none"    no chain                                                    *)
(*   "chain"   a chain, whole or in part, that OUTPUT does not jump to     *)
(*   "hollow"  OUTPUT jumps to a chain that drops nothing                  *)
(*   "on"      OUTPUT jumps to the complete chain                          *)
(* v6 is the direct ip6tables OUTPUT rules, nft the shroud_killswitch      *)
(* table, which nft installs and deletes whole.                            *)

V4States == {"none", "chain", "hollow", "on"}
Firewalls == [v4 : V4States, v6 : BOOLEAN, nft : BOOLEAN]
NoRules == [v4 |-> "none", v6 |-> FALSE, nft |-> FALSE]

\* What leaks is stopped by: a complete chain, or the nft table.
Filters(f) == f.v4 = "on" \/ f.nft

\* Do the commands that paths::iptables() and ip6tables() name work here?
\* (Robust cleanup, probes and startup cleanup use no other.)
Reaches == host # "legacy"

Unhooked(s) == IF s \in {"on", "hollow"} THEN "chain" ELSE s
Emptied(s) == IF s \in {"on", "hollow"} THEN "hollow" ELSE "none"

----------------------------------------------------------------------------
(* The struct.  cooling: last_toggle_time is less than 500 ms old.         *)
(* use_legacy is left out: select_backend sets it before every script that *)
(* runs on a "legacy" host.                                                *)

Backends == {"iptables", "nft"}
Switches == [enabled : BOOLEAN, backend : Backends, cooling : BOOLEAN]
NewSwitch == [enabled |-> FALSE, backend |-> "iptables", cooling |-> FALSE]

Goals == {"none", "build", "rollback", "fallback", "remove"}
CleanupPcs == {"jump", "chain", "v6", "table"}
BuildPcs == {"select", "nft", "fill", "insert", "fill6"}
Pcs == {"idle", "drop", "exiting", "dead"} \cup CleanupPcs \cup BuildPcs
Calls == [pc : Pcs, goal : Goals, ret : {"ok", "err"}]

Idle == call.pc = "idle"
Busy == call.pc \in CleanupPcs \cup BuildPcs \cup {"drop"}

Goto(p) == call' = [call EXCEPT !.pc = p]
Begin(p, g) == call' = [call EXCEPT !.pc = p, !.goal = g]
Return(r) == call' = [call EXCEPT !.pc = "idle", !.ret = r]

NoFault == UNCHANGED faults
Fault == faults < MaxFaults /\ faults' = faults + 1

\* The probe of one backend: iptables -C finds the jump, full or hollow.
Found(f, b) == IF b = "iptables" THEN Reaches /\ f.v4 \in {"on", "hollow"} ELSE f.nft

\* sync_state: the backend in use is probed first, then the other.
Synced(f, k) ==
    LET live == {b \in Backends : Found(f, b)}
    IN  IF live = {} THEN [k EXCEPT !.enabled = FALSE]
        ELSE [k EXCEPT !.enabled = TRUE,
                       !.backend = IF @ \in live THEN @ ELSE CHOOSE b \in live : TRUE]

----------------------------------------------------------------------------
(* enable() *)

\* Mutant of Satisfied: enable() always rebuilds.
SatisfiedNever == FALSE

Satisfied == ks.enabled /\ Found(fw, ks.backend)

\* Within the cooldown, or with its rules found in place, it returns Ok.
EnableSkips ==
    /\ Idle
    /\ ks.cooling \/ Satisfied
    /\ call' = [call EXCEPT !.ret = "ok", !.goal = "none"]
    /\ UNCHANGED <<host, fw, ks, faults>>

\* Otherwise it starts by removing whatever is there.  A failing probe makes it
\* rebuild rules that do exist.
EnableBegins ==
    /\ Idle
    /\ ~ks.cooling
    /\ \/ ~Satisfied /\ NoFault
       \/ Satisfied /\ Fault
    /\ ks' = [ks EXCEPT !.cooling = TRUE]
    /\ Begin("jump", "build")
    /\ UNCHANGED <<host, fw>>

Enable == EnableSkips \/ EnableBegins

\* robust_iptables_cleanup, four groups of commands, each best effort: delete
\* the jumps, flush and delete the chain, delete the IPv6 rules, delete the
\* nft table.
CleanJump ==
    /\ call.pc = "jump"
    /\ \/ NoFault /\ fw' = [fw EXCEPT !.v4 = IF Reaches THEN Unhooked(@) ELSE @]
       \/ Fault /\ UNCHANGED fw
    /\ Goto("chain")
    /\ UNCHANGED <<host, ks>>

\* A chain that is still jumped to is emptied but cannot be deleted; one that
\* could not be flushed cannot be deleted either.
CleanChain ==
    /\ call.pc = "chain"
    /\ \/ NoFault /\ fw' = [fw EXCEPT !.v4 = IF Reaches THEN Emptied(@) ELSE @]
       \/ Fault /\ UNCHANGED fw
    /\ Goto("v6")
    /\ UNCHANGED <<host, ks>>

CleanV6 ==
    /\ call.pc = "v6"
    /\ \/ NoFault /\ fw' = [fw EXCEPT !.v6 = @ /\ ~Reaches]
       \/ Fault /\ UNCHANGED fw
    /\ Goto("table")
    /\ UNCHANGED <<host, ks>>

\* The last group, and what follows it: the new rules, the error that caused a
\* rollback, nft after iptables failed, or the end of disable().
CleanTable ==
    /\ call.pc = "table"
    /\ \/ NoFault /\ fw' = [fw EXCEPT !.nft = FALSE]
       \/ Fault /\ UNCHANGED fw
    /\ \/ call.goal = "build" /\ Goto("select") /\ UNCHANGED ks
       \/ call.goal = "rollback" /\ Return("err") /\ UNCHANGED ks
       \/ call.goal = "fallback" /\ Goto("nft") /\ ks' = [ks EXCEPT !.backend = "nft"]
       \/ /\ call.goal = "remove"
          /\ Return("ok")
          /\ ks' = [ks EXCEPT !.enabled = FALSE]
    /\ UNCHANGED host

\* select_backend: nft wherever it answers, else iptables; without nft a sudo
\* that is refused ends the call.
SelectBackend ==
    /\ call.pc = "select"
    /\ \/ /\ host = "nft" /\ NoFault
          /\ Goto("nft") /\ ks' = [ks EXCEPT !.backend = "nft"]
       \/ /\ IF host = "nft" THEN Fault ELSE NoFault
          /\ Goto("fill") /\ ks' = [ks EXCEPT !.backend = "iptables"]
       \/ host # "nft" /\ Fault /\ Return("err") /\ UNCHANGED ks
    /\ UNCHANGED <<host, fw>>

\* enable_nft: delete the table, then load the ruleset in one transaction.
ApplyNft ==
    /\ call.pc = "nft"
    /\ \/ /\ NoFault
          /\ fw' = [fw EXCEPT !.nft = TRUE]
          /\ ks' = [ks EXCEPT !.enabled = TRUE]
          /\ Return("ok")
       \/ /\ Fault
          /\ fw' = [fw EXCEPT !.nft = FALSE]
          /\ UNCHANGED ks
          /\ Return("err")
    /\ UNCHANGED host

\* Mutants of FailScript: the error returns without the rollback; the script is
\* tried again for as long as it fails.
FailScriptAtOnce == Return("err")
FailScriptRetries == Goto("fill")

\* run_single_script failed: tear down what it built, then return the error or,
\* if the error allows it and nft answers now, turn to nft.
FailScript ==
    \/ Begin("jump", "rollback")
    \/ host = "nft" /\ Begin("jump", "fallback")

\* Mutant of Fill: the jump is inserted along with the first rules.
FillHooked ==
    /\ call.pc = "fill"
    /\ \/ /\ NoFault /\ fw.v4 = "none"
          /\ fw' = [fw EXCEPT !.v4 = "hollow"]
          /\ Goto("insert")
       \/ NoFault /\ fw.v4 # "none" /\ UNCHANGED fw /\ FailScript
       \/ Fault /\ fw' = [fw EXCEPT !.v4 = "chain"] /\ FailScript
    /\ UNCHANGED <<host, ks>>

\* The script: iptables -N, which fails on a chain that exists, and the rules;
Fill ==
    /\ call.pc = "fill"
    /\ \/ /\ NoFault /\ fw.v4 = "none"
          /\ fw' = [fw EXCEPT !.v4 = "chain"]
          /\ Goto("insert")
       \/ NoFault /\ fw.v4 # "none" /\ UNCHANGED fw /\ FailScript
       \/ /\ Fault
          /\ fw' = [fw EXCEPT !.v4 = IF @ = "none" THEN "chain" ELSE @]
          /\ FailScript
    /\ UNCHANGED <<host, ks>>

\* then the jump;
Insert ==
    /\ call.pc = "insert"
    /\ \/ NoFault /\ fw' = [fw EXCEPT !.v4 = "on"] /\ Goto("fill6")
       \/ Fault /\ UNCHANGED fw /\ FailScript
    /\ UNCHANGED <<host, ks>>

\* then the IPv6 rules, whose failure the script ignores ("|| true") unless
\* the command hangs.
Fill6 ==
    /\ call.pc = "fill6"
    /\ \/ /\ \/ NoFault /\ fw' = [fw EXCEPT !.v6 = TRUE]
             \/ Fault /\ UNCHANGED fw
          /\ ks' = [ks EXCEPT !.enabled = TRUE]
          /\ Return("ok")
       \/ Fault /\ UNCHANGED <<fw, ks>> /\ FailScript
    /\ UNCHANGED host

----------------------------------------------------------------------------
(* disable() *)

DisableSkips ==
    /\ Idle
    /\ ks.cooling
    /\ call' = [call EXCEPT !.ret = "ok", !.goal = "none"]
    /\ UNCHANGED <<host, fw, ks, faults>>

\* With the iptables backend: a refused sudo ends the call; an iptables that
\* cannot reach the kernel sends it to nft where there is nft.
DisableBegins ==
    /\ Idle
    /\ ~ks.cooling
    /\ \/ /\ ks.backend = "nft" /\ NoFault
          /\ ks' = [ks EXCEPT !.cooling = TRUE] /\ Begin("drop", "remove")
       \/ /\ ks.backend = "iptables" /\ NoFault
          /\ ks' = [ks EXCEPT !.cooling = TRUE] /\ Begin("jump", "remove")
       \/ /\ ks.backend = "iptables" /\ host = "nft" /\ Fault
          /\ ks' = [ks EXCEPT !.cooling = TRUE, !.backend = "nft"]
          /\ Begin("drop", "remove")
       \/ /\ ks.backend = "iptables" /\ Fault
          /\ ks' = [ks EXCEPT !.cooling = TRUE]
          /\ call' = [call EXCEPT !.ret = "err", !.goal = "remove"]
    /\ UNCHANGED <<host, fw>>

Disable == DisableSkips \/ DisableBegins

\* disable_nft
DropTable ==
    /\ call.pc = "drop"
    /\ \/ /\ NoFault
          /\ fw' = [fw EXCEPT !.nft = FALSE]
          /\ ks' = [ks EXCEPT !.enabled = FALSE]
          /\ Return("ok")
       \/ Fault /\ UNCHANGED <<fw, ks>> /\ Return("err")
    /\ UNCHANGED host

KsStep == \/ CleanJump \/ CleanChain \/ CleanV6 \/ CleanTable \/ SelectBackend
          \/ ApplyNft \/ Fill \/ Insert \/ Fill6 \/ DropTable

----------------------------------------------------------------------------
(* The reality check, the clock and the process. *)

\* sync_state: a probe whose sudo fails finds nothing.
SyncState ==
    /\ Idle
    /\ \/ NoFault /\ ks' = Synced(fw, ks)
       \/ Fault /\ ks' = [ks EXCEPT !.enabled = FALSE]
    /\ UNCHANGED <<host, fw, call>>

\* 500 ms since the last toggle have passed.
CoolDown ==
    /\ ks.cooling
    /\ ks' = [ks EXCEPT !.cooling = FALSE]
    /\ UNCHANGED <<host, fw, call, faults>>

\* cleanup_with_timeout and cleanup_stale_on_startup: they look for a chain in
\* iptables, and if there is one they delete the chains and the nft table.
CleanedUp(f) ==
    IF Reaches /\ f.v4 # "none" THEN [f EXCEPT !.v4 = "none", !.nft = FALSE] ELSE f

\* The jump could not be deleted: the chain is flushed under it.
HalfCleaned(f) ==
    IF Reaches /\ f.v4 # "none" THEN [f EXCEPT !.v4 = Emptied(@), !.nft = FALSE] ELSE f

Cleanup ==
    \/ NoFault /\ fw' = CleanedUp(fw)
    \/ Fault /\ fw' = HalfCleaned(fw)

\* handle_quit: clean up if enabled, look again, leave the loop;
Quit ==
    /\ Idle
    /\ IF ks.enabled THEN Cleanup /\ ks' = Synced(fw', ks)
                     ELSE UNCHANGED <<fw, ks, faults>>
    /\ Goto("exiting")
    /\ UNCHANGED host

\* graceful_shutdown: once more, and the process ends.
Exit ==
    /\ call.pc = "exiting"
    /\ IF ks.enabled THEN Cleanup ELSE UNCHANGED <<fw, faults>>
    /\ ks' = NewSwitch
    /\ call' = [call EXCEPT !.pc = "dead", !.goal = "none"]
    /\ UNCHANGED host

\* A panic or a kill, between any two commands: the rules stay (Drop and the
\* panic hook leave them alone).
Crash ==
    /\ call.pc # "dead"
    /\ ks' = NewSwitch
    /\ call' = [call EXCEPT !.pc = "dead", !.goal = "none"]
    /\ UNCHANGED <<host, fw, faults>>

\* run_daemon_mode: clean up stale rules, then with_nm adopts what is left.
Start ==
    /\ call.pc = "dead"
    /\ Cleanup
    /\ ks' = Synced(fw', NewSwitch)
    /\ Goto("idle")
    /\ UNCHANGED host

\* Another program flushes OUTPUT, or deletes every nft table.
Tamper ==
    /\ Tampering
    /\ fw' \in {[fw EXCEPT !.v4 = Unhooked(@)], [fw EXCEPT !.v6 = FALSE],
                [fw EXCEPT !.nft = FALSE]}
    /\ fw' # fw
    /\ UNCHANGED <<host, ks, call, faults>>

----------------------------------------------------------------------------
Init ==
    /\ host \in Hosts
    /\ fw = NoRules
    /\ ks = NewSwitch
    /\ call = [pc |-> "dead", goal |-> "none", ret |-> "ok"]
    /\ faults = 0

Next == \/ Enable \/ Disable \/ KsStep \/ SyncState \/ CoolDown
        \/ Quit \/ Exit \/ Crash \/ Start \/ Tamper

Spec == Init /\ [][Next]_ksVars

----------------------------------------------------------------------------
(* The type invariant. *)
TypeOK ==
    /\ host \in Hosts
    /\ fw \in Firewalls
    /\ ks \in Switches
    /\ call \in Calls
    /\ faults \in 0..MaxFaults

\* Wherever enable, disable, a cleanup or the process stops, OUTPUT never jumps
\* to a chain that drops nothing: such a jump looks like a working kill switch
\* to every probe.  build_complete_script inserts the jump last and
\* robust_iptables_cleanup deletes it first.
JumpIsComplete == fw.v4 # "hollow"

\* Between calls the struct is exact: it says enabled if and only if traffic is
\* filtered, whatever crashed, quit or restarted before.
EnabledIsFiltering == Idle => (ks.enabled <=> Filters(fw))

\* enable() opens nothing: while the daemon builds or rolls back, probes or
\* dies, filtered traffic stays filtered.  Only disable(), a shutdown and the
\* cleanup at startup end it.
OpensOnlyOnPurpose ==
    [][Filters(fw) /\ ~Filters(fw') =>
          \/ call.goal = "remove"
          \/ call'.pc = "exiting" \/ call.pc \in {"exiting", "dead"}]_ksVars

\* The same as a whole: where the commands work, enable() and disable() are to
\* their callers the two positions of a switch.  What they do to the packet
\* filter command by command, with deaths in between, is what AtomicSwitch does
\* in one step; an enable() that finds its rules never takes them down first.
Filtering == IF Filters(fw) THEN "closed" ELSE "open"
Wanted == IF ~Busy THEN "none" ELSE IF call.goal = "remove" THEN "open" ELSE "closed"
Life == IF call.pc \in {"exiting", "dead"} THEN "down" ELSE "up"

Switch == INSTANCE AtomicSwitch WITH filter <- Filtering, want <- Wanted, life <- Life

ActsAsSwitch == Switch!Spec

\* enable() is all or nothing: when it returns an error nothing of its script is
\* left in iptables, so that the next enable does not stumble over an old chain.
\* (One failed command is what causes the error; a rollback whose own commands
\* fail is best effort.)
AllOrNothing ==
    Idle /\ call.goal \in {"build", "rollback"} /\ call.ret = "err" /\ faults <= 1 =>
        fw.v4 = "none" /\ ~fw.nft

\* Every enable() and disable() returns, unless the process dies.
CallsReturn == Busy ~> (Idle \/ call.pc = "dead")

\* disable_inner: "We run cleanup regardless of enabled status to ensure we don't
\* leave the user stranded": after a disable() that did its work and returned Ok
\* nothing filters.
DisableUnblocks ==
    Idle /\ call.goal = "remove" /\ call.ret = "ok" => ~Filters(fw)

\* PRINCIPLES.md P2, "The kill switch may never claim a state it cannot prove":
\* enabled means filtering.
ClaimProven == Idle /\ ks.enabled => Filters(fw)

\* README.md, "We leave no trace": after an orderly exit no rule is left.
LeavesNoTrace == [][Exit => fw' = NoRules]_ksVars
=============================================================================
