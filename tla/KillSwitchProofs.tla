-------------------------- MODULE KillSwitchProofs --------------------------
(***************************************************************************)
(* Proofs about KillSwitch and about Protection, which uses it: the type   *)
(* invariant for every set of hosts and every number of failing commands;  *)
(* where commands do not fail and nobody else edits the filter, that the   *)
(* struct is exact, that no jump leads to an empty chain, who may open and *)
(* that the whole is an AtomicSwitch; where they do, that an enable() that *)
(* fails leaves nothing behind.                                            *)
(***************************************************************************)
EXTENDS Protection, TLAPS

----------------------------------------------------------------------------
(* Types *)

\* sync_state keeps the struct well formed.
LEMMA SyncedType ==
    ASSUME NEW f, NEW k \in Switches
    PROVE  Synced(f, k) \in Switches
<1> DEFINE live == {b \in Backends : Found(f, b)}
<1>1. live # {} => (CHOOSE b \in live : TRUE) \in Backends
  OBVIOUS
<1>2. CASE live = {}
  BY <1>2 DEF Synced, Switches
<1>3. CASE live # {}
  BY <1>1, <1>3 DEF Synced, Switches
<1> QED BY <1>2, <1>3

\* The literals the actions write.
LEMMA Constants ==
    /\ {"idle", "drop", "exiting", "dead", "jump", "chain", "v6", "table",
        "select", "nft", "fill", "insert", "fill6"} \subseteq Pcs
    /\ {"none", "build", "rollback", "fallback", "remove"} \subseteq Goals
    /\ {"nft", "iptables"} \subseteq Backends
    /\ {"none", "chain", "hollow", "on"} \subseteq V4States
    /\ NewSwitch \in Switches
BY DEF Pcs, CleanupPcs, BuildPcs, Goals, Backends, V4States, NewSwitch, Switches

\* The edits of a packet filter, of the struct and of the call in progress that
\* the actions make stay within their types.
LEMMA FilterEdits ==
    ASSUME NEW f \in Firewalls
    PROVE  /\ f.v4 \in V4States /\ f.v6 \in BOOLEAN
           /\ \A s \in V4States : [f EXCEPT !.v4 = s] \in Firewalls
           /\ \A b \in BOOLEAN : [f EXCEPT !.v6 = b] \in Firewalls
           /\ \A b \in BOOLEAN : [f EXCEPT !.nft = b] \in Firewalls
           /\ \A s \in V4States, b \in BOOLEAN :
                  [f EXCEPT !.v4 = s, !.nft = b] \in Firewalls
BY DEF Firewalls

\* Deleting the jumps, or flushing the chain, leaves a state of the chain.
LEMMA ChainEdits ==
    ASSUME NEW s \in V4States
    PROVE  Unhooked(s) \in V4States /\ Emptied(s) \in V4States
BY DEF V4States, Unhooked, Emptied

\* Assigning one field of the KillSwitch struct keeps its type.
LEMMA SwitchEdits ==
    ASSUME NEW k \in Switches
    PROVE  /\ \A b \in BOOLEAN : [k EXCEPT !.enabled = b] \in Switches
           /\ \A b \in BOOLEAN : [k EXCEPT !.cooling = b] \in Switches
           /\ \A x \in Backends : [k EXCEPT !.backend = x] \in Switches
           /\ \A b \in BOOLEAN, x \in Backends :
                  [k EXCEPT !.cooling = b, !.backend = x] \in Switches
BY DEF Switches

\* Every move of a call (next group of commands, begin, return) keeps its type.
LEMMA CallMoves ==
    ASSUME call \in Calls
    PROVE  /\ \A p \in {"idle", "exiting", "chain", "v6", "table", "select", "nft",
                       "fill", "insert", "fill6"} : Goto(p) => call' \in Calls
           /\ \A p \in {"jump", "drop"}, g \in {"build", "rollback", "fallback", "remove"} :
                  Begin(p, g) => call' \in Calls
           /\ \A r \in {"ok", "err"} : Return(r) => call' \in Calls
           /\ \A r \in {"ok", "err"}, g \in {"none", "remove"} :
                  call' = [call EXCEPT !.ret = r, !.goal = g] => call' \in Calls
           /\ call' = [call EXCEPT !.pc = "dead", !.goal = "none"] => call' \in Calls
BY ZenonT(30), Constants DEF Calls, Goto, Begin, Return

\* The count of failed commands stays within MaxFaults.
LEMMA FaultEdits ==
    ASSUME faults \in 0..MaxFaults, NoFault \/ Fault
    PROVE  faults' \in 0..MaxFaults
BY KillSwitchAssumption DEF NoFault, Fault

\* A cleanup by quit or startup leaves a packet filter.
LEMMA CleanupType ==
    ASSUME fw \in Firewalls, faults \in 0..MaxFaults, Cleanup
    PROVE  fw' \in Firewalls /\ faults' \in 0..MaxFaults
<1>1. CleanedUp(fw) \in Firewalls
  BY FilterEdits, Constants DEF CleanedUp
<1>2. Emptied(fw.v4) \in V4States
  BY FilterEdits, ChainEdits
<1>3. HalfCleaned(fw) \in Firewalls
  BY <1>2, FilterEdits DEF HalfCleaned
<1> QED BY <1>1, <1>3, FaultEdits DEF Cleanup

\* Every command, call and crash keeps the types.
LEMMA TypeStep ==
    ASSUME TypeOK, [Next]_ksVars
    PROVE  TypeOK'
<1> USE DEF TypeOK
<1>1. CASE Enable
  <2>1. fw' \in Firewalls /\ faults' \in 0..MaxFaults
    BY <1>1, FilterEdits, Constants, FaultEdits DEF Enable, EnableSkips, EnableBegins
  <2>2. ks' \in Switches
    BY <1>1, SwitchEdits, Constants DEF Enable, EnableSkips, EnableBegins
  <2>3. call' \in Calls
    BY <1>1, CallMoves DEF Enable, EnableSkips, EnableBegins
  <2> QED BY <1>1, <2>1, <2>2, <2>3 DEF Enable, EnableSkips, EnableBegins
<1>2. CASE Disable
  <2>1. fw' \in Firewalls /\ faults' \in 0..MaxFaults
    BY <1>2, FilterEdits, Constants, FaultEdits DEF Disable, DisableSkips, DisableBegins
  <2>2. ks' \in Switches
    <3>1. [ks EXCEPT !.cooling = TRUE, !.backend = "nft"] \in Switches
      BY SwitchEdits, Constants
    <3>2. [ks EXCEPT !.cooling = TRUE] \in Switches
      BY SwitchEdits
    <3> QED BY <1>2, <3>1, <3>2 DEF Disable, DisableSkips, DisableBegins
  <2>3. call' \in Calls
    BY <1>2, CallMoves DEF Disable, DisableSkips, DisableBegins
  <2> QED BY <1>2, <2>1, <2>2, <2>3 DEF Disable, DisableSkips, DisableBegins
<1>3. CASE CleanJump
  <2>1. fw' \in Firewalls /\ faults' \in 0..MaxFaults
    <3> DEFINE v == IF Reaches THEN Unhooked(fw.v4) ELSE fw.v4
    <3>1. v \in V4States
      BY FilterEdits, ChainEdits
    <3>2. [fw EXCEPT !.v4 = v] \in Firewalls
      BY <3>1, FilterEdits
    <3> QED BY <1>3, <3>2, FaultEdits DEF CleanJump
  <2>2. ks' \in Switches
    BY <1>3, SwitchEdits, Constants DEF CleanJump
  <2>3. call' \in Calls
    BY <1>3, CallMoves DEF CleanJump
  <2> QED BY <1>3, <2>1, <2>2, <2>3 DEF CleanJump
<1>4. CASE CleanChain
  <2>1. fw' \in Firewalls /\ faults' \in 0..MaxFaults
    <3> DEFINE v == IF Reaches THEN Emptied(fw.v4) ELSE fw.v4
    <3>1. v \in V4States
      BY FilterEdits, ChainEdits
    <3>2. [fw EXCEPT !.v4 = v] \in Firewalls
      BY <3>1, FilterEdits
    <3> QED BY <1>4, <3>2, FaultEdits DEF CleanChain
  <2>2. ks' \in Switches
    BY <1>4, SwitchEdits, Constants DEF CleanChain
  <2>3. call' \in Calls
    BY <1>4, CallMoves DEF CleanChain
  <2> QED BY <1>4, <2>1, <2>2, <2>3 DEF CleanChain
<1>5. CASE CleanV6
  <2>1. fw' \in Firewalls /\ faults' \in 0..MaxFaults
    BY <1>5, FilterEdits, Constants, FaultEdits DEF CleanV6
  <2>2. ks' \in Switches
    BY <1>5, SwitchEdits, Constants DEF CleanV6
  <2>3. call' \in Calls
    BY <1>5, CallMoves DEF CleanV6
  <2> QED BY <1>5, <2>1, <2>2, <2>3 DEF CleanV6
<1>6. CASE CleanTable
  <2>1. fw' \in Firewalls /\ faults' \in 0..MaxFaults
    BY <1>6, FilterEdits, Constants, FaultEdits DEF CleanTable
  <2>2. ks' \in Switches
    <3>1. [ks EXCEPT !.backend = "nft"] \in Switches
      BY SwitchEdits, Constants
    <3>2. [ks EXCEPT !.enabled = FALSE] \in Switches
      BY SwitchEdits
    <3>3. ks' \in {ks, [ks EXCEPT !.backend = "nft"], [ks EXCEPT !.enabled = FALSE]}
      BY <1>6 DEF CleanTable
    <3> QED BY <3>1, <3>2, <3>3
  <2>3. call' \in Calls
    BY <1>6, CallMoves DEF CleanTable
  <2> QED BY <1>6, <2>1, <2>2, <2>3 DEF CleanTable
<1>7. CASE SelectBackend
  <2>1. fw' \in Firewalls /\ faults' \in 0..MaxFaults
    BY <1>7, FilterEdits, Constants, FaultEdits DEF SelectBackend
  <2>2. ks' \in Switches
    BY <1>7, SwitchEdits, Constants DEF SelectBackend
  <2>3. call' \in Calls
    BY <1>7, CallMoves DEF SelectBackend
  <2> QED BY <1>7, <2>1, <2>2, <2>3 DEF SelectBackend
<1>8. CASE ApplyNft
  <2>1. fw' \in Firewalls /\ faults' \in 0..MaxFaults
    BY <1>8, FilterEdits, Constants, FaultEdits DEF ApplyNft
  <2>2. ks' \in Switches
    BY <1>8, SwitchEdits, Constants DEF ApplyNft
  <2>3. call' \in Calls
    BY <1>8, CallMoves DEF ApplyNft
  <2> QED BY <1>8, <2>1, <2>2, <2>3 DEF ApplyNft
<1>9. CASE Fill
  <2>1. fw' \in Firewalls /\ faults' \in 0..MaxFaults
    BY <1>9, FilterEdits, Constants, FaultEdits DEF Fill, FailScript
  <2>2. ks' \in Switches
    BY <1>9, SwitchEdits, Constants DEF Fill, FailScript
  <2>3. call' \in Calls
    BY <1>9, CallMoves DEF Fill, FailScript
  <2> QED BY <1>9, <2>1, <2>2, <2>3 DEF Fill, FailScript
<1>10. CASE Insert
  <2>1. fw' \in Firewalls /\ faults' \in 0..MaxFaults
    BY <1>10, FilterEdits, Constants, FaultEdits DEF Insert, FailScript
  <2>2. ks' \in Switches
    BY <1>10, SwitchEdits, Constants DEF Insert, FailScript
  <2>3. call' \in Calls
    BY <1>10, CallMoves DEF Insert, FailScript
  <2> QED BY <1>10, <2>1, <2>2, <2>3 DEF Insert, FailScript
<1>11. CASE Fill6
  <2>1. fw' \in Firewalls /\ faults' \in 0..MaxFaults
    BY <1>11, FilterEdits, Constants, FaultEdits DEF Fill6, FailScript
  <2>2. ks' \in Switches
    BY <1>11, SwitchEdits, Constants DEF Fill6, FailScript
  <2>3. call' \in Calls
    BY <1>11, CallMoves DEF Fill6, FailScript
  <2> QED BY <1>11, <2>1, <2>2, <2>3 DEF Fill6, FailScript
<1>12. CASE DropTable
  <2>1. fw' \in Firewalls /\ faults' \in 0..MaxFaults
    BY <1>12, FilterEdits, Constants, FaultEdits DEF DropTable
  <2>2. ks' \in Switches
    BY <1>12, SwitchEdits, Constants DEF DropTable
  <2>3. call' \in Calls
    BY <1>12, CallMoves DEF DropTable
  <2> QED BY <1>12, <2>1, <2>2, <2>3 DEF DropTable
<1>13. CASE SyncState
  <2>1. fw' \in Firewalls /\ faults' \in 0..MaxFaults
    BY <1>13, FilterEdits, Constants, FaultEdits DEF SyncState
  <2>2. ks' \in Switches
    <3>1. Synced(fw, ks) \in Switches /\ [ks EXCEPT !.enabled = FALSE] \in Switches
      BY SyncedType, SwitchEdits
    <3> QED BY <1>13, <3>1 DEF SyncState
  <2>3. call' \in Calls
    BY <1>13, CallMoves DEF SyncState
  <2> QED BY <1>13, <2>1, <2>2, <2>3 DEF SyncState
<1>14. CASE CoolDown
  <2>1. fw' \in Firewalls /\ faults' \in 0..MaxFaults
    BY <1>14, FilterEdits, Constants, FaultEdits DEF CoolDown
  <2>2. ks' \in Switches
    BY <1>14, SwitchEdits, Constants DEF CoolDown
  <2>3. call' \in Calls
    BY <1>14, CallMoves DEF CoolDown
  <2> QED BY <1>14, <2>1, <2>2, <2>3 DEF CoolDown
<1>15. CASE Quit
  <2>1. fw' \in Firewalls /\ faults' \in 0..MaxFaults
    BY <1>15, CleanupType DEF Quit
  <2>2. ks' \in Switches
    BY <1>15, SyncedType DEF Quit
  <2>3. call' \in Calls
    BY <1>15, CallMoves DEF Quit
  <2> QED BY <1>15, <2>1, <2>2, <2>3 DEF Quit
<1>16. CASE Exit
  <2>1. fw' \in Firewalls /\ faults' \in 0..MaxFaults
    BY <1>16, CleanupType DEF Exit
  <2>2. ks' \in Switches
    BY <1>16, Constants DEF Exit
  <2>3. call' \in Calls
    BY <1>16, CallMoves DEF Exit
  <2> QED BY <1>16, <2>1, <2>2, <2>3 DEF Exit
<1>17. CASE Crash
  <2>1. fw' \in Firewalls /\ faults' \in 0..MaxFaults
    BY <1>17, FilterEdits, Constants, FaultEdits DEF Crash
  <2>2. ks' \in Switches
    BY <1>17, Constants DEF Crash
  <2>3. call' \in Calls
    BY <1>17, CallMoves DEF Crash
  <2> QED BY <1>17, <2>1, <2>2, <2>3 DEF Crash
<1>18. CASE Start
  <2>1. fw' \in Firewalls /\ faults' \in 0..MaxFaults
    BY <1>18, CleanupType DEF Start
  <2>2. ks' \in Switches
    BY <1>18, SyncedType, Constants DEF Start
  <2>3. call' \in Calls
    BY <1>18, CallMoves DEF Start
  <2> QED BY <1>18, <2>1, <2>2, <2>3 DEF Start
<1>19. CASE Tamper
  <2>1. fw' \in Firewalls /\ faults' \in 0..MaxFaults
    <3>1. Unhooked(fw.v4) \in V4States
      BY FilterEdits, ChainEdits
    <3>2. [fw EXCEPT !.v4 = Unhooked(fw.v4)] \in Firewalls
      BY <3>1, FilterEdits
    <3> QED BY <1>19, <3>2, FilterEdits DEF Tamper
  <2>2. ks' \in Switches
    BY <1>19, SwitchEdits, Constants DEF Tamper
  <2>3. call' \in Calls
    BY <1>19, CallMoves DEF Tamper
  <2> QED BY <1>19, <2>1, <2>2, <2>3 DEF Tamper
<1>20. CASE UNCHANGED ksVars
  BY <1>20 DEF ksVars
<1> QED BY <1>1, <1>2, <1>3, <1>4, <1>5, <1>6, <1>7, <1>8, <1>9, <1>10, <1>11,
           <1>12, <1>13, <1>14, <1>15, <1>16, <1>17, <1>18, <1>19, <1>20
        DEF Next, KsStep

\* KillSwitch is type correct: every field of the struct, of the filter and of
\* the call in progress keeps its range, for every host and number of faults.
THEOREM TypeCorrect == Spec => []TypeOK
<1>1. Init => TypeOK
  BY KillSwitchAssumption
     DEF Init, TypeOK, NoRules, Firewalls, V4States, NewSwitch, Switches, Backends,
         Calls, Pcs, Goals
<1>2. TypeOK /\ [Next]_ksVars => TypeOK'
  BY TypeStep
<1> QED BY <1>1, <1>2, PTL DEF Spec

----------------------------------------------------------------------------
(* Where every command works and the filter is Shroud's own *)

Reliable == MaxFaults = 0 /\ Tampering = FALSE /\ "legacy" \notin Hosts

\* What the chain can be at each point of a call.  A call that builds starts
\* from no chain at all.
ChainFollowsCall ==
    /\ call.pc \in {"idle", "exiting"} => fw.v4 \in {"none", "on"}
    /\ call.pc = "jump" => fw.v4 = "none" \/ (fw.v4 = "on" /\ call.goal = "remove")
    /\ call.pc = "chain" => fw.v4 = "none" \/ (fw.v4 = "chain" /\ call.goal = "remove")
    /\ call.pc \in {"v6", "table", "select", "nft", "drop", "fill"} => fw.v4 = "none"
    /\ call.pc = "insert" => fw.v4 = "chain"
    /\ call.pc = "fill6" => fw.v4 = "on"
    /\ call.pc = "dead" => fw.v4 # "hollow"

\* Each host uses one backend.
OneBackend ==
    /\ host \in {"nft", "iptables"}
    /\ host = "nft" => fw.v4 = "none"
    /\ host = "iptables" => ~fw.nft /\ ks.backend = "iptables"
    /\ call.pc \in {"nft", "drop"} => host = "nft" /\ ks.backend = "nft"
    /\ call.pc \in {"fill", "insert", "fill6"} => host = "iptables"

\* A call in progress is a build or a removal, and a build starts without table.
\* (With failing commands a build may also be a fallback to nft.)
GoalFollowsCall ==
    /\ call.pc \in CleanupPcs => call.goal \in {"build", "remove"}
    /\ call.pc = "drop" => call.goal = "remove"
    /\ call.pc \in CleanupPcs /\ call.goal = "build" => ~fw.nft
    /\ call.pc \in BuildPcs => call.goal = "build" /\ ~fw.nft

\* Between calls the struct is exact, and names the backend that filters.
StructExact ==
    Idle => /\ ks.enabled <=> Filters(fw)
            /\ ks.enabled => Found(fw, ks.backend)

ExactInv ==
    TypeOK /\ ChainFollowsCall /\ OneBackend /\ GoalFollowsCall /\ StructExact

\* No command fails.
LEMMA NoFaults ==
    ASSUME Reliable, TypeOK
    PROVE  faults = 0 /\ ~Fault
BY KillSwitchAssumption DEF Reliable, TypeOK, Fault

\* What sync_state finds on such a host: the struct is exact afterwards.
LEMMA SyncedExact ==
    ASSUME NEW f \in Firewalls, NEW k \in Switches,
           host \in {"nft", "iptables"}, f.v4 \in {"none", "on"},
           host = "nft" => f.v4 = "none",
           host = "iptables" => ~f.nft /\ k.backend = "iptables"
    PROVE  /\ Synced(f, k).enabled <=> Filters(f)
           /\ Synced(f, k).enabled => Found(f, Synced(f, k).backend)
           /\ host = "iptables" => Synced(f, k).backend = "iptables"
<1> DEFINE live == {b \in Backends : Found(f, b)}
<1>1. live = {} <=> ~Filters(f)
  BY DEF Found, Filters, Backends, Reaches
<1>2. CASE live = {}
  <2>1. Synced(f, k) = [k EXCEPT !.enabled = FALSE]
    BY <1>2 DEF Synced
  <2> QED BY <2>1, <1>1, <1>2 DEF Switches
<1>3. CASE live # {}
  <2>1. PICK b \in live : Synced(f, k) = [k EXCEPT !.enabled = TRUE, !.backend = b]
    BY <1>3 DEF Synced
  <2>2. host = "iptables" => b = "iptables"
    BY DEF Found, Backends
  <2> QED BY <2>1, <2>2, <1>1, <1>3 DEF Switches
<1> QED BY <1>2, <1>3


\* What each step of a call does to the fields, when no command fails.
LEMMA EnableEffect ==
    ASSUME fw \in Firewalls, ks \in Switches, call \in Calls, ~Fault, Enable
    PROVE  /\ host' = host
           /\ \/ call'.pc = "idle" /\ fw' = fw /\ ks' = ks
              \/ /\ call'.pc = "jump" /\ call'.goal = "build" /\ fw' = fw
                 /\ ks'.backend = ks.backend /\ ~Satisfied
BY DEF Enable, EnableSkips, EnableBegins, NoFault, Begin, Idle, Switches, Calls

\* disable() starts: it skips, or takes the path of the backend in use.
LEMMA DisableEffect ==
    ASSUME fw \in Firewalls, ks \in Switches, call \in Calls, ~Fault, Disable
    PROVE  /\ host' = host
           /\ \/ call'.pc = "idle" /\ fw' = fw /\ ks' = ks
              \/ /\ \/ ks.backend = "nft" /\ call'.pc = "drop"
                    \/ ks.backend = "iptables" /\ call'.pc = "jump"
                 /\ call'.goal = "remove" /\ fw' = fw /\ ks'.backend = ks.backend
BY DEF Disable, DisableSkips, DisableBegins, NoFault, Begin, Idle, Switches, Calls

\* Deleting the jumps leaves no jump, full or hollow.
LEMMA CleanJumpEffect ==
    ASSUME fw \in Firewalls, ks \in Switches, call \in Calls, ~Fault, CleanJump
    PROVE  /\ host' = host
           /\ call'.pc = "chain" /\ call'.goal = call.goal /\ ks' = ks
           /\ fw'.v4 = (IF Reaches THEN Unhooked(fw.v4) ELSE fw.v4) /\ fw'.nft = fw.nft
BY DEF CleanJump, NoFault, Goto, Firewalls, Calls

\* Flushing and deleting a chain without a jump removes it.
LEMMA CleanChainEffect ==
    ASSUME fw \in Firewalls, ks \in Switches, call \in Calls, ~Fault, CleanChain
    PROVE  /\ host' = host
           /\ call'.pc = "v6" /\ call'.goal = call.goal /\ ks' = ks
           /\ fw'.v4 = (IF Reaches THEN Emptied(fw.v4) ELSE fw.v4) /\ fw'.nft = fw.nft
BY DEF CleanChain, NoFault, Goto, Firewalls, Calls

\* Deleting the IPv6 rules touches neither chain nor table.
LEMMA CleanV6Effect ==
    ASSUME fw \in Firewalls, ks \in Switches, call \in Calls, ~Fault, CleanV6
    PROVE  /\ host' = host
           /\ call'.pc = "table" /\ call'.goal = call.goal /\ ks' = ks
           /\ fw'.v4 = fw.v4 /\ fw'.nft = fw.nft
BY DEF CleanV6, NoFault, Goto, Firewalls, Calls

\* After the nft table is deleted the call builds, or disable() ends.
LEMMA CleanTableEffect ==
    ASSUME fw \in Firewalls, ks \in Switches, call \in Calls, ~Fault,
           call.goal \in {"build", "remove"}, CleanTable
    PROVE  /\ host' = host
           /\ fw'.v4 = fw.v4 /\ fw'.nft = FALSE /\ ks'.backend = ks.backend
           /\ \/ call.goal = "build" /\ call'.goal = "build" /\ call'.pc = "select"
              \/ call.goal = "remove" /\ call'.pc = "idle" /\ ks'.enabled = FALSE
BY DEF CleanTable, NoFault, Goto, Return, Firewalls, Switches, Calls

\* select_backend names the backend whose commands run next.
LEMMA SelectBackendEffect ==
    ASSUME fw \in Firewalls, ks \in Switches, call \in Calls, ~Fault,
           host \in {"nft", "iptables"}, SelectBackend
    PROVE  /\ host' = host
           /\ fw' = fw /\ call'.goal = call.goal
           /\ \/ host = "nft" /\ call'.pc = "nft" /\ ks'.backend = "nft"
              \/ host = "iptables" /\ call'.pc = "fill" /\ ks'.backend = "iptables"
BY DEF SelectBackend, NoFault, Goto, Switches, Calls

\* enable_nft ends the call with the table in place and the struct enabled.
LEMMA ApplyNftEffect ==
    ASSUME fw \in Firewalls, ks \in Switches, call \in Calls, ~Fault, ApplyNft
    PROVE  /\ host' = host
           /\ call'.pc = "idle" /\ fw'.v4 = fw.v4 /\ fw'.nft = TRUE
           /\ ks'.enabled = TRUE /\ ks'.backend = ks.backend
BY ZenonT(30) DEF ApplyNft, NoFault, Return, Firewalls, Switches, Calls

\* The script fills a new chain that OUTPUT does not jump to yet.
LEMMA FillEffect ==
    ASSUME fw \in Firewalls, ks \in Switches, call \in Calls, ~Fault,
           fw.v4 = "none", Fill
    PROVE  /\ host' = host
           /\ call'.pc = "insert" /\ call'.goal = call.goal /\ ks' = ks
           /\ fw'.v4 = "chain" /\ fw'.nft = fw.nft
BY DEF Fill, NoFault, Goto, Firewalls, Calls

\* The jump goes to a complete chain.
LEMMA InsertEffect ==
    ASSUME fw \in Firewalls, ks \in Switches, call \in Calls, ~Fault, Insert
    PROVE  /\ host' = host
           /\ call'.pc = "fill6" /\ call'.goal = call.goal /\ ks' = ks
           /\ fw'.v4 = "on" /\ fw'.nft = fw.nft
BY DEF Insert, NoFault, Goto, Firewalls, Calls

\* The IPv6 rules end the call with the struct enabled.
LEMMA Fill6Effect ==
    ASSUME fw \in Firewalls, ks \in Switches, call \in Calls, ~Fault, Fill6
    PROVE  /\ host' = host
           /\ call'.pc = "idle" /\ ks'.enabled = TRUE /\ ks'.backend = ks.backend
           /\ fw'.v4 = fw.v4 /\ fw'.nft = fw.nft
BY DEF Fill6, NoFault, Return, Firewalls, Switches, Calls

\* disable_nft ends the call with no table and the struct disabled.
LEMMA DropTableEffect ==
    ASSUME fw \in Firewalls, ks \in Switches, call \in Calls, ~Fault, DropTable
    PROVE  /\ host' = host
           /\ call'.pc = "idle" /\ ks'.enabled = FALSE /\ ks'.backend = ks.backend
           /\ fw'.v4 = fw.v4 /\ fw'.nft = FALSE
BY DEF DropTable, NoFault, Return, Firewalls, Switches, Calls

\* The cleanup at exit and startup removes the chain, or finds none and edits nothing.
LEMMA CleanupEffect ==
    ASSUME fw \in Firewalls, ~Fault, host \in {"nft", "iptables"}, Cleanup
    PROVE  /\ fw.v4 = "none" => fw' = fw
           /\ fw'.v4 = "none"
           /\ fw'.nft => fw.nft
BY DEF Cleanup, CleanedUp, NoFault, Reaches, Firewalls

\* One step preserves the invariant: for each action, its effect on the fields,
\* then the invariant.
LEMMA ExactStep ==
    ASSUME Reliable, ExactInv, [Next]_ksVars, TypeOK'
    PROVE  ExactInv'
<1> DEFINE Rest == /\ ChainFollowsCall /\ OneBackend /\ GoalFollowsCall /\ StructExact
<1>0. /\ fw \in Firewalls /\ ks \in Switches /\ call \in Calls
      /\ ~Fault /\ host \in {"nft", "iptables"}
  BY NoFaults DEF TypeOK, ExactInv, OneBackend
<1>1. Rest
  BY DEF ExactInv
<1> SUFFICES Rest'
  BY DEF ExactInv
<1> USE DEF ChainFollowsCall, OneBackend, GoalFollowsCall, StructExact, Idle, Filters,
            Found, Reaches, CleanupPcs, BuildPcs
<1>2. CASE Enable
  <2>1. /\ host' = host
        /\ \/ call'.pc = "idle" /\ fw' = fw /\ ks' = ks
           \/ /\ call'.pc = "jump" /\ call'.goal = "build" /\ fw' = fw
              /\ ks'.backend = ks.backend /\ ~Satisfied
    BY <1>0, <1>2, EnableEffect
  <2>2. Idle
    BY <1>2 DEF Enable, EnableSkips, EnableBegins
  <2> QED BY <1>1, <2>1, <2>2 DEF Satisfied
<1>3. CASE Disable
  <2>1. /\ host' = host
        /\ \/ call'.pc = "idle" /\ fw' = fw /\ ks' = ks
           \/ /\ \/ ks.backend = "nft" /\ call'.pc = "drop"
                 \/ ks.backend = "iptables" /\ call'.pc = "jump"
              /\ call'.goal = "remove" /\ fw' = fw /\ ks'.backend = ks.backend
    BY <1>0, <1>3, DisableEffect
  <2>2. Idle
    BY <1>3 DEF Disable, DisableSkips, DisableBegins
  <2> QED BY <1>1, <2>1, <2>2
<1>4. CASE CleanJump
  <2>1. /\ host' = host
        /\ call'.pc = "chain" /\ call'.goal = call.goal /\ ks' = ks
        /\ fw'.v4 = (IF Reaches THEN Unhooked(fw.v4) ELSE fw.v4) /\ fw'.nft = fw.nft
    BY <1>0, <1>4, CleanJumpEffect
  <2>2. call.pc = "jump"
    BY <1>4 DEF CleanJump
  <2> QED BY <1>1, <2>1, <2>2 DEF Unhooked
<1>5. CASE CleanChain
  <2>1. /\ host' = host
        /\ call'.pc = "v6" /\ call'.goal = call.goal /\ ks' = ks
        /\ fw'.v4 = (IF Reaches THEN Emptied(fw.v4) ELSE fw.v4) /\ fw'.nft = fw.nft
    BY <1>0, <1>5, CleanChainEffect
  <2>2. call.pc = "chain"
    BY <1>5 DEF CleanChain
  <2> QED BY <1>1, <2>1, <2>2 DEF Emptied
<1>6. CASE CleanV6
  <2>1. /\ host' = host
        /\ call'.pc = "table" /\ call'.goal = call.goal /\ ks' = ks
        /\ fw'.v4 = fw.v4 /\ fw'.nft = fw.nft
    BY <1>0, <1>6, CleanV6Effect
  <2>2. call.pc = "v6"
    BY <1>6 DEF CleanV6
  <2> QED BY <1>1, <2>1, <2>2
<1>7. CASE CleanTable
  <2>1. /\ host' = host
        /\ fw'.v4 = fw.v4 /\ fw'.nft = FALSE /\ ks'.backend = ks.backend
        /\ \/ call.goal = "build" /\ call'.goal = "build" /\ call'.pc = "select"
           \/ call.goal = "remove" /\ call'.pc = "idle" /\ ks'.enabled = FALSE
    BY <1>0, <1>1, <1>7, CleanTableEffect DEF CleanTable
  <2>2. call.pc = "table"
    BY <1>7 DEF CleanTable
  <2> QED BY <1>1, <2>1, <2>2
<1>8. CASE SelectBackend
  <2>1. /\ host' = host
        /\ fw' = fw /\ call'.goal = call.goal
        /\ \/ host = "nft" /\ call'.pc = "nft" /\ ks'.backend = "nft"
           \/ host = "iptables" /\ call'.pc = "fill" /\ ks'.backend = "iptables"
    BY <1>0, <1>8, SelectBackendEffect
  <2>2. call.pc = "select"
    BY <1>8 DEF SelectBackend
  <2> QED BY <1>1, <2>1, <2>2
<1>9. CASE ApplyNft
  <2>1. /\ host' = host
        /\ call'.pc = "idle" /\ fw'.v4 = fw.v4 /\ fw'.nft = TRUE
        /\ ks'.enabled = TRUE /\ ks'.backend = ks.backend
    BY <1>0, <1>9, ApplyNftEffect
  <2>2. call.pc = "nft"
    BY <1>9 DEF ApplyNft
  <2> QED BY <1>1, <2>1, <2>2
<1>10. CASE Fill
  <2>1. /\ host' = host
        /\ call'.pc = "insert" /\ call'.goal = call.goal /\ ks' = ks
        /\ fw'.v4 = "chain" /\ fw'.nft = fw.nft
    BY <1>0, <1>1, <1>10, FillEffect DEF Fill
  <2>2. call.pc = "fill"
    BY <1>10 DEF Fill
  <2> QED BY <1>1, <2>1, <2>2
<1>11. CASE Insert
  <2>1. /\ host' = host
        /\ call'.pc = "fill6" /\ call'.goal = call.goal /\ ks' = ks
        /\ fw'.v4 = "on" /\ fw'.nft = fw.nft
    BY <1>0, <1>11, InsertEffect
  <2>2. call.pc = "insert"
    BY <1>11 DEF Insert
  <2> QED BY <1>1, <2>1, <2>2
<1>12. CASE Fill6
  <2>1. /\ host' = host
        /\ call'.pc = "idle" /\ ks'.enabled = TRUE /\ ks'.backend = ks.backend
        /\ fw'.v4 = fw.v4 /\ fw'.nft = fw.nft
    BY <1>0, <1>12, Fill6Effect
  <2>2. call.pc = "fill6"
    BY <1>12 DEF Fill6
  <2> QED BY <1>1, <2>1, <2>2
<1>13. CASE DropTable
  <2>1. /\ host' = host
        /\ call'.pc = "idle" /\ ks'.enabled = FALSE /\ ks'.backend = ks.backend
        /\ fw'.v4 = fw.v4 /\ fw'.nft = FALSE
    BY <1>0, <1>13, DropTableEffect
  <2>2. call.pc = "drop"
    BY <1>13 DEF DropTable
  <2> QED BY <1>1, <2>1, <2>2
<1>14. CASE SyncState
  <2>1. Idle /\ fw' = fw /\ call' = call /\ host' = host /\ ks' = Synced(fw, ks)
    BY <1>0, <1>14 DEF SyncState
  <2>2. /\ ks'.enabled <=> Filters(fw)
        /\ ks'.enabled => Found(fw, ks'.backend)
        /\ host = "iptables" => ks'.backend = "iptables"
    BY <1>0, <1>1, <1>14, <2>1, SyncedExact DEF SyncState
  <2> QED BY <1>1, <2>1, <2>2
<1>15. CASE CoolDown
  <2>1. /\ host' = host /\ fw' = fw /\ call' = call
        /\ ks'.enabled = ks.enabled /\ ks'.backend = ks.backend
    BY <1>0, <1>15 DEF CoolDown, Switches
  <2> QED BY <1>1, <2>1
<1>16. CASE Quit
  <2>1. host' = host /\ call'.pc = "exiting" /\ Idle
    BY <1>0, <1>16 DEF Quit, Goto, Calls
  <2>2. fw'.v4 \in {"none", "on"} /\ (host = "nft" => fw'.v4 = "none")
    BY <1>0, <1>1, <1>16, <2>1, CleanupEffect DEF Quit
  <2>3. host = "iptables" => ~fw'.nft
    BY <1>0, <1>1, <1>16, CleanupEffect DEF Quit
  <2>4. host = "iptables" => ks'.backend = "iptables"
    <3>1. fw' \in Firewalls
      BY DEF TypeOK
    <3>2. host = "iptables" => Synced(fw', ks).backend = "iptables"
      BY <1>0, <1>1, <2>2, <2>3, <3>1, SyncedExact
    <3> QED BY <1>1, <1>16, <3>2 DEF Quit
  <2> QED BY <1>1, <2>1, <2>2, <2>3, <2>4
<1>17. CASE Exit
  <2>1. /\ host' = host /\ call'.pc = "dead" /\ call.pc = "exiting"
        /\ ks'.backend = "iptables"
    BY <1>0, <1>17 DEF Exit, Calls, NewSwitch
  <2>2. fw'.v4 \in {"none", "on"} /\ (host = "nft" => fw'.v4 = "none")
    BY <1>0, <1>1, <1>17, <2>1, CleanupEffect DEF Exit
  <2>3. host = "iptables" => ~fw'.nft
    BY <1>0, <1>1, <1>17, CleanupEffect DEF Exit
  <2> QED BY <1>1, <2>1, <2>2, <2>3
<1>18. CASE Crash
  <2>1. host' = host /\ fw' = fw /\ call'.pc = "dead" /\ ks'.backend = "iptables"
    BY <1>0, <1>18 DEF Crash, Calls, NewSwitch
  <2>2. fw.v4 # "hollow"
    BY <1>0, <1>1 DEF Calls, Pcs
  <2> QED BY <1>1, <2>1, <2>2
<1>19. CASE Start
  <2>1. host' = host /\ call'.pc = "idle" /\ ks' = Synced(fw', NewSwitch)
    BY <1>0, <1>19 DEF Start, Goto, Calls
  <2>2. fw'.v4 = "none" /\ (host = "iptables" => ~fw'.nft)
    BY <1>0, <1>1, <1>19, CleanupEffect DEF Start
  <2>3. NewSwitch \in Switches /\ NewSwitch.backend = "iptables" /\ fw' \in Firewalls
    BY Constants DEF NewSwitch, TypeOK
  <2>4. /\ ks'.enabled <=> Filters(fw')
        /\ ks'.enabled => Found(fw', ks'.backend)
        /\ host = "iptables" => ks'.backend = "iptables"
    BY <1>0, <2>1, <2>2, <2>3, SyncedExact
  <2> QED BY <1>0, <2>1, <2>2, <2>4
<1>20. CASE Tamper
  BY <1>20 DEF Tamper, Reliable
<1>21. CASE UNCHANGED ksVars
  BY <1>1, <1>21 DEF ksVars
<1> QED BY <1>2, <1>3, <1>4, <1>5, <1>6, <1>7, <1>8, <1>9, <1>10, <1>11, <1>12,
           <1>13, <1>14, <1>15, <1>16, <1>17, <1>18, <1>19, <1>20, <1>21
        DEF Next, KsStep

\* The invariant holds initially,
LEMMA ExactStarts ==
    ASSUME Reliable, Init
    PROVE  ExactInv
<1>1. TypeOK
  BY KillSwitchAssumption
     DEF Init, TypeOK, NoRules, Firewalls, V4States, NewSwitch, Switches, Backends,
         Calls, Pcs, Goals
<1>2. host \in {"nft", "iptables"}
  BY KillSwitchAssumption DEF Init, Reliable, KindsOfHost
<1>3. call.pc = "dead" /\ fw.v4 = "none" /\ ~fw.nft /\ ks.backend = "iptables"
  BY DEF Init, NoRules, NewSwitch
<1> QED BY <1>1, <1>2, <1>3
        DEF ExactInv, ChainFollowsCall, OneBackend, GoalFollowsCall, StructExact, Idle,
            CleanupPcs, BuildPcs

\* hence always.
LEMMA ExactAlways ==
    ASSUME Reliable
    PROVE  Spec => []ExactInv
<1>1. Init => ExactInv
  BY ExactStarts
<1>2. TypeOK' /\ ExactInv /\ [Next]_ksVars => ExactInv'
  BY ExactStep
<1> QED BY <1>1, <1>2, TypeCorrect, PTL DEF Spec

\* On every such machine, wherever a call, a cleanup or the process stops, OUTPUT
\* never jumps to a chain that drops nothing.
THEOREM JumpIsCompleteHolds ==
    ASSUME Reliable
    PROVE  Spec => []JumpIsComplete
<1>1. ExactInv => JumpIsComplete
  BY DEF ExactInv, TypeOK, ChainFollowsCall, JumpIsComplete, Calls, Pcs, CleanupPcs, BuildPcs
<1> QED BY <1>1, ExactAlways, PTL

\* On every such machine the struct says enabled between calls if and only if
\* traffic is filtered, whatever crashed, quit or restarted before.
THEOREM EnabledIsFilteringHolds ==
    ASSUME Reliable
    PROVE  Spec => []EnabledIsFiltering
<1>1. ExactInv => EnabledIsFiltering
  BY DEF ExactInv, StructExact, EnabledIsFiltering
<1> QED BY <1>1, ExactAlways, PTL

\* A filter that was closed opens while disable() works, in a shutdown or at startup.
LEMMA OpensWhileRemoving ==
    ASSUME Reliable, ExactInv, Next, Filters(fw), ~Filters(fw')
    PROVE  \/ Busy /\ call.goal = "remove"
           \/ call'.pc = "exiting" \/ call.pc \in {"exiting", "dead"}
<1>1. /\ fw \in Firewalls /\ ks \in Switches /\ call \in Calls
      /\ ~Fault /\ host \in {"nft", "iptables"}
  BY NoFaults DEF TypeOK, ExactInv, OneBackend
<1>2. ChainFollowsCall /\ GoalFollowsCall
  BY DEF ExactInv
<1> USE DEF ChainFollowsCall, GoalFollowsCall, Filters, Busy, CleanupPcs, BuildPcs
<1>3. CASE Enable \/ Disable \/ SyncState \/ CoolDown \/ Crash \/ SelectBackend
  BY <1>3 DEF Enable, EnableSkips, EnableBegins, Disable, DisableSkips, DisableBegins,
              SyncState, CoolDown, Crash, SelectBackend
<1>4. CASE CleanJump
  BY <1>1, <1>2, <1>4, CleanJumpEffect DEF CleanJump
<1>5. CASE CleanChain
  BY <1>1, <1>2, <1>5, CleanChainEffect DEF CleanChain
<1>6. CASE CleanV6
  BY <1>1, <1>6, CleanV6Effect
<1>7. CASE CleanTable
  BY <1>1, <1>2, <1>7, CleanTableEffect DEF CleanTable
<1>8. CASE ApplyNft
  BY <1>1, <1>8, ApplyNftEffect
<1>9. CASE Fill
  BY <1>1, <1>2, <1>9, FillEffect DEF Fill
<1>10. CASE Insert
  BY <1>1, <1>10, InsertEffect
<1>11. CASE Fill6
  BY <1>1, <1>11, Fill6Effect
<1>12. CASE DropTable
  BY <1>2, <1>12 DEF DropTable
<1>13. CASE Quit
  BY <1>1, <1>13 DEF Quit, Goto, Calls
<1>14. CASE Exit \/ Start
  BY <1>14 DEF Exit, Start
<1>15. CASE Tamper
  BY <1>15 DEF Tamper, Reliable
<1> QED BY <1>3, <1>4, <1>5, <1>6, <1>7, <1>8, <1>9, <1>10, <1>11, <1>12, <1>13,
           <1>14, <1>15
        DEF Next, KsStep

\* On every such machine only disable(), a shutdown and the cleanup at startup
\* open a filter that was closed; enable() never does.
THEOREM OpensOnlyOnPurposeHolds ==
    ASSUME Reliable
    PROVE  Spec => OpensOnlyOnPurpose
<1> DEFINE Opens == Filters(fw) /\ ~Filters(fw') =>
                       \/ call.goal = "remove"
                       \/ call'.pc = "exiting" \/ call.pc \in {"exiting", "dead"}
<1>1. ExactInv /\ [Next]_ksVars => [Opens]_ksVars
  BY OpensWhileRemoving
<1> QED BY <1>1, ExactAlways, PTL DEF Spec, OpensOnlyOnPurpose

----------------------------------------------------------------------------
(* The refinement: what the calls do to the filter, a switch does *)

\* A step that leaves alone what the switch shows.
LEMMA SwitchRests ==
    ASSUME Filtering' = Filtering, Wanted' = Wanted, Life' = Life
    PROVE  UNCHANGED Switch!vars
BY DEF Switch!vars

\* A call starts.
LEMMA SwitchCalled ==
    ASSUME fw' = fw, Idle, Busy', call'.goal \in {"build", "remove"}
    PROVE  Switch!Next
<1>1. Filtering' = Filtering
  BY DEF Filtering, Filters
<1>2. Wanted = "none" /\ Life = "up" /\ Life' = "up"
  BY DEF Wanted, Life, Idle, Busy, CleanupPcs, BuildPcs
<1>3. Wanted' \in {"open", "closed"}
  BY DEF Wanted
<1> QED BY <1>1, <1>2, <1>3 DEF Switch!Next, Switch!Call

\* A command of a call: the filter stays as it was or comes to be as wanted.
LEMMA SwitchWorks ==
    ASSUME Busy, Busy', Wanted' = Wanted,
           Filtering' = Filtering \/ Filtering' = Wanted
    PROVE  [Switch!Next]_(Switch!vars)
<1>1. Life = "up" /\ Life' = "up"
  BY DEF Life, Busy, CleanupPcs, BuildPcs
<1>2. Wanted # "none"
  BY DEF Wanted
<1>3. CASE Filtering' = Filtering
  BY <1>1, <1>3, SwitchRests
<1>4. CASE Filtering' = Wanted
  BY <1>1, <1>2, <1>4 DEF Switch!Next, Switch!Act
<1> QED BY <1>3, <1>4

\* The last command of a call: the filter is as wanted.
LEMMA SwitchReturns ==
    ASSUME Busy, Idle', Filtering' = Wanted
    PROVE  Switch!Next
<1>1. Life = "up" /\ Life' = "up" /\ Wanted # "none" /\ Wanted' = "none"
  BY DEF Life, Wanted, Idle, Busy, CleanupPcs, BuildPcs
<1> QED BY <1>1 DEF Switch!Next, Switch!Return

\* Every step of the kill switch is a step of the switch, or none.
LEMMA SwitchStep ==
    ASSUME Reliable, ExactInv, [Next]_ksVars
    PROVE  [Switch!Next]_(Switch!vars)
<1>1. /\ fw \in Firewalls /\ ks \in Switches /\ call \in Calls
      /\ ~Fault /\ host \in {"nft", "iptables"}
  BY NoFaults DEF TypeOK, ExactInv, OneBackend
<1>2. ChainFollowsCall /\ GoalFollowsCall /\ OneBackend
  BY DEF ExactInv
<1> DEFINE Shown(f) == IF Filters(f) THEN "closed" ELSE "open"
<1>3. Filtering = Shown(fw) /\ Filtering' = Shown(fw')
  BY DEF Filtering, Filters
<1>4. CASE Enable
  <2>1. Idle /\ fw' = fw
    BY <1>4 DEF Enable, EnableSkips, EnableBegins
  <2>2. \/ call'.pc = "idle"
        \/ call'.pc = "jump" /\ call'.goal = "build"
    BY <1>1, <1>4, EnableEffect
  <2>3. CASE call'.pc = "idle"
    BY <1>3, <2>1, <2>3, SwitchRests DEF Wanted, Life, Idle, Busy, CleanupPcs, BuildPcs
  <2>4. CASE call'.pc = "jump" /\ call'.goal = "build"
    BY <2>1, <2>4, SwitchCalled DEF Busy, CleanupPcs
  <2> QED BY <2>2, <2>3, <2>4
<1>5. CASE Disable
  <2>1. Idle /\ fw' = fw
    BY <1>5 DEF Disable, DisableSkips, DisableBegins
  <2>2. \/ call'.pc = "idle"
        \/ call'.pc \in {"drop", "jump"} /\ call'.goal = "remove"
    BY <1>1, <1>5, DisableEffect
  <2>3. CASE call'.pc = "idle"
    BY <1>3, <2>1, <2>3, SwitchRests DEF Wanted, Life, Idle, Busy, CleanupPcs, BuildPcs
  <2>4. CASE call'.pc \in {"drop", "jump"} /\ call'.goal = "remove"
    BY <2>1, <2>4, SwitchCalled DEF Busy, CleanupPcs
  <2> QED BY <2>2, <2>3, <2>4
<1>6. CASE CleanJump
  <2>1. /\ call.pc = "jump" /\ call'.pc = "chain" /\ call'.goal = call.goal
        /\ fw'.v4 = Unhooked(fw.v4) /\ fw'.nft = fw.nft
    BY <1>1, <1>6, CleanJumpEffect DEF CleanJump, Reaches
  <2>2. Busy /\ Busy' /\ Wanted' = Wanted
    BY <2>1 DEF Wanted, Busy, CleanupPcs
  <2>3. CASE fw.v4 = "none"
    BY <1>3, <2>1, <2>2, <2>3, SwitchWorks DEF Filters, Unhooked
  <2>4. CASE fw.v4 = "on" /\ call.goal = "remove"
    <3>1. ~Filters(fw')
      BY <1>2, <2>1, <2>4 DEF OneBackend, Filters, Unhooked
    <3>2. Wanted = "open"
      BY <2>2, <2>4 DEF Wanted
    <3> QED BY <1>3, <2>2, <3>1, <3>2, SwitchWorks
  <2> QED BY <1>2, <2>1, <2>3, <2>4 DEF ChainFollowsCall
<1>7. CASE CleanChain \/ CleanV6
  <2>1. /\ call.pc \in {"chain", "v6"} /\ call'.pc \in {"v6", "table"}
        /\ call'.goal = call.goal /\ fw'.nft = fw.nft
    BY <1>1, <1>7, CleanChainEffect, CleanV6Effect DEF CleanChain, CleanV6
  <2>2. fw.v4 # "on" /\ fw'.v4 # "on"
    BY <1>1, <1>2, <1>7, CleanChainEffect, CleanV6Effect
       DEF CleanChain, CleanV6, Emptied, ChainFollowsCall
  <2>3. Busy /\ Busy' /\ Wanted' = Wanted
    BY <2>1 DEF Wanted, Busy, CleanupPcs
  <2> QED BY <1>3, <2>1, <2>2, <2>3, SwitchWorks DEF Filters
<1>8. CASE CleanTable
  <2>1. call.pc = "table" /\ fw.v4 = "none" /\ call.goal \in {"build", "remove"} /\ Busy
    BY <1>2, <1>8 DEF CleanTable, ChainFollowsCall, GoalFollowsCall, CleanupPcs, Busy
  <2>2. /\ ~Filters(fw')
        /\ \/ call.goal = "build" /\ call'.goal = "build" /\ call'.pc = "select"
           \/ call.goal = "remove" /\ call'.pc = "idle"
    BY <1>1, <1>8, <2>1, CleanTableEffect DEF Filters
  <2>3. CASE call.goal = "build" /\ call'.goal = "build" /\ call'.pc = "select"
    <3>1. ~Filters(fw)
      BY <1>2, <2>1, <2>3 DEF GoalFollowsCall, CleanupPcs, Filters
    <3>2. Busy' /\ Wanted' = Wanted
      BY <2>1, <2>3 DEF Wanted, Busy, BuildPcs
    <3> QED BY <1>3, <2>1, <2>2, <3>1, <3>2, SwitchWorks
  <2>4. CASE call.goal = "remove" /\ call'.pc = "idle"
    <3>1. Wanted = "open" /\ Idle'
      BY <2>1, <2>4 DEF Wanted, Idle
    <3> QED BY <1>3, <2>1, <2>2, <3>1, SwitchReturns
  <2> QED BY <2>2, <2>3, <2>4
<1>9. CASE SelectBackend
  <2>1. call.pc = "select" /\ call'.pc \in {"nft", "fill"} /\ fw' = fw /\ call'.goal = call.goal
    BY <1>1, <1>9, SelectBackendEffect DEF SelectBackend
  <2>2. Busy /\ Busy' /\ Wanted' = Wanted
    BY <2>1 DEF Wanted, Busy, BuildPcs
  <2> QED BY <1>3, <2>1, <2>2, SwitchWorks
<1>10. CASE ApplyNft \/ Fill6
  <2>1. call.pc \in {"nft", "fill6"} /\ Filters(fw') /\ call'.pc = "idle"
    BY <1>1, <1>2, <1>10, ApplyNftEffect, Fill6Effect
       DEF ApplyNft, Fill6, ChainFollowsCall, Filters
  <2>2. Busy /\ Idle' /\ Wanted = "closed"
    BY <1>2, <2>1 DEF Wanted, Busy, Idle, BuildPcs, GoalFollowsCall
  <2> QED BY <1>3, <2>1, <2>2, SwitchReturns
<1>11. CASE Fill
  <2>1. call.pc = "fill" /\ fw.v4 = "none"
    BY <1>2, <1>11 DEF Fill, ChainFollowsCall
  <2>2. call'.pc = "insert" /\ call'.goal = call.goal /\ fw'.v4 = "chain" /\ fw'.nft = fw.nft
    BY <1>1, <1>11, <2>1, FillEffect
  <2>3. Busy /\ Busy' /\ Wanted' = Wanted
    BY <2>1, <2>2 DEF Wanted, Busy, BuildPcs
  <2> QED BY <1>3, <2>1, <2>2, <2>3, SwitchWorks DEF Filters
<1>12. CASE Insert
  <2>1. call.pc = "insert" /\ call'.pc = "fill6" /\ call'.goal = call.goal /\ fw'.v4 = "on"
    BY <1>1, <1>12, InsertEffect DEF Insert
  <2>2. Busy /\ Busy' /\ Wanted' = Wanted /\ Wanted = "closed"
    BY <1>2, <2>1 DEF Wanted, Busy, BuildPcs, GoalFollowsCall
  <2> QED BY <1>3, <2>1, <2>2, SwitchWorks DEF Filters
<1>13. CASE DropTable
  <2>1. /\ call.pc = "drop" /\ fw.v4 = "none" /\ call.goal = "remove"
        /\ call'.pc = "idle" /\ fw'.v4 = fw.v4 /\ fw'.nft = FALSE
    BY <1>1, <1>2, <1>13, DropTableEffect DEF DropTable, ChainFollowsCall, GoalFollowsCall
  <2>2. Busy /\ Idle' /\ Wanted = "open"
    BY <2>1 DEF Wanted, Busy, Idle
  <2> QED BY <1>3, <2>1, <2>2, SwitchReturns DEF Filters
<1>14. CASE SyncState \/ CoolDown \/ UNCHANGED ksVars
  <2>1. fw' = fw /\ call' = call
    BY <1>14 DEF SyncState, CoolDown, ksVars
  <2> QED BY <1>3, <2>1, SwitchRests DEF Wanted, Life, Busy
<1>15. CASE Crash
  <2>1. fw' = fw /\ call'.pc = "dead"
    BY <1>1, <1>15 DEF Crash, Calls
  <2>2. Wanted' = "none" /\ Life' = "down"
    BY <2>1 DEF Wanted, Life, Busy, CleanupPcs, BuildPcs
  <2> QED BY <1>3, <2>1, <2>2 DEF Switch!Next, Switch!Die
<1>16. CASE Quit \/ Exit \/ Start
  <2>1. /\ call.pc \in {"idle", "exiting", "dead"} /\ call'.pc \in {"idle", "exiting", "dead"}
        /\ call.pc = "idle" => call'.pc = "exiting"
    BY <1>1, <1>16 DEF Quit, Exit, Start, Idle, Goto, Calls
  <2>2. Wanted = "none" /\ Wanted' = "none" /\ (Life = "down" \/ Life' = "down")
    BY <2>1 DEF Wanted, Life, Busy, CleanupPcs, BuildPcs
  <2>3. fw' = fw \/ Cleanup
    BY <1>16 DEF Quit, Exit, Start
  <2>4. Filters(fw') => Filters(fw)
    BY <1>1, <2>3, CleanupEffect DEF Filters
  <2> QED BY <1>3, <2>2, <2>4 DEF Switch!Next, Switch!CleansUp
<1>17. CASE Tamper
  BY <1>17 DEF Tamper, Reliable
<1> QED BY <1>4, <1>5, <1>6, <1>7, <1>8, <1>9, <1>10, <1>11, <1>12, <1>13, <1>14, <1>15,
           <1>16, <1>17
        DEF Next, KsStep

\* It starts open and down.
LEMMA SwitchStarts == Init => Switch!Init
BY DEF Init, NoRules, Switch!Init, Filtering, Filters, Wanted, Life, Busy, CleanupPcs, BuildPcs

\* On every machine where the commands work, enable() and disable(), taken command by
\* command with crashes anywhere, implement the switch: one moment each at which the
\* filter changes, no return before it, no opening on the way to closed.
THEOREM ActsAsSwitchHolds ==
    ASSUME Reliable
    PROVE  Spec => ActsAsSwitch
<1>1. ExactInv /\ [Next]_ksVars => [Switch!Next]_(Switch!vars)
  BY SwitchStep
<1> QED BY <1>1, ExactAlways, SwitchStarts, PTL DEF Spec, ActsAsSwitch, Switch!Spec

----------------------------------------------------------------------------
(* What a failed enable() leaves, whatever fails and whoever else edits *)

\* Before anything failed, and in a rollback, which something that failed began, no
\* command of the cleanup has failed: it goes on from no jump and then no chain.
CleanedSoFar ==
    faults = 0 \/ (faults = 1 /\ call.goal = "rollback") =>
        /\ call.pc = "chain" => fw.v4 \in {"none", "chain"}
        /\ call.pc \in {"v6", "table"} => fw.v4 = "none"

RollInv ==
    /\ TypeOK /\ Reaches
    /\ call.pc \in CleanupPcs /\ call.goal = "rollback" => faults >= 1
    /\ CleanedSoFar
    /\ faults = 0 => /\ call.pc \in {"select", "nft", "fill"} => fw.v4 = "none"
                     /\ call.pc = "select" => ~fw.nft
    /\ call.pc = "dead" => call.goal = "none"
    /\ call.pc = "drop" => call.goal = "remove"
    /\ AllOrNothing

\* A restart leaves the loop with the rules as they are.
Leaving == Idle /\ Goto("exiting") /\ UNCHANGED <<host, fw, ks, faults>>

\* The fields of the call in progress after each kind of move.
LEMMA CallFields ==
    ASSUME call \in Calls
    PROVE  /\ \A p : Goto(p) => call'.pc = p /\ call'.goal = call.goal /\ call'.ret = call.ret
           /\ \A p, g : Begin(p, g) => call'.pc = p /\ call'.goal = g /\ call'.ret = call.ret
           /\ \A r : Return(r) => call'.pc = "idle" /\ call'.goal = call.goal /\ call'.ret = r
           /\ call' = [call EXCEPT !.pc = "dead", !.goal = "none"] =>
                  call'.pc = "dead" /\ call'.goal = "none"
BY DEF Calls, Goto, Begin, Return

\* Each group of the cleanup takes effect, or a command of it failed and is counted:
\* the jumps,
LEMMA CleanJumpOrFault ==
    ASSUME fw \in Firewalls, call \in Calls, Reaches, CleanJump
    PROVE  /\ call.pc = "jump" /\ call'.pc = "chain" /\ call'.goal = call.goal
           /\ \/ faults' = faults /\ fw'.v4 = Unhooked(fw.v4)
              \/ faults' = faults + 1 /\ fw' = fw
<1> DEFINE v == Unhooked(fw.v4)
<1>1. \/ faults' = faults /\ fw' = [fw EXCEPT !.v4 = v]
      \/ faults' = faults + 1 /\ fw' = fw
  BY DEF CleanJump, NoFault, Fault
<1> HIDE DEF v
<1>2. (faults' = faults /\ fw'.v4 = v) \/ (faults' = faults + 1 /\ fw' = fw)
  BY <1>1 DEF Firewalls
<1> QED BY <1>2, CallFields DEF CleanJump, v

\* the chain,
LEMMA CleanChainOrFault ==
    ASSUME fw \in Firewalls, call \in Calls, Reaches, CleanChain
    PROVE  /\ call.pc = "chain" /\ call'.pc = "v6" /\ call'.goal = call.goal
           /\ \/ faults' = faults /\ fw'.v4 = Emptied(fw.v4)
              \/ faults' = faults + 1 /\ fw' = fw
<1> DEFINE v == Emptied(fw.v4)
<1>1. \/ faults' = faults /\ fw' = [fw EXCEPT !.v4 = v]
      \/ faults' = faults + 1 /\ fw' = fw
  BY DEF CleanChain, NoFault, Fault
<1> HIDE DEF v
<1>2. (faults' = faults /\ fw'.v4 = v) \/ (faults' = faults + 1 /\ fw' = fw)
  BY <1>1 DEF Firewalls
<1> QED BY <1>2, CallFields DEF CleanChain, v

\* the IPv6 rules,
LEMMA CleanV6OrFault ==
    ASSUME fw \in Firewalls, call \in Calls, CleanV6
    PROVE  /\ call.pc = "v6" /\ call'.pc = "table" /\ call'.goal = call.goal
           /\ fw'.v4 = fw.v4 /\ faults' \in {faults, faults + 1}
<1> DEFINE x == fw.v6 /\ ~Reaches
<1>1. fw' = [fw EXCEPT !.v6 = x] \/ fw' = fw
  BY DEF CleanV6
<1> HIDE DEF x
<1>2. fw'.v4 = fw.v4
  BY <1>1 DEF Firewalls
<1> QED BY <1>2, CallFields DEF CleanV6, NoFault, Fault

\* the table, after which the call goes on.
LEMMA CleanTableOrFault ==
    ASSUME fw \in Firewalls, call \in Calls, CleanTable
    PROVE  /\ call.pc = "table" /\ call'.goal = call.goal /\ fw'.v4 = fw.v4
           /\ \/ faults' = faults /\ ~fw'.nft
              \/ faults' = faults + 1
           /\ \/ call.goal = "build" /\ call'.pc = "select"
              \/ call.goal = "rollback" /\ call'.pc = "idle"
              \/ call.goal = "fallback" /\ call'.pc = "nft"
              \/ call.goal = "remove" /\ call'.pc = "idle"
<1>1. \/ faults' = faults /\ fw' = [fw EXCEPT !.nft = FALSE]
      \/ faults' = faults + 1 /\ fw' = fw
  BY DEF CleanTable, NoFault, Fault
<1>2. fw'.v4 = fw.v4 /\ ((faults' = faults /\ ~fw'.nft) \/ faults' = faults + 1)
  BY <1>1 DEF Firewalls
<1>3. /\ call.pc = "table" /\ call'.goal = call.goal
      /\ \/ call.goal = "build" /\ call'.pc = "select"
         \/ call.goal = "rollback" /\ call'.pc = "idle"
         \/ call.goal = "fallback" /\ call'.pc = "nft"
         \/ call.goal = "remove" /\ call'.pc = "idle"
  BY CallFields DEF CleanTable
<1> QED BY <1>2, <1>3

\* A step of the cleanup keeps what is known of it.
LEMMA RollCleanup ==
    ASSUME RollInv, TypeOK', CleanJump \/ CleanChain \/ CleanV6 \/ CleanTable
    PROVE  RollInv'
<1>1. fw \in Firewalls /\ call \in Calls /\ faults \in Nat /\ fw.v4 \in V4States /\ Reaches
  BY KillSwitchAssumption DEF RollInv, TypeOK, Firewalls
<1>2. Reaches'
  BY <1>1 DEF Reaches, CleanJump, CleanChain, CleanV6, CleanTable
<1> USE DEF RollInv, CleanedSoFar, AllOrNothing, Idle, CleanupPcs
<1>3. CASE CleanJump
  BY <1>1, <1>2, <1>3, CleanJumpOrFault DEF Unhooked, V4States
<1>4. CASE CleanChain
  BY <1>1, <1>2, <1>4, CleanChainOrFault DEF Emptied
<1>5. CASE CleanV6
  BY <1>1, <1>2, <1>5, CleanV6OrFault
<1>6. CASE CleanTable
  BY <1>1, <1>2, <1>6, CleanTableOrFault
<1> QED BY <1>3, <1>4, <1>5, <1>6

\* enable_nft returns Ok, or a command failed and no table is left.
LEMMA ApplyNftOrFault ==
    ASSUME fw \in Firewalls, call \in Calls, ApplyNft
    PROVE  /\ call.pc = "nft" /\ call'.pc = "idle" /\ call'.goal = call.goal
           /\ \/ call'.ret = "ok"
              \/ Fault /\ ~fw'.nft /\ fw'.v4 = fw.v4
<1>1. call.pc = "nft" /\ call'.pc = "idle" /\ call'.goal = call.goal
  BY CallFields DEF ApplyNft
<1>2. Return("ok") \/ (Fault /\ fw' = [fw EXCEPT !.nft = FALSE])
  BY DEF ApplyNft
<1>3. Return("ok") \/ (Fault /\ ~fw'.nft /\ fw'.v4 = fw.v4)
  BY <1>2 DEF Firewalls
<1> QED BY <1>1, <1>3, CallFields

\* The scripts go on, or fail; they fail without a fault only over an old chain.
LEMMA ScriptOrFault ==
    ASSUME call \in Calls
    PROVE  /\ FailScript => call'.pc = "jump" /\ call'.goal \in {"rollback", "fallback"}
           /\ Fill => /\ call.pc = "fill"
                      /\ \/ call'.pc = "insert"
                         \/ FailScript /\ (Fault \/ fw.v4 # "none")
           /\ Insert => call'.pc = "fill6" \/ (FailScript /\ Fault)
           /\ Fill6 => (call'.pc = "idle" /\ call'.ret = "ok") \/ (FailScript /\ Fault)
<1>1. FailScript => call'.pc = "jump" /\ call'.goal \in {"rollback", "fallback"}
  BY CallFields DEF FailScript
<1>2. Fill => call.pc = "fill" /\ (call'.pc = "insert" \/ (FailScript /\ (Fault \/ fw.v4 # "none")))
  BY CallFields DEF Fill
<1>3. Insert => call'.pc = "fill6" \/ (FailScript /\ Fault)
  BY CallFields DEF Insert
<1>4. Fill6 => (call'.pc = "idle" /\ call'.ret = "ok") \/ (FailScript /\ Fault)
  BY CallFields DEF Fill6
<1> QED BY <1>1, <1>2, <1>3, <1>4

\* A step of the build keeps it too: it rolls back only once something failed.
LEMMA RollBuild ==
    ASSUME RollInv, TypeOK', SelectBackend \/ ApplyNft \/ Fill \/ Insert \/ Fill6 \/ DropTable
    PROVE  RollInv'
<1>1. fw \in Firewalls /\ call \in Calls /\ faults \in Nat /\ Reaches
  BY KillSwitchAssumption DEF RollInv, TypeOK, Firewalls
<1>2. faults' \in {faults, faults + 1} /\ (Fault => faults' = faults + 1) /\ Reaches'
  BY <1>1 DEF SelectBackend, ApplyNft, Fill, Insert, Fill6, DropTable, NoFault, Fault, Reaches
<1>3. SelectBackend => /\ call.pc = "select" /\ fw' = fw
                       /\ call'.pc \in {"nft", "fill"} \/ (Fault /\ call'.pc = "idle")
  BY <1>1, CallFields DEF SelectBackend
<1>4. DropTable => call.pc = "drop" /\ call'.pc = "idle" /\ call'.goal = call.goal
  BY <1>1, CallFields DEF DropTable
<1> USE DEF RollInv, CleanedSoFar, AllOrNothing, Idle, CleanupPcs
<1>5. CASE SelectBackend
  BY <1>1, <1>2, <1>3, <1>5
<1>6. CASE ApplyNft
  BY <1>1, <1>2, <1>6, ApplyNftOrFault
<1>7. CASE Fill
  BY <1>1, <1>2, <1>7, ScriptOrFault
<1>8. CASE Insert \/ Fill6
  BY <1>1, <1>2, <1>8, ScriptOrFault
<1>9. CASE DropTable
  BY <1>1, <1>2, <1>4, <1>9
<1> QED BY <1>5, <1>6, <1>7, <1>8, <1>9

\* The other steps edit no chain between calls, or begin or end one.
LEMMA RollOthers ==
    ASSUME RollInv, TypeOK', Enable \/ Disable \/ SyncState \/ CoolDown \/ Quit \/ Exit
                                 \/ Crash \/ Start \/ Tamper \/ Leaving \/ UNCHANGED ksVars
    PROVE  RollInv'
<1>1. fw \in Firewalls /\ call \in Calls /\ faults \in Nat /\ Reaches
  BY KillSwitchAssumption DEF RollInv, TypeOK, Firewalls
<1>2. faults' \in {faults, faults + 1} /\ Reaches'
  BY <1>1 DEF Enable, EnableSkips, EnableBegins, Disable, DisableSkips, DisableBegins, SyncState,
              CoolDown, Quit, Exit, Crash, Start, Tamper, Leaving, Cleanup, NoFault, Fault,
              Reaches, ksVars
<1>3. Enable \/ Disable => \/ call'.pc = "idle" /\ call'.goal \in {"none", "remove"}
                           \/ call'.pc = "jump" /\ call'.goal \in {"build", "remove"}
                           \/ call'.pc = "drop" /\ call'.goal = "remove"
  <2>1. Enable => \/ call'.pc = "idle" /\ call'.goal = "none"
                  \/ call'.pc = "jump" /\ call'.goal = "build"
    BY <1>1 DEF Enable, EnableSkips, EnableBegins, Idle, Begin, Calls
  <2>2. DisableSkips => call'.pc = "idle" /\ call'.goal = "none"
    BY <1>1 DEF DisableSkips, Idle, Calls
  <2>3. DisableBegins => \/ call'.pc = "idle" /\ call'.goal = "remove"
                         \/ call'.pc = "jump" /\ call'.goal = "remove"
                         \/ call'.pc = "drop" /\ call'.goal = "remove"
    BY <1>1 DEF DisableBegins, Idle, Begin, Calls
  <2>4. CASE Enable
    BY <2>1, <2>4
  <2>5. CASE Disable
    BY <2>2, <2>3, <2>5 DEF Disable
  <2> QED BY <2>4, <2>5
<1>4. Quit \/ Leaving => call'.pc = "exiting"
  BY <1>1, CallFields DEF Quit, Leaving
<1>5. Exit \/ Crash => call'.pc = "dead" /\ call'.goal = "none"
  BY <1>1, CallFields DEF Exit, Crash
<1>6. Start => call.pc = "dead" /\ call'.pc = "idle" /\ call'.goal = call.goal
  BY <1>1, CallFields DEF Start
<1>7. Tamper => /\ call' = call /\ faults' = faults
                /\ fw'.v4 \in {fw.v4, Unhooked(fw.v4)} /\ (fw'.nft => fw.nft)
  BY <1>1 DEF Tamper, Firewalls
<1>8. SyncState \/ CoolDown \/ UNCHANGED ksVars => fw' = fw /\ call' = call
  BY DEF SyncState, CoolDown, ksVars
<1>9. SyncState => call.pc = "idle"
  BY DEF SyncState, Idle
<1>10. CoolDown \/ UNCHANGED ksVars => faults' = faults
  BY DEF CoolDown, ksVars
<1> USE DEF RollInv, CleanedSoFar, AllOrNothing, Idle, CleanupPcs
<1>11. CASE Enable \/ Disable
  BY <1>1, <1>2, <1>3, <1>11
<1>12. CASE Quit \/ Leaving \/ Exit \/ Crash
  BY <1>2, <1>4, <1>5, <1>12
<1>13. CASE Start
  BY <1>2, <1>6, <1>13
<1>14. CASE Tamper
  BY <1>1, <1>2, <1>7, <1>14 DEF Unhooked
<1>15. CASE SyncState
  BY <1>1, <1>2, <1>8, <1>9, <1>15
<1>16. CASE CoolDown \/ UNCHANGED ksVars
  BY <1>2, <1>8, <1>10, <1>16
<1> QED BY <1>11, <1>12, <1>13, <1>14, <1>15, <1>16

\* RollInv is kept by every step of the kill switch and by a restart.
LEMMA RollStep ==
    ASSUME RollInv, TypeOK', [Next]_ksVars \/ Leaving
    PROVE  RollInv'
<1>1. CASE KsStep
  BY <1>1, RollCleanup, RollBuild DEF KsStep
<1>2. CASE Enable \/ Disable \/ SyncState \/ CoolDown \/ Quit \/ Exit \/ Crash \/ Start
               \/ Tamper \/ Leaving \/ UNCHANGED ksVars
  BY <1>2, RollOthers
<1> QED BY <1>1, <1>2 DEF Next

\* It holds at first wherever iptables reaches the kernel.
LEMMA RollStarts ==
    ASSUME "legacy" \notin Hosts, Init, TypeOK
    PROVE  RollInv
BY DEF Init, RollInv, CleanedSoFar, AllOrNothing, Idle, CleanupPcs, Reaches, NoRules

\* enable_inner and its rollback: where iptables reaches the kernel, an enable() that
\* returns an error after one failed command leaves no chain, no jump and no table,
\* whatever the command was and whoever else edits the filter.
THEOREM AllOrNothingHolds ==
    ASSUME "legacy" \notin Hosts
    PROVE  Spec => []AllOrNothing
<1>1. Init /\ TypeOK => RollInv
  BY RollStarts
<1>2. RollInv /\ TypeOK' /\ [Next]_ksVars => RollInv'
  BY RollStep
<1>3. RollInv => AllOrNothing
  BY DEF RollInv
<1> QED BY <1>1, <1>2, <1>3, TypeCorrect, PTL DEF Spec

----------------------------------------------------------------------------
(* The supervisor's handlers *)

\* A call that removes rules is one that its handler asked for.
RemovesOnDemand ==
    Busy /\ call.goal = "remove" =>
        (doing \in {"toggle", "set"} /\ ~want) \/ doing \in {"disconnect", "suspend"}

\* The enable() after a connect, and the one at startup, is not skipped and succeeds.
EnableGoesThrough ==
    /\ doing \in {"post", "startup"} =>
           (Busy /\ call.goal = "build") \/ (Idle /\ ks.enabled)
    /\ doing = "launch" => Idle /\ ~ks.enabled /\ ~ks.cooling

ProtInv == ExactInv /\ ProtTypeOK /\ RemovesOnDemand /\ EnableGoesThrough

\* Every handler uses the kill switch by its calls only, or leaves the loop.
LEMMA HandlerMoves ==
    ASSUME [ProtNext]_vars
    PROVE  [Next]_ksVars \/ Leaving
<1>1. CASE UNCHANGED vars
  BY <1>1 DEF vars, ksVars
<1>2. CASE Toggle \/ (\E b \in BOOLEAN : Set(b)) \/ Connect \/ Disconnect
  BY <1>2 DEF Toggle, Set, Connect, ConnectNow, ConnectProtected, ConnectSuspended, Disconnect,
              Next
<1>3. CASE Finish
  BY <1>3 DEF Finish, ToggleDone, SetDone, ConnectGoesOn, ConnectUp, ConnectFails, PostDone,
              DisconnectDone, Restore, Next
<1>4. CASE Lose \/ EndRetry \/ CancelRetry \/ Appear \/ Edit \/ Reload
  BY <1>4 DEF Lose, EndRetry, CancelRetry, Appear, Edit, Reload
<1>5. CASE HealthSync \/ QuitRequest \/ Die \/ Launch \/ Working \/ Passing
  BY <1>5 DEF HealthSync, QuitRequest, Die, Launch, Working, Passing, Next
<1>6. CASE RestartRequest
  BY <1>6 DEF RestartRequest, Leaving, Serving, Free
<1> QED BY <1>1, <1>2, <1>3, <1>4, <1>5, <1>6 DEF ProtNext

\* A restart keeps the types and the invariant of the reliable kill switch.
LEMMA LeavingKeeps ==
    ASSUME TypeOK, Leaving
    PROVE  TypeOK' /\ (ExactInv => ExactInv')
<1>1. /\ call.pc = "idle" /\ call'.pc = "exiting" /\ call' \in Calls
      /\ UNCHANGED <<host, fw, ks, faults>>
  BY CallMoves, CallFields DEF TypeOK, Leaving, Idle
<1>2. TypeOK'
  BY <1>1 DEF TypeOK
<1>3. ExactInv => ExactInv'
  BY <1>1, <1>2 DEF ExactInv, ChainFollowsCall, OneBackend, GoalFollowsCall, StructExact, Idle,
                    CleanupPcs, BuildPcs
<1> QED BY <1>2, <1>3

\* The struct and the filter under the handlers are those of KillSwitch.
LEMMA ProtTypes == ProtSpec => []TypeOK
<1>1. ProtInit => TypeOK
  BY KillSwitchAssumption
     DEF ProtInit, Init, TypeOK, NoRules, Firewalls, V4States, NewSwitch, Switches, Backends,
         Calls, Pcs, Goals
<1>2. TypeOK /\ [ProtNext]_vars => TypeOK'
  BY HandlerMoves, TypeStep, LeavingKeeps
<1> QED BY <1>1, <1>2, PTL DEF ProtSpec

\* The exactness of the struct carries over.
LEMMA ProtExact ==
    ASSUME Reliable
    PROVE  ProtSpec => []ExactInv
<1>1. ProtInit => ExactInv
  <2> SUFFICES ASSUME ProtInit
               PROVE  ExactInv
    OBVIOUS
  <2>1. Init
    BY DEF ProtInit
  <2> QED BY <2>1, ExactStarts
<1>2. ExactInv /\ TypeOK' /\ [ProtNext]_vars => ExactInv'
  BY HandlerMoves, ExactStep, LeavingKeeps DEF ExactInv
<1> QED BY <1>1, <1>2, ProtTypes, PTL DEF ProtSpec

\* The supervisor's use of the kill switch keeps the rollback's promise: an enable()
\* that returns an error after one failed command leaves nothing behind.
THEOREM ProtAllOrNothing ==
    ASSUME "legacy" \notin Hosts
    PROVE  ProtSpec => []AllOrNothing
<1>1. ProtInit /\ TypeOK => RollInv
  BY RollStarts DEF ProtInit
<1>2. RollInv /\ TypeOK' /\ [ProtNext]_vars => RollInv'
  BY HandlerMoves, RollStep
<1>3. RollInv => AllOrNothing
  BY DEF RollInv
<1> QED BY <1>1, <1>2, <1>3, ProtTypes, PTL DEF ProtSpec

\* A command of a call that goes right leaves the call at work for the same goal, or
\* ends it; an enable() that ends has switched the struct on.
LEMMA CallProgress ==
    ASSUME Reliable, ExactInv, KsStep
    PROVE  /\ Busy
           /\ \/ Busy' /\ call'.goal = call.goal
              \/ Idle' /\ (call.goal = "build" => ks'.enabled)
<1>1. /\ fw \in Firewalls /\ ks \in Switches /\ call \in Calls
      /\ ~Fault /\ host \in {"nft", "iptables"}
  BY NoFaults DEF TypeOK, ExactInv, OneBackend
<1>2. ChainFollowsCall /\ GoalFollowsCall
  BY DEF ExactInv
<1>3. Busy
  BY DEF KsStep, CleanJump, CleanChain, CleanV6, CleanTable, SelectBackend, ApplyNft, Fill, Insert,
         Fill6, DropTable, Busy, CleanupPcs, BuildPcs
<1> USE DEF Busy, Idle, CleanupPcs, BuildPcs
<1>4. CASE CleanJump \/ CleanChain \/ CleanV6
  BY <1>1, <1>3, <1>4, CleanJumpEffect, CleanChainEffect, CleanV6Effect
<1>5. CASE CleanTable
  <2>1. call.pc = "table" /\ call'.goal = call.goal
    BY <1>1, <1>5, CallFields DEF CleanTable
  <2> QED BY <1>1, <1>2, <1>3, <1>5, <2>1, CleanTableEffect DEF GoalFollowsCall
<1>6. CASE SelectBackend
  <2>1. call'.goal = call.goal
    BY <1>1, <1>6, CallFields DEF SelectBackend
  <2> QED BY <1>1, <1>3, <1>6, <2>1, SelectBackendEffect
<1>7. CASE ApplyNft
  BY <1>1, <1>3, <1>7, ApplyNftEffect
<1>8. CASE Fill
  <2>1. fw.v4 = "none"
    BY <1>2, <1>8 DEF Fill, ChainFollowsCall
  <2>2. Goto("insert")
    BY <1>1, <1>8, <2>1 DEF Fill
  <2> QED BY <1>1, <1>3, <2>2, CallFields
<1>9. CASE Insert
  <2>1. Goto("fill6")
    BY <1>1, <1>9 DEF Insert
  <2> QED BY <1>1, <1>3, <2>1, CallFields
<1>10. CASE Fill6
  BY <1>1, <1>3, <1>10, Fill6Effect
<1>11. CASE DropTable
  <2>1. call.goal = "remove"
    BY <1>2, <1>11 DEF DropTable, GoalFollowsCall
  <2> QED BY <1>1, <1>3, <1>11, <2>1, DropTableEffect
<1> QED BY <1>4, <1>5, <1>6, <1>7, <1>8, <1>9, <1>10, <1>11 DEF KsStep

\* enable() is skipped, or begins to build; it is not skipped by a struct that is
\* switched off and not cooling.
LEMMA EnableStarts ==
    ASSUME call \in Calls, Enable
    PROVE  /\ \/ Idle' /\ call'.goal = "none"
              \/ Busy' /\ call'.goal = "build"
           /\ ~ks.enabled /\ ~ks.cooling => Busy' /\ call'.goal = "build"
<1>1. CASE EnableSkips
  <2>1. call'.pc = "idle" /\ call'.goal = "none"
    BY <1>1 DEF EnableSkips, Idle, Calls
  <2> QED BY <1>1, <2>1 DEF EnableSkips, Satisfied, Idle
<1>2. CASE EnableBegins
  <2>1. call'.pc = "jump" /\ call'.goal = "build"
    BY <1>2, CallFields DEF EnableBegins
  <2> QED BY <2>1 DEF Busy, CleanupPcs
<1> QED BY <1>1, <1>2 DEF Enable

\* The values of the handlers stay in their types.
LEMMA ProtTypeStep ==
    ASSUME ProtTypeOK, TypeOK, TypeOK', [ProtNext]_vars
    PROVE  ProtTypeOK'
<1>0. ks.enabled \in BOOLEAN /\ ks'.enabled \in BOOLEAN
  BY DEF TypeOK, Switches
<1> USE DEF ProtTypeOK, Tunnels, Handlers
<1>1. CASE UNCHANGED vars
  BY <1>1 DEF vars, userVars
<1>2. CASE Toggle \/ (\E b \in BOOLEAN : Set(b)) \/ Connect \/ Disconnect
  <2>1. CASE Toggle
    BY <2>1 DEF Toggle
  <2>2. ASSUME NEW b \in BOOLEAN, Set(b)
        PROVE  ProtTypeOK'
    BY <2>2 DEF Set
  <2>3. CASE Connect
    BY <2>3 DEF Connect, ConnectNow, ConnectProtected, ConnectSuspended
  <2>4. CASE Disconnect
    BY <2>4 DEF Disconnect
  <2> QED BY <1>2, <2>1, <2>2, <2>3, <2>4
<1>3. CASE ToggleDone
  <2>1. cfg' = [mem |-> want, disk |-> want] \/ cfg' = cfg
    BY <1>3 DEF ToggleDone, Save
  <2>2. cfg' \in [mem : BOOLEAN, disk : BOOLEAN]
    BY <2>1
  <2>3. shared' = ks.enabled \/ shared' = FALSE
    BY <1>3 DEF ToggleDone
  <2>4. shared' \in BOOLEAN
    BY <1>0, <2>3
  <2> QED BY <1>3, <2>2, <2>4 DEF ToggleDone
<1>4. CASE SetDone
  BY <1>0, <1>4 DEF SetDone, Save
<1>5. CASE ConnectGoesOn \/ ConnectUp \/ ConnectFails \/ PostDone \/ DisconnectDone \/ Restore
  BY <1>5 DEF ConnectGoesOn, ConnectUp, ConnectFails, PostDone, DisconnectDone, Restore
<1>6. CASE Lose \/ EndRetry \/ CancelRetry \/ Appear
  BY <1>6 DEF Lose, EndRetry, CancelRetry, Appear
<1>7. CASE Edit \/ Reload
  <2>1. cfg' = [cfg EXCEPT !.disk = ~cfg.disk] \/ cfg' = [cfg EXCEPT !.mem = cfg.disk]
    BY <1>7 DEF Edit, Reload
  <2>2. cfg' \in [mem : BOOLEAN, disk : BOOLEAN] /\ cfg.disk \in BOOLEAN
    BY <2>1
  <2> QED BY <1>7, <2>2 DEF Edit, Reload
<1>8. CASE HealthSync \/ QuitRequest \/ RestartRequest \/ Die
  BY <1>0, <1>8 DEF HealthSync, QuitRequest, RestartRequest, Die, userVars
<1>9. CASE Launch
  BY <1>0, <1>9 DEF Launch
<1>10. CASE Working \/ Passing
  BY <1>10 DEF Working, Passing, userVars
<1> QED BY <1>1, <1>2, <1>3, <1>4, <1>5, <1>6, <1>7, <1>8, <1>9, <1>10 DEF ProtNext, Finish

\* A handler that begins a call: only disable() begins to remove, and the enable()
\* that must not be skipped is not.
LEMMA BeginHandler ==
    ASSUME Reliable, ProtInv, TypeOK',
           Toggle \/ (\E b \in BOOLEAN : Set(b)) \/ Connect \/ Disconnect \/ ConnectUp \/ Restore
    PROVE  RemovesOnDemand' /\ EnableGoesThrough'
<1>1. call \in Calls /\ ~Busy
  <2>1. call.pc = "idle"
    BY DEF Toggle, Set, Connect, Disconnect, ConnectUp, Restore, Serving, Free, Returned, Idle
  <2> QED BY <2>1 DEF ProtInv, ExactInv, TypeOK, Busy, CleanupPcs, BuildPcs
<1>2. Enable => \/ ~Busy' /\ Idle'
                \/ Busy' /\ call'.goal = "build"
  BY <1>1, EnableStarts DEF Idle, Busy, CleanupPcs, BuildPcs
<1> USE DEF RemovesOnDemand, EnableGoesThrough
<1>3. CASE Toggle
  BY <1>2, <1>3 DEF Toggle
<1>4. ASSUME NEW b \in BOOLEAN, Set(b)
      PROVE  RemovesOnDemand' /\ EnableGoesThrough'
  BY <1>2, <1>4 DEF Set
<1>5. CASE Connect
  <2>1. CASE \E first \in BOOLEAN : ConnectNow(first)
    BY <1>1, <2>1 DEF ConnectNow, ksVars, Busy, CleanupPcs, BuildPcs
  <2>2. CASE ConnectProtected
    BY <1>2, <2>2 DEF ConnectProtected
  <2>3. CASE ConnectSuspended
    BY <2>3 DEF ConnectSuspended
  <2> QED BY <1>5, <2>1, <2>2, <2>3 DEF Connect
<1>6. CASE Disconnect
  <2>1. CASE ks.enabled
    BY <1>6, <2>1 DEF Disconnect
  <2>2. CASE ~ks.enabled
    BY <1>1, <1>6, <2>2 DEF Disconnect, ksVars, Busy, CleanupPcs, BuildPcs
  <2> QED BY <2>1, <2>2
<1>7. CASE ConnectUp
  <2>1. CASE cfg.mem /\ ~ks.enabled
    BY <1>1, <1>7, <2>1, EnableStarts DEF ConnectUp
  <2>2. CASE ~(cfg.mem /\ ~ks.enabled)
    BY <1>1, <1>7, <2>2 DEF ConnectUp, ksVars, Busy, CleanupPcs, BuildPcs
  <2> QED BY <2>1, <2>2
<1>8. CASE Restore
  <2>1. ~ks.enabled /\ ~ks.cooling
    BY <1>8 DEF Restore, Returned, ProtInv
  <2> QED BY <1>1, <1>8, <2>1, EnableStarts DEF Restore
<1> QED BY <1>3, <1>4, <1>5, <1>6, <1>7, <1>8

\* sync_state does not touch the cooldown.
LEMMA SyncedCooling ==
    ASSUME NEW f, NEW k \in Switches
    PROVE  Synced(f, k).cooling = k.cooling
<1>1. \/ Synced(f, k) = [k EXCEPT !.enabled = FALSE]
      \/ \E b : Synced(f, k) = [k EXCEPT !.enabled = TRUE, !.backend = b]
  BY DEF Synced
<1> QED BY <1>1 DEF Switches

\* Every other step of the daemon keeps who asked for what.
LEMMA OtherHandler ==
    ASSUME Reliable, ProtInv, TypeOK', ExactInv',
           \/ ToggleDone \/ SetDone \/ ConnectGoesOn \/ ConnectFails \/ PostDone \/ DisconnectDone
           \/ Lose \/ EndRetry \/ CancelRetry \/ Appear \/ Edit \/ Reload
           \/ HealthSync \/ QuitRequest \/ RestartRequest \/ Die \/ Launch \/ Working \/ Passing
           \/ UNCHANGED vars
    PROVE  RemovesOnDemand' /\ EnableGoesThrough'
<1>1. ExactInv /\ RemovesOnDemand /\ EnableGoesThrough /\ call \in Calls /\ ks \in Switches
  BY DEF ProtInv, ExactInv, TypeOK
<1> USE DEF RemovesOnDemand, EnableGoesThrough, Busy, Idle, CleanupPcs, BuildPcs
<1>2. CASE ToggleDone \/ SetDone \/ ConnectGoesOn \/ ConnectFails \/ PostDone \/ DisconnectDone
  <2>1. call.pc = "idle" /\ call' = call /\ doing' \in {"none", "connecting"}
    BY <1>2 DEF ToggleDone, SetDone, ConnectGoesOn, ConnectFails, PostDone, DisconnectDone,
                Returned, ksVars
  <2> QED BY <2>1
<1>3. CASE Lose \/ EndRetry \/ CancelRetry \/ Appear \/ Edit \/ Reload \/ UNCHANGED vars
  <2>1. UNCHANGED <<ksVars, doing, want>>
    BY <1>3 DEF Lose, EndRetry, CancelRetry, Appear, Edit, Reload, vars, userVars
  <2> QED BY <1>1, <2>1 DEF ksVars
<1>4. CASE HealthSync
  <2>1. call.pc = "idle" /\ call' = call /\ doing = "none" /\ doing' = "none"
    BY <1>4 DEF HealthSync, Serving, Free, SyncState
  <2> QED BY <2>1
<1>5. CASE QuitRequest \/ RestartRequest
  <2>1. call'.pc = "exiting" /\ doing' \in {"none", "restart"}
    BY <1>1, <1>5, CallFields DEF QuitRequest, RestartRequest, Quit, Serving, Free, userVars
  <2> QED BY <2>1
<1>6. CASE Die
  <2>1. call'.pc = "dead" /\ doing' = "none"
    BY <1>1, <1>6, CallFields DEF Die, Crash, Exit
  <2> QED BY <2>1
<1>7. CASE Launch
  <2>1. call'.pc = "idle" /\ doing' \in {"launch", "none"} /\ ks' = Synced(fw', NewSwitch)
    BY <1>1, <1>7, CallFields DEF Launch, Start
  <2>2. ~ks'.cooling
    <3>1. NewSwitch \in Switches
      BY Constants
    <3>2. Synced(fw', NewSwitch).cooling = NewSwitch.cooling
      BY <3>1, SyncedCooling
    <3> QED BY <2>1, <3>2 DEF NewSwitch
  <2>3. doing' = "launch" => ~ks'.enabled
    BY <1>7 DEF Launch
  <2> QED BY <2>1, <2>2, <2>3
<1>8. CASE Working
  <2>1. /\ Busy
        /\ \/ Busy' /\ call'.goal = call.goal
           \/ Idle' /\ (call.goal = "build" => ks'.enabled)
    BY <1>1, <1>8, CallProgress DEF Working
  <2>2. UNCHANGED <<doing, want>>
    BY <1>8 DEF Working, userVars
  <2> QED BY <1>1, <2>1, <2>2
<1>9. CASE Passing
  <2>1. CoolDown /\ UNCHANGED <<call, doing, want>>
    BY <1>9 DEF Passing, CoolDown, Tamper, Reliable, userVars
  <2>2. ks.cooling /\ ks'.enabled = ks.enabled
    BY <1>1, <2>1 DEF CoolDown, Switches
  <2> QED BY <1>1, <2>1, <2>2
<1> QED BY <1>2, <1>3, <1>4, <1>5, <1>6, <1>7, <1>8, <1>9

\* The invariant of the daemon with its kill switch.
LEMMA ProtAlways ==
    ASSUME Reliable
    PROVE  ProtSpec => []ProtInv
<1>1. ProtInit /\ ExactInv => ProtInv
  <2> SUFFICES ASSUME ProtInit, ExactInv
               PROVE  ProtInv
    OBVIOUS
  <2>1. cfg \in [mem : BOOLEAN, disk : BOOLEAN]
    BY DEF ProtInit
  <2>2. call.pc = "dead" /\ doing = "none" /\ shared = FALSE /\ vpn = "down" /\ want = FALSE
    BY DEF ProtInit, Init
  <2>3. ProtTypeOK
    BY <2>1, <2>2 DEF ProtTypeOK, Tunnels, Handlers
  <2> QED BY <2>2, <2>3 DEF ProtInv, RemovesOnDemand, EnableGoesThrough, Busy, CleanupPcs, BuildPcs
<1>2. ProtInv /\ ExactInv' /\ [ProtNext]_vars => ProtInv'
  <2> SUFFICES ASSUME ProtInv, ExactInv', [ProtNext]_vars
               PROVE  ProtInv'
    OBVIOUS
  <2>1. TypeOK' /\ TypeOK /\ ProtTypeOK
    BY DEF ProtInv, ExactInv
  <2>2. ProtTypeOK'
    BY <2>1, ProtTypeStep
  <2>3. RemovesOnDemand' /\ EnableGoesThrough'
    BY <2>1, BeginHandler, OtherHandler DEF ProtNext, Finish
  <2> QED BY <2>2, <2>3 DEF ProtInv
<1> QED BY <1>1, <1>2, ProtExact, PTL DEF ProtSpec

\* Under the supervisor, too, OUTPUT never jumps to a chain that drops nothing, on
\* every machine where commands do not fail.
THEOREM ProtJumpIsComplete ==
    ASSUME Reliable
    PROVE  ProtSpec => []JumpIsComplete
<1>1. ExactInv => JumpIsComplete
  BY DEF ExactInv, TypeOK, ChainFollowsCall, JumpIsComplete, Calls, Pcs, CleanupPcs, BuildPcs
<1> QED BY <1>1, ProtExact, PTL

\* Under the supervisor, too, only disable(), a shutdown and the cleanup at startup
\* open a filter that was closed.
THEOREM ProtOpensOnlyOnPurpose ==
    ASSUME Reliable
    PROVE  ProtSpec => OpensOnlyOnPurpose
<1> DEFINE Opens == Filters(fw) /\ ~Filters(fw') =>
                       \/ call.goal = "remove"
                       \/ call'.pc = "exiting" \/ call.pc \in {"exiting", "dead"}
<1>1. ExactInv /\ [ProtNext]_vars => [Opens]_ksVars
  <2> SUFFICES ASSUME ExactInv, [ProtNext]_vars, Filters(fw), ~Filters(fw')
               PROVE  [Opens]_ksVars
    OBVIOUS
  <2> QED BY HandlerMoves, OpensWhileRemoving DEF Leaving, Filters, ksVars
<1> QED BY <1>1, ProtExact, PTL DEF ProtSpec, OpensOnlyOnPurpose

\* Under the supervisor's handlers, too, the kill switch is the switch: no handler
\* sees or leaves it half way, whatever it waits for and wherever the process ends.
THEOREM ProtActsAsSwitch ==
    ASSUME Reliable
    PROVE  ProtSpec => ActsAsSwitch
<1>1. ProtInit => Switch!Init
  BY SwitchStarts DEF ProtInit
<1>2. ASSUME ExactInv, [ProtNext]_vars
      PROVE  [Switch!Next]_(Switch!vars)
  <2>1. CASE [Next]_ksVars
    BY <1>2, <2>1, SwitchStep
  <2>2. CASE Leaving
    <3>1. fw' = fw /\ call.pc = "idle" /\ call'.pc = "exiting"
      BY <1>2, <2>2, CallFields DEF ExactInv, TypeOK, Leaving, Idle
    <3>2. Filtering' = Filtering /\ Wanted = "none" /\ Wanted' = "none" /\ Life' = "down"
      BY <3>1 DEF Filtering, Filters, Wanted, Life, Busy, CleanupPcs, BuildPcs
    <3> QED BY <3>2 DEF Switch!Next, Switch!Die
  <2> QED BY <1>2, <2>1, <2>2, HandlerMoves
<1> QED BY <1>1, <1>2, ProtExact, PTL DEF ProtSpec, ActsAsSwitch, Switch!Spec

\* The kill switch fails closed: a drop of the tunnel, a reconnect, the health tick, a
\* reload and a crash never open a closed filter; a user's request, connect-first
\* ordering, a shutdown and the cleanup of the next start do.
THEOREM FailsClosedHolds ==
    ASSUME Reliable
    PROVE  ProtSpec => FailsClosed
<1> DEFINE Asked == \/ doing \in {"toggle", "set"} /\ ~want
                    \/ doing \in {"disconnect", "suspend"}
                    \/ call'.pc = "exiting" \/ call.pc \in {"exiting", "dead"}
<1>1. ProtInv /\ [ProtNext]_vars => [Filters(fw) /\ ~Filters(fw') => Asked]_vars
  <2> SUFFICES ASSUME ProtInv, [ProtNext]_vars, Filters(fw), ~Filters(fw')
               PROVE  Asked
    OBVIOUS
  <2>1. Next
    BY HandlerMoves DEF Leaving, Filters, ksVars
  <2>2. \/ Busy /\ call.goal = "remove"
        \/ call'.pc = "exiting" \/ call.pc \in {"exiting", "dead"}
    BY <2>1, OpensWhileRemoving DEF ProtInv
  <2> QED BY <2>2 DEF ProtInv, RemovesOnDemand
<1> QED BY <1>1, ProtAlways, PTL DEF ProtSpec, FailsClosed

\* handle_connect leaves traffic filtered if the setting asks for it, in both orders
\* and when the enable() that went first was skipped; so does the start with the
\* tunnel up.
THEOREM ConnectProtectsHolds ==
    ASSUME Reliable
    PROVE  ProtSpec => ConnectProtects
<1>1. ASSUME ProtInv, ConnectUp \/ PostDone, doing' = "none", cfg.mem
      PROVE  Filters(fw')
  <2>1. Idle => (ks.enabled => Filters(fw))
    BY <1>1 DEF ProtInv, ExactInv, StructExact
  <2>2. CASE ConnectUp
    BY <1>1, <2>1, <2>2 DEF ConnectUp, Returned, ksVars
  <2>3. CASE PostDone
    <3>1. Idle /\ doing \in {"post", "startup"} /\ fw' = fw
      BY <2>3 DEF PostDone, Returned, ksVars
    <3>2. ~Busy
      BY <3>1 DEF Idle, Busy, CleanupPcs, BuildPcs
    <3> QED BY <1>1, <2>1, <3>1, <3>2 DEF ProtInv, EnableGoesThrough
  <2> QED BY <1>1, <2>2, <2>3
<1>2. ProtInv /\ [ProtNext]_vars =>
         [(ConnectUp \/ PostDone) /\ doing' = "none" /\ cfg.mem => Filters(fw')]_vars
  BY <1>1
<1> QED BY <1>2, ProtAlways, PTL DEF ProtSpec, ConnectProtects
=============================================================================
