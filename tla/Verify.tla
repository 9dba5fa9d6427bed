------------------------------- MODULE Verify -------------------------------
(***************************************************************************)
(* `shroud verify killswitch` (src/killswitch/verify.rs) against a firewall*)
(* that lives on while it looks: the daemon enables and disables the kill  *)
(* switch, the user edits the configuration, another program touches       *)
(* OUTPUT.  The verification reads one thing at a time and reports what it *)
(* read.                                                                   *)
(*                                                                         *)
(* The kernel keeps, for each rule set, the configuration it was built     *)
(* for; FirewallRules says which rules those are.                          *)
(***************************************************************************)
EXTENDS FirewallRules

CONSTANTS
    None,         \* no such chain or table
    Servers,      \* the servers detect_vpn_endpoints finds
    AllLinks,     \* the interface listings to consider
    Edits,        \* the configurations the user may write while running
    MaxMoves      \* bound on what happens during one verification

ASSUME VerifyAssumption ==
    /\ None \notin Configs
    /\ Servers \subseteq {"server", "server6"}
    /\ AllLinks \subseteq Links
    /\ Edits \subseteq Configs
    /\ MaxMoves \in Nat

VARIABLES
    links,   \* what `ip addr show` prints
    disk,    \* config.toml
    ks,      \* the daemon's KillSwitch
    fw,      \* the kernel
    v        \* the verification

vars == <<links, disk, ks, fw, v>>

Chain(c) == IptablesChain(c, Servers, links)
Table(c) == NftRules(c, Servers, links)
Rules6(c) == Ip6Rules(c, links)

\* fw.other: another program's ACCEPT in front of OUTPUT; fw.stray: rules the
\* cleanup of ip6tables left behind (they stay after everything inserted later).
Allowed(p) ==
    /\ p.fam = 4 /\ fw.jump /\ ~fw.other =>
          Verdict(Chain(fw.chain), p, "accept") = "accept"
    /\ p.fam = 6 /\ fw.out6 # None =>
          Verdict(Rules6(fw.out6), p, "accept") = "accept"
    /\ fw.table # None => Verdict(Table(fw.table), p, "drop") = "accept"

\* Traffic that starts outside a tunnel: new, on a physical interface.
Outside == {p \in Packets : p.out = "eth" /\ ~p.est}

Private(p) == IF p.fam = 4 THEN IsPrivateAddr(Top16[p.dst]) ELSE IsValidPrivateCidrV6(p.dst)

\* Public IPv4 traffic is held back at this moment; a verification notes it when
\* it reads OUTPUT or the table, for PassIsTrue to refer to.
Holding ==
    \A p \in Outside : p.fam = 4 /\ p.svc = "other" /\ ~Private(p) /\ p.dst \notin Servers =>
        ~Allowed(p)

NotRunning ==
    [pc |-> "off", backend |-> "iptables", cfg |-> None, chain |-> None, table |-> None,
     first |-> "none", out6 |-> None, jump |-> FALSE, hostnames |-> FALSE,
     daemon |-> "down", held |-> FALSE, moves |-> 0, code |-> 0]

Init ==
    /\ links \in AllLinks
    /\ disk \in Configs
    /\ ks \in [up : {TRUE}, enabled : {FALSE}, filling : {FALSE}, cfg : {disk},
               backend : {"iptables", "nftables"}]
    /\ fw = [chain |-> None, jump |-> FALSE, other |-> FALSE, out6 |-> None,
             stray |-> {}, table |-> None]
    /\ v = NotRunning

\* Something moves while the verification looks.
Disturbed ==
    /\ v.moves < MaxMoves
    /\ v' = IF v.pc = "off" THEN v ELSE [v EXCEPT !.moves = @ + 1]

----------------------------------------------------------------------------
(* The daemon *)

\* robust_iptables_cleanup
CleanIptables ==
    [fw EXCEPT !.chain = None, !.jump = FALSE, !.out6 = None,
               !.stray = @ \cup IF fw.out6 = None THEN {}
                                ELSE Range(Rules6(fw.out6)) \ Ip6Removable]

\* enable() on a host without nft: clean up, then one command per rule.  The
\* first rule the kernel refuses ends the script and the chain is removed again.
EnableFills ==
    /\ ks.up /\ ~ks.enabled /\ ~ks.filling /\ ks.backend = "iptables"
    /\ IF Loadable(Chain(ks.cfg))
       THEN /\ fw' = [CleanIptables EXCEPT !.chain = ks.cfg]
            /\ ks' = [ks EXCEPT !.filling = TRUE]
       ELSE fw' = CleanIptables /\ UNCHANGED ks
    /\ Disturbed /\ UNCHANGED <<links, disk>>

\* ... the jump last, then the ip6tables rules, whose failure is tolerated.
EnableHooks ==
    /\ ks.up /\ ks.filling
    /\ \E six \in {None, ks.cfg} :
          fw' = [fw EXCEPT !.jump = TRUE, !.other = FALSE, !.out6 = six]
    /\ ks' = [ks EXCEPT !.filling = FALSE, !.enabled = TRUE]
    /\ Disturbed /\ UNCHANGED <<links, disk>>

EnableNft ==
    /\ ks.up /\ ~ks.enabled /\ ks.backend = "nftables"
    /\ fw' = [CleanIptables EXCEPT !.table = ks.cfg]
    /\ ks' = [ks EXCEPT !.enabled = TRUE]
    /\ Disturbed /\ UNCHANGED <<links, disk>>

Disable ==
    /\ ks.up /\ ks.enabled
    /\ fw' = IF ks.backend = "iptables" THEN CleanIptables ELSE [fw EXCEPT !.table = None]
    /\ ks' = [ks EXCEPT !.enabled = FALSE]
    /\ Disturbed /\ UNCHANGED <<links, disk>>

\* reload_configuration: set_config, the rules in the kernel stay.
Reload ==
    /\ ks.up /\ ~ks.filling /\ ks.cfg # disk
    /\ ks' = [ks EXCEPT !.cfg = disk]
    /\ Disturbed /\ UNCHANGED <<links, disk, fw>>

\* The daemon dies; its rules stay.
Crash ==
    /\ ks.up
    /\ ks' = [ks EXCEPT !.up = FALSE, !.filling = FALSE]
    /\ Disturbed /\ UNCHANGED <<links, disk, fw>>

(* The surroundings *)

EditConfig(c) ==
    /\ disk # c
    /\ disk' = c
    /\ Disturbed /\ UNCHANGED <<links, ks, fw>>

\* Another program removes the jump, or puts an ACCEPT in front of it.
Tamper ==
    /\ fw.jump
    /\ fw' \in {[fw EXCEPT !.jump = FALSE], [fw EXCEPT !.other = TRUE]}
    /\ Disturbed /\ UNCHANGED <<links, disk, ks>>

----------------------------------------------------------------------------
(* run_verification, one command at a time *)

At(pc) == v.pc = pc
Goes(w) == v' = w /\ UNCHANGED <<links, disk, ks, fw>>
Aborts == Goes([v EXCEPT !.pc = "done", !.code = 2])

\* detect_backend: whoever has rules, iptables first.
DetectBackend ==
    IF fw.chain # None \/ fw.table = None THEN "iptables" ELSE "nftables"

Begin ==
    /\ At("off")
    /\ Goes([NotRunning EXCEPT !.pc = "config", !.backend = DetectBackend])

\* ensure_sudo_access fails, or the configuration is read (load_validated).
ReadConfig ==
    /\ At("config")
    /\ \/ Aborts
       \/ Goes([v EXCEPT !.cfg = disk,
                         !.pc = IF v.backend = "iptables" THEN "chain" ELSE "table"])

\* fetch_nft_snapshot: a table that is gone by now is an error.
ReadTable ==
    /\ At("table")
    /\ IF fw.table = None THEN Aborts
       ELSE Goes([v EXCEPT !.table = fw.table, !.held = Holding, !.pc = "endpoints"])

\* fetch_iptables_snapshot: chain, OUTPUT, ip6tables' OUTPUT (which may fail).
ReadChain ==
    /\ At("chain")
    /\ Goes([v EXCEPT !.chain = fw.chain, !.pc = "output"])

ReadOutput ==
    /\ At("output")
    /\ Goes([v EXCEPT !.pc = "ip6", !.held = Holding,
                      !.first = CASE fw.other -> "other"
                                  [] fw.jump /\ ~fw.other -> "jump"
                                  [] OTHER -> "none"])

ReadIp6 ==
    /\ At("ip6")
    /\ Goes([v EXCEPT !.out6 = fw.out6, !.pc = "jump"])

\* check_jump_rule_iptables asks the kernel again.
CheckJump ==
    /\ At("jump")
    /\ Goes([v EXCEPT !.jump = fw.jump, !.pc = "endpoints"])

CheckEndpoints ==
    /\ At("endpoints")
    /\ \E some \in BOOLEAN : Goes([v EXCEPT !.hostnames = some, !.pc = "agree"])

----------------------------------------------------------------------------
(* The checks, over what was read *)

Warn(ok) == IF ok THEN "pass" ELSE "warn"
Fail(ok) == IF ok THEN "pass" ELSE "fail"

CheckInterfaces(rules) ==
    LET missing == {t \in Tunnels : Accept([out |-> t]) \notin rules}
    IN  CASE missing = {} -> "pass" [] missing = Tunnels -> "fail" [] OTHER -> "warn"

CheckIpv6Iptables(six, c) ==
    CASE c.v6 = "block" -> Fail(Drop(EveryPacket) \in six)
      [] c.v6 = "tunnel" -> Warn({Accept([out |-> "tun"]), Drop(EveryPacket)} \subseteq six)
      [] c.v6 = "off" -> "warn"

CheckIpv6Nft(rules, c) ==
    CASE c.v6 = "block" -> Fail(Drop([fam |-> 6]) \in rules)
      [] c.v6 = "tunnel" -> Warn(Accept([dst |-> "linklocal6"]) \in rules)
      [] c.v6 = "off" -> "warn"

\* The localhost check looks for 127.0.0.0/8, which no rule names, or (on
\* iptables) for ::1.
CheckDnsModeIptables(rules, c) ==
    CASE c.dns \in {"tunnel", "strict"} ->
            Warn(/\ Drop([svc |-> "dns"]) \in rules
                 /\ \E t \in Tunnels : Accept([out |-> t, svc |-> "dns"]) \in rules)
      [] c.dns = "localhost" -> Warn(Accept([dst |-> "lo6", svc |-> "dns"]) \in rules)
      [] c.dns = "any" -> "warn"

CheckDnsModeNft(rules, c) ==
    IF c.dns \in {"tunnel", "strict"} THEN Warn(Drop([svc |-> "dns"]) \in rules) ELSE "warn"

\* Mutant of CheckNoRogueRules: the order of OUTPUT is not looked at.
CheckNoRogueRulesAny(w) == "pass"

CheckNoRogueRules(w) == Warn(w.first = "jump")

IptablesChecks(w) ==
    LET rules == IF w.chain = None THEN {} ELSE Range(Chain(w.chain))
        six == IF w.out6 = None THEN {} ELSE Range(Rules6(w.out6))
    IN  {Fail(w.chain # None), Fail(w.jump), Fail(Drop(EveryPacket) \in rules),
         Fail(Lo \in rules), CheckInterfaces(rules), Warn(Dhcp \in rules),
         CheckIpv6Iptables(six, w.cfg), CheckDnsModeIptables(rules, w.cfg),
         CheckNoRogueRules(w)}

\* The table that was read has its hook and its policy; other rules are no matter.
NftChecks(w) ==
    LET rules == Range(Table(w.table))
    IN  {Fail(Lo \in rules), CheckInterfaces(rules), Warn(Dhcp \in rules),
         CheckIpv6Nft(rules, w.cfg), CheckDnsModeNft(rules, w.cfg)}

ActualEnabled(w) == w.backend = "nftables" \/ (w.chain # None /\ w.jump)

\* Mutant of CheckAgreement: a daemon that does not answer is taken to agree
\* that the kill switch is on.
CheckAgreementDeaf(w) ==
    Fail(IF w.daemon = "down" THEN ~ActualEnabled(w) ELSE (w.daemon = "on") = ActualEnabled(w))

CheckAgreement(w) ==
    IF w.daemon = "down" THEN "warn" ELSE Fail((w.daemon = "on") = ActualEnabled(w))

\* The verdicts of the eleven checks.
Checks(w) ==
    (IF w.backend = "iptables" THEN IptablesChecks(w) ELSE NftChecks(w))
        \cup {Warn(~w.hostnames), CheckAgreement(w)}

\* aggregate_verdict
Overall(w) ==
    CASE "fail" \in Checks(w) -> "fail"
      [] "fail" \notin Checks(w) /\ "warn" \in Checks(w) -> "warn"
      [] OTHER -> "pass"

\* check_state_agreement, the last check; the command's exit code.  A daemon
\* that is busy does not answer in time.
Agree ==
    /\ At("agree")
    /\ \E d \in {"down"} \cup (IF ks.up THEN {IF ks.enabled THEN "on" ELSE "off"} ELSE {}) :
          LET w == [v EXCEPT !.daemon = d, !.pc = "done"]
          IN  Goes([w EXCEPT !.code = IF Overall(w) = "fail" THEN 1 ELSE 0])

Exit == At("done") /\ Goes(NotRunning)

Next ==
    \/ EnableFills \/ EnableHooks \/ EnableNft \/ Disable \/ Reload \/ Crash
    \/ \E c \in Edits : EditConfig(c)
    \/ Tamper
    \/ Begin \/ ReadConfig \/ ReadTable \/ ReadChain \/ ReadOutput \/ ReadIp6
    \/ CheckJump \/ CheckEndpoints \/ Agree \/ Exit

Spec == Init /\ [][Next]_vars

----------------------------------------------------------------------------
(* The kill switch in force, and nobody else's rule in front of it. *)
InForce ==
    /\ ks.enabled /\ v.pc = "off" /\ ~fw.other
    /\ \/ fw.table # None
       \/ fw.jump /\ (fw.out6 # None \/ fw.chain.v6 = "off")

InstalledFor == IF fw.table # None THEN fw.table ELSE fw.chain

\* config.toml's promise: while the kill switch is on, whatever the modes, new
\* traffic outside a tunnel goes only to a VPN server, to a private address or
\* to a DHCP server; plain DNS and DNS over TLS go to nobody unless dns_mode is
\* "any" (with IPv6 switched to "tunnel" or "off", IPv6 neighbours excepted,
\* and with "off" on iptables IPv6 is not filtered at all).
OnlyTheTunnel ==
    InForce =>
        \A p \in Outside :
            Allowed(p) /\ (p.fam = 4 \/ InstalledFor.v6 # "off") =>
                \/ InstalledFor.dns = "any" /\ p.svc = "dns"
                \/ p.svc = "dhcp"
                \/ /\ p.dst \in Servers \/ Private(p)
                   /\ p.svc \in {"dns", "dot"} => InstalledFor.dns = "any" \/ p.fam = 6

\* build_nft_ruleset and build_complete_script write the same policy in two
\* orders: for every configuration and every set of interfaces they decide alike
\* on IPv4, but for HTTPS to a DNS provider through the tunnel (nft drops it).
BackendsAgree ==
    InForce =>
        \A p \in {q \in Packets : q.fam = 4} :
            \/ Verdict(Chain(InstalledFor), p, "accept") = Verdict(Table(InstalledFor), p, "drop")
            \/ p.out \in Tunnels /\ p.dst = "doh" /\ p.svc = "https"

\* What the CLI prints on a clean report, "Non-VPN traffic is blocked": it was
\* true of IPv4 at a moment of the verification, whatever the daemon and others
\* did meanwhile; and if nobody did anything, it is true of all new traffic to a
\* public address that is not a VPN server's.
PassIsTrue ==
    At("done") /\ v.code # 2 /\ Overall(v) = "pass" =>
        /\ v.held
        /\ v.moves = 0 =>
              \A p \in Outside :
                  p.dst \notin Servers /\ ~Private(p) /\ p.svc # "dhcp" => ~Allowed(p)

\* No false alarm: a kill switch that is completely in force for the
\* configuration on disk never gets a failed check, and a daemon that died
\* behind intact rules never does either.
HealthyNotFailed ==
    At("done") /\ v.moves = 0 /\ ks.enabled /\ ~fw.other /\ InstalledFor = disk
        /\ (fw.table # None \/ (fw.jump /\ fw.out6 # None))
    => v.code # 1

\* docs/PRINCIPLES.md, Leave No Trace: a disabled kill switch has no rule left.
LeavesNoTrace ==
    ks.up /\ ~ks.enabled /\ ~ks.filling => fw.chain = None /\ fw.table = None /\ fw.stray = {}

\* rules.rs: a subnet taken for the LAN holds private addresses only.
LanIsPrivate ==
    \A c \in DetectLocalSubnets(links) : \A h \in Hosts4 :
        Inside(Top16[h], c) => IsPrivateAddr(Top16[h])

\* config.toml, dns_mode "tunnel": DNS only through the tunnel.
DnsOnlyByTunnel ==
    InForce /\ InstalledFor.dns \in {"tunnel", "strict"} =>
        \A p \in Outside : p.svc = "dns" => ~Allowed(p)
=============================================================================
