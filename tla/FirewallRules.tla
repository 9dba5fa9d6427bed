--------------------------- MODULE FirewallRules ----------------------------
(***************************************************************************)
(* What the kill switch lets out: the rules src/killswitch writes for a    *)
(* configuration, as data, and what the kernel does with a packet under    *)
(* them.  KillSwitch has how the rules get into the kernel; here the chain *)
(* is complete.                                                            *)
(*                                                                         *)
(* A rule is [on |-> fields a packet must have, to |-> verdict]; the first *)
(* rule that matches decides.  UDP and TCP, and the two DHCP ports, are    *)
(* merged; the rate-limited LOG rule decides nothing and is left out.      *)
(***************************************************************************)
EXTENDS Naturals, Sequences, FiniteSetsExt

----------------------------------------------------------------------------
(* Addresses.  An IPv4 address stands for its first 16 bits, all that a    *)
(* private range distinguishes; `neighbour` is 192.169.0.0, public, the    *)
(* first address after 192.168.0.0/16.                                     *)

Octets(a, b) == a * 256 + b

Top16 ==
    [resolver   |-> Octets(127, 0),     \* 127.0.0.1 and 127.0.0.53
     otherlocal |-> Octets(127, 0),     \* the rest of 127.0.0.0/8
     lan        |-> Octets(192, 168),
     neighbour  |-> Octets(192, 169),
     ten        |-> Octets(10, 1),
     carrier    |-> Octets(172, 32),    \* public, after 172.16.0.0/12
     linklocal  |-> Octets(169, 254),
     doh        |-> Octets(1, 1),       \* a DOH_PROVIDERS address
     server     |-> Octets(203, 0),     \* a VPN server
     public     |-> Octets(151, 101)]

Hosts4 == DOMAIN Top16
Hosts6 == {"lo6", "linklocal6", "ula", "server6", "public6"}
Loopbacks == {"resolver", "otherlocal", "lo6"}

Tunnels == {"tun", "tap", "wg"}

Packets ==
    {p \in [out : {"lo", "eth"} \cup Tunnels, fam : {4, 6},
            dst : Hosts4 \cup Hosts6, svc : {"dns", "dot", "https", "dhcp", "other"},
            est : BOOLEAN] :
        /\ p.fam = 6 <=> p.dst \in Hosts6
        /\ p.out = "lo" <=> p.dst \in Loopbacks}

----------------------------------------------------------------------------
(* Local subnets: rules.rs *)

Cidr(n, len) == [net |-> n, len |-> len]

\* The network of an address: host bits cleared (len is at most 16 here).
Mask(n, len) == (n \div 2^(16 - len)) * 2^(16 - len)

Inside(n, cidr) == Mask(n, cidr.len) = cidr.net

LinkLocal4 == Cidr(Octets(169, 254), 16)

LanSubnets == {Cidr(Octets(10, 0), 8), Cidr(Octets(172, 16), 12),
               Cidr(Octets(192, 168), 16), LinkLocal4}

\* Ipv4Addr::is_private and is_link_local.
IsPrivateAddr(n) == \E c \in LanSubnets : Inside(n, c)

\* Mutant of IsValidPrivateCidr: any prefix length.
IsValidCidrAnyLength(c) == IsPrivateAddr(c.net) \/ c.len = 0

IsValidPrivateCidr(c) == c.len >= 8 /\ IsPrivateAddr(c.net)

IsValidPrivateCidrV6(h) == h \in {"ula", "linklocal6"}

\* What `ip addr show` prints: the IPv4 addresses (with the interface each is
\* on) and the IPv6 prefixes of the physical interfaces; ok is FALSE when the
\* command fails.  Tunnel, bridge and container interfaces are `virtual`.
Links == [ok : BOOLEAN, v4 : SUBSET [addr : Hosts4, len : 0..16, virtual : BOOLEAN],
          v6 : SUBSET Hosts6]

DetectLocalSubnets(links) ==
    LET kept == {a \in links.v4 : ~a.virtual
                    /\ IsValidPrivateCidr(Cidr(Mask(Top16[a.addr], a.len), a.len))}
        nets == {Cidr(Mask(Top16[a.addr], a.len), a.len) : a \in kept}
        count == Cardinality(kept) + (IF LinkLocal4 \in nets THEN 0 ELSE 1)
    IN  IF ~links.ok \/ count <= 1 THEN LanSubnets ELSE nets \cup {LinkLocal4}

DetectLocalSubnetsV6(links) ==
    IF ~links.ok THEN {"ula", "linklocal6"}
    ELSE {h \in links.v6 : IsValidPrivateCidrV6(h)} \cup {"linklocal6"}

----------------------------------------------------------------------------
(* Rules *)

Accept(fields) == [on |-> fields, to |-> "accept"]
Drop(fields) == [on |-> fields, to |-> "drop"]

EveryPacket == << >>      \* no field to match

Matches(r, p) ==
    \A f \in DOMAIN r.on :
        IF f = "net" THEN p.dst \in Hosts4 /\ Inside(Top16[p.dst], r.on.net)
                     ELSE p[f] = r.on[f]

\* The first rule that matches decides, the policy if none does.
Verdict(rules, p, policy) ==
    LET hits == {i \in DOMAIN rules : Matches(rules[i], p)}
    IN  IF hits = {} THEN policy ELSE rules[Min(hits)].to

\* A set written out by a loop: each member once, in some order.
InSomeOrder(S) == CHOOSE s \in Injection(1..Cardinality(S), S) : TRUE

AcceptEach(field, S) == InSomeOrder({Accept([f \in {field} |-> x]) : x \in S})

Lo == Accept([out |-> "lo"])
Established == Accept([est |-> TRUE])
Dhcp == Accept([svc |-> "dhcp"])
TunnelRules == AcceptEach("out", Tunnels)
DropDns == <<Drop([svc |-> "dns"]), Drop([svc |-> "dot"])>>

\* The configuration: dns_mode, ipv6_mode, block_doh.
Configs == [dns : {"tunnel", "strict", "localhost", "any"},
            v6 : {"block", "tunnel", "off"}, doh : BOOLEAN]

\* build_dns_rules; lo6: the resolver on ::1 gets a rule as well.
DnsRules(c, lo6) ==
    CASE c.dns \in {"tunnel", "strict"} ->
            InSomeOrder({Accept([out |-> t, svc |-> "dns"]) : t \in Tunnels}) \o DropDns
      [] c.dns = "localhost" ->
            <<Accept([dst |-> "resolver", svc |-> "dns"])>>
                \o (IF lo6 THEN <<Accept([dst |-> "lo6", svc |-> "dns"])>> ELSE << >>)
                \o DropDns
      [] c.dns = "any" -> <<Accept([svc |-> "dns"])>>

\* build_doh_blocking_rules
DohRules(c) ==
    IF c.doh /\ c.dns \in {"tunnel", "strict"}
    THEN <<Drop([dst |-> "doh", svc |-> "https"])>> ELSE << >>

\* Mutant of IptablesChain: the LAN exception comes before the DNS rules.
IptablesChainLanFirst(c, servers, links) ==
    <<Lo, Established>> \o AcceptEach("net", DetectLocalSubnets(links))
        \o DnsRules(c, TRUE) \o TunnelRules \o DohRules(c)
        \o AcceptEach("dst", servers \cap Hosts4)
        \o <<Dhcp, Drop(EveryPacket)>>

\* build_complete_script: the chain SHROUD_KILLSWITCH.  An IPv6 server only
\* gets a warning.
IptablesChain(c, servers, links) ==
    <<Lo, Established>> \o DnsRules(c, TRUE) \o TunnelRules \o DohRules(c)
        \o AcceptEach("dst", servers \cap Hosts4)
        \o AcceptEach("net", DetectLocalSubnets(links))
        \o <<Dhcp, Drop(EveryPacket)>>

\* iptables refuses a rule that names an IPv6 address.
Loadable(chain) ==
    \A i \in DOMAIN chain : "dst" \in DOMAIN chain[i].on => chain[i].on.dst \in Hosts4

\* build_ipv6_script: the rules put in front of ip6tables' OUTPUT.
Ip6Rules(c, links) ==
    CASE c.v6 = "block" -> <<Lo, Drop(EveryPacket)>>
      [] c.v6 = "tunnel" ->
            <<Lo, Established, Accept([out |-> "tun"])>>
                \o AcceptEach("dst", DetectLocalSubnetsV6(links)) \o <<Drop(EveryPacket)>>
      [] c.v6 = "off" -> << >>

\* The rules IPV6_OUTPUT_RULES lets the cleanup delete.
Ip6Removable == {Lo, Established, Drop(EveryPacket), Accept([out |-> "tun"]),
                 Accept([dst |-> "linklocal6"])}

\* build_nft_ruleset: the chain of table inet shroud_killswitch, policy drop.
NftRules(c, servers, links) ==
    <<Lo, Established>>
        \o (IF c.v6 = "block" THEN <<Drop([fam |-> 6])>>
                              ELSE <<Accept([dst |-> "linklocal6"])>>)
        \o <<Dhcp>> \o DnsRules(c, c.v6 # "block") \o DohRules(c)
        \o AcceptEach("net", DetectLocalSubnets(links)) \o TunnelRules
        \o AcceptEach("dst", {s \in servers : s \in Hosts4 \/ c.v6 # "block"})
=============================================================================
