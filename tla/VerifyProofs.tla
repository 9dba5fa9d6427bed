---------------------------- MODULE VerifyProofs ----------------------------
(***************************************************************************)
(* Proofs about FirewallRules and Verify, for every set of VPN servers,    *)
(* every interface listing, every configuration and any number of          *)
(* disturbances: what the rules of the two backends let out, that they are *)
(* the same policy, and what the report of `shroud verify killswitch` is   *)
(* worth.                                                                  *)
(***************************************************************************)
EXTENDS Verify, FiniteSetTheorems, SequenceTheorems, TLAPS

----------------------------------------------------------------------------
(* Lists of rules *)

List(s) == s \in Seq(Range(s))

\* A set of numbers has a least one: Min is what its name says.
LEMMA MinIsLeast ==
    ASSUME NEW S \in SUBSET Nat, S # {}
    PROVE  Min(S) \in S /\ \A n \in S : Min(S) <= n
<1>1. PICK x \in S : \A y \in S : ~(<<y, x>> \in OpToRel(<, Nat))
  BY NatLessThanWellFounded, WFMin, Zenon
<1>2. ASSUME NEW y \in S PROVE x <= y
  <2>1. ~(<<y, x>> \in {xy \in Nat \X Nat : xy[1] < xy[2]})
    BY <1>1, Zenon DEF OpToRel
  <2> QED BY <2>1
<1> QED BY <1>2, Zenon DEF Min

\* A rule that matches and has none that matches before it decides.
LEMMA FirstMatch ==
    ASSUME NEW s, List(s), NEW p, NEW d, NEW i \in 1..Len(s), Matches(s[i], p),
           \A j \in 1..Len(s) : j < i => ~Matches(s[j], p)
    PROVE  Verdict(s, p, d) = s[i].to
<1> DEFINE hits == {j \in DOMAIN s : Matches(s[j], p)}
<1>1. DOMAIN s = 1..Len(s) /\ Len(s) \in Nat
  BY DEF List
<1>2. hits \in SUBSET Nat /\ i \in hits
  BY <1>1
<1> HIDE DEF hits
<1>3. Min(hits) \in hits /\ Min(hits) <= i
  BY <1>2, MinIsLeast
<1>4. Min(hits) = i
  BY <1>1, <1>3 DEF hits
<1> QED BY <1>2, <1>4 DEF Verdict, hits

\* Where no rule matches the policy decides.
LEMMA NoMatch ==
    ASSUME NEW s, List(s), NEW p, NEW d, \A i \in 1..Len(s) : ~Matches(s[i], p)
    PROVE  Verdict(s, p, d) = d
BY DEF Verdict, List

\* Either no rule matches or one of them is the first to.
LEMMA SomeOrNone ==
    ASSUME NEW s, List(s), NEW p
    PROVE  \/ \A i \in 1..Len(s) : ~Matches(s[i], p)
           \/ \E i \in 1..Len(s) : /\ Matches(s[i], p)
                                   /\ \A j \in 1..Len(s) : j < i => ~Matches(s[j], p)
<1> DEFINE hits == {j \in 1..Len(s) : Matches(s[j], p)}
<1>1. hits \in SUBSET Nat /\ Len(s) \in Nat
  BY DEF List
<1>2. CASE hits = {}
  BY <1>2
<1>3. CASE hits # {}
  <2> HIDE DEF hits
  <2>1. PICK i \in hits : \A n \in hits : i <= n
    BY <1>1, <1>3, MinIsLeast, Zenon
  <2>2. ASSUME NEW j \in 1..Len(s), j < i PROVE j \notin hits
    <3>1. i \in Nat /\ j \in Nat
      BY <1>1
    <3> QED BY <2>1, <2>2, <3>1
  <2>3. i \in 1..Len(s) /\ Matches(s[i], p)
    BY <2>1 DEF hits
  <2>4. \A j \in 1..Len(s) : j < i => ~Matches(s[j], p)
    BY <2>2 DEF hits
  <2> QED BY <2>3, <2>4
<1> QED BY <1>2, <1>3

\* One list after another: the second decides what the first leaves open.
LEMMA Joined ==
    ASSUME NEW a, NEW b, List(a), List(b)
    PROVE  /\ List(a \o b)
           /\ Range(a \o b) = Range(a) \cup Range(b)
           /\ \A p, d : Verdict(a \o b, p, d) = Verdict(a, p, Verdict(b, p, d))
<1> DEFINE S == Range(a) \cup Range(b)
           c == a \o b
<1>1. a \in Seq(S) /\ b \in Seq(S)
  BY DEF List
<1> HIDE DEF S
<1>2. /\ c \in Seq(S)
      /\ Len(c) = Len(a) + Len(b)
      /\ \A i \in 1..Len(a) + Len(b) : c[i] = IF i <= Len(a) THEN a[i] ELSE b[i - Len(a)]
  BY <1>1, ConcatProperties
<1>3. Range(c) = Range(a) \cup Range(b)
  BY <1>1, RangeConcatenation
<1> HIDE DEF c
<1>4. List(c)
  BY <1>2, <1>3 DEF List, S
<1>5. ASSUME NEW p, NEW d PROVE Verdict(c, p, d) = Verdict(a, p, Verdict(b, p, d))
  <2>0. Len(a) \in Nat /\ Len(b) \in Nat
    BY <1>1
  <2>1. ASSUME NEW i \in 1..Len(a), Matches(a[i], p),
               \A j \in 1..Len(a) : j < i => ~Matches(a[j], p)
        PROVE  Verdict(c, p, d) = a[i].to /\ Verdict(a, p, Verdict(b, p, d)) = a[i].to
    <3>1. /\ i \in 1..Len(c) /\ c[i] = a[i]
          /\ \A j \in 1..Len(c) : j < i => c[j] = a[j] /\ j \in 1..Len(a)
      BY <1>2, <2>0
    <3> QED BY <1>4, <2>1, <3>1, FirstMatch
  <2>2. ASSUME \A i \in 1..Len(a) : ~Matches(a[i], p)
        PROVE  Verdict(c, p, d) = Verdict(b, p, d)
    <3>1. ASSUME NEW i \in 1..Len(b), Matches(b[i], p),
                 \A j \in 1..Len(b) : j < i => ~Matches(b[j], p)
          PROVE  Verdict(c, p, d) = b[i].to
      <4>1. Len(a) + i \in 1..Len(c) /\ c[Len(a) + i] = b[i]
        BY SMTT(20), <1>2, <2>0
      <4>2. \A j \in 1..Len(c) : j < Len(a) + i => ~Matches(c[j], p)
        <5> TAKE j \in 1..Len(c)
        <5>1. CASE j <= Len(a)
          BY <1>2, <2>0, <2>2, <5>1
        <5>2. CASE j > Len(a)
          <6>1. c[j] = b[j - Len(a)] /\ j - Len(a) \in 1..Len(b)
            BY <1>2, <2>0, <5>2
          <6>2. j < Len(a) + i => j - Len(a) < i
            BY <2>0, <5>2
          <6> QED BY <3>1, <6>1, <6>2
        <5> QED BY <2>0, <5>1, <5>2
      <4> QED BY <1>4, <3>1, <4>1, <4>2, FirstMatch
    <3>2. ASSUME \A i \in 1..Len(b) : ~Matches(b[i], p)
          PROVE  Verdict(c, p, d) = d
      <4>1. \A j \in 1..Len(c) : ~Matches(c[j], p)
        <5> TAKE j \in 1..Len(c)
        <5>1. CASE j <= Len(a)
          BY <1>2, <2>0, <2>2, <5>1
        <5>2. CASE j > Len(a)
          BY <1>2, <2>0, <3>2, <5>2
        <5> QED BY <2>0, <5>1, <5>2
      <4> QED BY <1>4, <4>1, NoMatch
    <3>3. ASSUME NEW i \in 1..Len(b), Matches(b[i], p),
                 \A j \in 1..Len(b) : j < i => ~Matches(b[j], p)
          PROVE  Verdict(c, p, d) = Verdict(b, p, d)
      BY <3>1, <3>3, FirstMatch
    <3>4. ASSUME \A i \in 1..Len(b) : ~Matches(b[i], p)
          PROVE  Verdict(c, p, d) = Verdict(b, p, d)
      BY <3>2, <3>4, NoMatch
    <3> QED BY <3>3, <3>4, SomeOrNone, Zenon
  <2>3. ASSUME \A i \in 1..Len(a) : ~Matches(a[i], p)
        PROVE  Verdict(a, p, Verdict(b, p, d)) = Verdict(b, p, d)
    BY <2>3, NoMatch
  <2> QED BY <2>1, <2>2, <2>3, SomeOrNone, Zenon
<1> QED BY <1>3, <1>4, <1>5 DEF c

\* The empty list.
LEMMA EmptyList ==
    List(<< >>) /\ Range(<< >>) = {} /\ \A p, d : Verdict(<< >>, p, d) = d
BY DEF List, Range, Verdict

\* A list of one rule.
LEMMA OneRule ==
    ASSUME NEW r
    PROVE  /\ List(<<r>>) /\ Range(<<r>>) = {r}
           /\ \A p, d : Verdict(<<r>>, p, d) = IF Matches(r, p) THEN r.to ELSE d
<1>1. Range(<<r>>) = {r} /\ List(<<r>>)
  BY DEF Range, List
<1>2. ASSUME NEW p, NEW d PROVE Verdict(<<r>>, p, d) = IF Matches(r, p) THEN r.to ELSE d
  <2>1. Len(<<r>>) = 1 /\ <<r>>[1] = r
    OBVIOUS
  <2>2. CASE Matches(r, p)
    BY <1>1, <2>1, <2>2, FirstMatch
  <2>3. CASE ~Matches(r, p)
    BY <1>1, <2>1, <2>3, NoMatch
  <2> QED BY <2>2, <2>3
<1> QED BY <1>1, <1>2

\* A list of two rules, and one of three.
LEMMA TwoRules ==
    ASSUME NEW r, NEW s
    PROVE  /\ List(<<r, s>>) /\ Range(<<r, s>>) = {r, s}
           /\ \A p, d : Verdict(<<r, s>>, p, d) =
                 IF Matches(r, p) THEN r.to ELSE IF Matches(s, p) THEN s.to ELSE d
<1> DEFINE l == <<r, s>>
<1>1. l \in Seq({r, s}) /\ Len(l) = 2 /\ l[1] = r /\ l[2] = s
  OBVIOUS
<1> HIDE DEF l
<1>2. DOMAIN l = 1..2
  BY <1>1
<1>3. Range(l) = {r, s}
  BY <1>1, <1>2 DEF Range
<1>4. List(l)
  BY <1>1, <1>3 DEF List
<1>5. ASSUME NEW p, NEW d
      PROVE  Verdict(l, p, d) =
                 IF Matches(r, p) THEN r.to ELSE IF Matches(s, p) THEN s.to ELSE d
  <2>1. CASE Matches(r, p)
    BY <1>1, <1>4, <2>1, FirstMatch
  <2>2. CASE ~Matches(r, p) /\ Matches(s, p)
    BY <1>1, <1>4, <2>2, FirstMatch
  <2>3. CASE ~Matches(r, p) /\ ~Matches(s, p)
    BY <1>1, <1>4, <2>3, NoMatch
  <2> QED BY <2>1, <2>2, <2>3
<1> QED BY <1>3, <1>4, <1>5 DEF l

\* A list of three rules, as build_ipv6_script begins.
LEMMA ThreeRules ==
    ASSUME NEW r, NEW s, NEW t
    PROVE  /\ List(<<r, s, t>>) /\ Range(<<r, s, t>>) = {r, s, t}
           /\ \A p, d : Verdict(<<r, s, t>>, p, d) =
                 IF Matches(r, p) THEN r.to
                 ELSE IF Matches(s, p) THEN s.to ELSE IF Matches(t, p) THEN t.to ELSE d
<1> DEFINE l == <<r, s, t>>
<1>1. l \in Seq({r, s, t}) /\ Len(l) = 3 /\ l[1] = r /\ l[2] = s /\ l[3] = t
  OBVIOUS
<1> HIDE DEF l
<1>2. DOMAIN l = 1..3
  BY <1>1
<1>3. Range(l) = {r, s, t}
  BY <1>1, <1>2 DEF Range
<1>4. List(l)
  BY <1>1, <1>3 DEF List
<1>5. ASSUME NEW p, NEW d
      PROVE  Verdict(l, p, d) =
                 IF Matches(r, p) THEN r.to
                 ELSE IF Matches(s, p) THEN s.to ELSE IF Matches(t, p) THEN t.to ELSE d
  <2>1. CASE Matches(r, p)
    BY <1>1, <1>4, <2>1, FirstMatch
  <2>2. CASE ~Matches(r, p) /\ Matches(s, p)
    BY <1>1, <1>4, <2>2, FirstMatch
  <2>3. CASE ~Matches(r, p) /\ ~Matches(s, p) /\ Matches(t, p)
    BY <1>1, <1>4, <2>3, FirstMatch
  <2>4. CASE ~Matches(r, p) /\ ~Matches(s, p) /\ ~Matches(t, p)
    BY <1>1, <1>4, <2>4, NoMatch
  <2> QED BY <2>1, <2>2, <2>3, <2>4
<1> QED BY <1>3, <1>4, <1>5 DEF l

\* A finite set listed in some order.
LEMMA SetListed ==
    ASSUME NEW S, IsFiniteSet(S)
    PROVE  List(InSomeOrder(S)) /\ Range(InSomeOrder(S)) = S
<1> DEFINE n == Cardinality(S)
           f == InSomeOrder(S)
<1>1. n \in Nat /\ Bijection(1..n, S) # {}
  BY FS_CardinalityType DEF ExistsBijection
<1>2. IsFiniteSet(1..n) /\ Cardinality(1..n) = n
  BY <1>1, FS_Interval
<1>3. Injection(1..n, S) # {}
  BY <1>1 DEF Bijection
<1>4. f \in Injection(1..n, S)
  BY <1>3 DEF InSomeOrder
<1> HIDE DEF f, n
<1>5. f \in [1..n -> S]
  BY <1>4 DEF Injection
<1>6. f \in Surjection(1..n, S)
  BY <1>2, <1>4, FS_Injection DEF n
<1>7. Range(f) = S
  BY <1>6 DEF Surjection, Range
<1>8. f \in Seq(S)
  BY <1>1, <1>5
<1> QED BY <1>7, <1>8 DEF List, f

\* Exceptions listed in any order: it matters only whether one of them applies.
LEMMA Exceptions ==
    ASSUME NEW S, IsFiniteSet(S), \A r \in S : r.to = "accept", NEW p, NEW d
    PROVE  Verdict(InSomeOrder(S), p, d) = IF \E r \in S : Matches(r, p) THEN "accept" ELSE d
<1> DEFINE f == InSomeOrder(S)
<1>1. List(f) /\ Range(f) = S
  BY SetListed
<1> HIDE DEF f
<1>2. f \in Seq(S) /\ DOMAIN f = 1..Len(f)
  BY <1>1 DEF List
<1>3. \A i \in 1..Len(f) : f[i] \in S
  BY <1>2
<1>4. \A r \in S : \E i \in 1..Len(f) : r = f[i]
  BY <1>1, <1>2 DEF Range
<1>5. CASE \E i \in 1..Len(f) : /\ Matches(f[i], p)
                               /\ \A j \in 1..Len(f) : j < i => ~Matches(f[j], p)
  <2>1. PICK i \in 1..Len(f) : /\ Matches(f[i], p)
                              /\ \A j \in 1..Len(f) : j < i => ~Matches(f[j], p)
    BY <1>5
  <2>2. Verdict(f, p, d) = f[i].to
    BY <1>1, <2>1, FirstMatch
  <2> QED BY <1>3, <2>1, <2>2 DEF f
<1>6. CASE \A i \in 1..Len(f) : ~Matches(f[i], p)
  <2>1. Verdict(f, p, d) = d
    BY <1>1, <1>6, NoMatch
  <2> QED BY <1>4, <1>6, <2>1 DEF f
<1> QED BY <1>1, <1>5, <1>6, SomeOrNone, Zenon

----------------------------------------------------------------------------
(* What the rules match *)

\* A rule of one field, and of two, whatever its verdict.
LEMMA FieldRules ==
    ASSUME NEW p, NEW x
    PROVE  /\ Matches(Accept([f \in {"out"} |-> x]), p) <=> p.out = x
           /\ Matches(Accept([f \in {"dst"} |-> x]), p) <=> p.dst = x
           /\ Matches(Accept([f \in {"net"} |-> x]), p) <=>
                 p.dst \in Hosts4 /\ Inside(Top16[p.dst], x)
           /\ Matches(Accept([svc |-> x]), p) <=> p.svc = x
           /\ Matches(Drop([svc |-> x]), p) <=> p.svc = x
           /\ Matches(Accept([dst |-> x, svc |-> "dns"]), p) <=> p.dst = x /\ p.svc = "dns"
           /\ Matches(Accept([out |-> x, svc |-> "dns"]), p) <=> p.out = x /\ p.svc = "dns"
BY DEF Accept, Drop, Matches

\* The rules that are the same in every chain.
LEMMA FixedRules ==
    ASSUME NEW p \in Packets
    PROVE  /\ Matches(Lo, p) <=> p.out = "lo"
           /\ Matches(Established, p) <=> p.est
           /\ Matches(Dhcp, p) <=> p.svc = "dhcp"
           /\ Matches(Accept([out |-> "tun"]), p) <=> p.out = "tun"
           /\ Matches(Drop([fam |-> 6]), p) <=> p.fam = 6
           /\ Matches(Accept([dst |-> "linklocal6"]), p) <=> p.dst = "linklocal6"
           /\ Matches(Drop([dst |-> "doh", svc |-> "https"]), p) <=>
                 p.dst = "doh" /\ p.svc = "https"
           /\ Matches(Drop(EveryPacket), p)
<1>1. p.est \in BOOLEAN
  BY DEF Packets
<1>2. Matches(Established, p) <=> p.est = TRUE
  <2>1. \A x : Matches(Accept([est |-> x]), p) <=> p.est = x
    BY DEF Accept, Matches
  <2> QED BY <2>1, Zenon DEF Established
<1>3. Matches(Drop(EveryPacket), p)
  BY DEF Drop, Matches, EveryPacket
<1>4. Matches(Drop([fam |-> 6]), p) <=> p.fam = 6
  BY DEF Drop, Matches
<1>5. /\ Matches(Lo, p) <=> p.out = "lo"
      /\ Matches(Dhcp, p) <=> p.svc = "dhcp"
      /\ Matches(Accept([out |-> "tun"]), p) <=> p.out = "tun"
      /\ Matches(Accept([dst |-> "linklocal6"]), p) <=> p.dst = "linklocal6"
      /\ Matches(Drop([dst |-> "doh", svc |-> "https"]), p) <=>
            p.dst = "doh" /\ p.svc = "https"
  BY DEF Accept, Drop, Matches, Lo, Dhcp
<1> QED BY <1>1, <1>2, <1>3, <1>4, <1>5

\* The verdict a rule carries.
LEMMA RuleVerdicts == \A x : Accept(x).to = "accept" /\ Drop(x).to = "drop"
BY DEF Accept, Drop

----------------------------------------------------------------------------
(* The sets the builders list are finite *)

\* The image of a finite set under a function.
LEMMA FiniteImage ==
    ASSUME NEW S, IsFiniteSet(S), NEW g, DOMAIN g = S
    PROVE  IsFiniteSet({g[x] : x \in S})
<1> DEFINE T == {g[x] : x \in S}
           h == [x \in S |-> g[x]]
<1>1. h \in Surjection(S, T)
  BY DEF Surjection
<1> QED BY <1>1, FS_Surjection

\* The indices of the short lists, and the prefix lengths.
LEMMA FiniteRanges ==
    IsFiniteSet(1..3) /\ IsFiniteSet(1..4) /\ IsFiniteSet(1..10) /\ IsFiniteSet(0..16)
<1>1. \A a, b \in Int : IsFiniteSet(a..b)
  BY FS_Interval
<1>2. {0, 1, 3, 4, 10, 16} \subseteq Int
  OBVIOUS
<1> QED BY <1>1, <1>2, Zenon

\* The tunnel interfaces (VPN_INTERFACES) are listed one by one.
LEMMA FiniteTunnels == IsFiniteSet(Tunnels)
<1> DEFINE f == <<"tun", "tap", "wg">>
<1>1. f \in [1..3 -> Tunnels] /\ f[1] = "tun" /\ f[2] = "tap" /\ f[3] = "wg"
  BY DEF Tunnels
<1>2. f \in Surjection(1..3, Tunnels)
  BY <1>1 DEF Surjection, Tunnels
<1> QED BY <1>2, FiniteRanges, FS_Surjection

\* The IPv4 addresses are finitely many, and so are the subnets made from them.
LEMMA FiniteHosts4 == IsFiniteSet(Hosts4)
<1> DEFINE f == <<"resolver", "otherlocal", "lan", "neighbour", "ten", "carrier",
                  "linklocal", "doh", "server", "public">>
<1>1. Hosts4 = {"resolver", "otherlocal", "lan", "neighbour", "ten", "carrier",
                "linklocal", "doh", "server", "public"}
  BY DEF Hosts4, Top16
<1>2. f \in [1..10 -> Hosts4]
  BY <1>1
<1>3. \A h \in Hosts4 : \E i \in 1..10 : f[i] = h
  <2>1. /\ f[1] = "resolver" /\ f[2] = "otherlocal" /\ f[3] = "lan" /\ f[4] = "neighbour"
        /\ f[5] = "ten" /\ f[6] = "carrier" /\ f[7] = "linklocal" /\ f[8] = "doh"
        /\ f[9] = "server" /\ f[10] = "public"
    OBVIOUS
  <2> HIDE DEF f
  <2> QED BY <1>1, <2>1
<1> HIDE DEF f
<1>4. f \in Surjection(1..10, Hosts4)
  BY <1>2, <1>3 DEF Surjection
<1> QED BY <1>4, FiniteRanges, FS_Surjection

\* An interface listing, as detect_local_subnets reads it, gives finitely many
\* subnets.
LEMMA FiniteSubnets ==
    ASSUME NEW l \in Links
    PROVE  IsFiniteSet(DetectLocalSubnets(l))
<1> DEFINE A == Hosts4 \X (0..16)
           g == [x \in A |-> Cidr(Mask(Top16[x[1]], x[2]), x[2])]
           T == {g[x] : x \in A}
           kept == {a \in l.v4 : ~a.virtual
                       /\ IsValidPrivateCidr(Cidr(Mask(Top16[a.addr], a.len), a.len))}
           nets == {Cidr(Mask(Top16[a.addr], a.len), a.len) : a \in kept}
<1>1. IsFiniteSet(A)
  BY FiniteHosts4, FiniteRanges, FS_Product
<1>2. DOMAIN g = A
  OBVIOUS
<1>3. IsFiniteSet(T)
  <2> HIDE DEF g, A
  <2> QED BY <1>1, <1>2, FiniteImage
<1>4. nets \subseteq T
  <2> SUFFICES ASSUME NEW a \in kept PROVE Cidr(Mask(Top16[a.addr], a.len), a.len) \in T
    BY Zenon
  <2>1. <<a.addr, a.len>> \in A
    BY DEF Links
  <2>2. g[<<a.addr, a.len>>] = Cidr(Mask(Top16[a.addr], a.len), a.len)
    BY <2>1
  <2> HIDE DEF g, A
  <2> QED BY <2>1, <2>2
<1>5. IsFiniteSet(nets)
  <2> HIDE DEF nets, T
  <2> QED BY <1>3, <1>4, FS_Subset
<1>6. IsFiniteSet(nets \cup {LinkLocal4})
  <2> HIDE DEF nets
  <2> QED BY <1>5, FS_AddElement
<1>7. IsFiniteSet(LanSubnets)
  <2> DEFINE f == <<Cidr(Octets(10, 0), 8), Cidr(Octets(172, 16), 12),
                    Cidr(Octets(192, 168), 16), LinkLocal4>>
  <2>1. f \in Surjection(1..4, LanSubnets)
    BY DEF Surjection, LanSubnets
  <2> QED BY <2>1, FiniteRanges, FS_Surjection
<1>8. DetectLocalSubnets(l) \in {LanSubnets, nets \cup {LinkLocal4}}
  BY DEF DetectLocalSubnets
<1> QED BY <1>6, <1>7, <1>8

\* Accepting each member of a finite set: a list of exactly those exceptions.
LEMMA EachAccepted ==
    ASSUME NEW S, IsFiniteSet(S), NEW field
    PROVE  /\ List(AcceptEach(field, S))
           /\ Range(AcceptEach(field, S)) = {Accept([f \in {field} |-> x]) : x \in S}
           /\ \A p, d : Verdict(AcceptEach(field, S), p, d) =
                 IF \E x \in S : Matches(Accept([f \in {field} |-> x]), p)
                 THEN "accept" ELSE d
<1> DEFINE g == [x \in S |-> Accept([f \in {field} |-> x])]
           R == {Accept([f \in {field} |-> x]) : x \in S}
<1>1. IsFiniteSet({g[x] : x \in S})
  <2>1. DOMAIN g = S
    OBVIOUS
  <2> HIDE DEF g
  <2> QED BY <2>1, FiniteImage
<1>2. R = {g[x] : x \in S}
  OBVIOUS
<1>3. \A r \in R : r.to = "accept"
  BY RuleVerdicts
<1>4. \A p : (\E r \in R : Matches(r, p)) <=>
            \E x \in S : Matches(Accept([f \in {field} |-> x]), p)
  OBVIOUS
<1> HIDE DEF R, g
<1>5. List(InSomeOrder(R)) /\ Range(InSomeOrder(R)) = R
  BY <1>1, <1>2, SetListed
<1>6. \A p, d : Verdict(InSomeOrder(R), p, d) =
                   IF \E r \in R : Matches(r, p) THEN "accept" ELSE d
  BY <1>1, <1>2, <1>3, Exceptions
<1> QED BY <1>4, <1>5, <1>6, Zenon DEF R, AcceptEach

----------------------------------------------------------------------------
(* The policies *)

Plain(p) == p.svc \in {"dns", "dot"}
Resolves(p, lo6) == p.svc = "dns" /\ (p.dst = "resolver" \/ (lo6 /\ p.dst = "lo6"))
InTunnel(p) == p.out \in Tunnels

\* The policy build_dns_rules writes; d is what the rules after it decide.
DnsVerdict(c, lo6, p, d) ==
    IF ~Plain(p) THEN d
    ELSE IF c.dns = "any" THEN (IF p.svc = "dns" THEN "accept" ELSE d)
    ELSE IF IF c.dns = "localhost" THEN Resolves(p, lo6) ELSE p.svc = "dns" /\ InTunnel(p)
         THEN "accept" ELSE "drop"

DropsDoh(c, p) == c.doh /\ c.dns \in {"tunnel", "strict"} /\ p.dst = "doh" /\ p.svc = "https"

\* build_dns_rules writes that policy, with the rules the verification looks for
\* in every mode but "any".
LEMMA DnsListed ==
    ASSUME NEW c \in Configs, NEW lo6 \in BOOLEAN
    PROVE  /\ List(DnsRules(c, lo6))
           /\ \A p \in Packets : \A d :
                 Verdict(DnsRules(c, lo6), p, d) = DnsVerdict(c, lo6, p, d)
           /\ c.dns = "any" => Range(DnsRules(c, lo6)) = {Accept([svc |-> "dns"])}
           /\ c.dns # "any" => Drop([svc |-> "dns"]) \in Range(DnsRules(c, lo6))
<1>0. c.dns \in {"tunnel", "strict", "localhost", "any"}
  BY DEF Configs
<1>1. /\ List(DropDns) /\ Range(DropDns) = {Drop([svc |-> "dns"]), Drop([svc |-> "dot"])}
      /\ \A p \in Packets : \A d : Verdict(DropDns, p, d) = IF Plain(p) THEN "drop" ELSE d
  <2> DEFINE r == Drop([svc |-> "dns"])
             s == Drop([svc |-> "dot"])
  <2>1. /\ r.to = "drop" /\ s.to = "drop"
        /\ \A p : (Matches(r, p) <=> p.svc = "dns") /\ (Matches(s, p) <=> p.svc = "dot")
    BY FieldRules, RuleVerdicts, Zenon
  <2>2. DropDns = <<r, s>>
    BY DEF DropDns
  <2> HIDE DEF r, s
  <2>3. /\ List(DropDns) /\ Range(DropDns) = {r, s}
        /\ \A p, d : Verdict(DropDns, p, d) =
              IF Matches(r, p) THEN r.to ELSE IF Matches(s, p) THEN s.to ELSE d
    BY <2>2, TwoRules
  <2>4. \A p, d : Verdict(DropDns, p, d) = IF Plain(p) THEN "drop" ELSE d
    BY <2>1, <2>3 DEF Plain
  <2> QED BY <2>3, <2>4 DEF r, s
<1>2. CASE c.dns \in {"tunnel", "strict"}
  <2> DEFINE S == {Accept([out |-> t, svc |-> "dns"]) : t \in Tunnels}
             l == InSomeOrder(S)
             g == [t \in Tunnels |-> Accept([out |-> t, svc |-> "dns"])]
  <2>1. DnsRules(c, lo6) = l \o DropDns
    BY <1>2 DEF DnsRules
  <2>2. S = {g[t] : t \in Tunnels} /\ DOMAIN g = Tunnels
    OBVIOUS
  <2>3. IsFiniteSet(S)
    <3> HIDE DEF g, S
    <3> QED BY <2>2, FiniteImage, FiniteTunnels
  <2>4. \A r \in S : r.to = "accept"
    BY RuleVerdicts, Zenon
  <2>5. \A p : (\E r \in S : Matches(r, p)) <=> p.svc = "dns" /\ InTunnel(p)
    <3>1. \A p, x : Matches(Accept([out |-> x, svc |-> "dns"]), p)
                       <=> p.out = x /\ p.svc = "dns"
      BY FieldRules, Zenon
    <3> QED BY <3>1, Zenon DEF InTunnel
  <2> HIDE DEF S
  <2>6. List(l)
    BY <2>3, SetListed
  <2>7. \A p, d : Verdict(l, p, d) = IF p.svc = "dns" /\ InTunnel(p) THEN "accept" ELSE d
    BY <2>3, <2>4, <2>5, Exceptions
  <2> HIDE DEF l
  <2>8. /\ List(DnsRules(c, lo6))
        /\ Drop([svc |-> "dns"]) \in Range(DnsRules(c, lo6))
    BY <1>1, <2>1, <2>6, Joined
  <2>9. \A p \in Packets : \A d :
            Verdict(DnsRules(c, lo6), p, d) = Verdict(l, p, Verdict(DropDns, p, d))
    BY <1>1, <2>1, <2>6, Joined
  <2>10. \A p \in Packets : \A d : Verdict(DnsRules(c, lo6), p, d) = DnsVerdict(c, lo6, p, d)
    BY <1>1, <1>2, <2>7, <2>9 DEF DnsVerdict, Plain
  <2> QED BY <1>2, <2>8, <2>10
<1>3. CASE c.dns = "localhost"
  <2> DEFINE four == Accept([dst |-> "resolver", svc |-> "dns"])
             six == Accept([dst |-> "lo6", svc |-> "dns"])
             more == IF lo6 THEN <<six>> ELSE << >>
             l == <<four>> \o more
  <2>1. DnsRules(c, lo6) = l \o DropDns
    BY <1>3 DEF DnsRules
  <2>0. /\ four.to = "accept" /\ six.to = "accept"
        /\ \A p : Matches(four, p) <=> p.dst = "resolver" /\ p.svc = "dns"
        /\ \A p : Matches(six, p) <=> p.dst = "lo6" /\ p.svc = "dns"
    BY FieldRules, RuleVerdicts, Zenon
  <2> HIDE DEF four, six
  <2>2. /\ List(more)
        /\ \A p, d : Verdict(more, p, d) =
              IF lo6 /\ p.dst = "lo6" /\ p.svc = "dns" THEN "accept" ELSE d
    <3>1. CASE lo6
      BY <2>0, <3>1, OneRule
    <3>2. CASE ~lo6
      BY <3>2, EmptyList
    <3> QED BY <3>1, <3>2
  <2>3. /\ List(<<four>>)
        /\ \A p, d : Verdict(<<four>>, p, d) =
              IF p.dst = "resolver" /\ p.svc = "dns" THEN "accept" ELSE d
    BY <2>0, OneRule
  <2> HIDE DEF more
  <2>4. List(l) /\ \A p, d : Verdict(l, p, d) = Verdict(<<four>>, p, Verdict(more, p, d))
    BY <2>2, <2>3, Joined
  <2> HIDE DEF l
  <2>5. \A p, d : Verdict(l, p, d) = IF Resolves(p, lo6) THEN "accept" ELSE d
    <3> TAKE p, d
    <3>1. CASE p.dst = "resolver" /\ p.svc = "dns"
      <4>1. Verdict(l, p, d) = "accept"
        BY <2>3, <2>4, <3>1
      <4>2. Resolves(p, lo6)
        BY <3>1, Zenon DEF Resolves
      <4> QED BY <4>1, <4>2
    <3>2. CASE ~(p.dst = "resolver" /\ p.svc = "dns")
      <4>1. Verdict(l, p, d) = Verdict(more, p, d)
        BY <2>3, <2>4, <3>2
      <4> QED BY <2>2, <3>2, <4>1 DEF Resolves
    <3> QED BY <3>1, <3>2
  <2>6. /\ List(DnsRules(c, lo6))
        /\ Drop([svc |-> "dns"]) \in Range(DnsRules(c, lo6))
    BY <1>1, <2>1, <2>4, Joined
  <2>7. \A p \in Packets : \A d :
            Verdict(DnsRules(c, lo6), p, d) = Verdict(l, p, Verdict(DropDns, p, d))
    BY <1>1, <2>1, <2>4, Joined
  <2>8. \A p \in Packets : \A d : Verdict(DnsRules(c, lo6), p, d) = DnsVerdict(c, lo6, p, d)
    BY <1>1, <1>3, <2>5, <2>7 DEF DnsVerdict, Plain, Resolves
  <2> QED BY <1>3, <2>6, <2>8
<1>4. CASE c.dns = "any"
  <2>1. DnsRules(c, lo6) = <<Accept([svc |-> "dns"])>>
    BY <1>4 DEF DnsRules
  <2> DEFINE r == Accept([svc |-> "dns"])
  <2>2. r.to = "accept" /\ \A p : Matches(r, p) <=> p.svc = "dns"
    BY FieldRules, RuleVerdicts, Zenon
  <2> HIDE DEF r
  <2>3. /\ List(<<r>>) /\ Range(<<r>>) = {r}
        /\ \A p, d : Verdict(<<r>>, p, d) = IF p.svc = "dns" THEN "accept" ELSE d
    BY <2>2, OneRule
  <2>4. \A p, d : DnsVerdict(c, lo6, p, d) = IF p.svc = "dns" THEN "accept" ELSE d
    BY <1>4 DEF DnsVerdict, Plain
  <2> QED BY <1>4, <2>1, <2>3, <2>4 DEF r
<1> QED BY <1>0, <1>2, <1>3, <1>4

\* build_doh_blocking_rules: one address at the HTTPS port, or nothing.
LEMMA DohListed ==
    ASSUME NEW c \in Configs
    PROVE  /\ List(DohRules(c))
           /\ \A p \in Packets : \A d :
                 Verdict(DohRules(c), p, d) = IF DropsDoh(c, p) THEN "drop" ELSE d
           /\ c.dns = "any" => Range(DohRules(c)) = {}
<1> DEFINE r == Drop([dst |-> "doh", svc |-> "https"])
           on == c.doh /\ c.dns \in {"tunnel", "strict"}
<1>1. r.to = "drop" /\ \A p \in Packets : Matches(r, p) <=> p.dst = "doh" /\ p.svc = "https"
  BY FixedRules, RuleVerdicts
<1>2. DohRules(c) = IF on THEN <<r>> ELSE << >>
  BY DEF DohRules
<1>3. \A p : DropsDoh(c, p) <=> on /\ p.dst = "doh" /\ p.svc = "https"
  BY DEF DropsDoh
<1>4. c.dns = "any" => ~on
  OBVIOUS
<1> HIDE DEF r, on
<1>5. CASE on
  BY <1>1, <1>2, <1>3, <1>4, <1>5, OneRule
<1>6. CASE ~on
  BY <1>2, <1>3, <1>6, EmptyList
<1> QED BY <1>5, <1>6

\* The three kinds of exceptions: tunnel interfaces, servers, local subnets.
Local(p, l) ==
    p.dst \in Hosts4 /\ \E n \in DetectLocalSubnets(l) : Inside(Top16[p.dst], n)

\* One rule for each tunnel interface: accepts what leaves through a tunnel.
LEMMA TunnelsListed ==
    /\ List(TunnelRules)
    /\ Range(TunnelRules) = {Accept([f \in {"out"} |-> t]) : t \in Tunnels}
    /\ \A p, d : Verdict(TunnelRules, p, d) = IF InTunnel(p) THEN "accept" ELSE d
<1>1. \A p, x : Matches(Accept([f \in {"out"} |-> x]), p) <=> p.out = x
  BY FieldRules, Zenon
<1>2. \A p : (\E t \in Tunnels : Matches(Accept([f \in {"out"} |-> t]), p)) <=> InTunnel(p)
  BY <1>1 DEF InTunnel
<1>3. \A p, d : Verdict(TunnelRules, p, d) =
         IF \E t \in Tunnels : Matches(Accept([f \in {"out"} |-> t]), p) THEN "accept" ELSE d
  BY FiniteTunnels, EachAccepted, Zenon DEF TunnelRules
<1>4. /\ List(TunnelRules)
      /\ Range(TunnelRules) = {Accept([f \in {"out"} |-> t]) : t \in Tunnels}
  BY FiniteTunnels, EachAccepted, Zenon DEF TunnelRules
<1> QED BY <1>2, <1>3, <1>4, Zenon

\* One rule for each address: accepts what goes to one of them.
LEMMA AddressesListed ==
    ASSUME NEW S, IsFiniteSet(S)
    PROVE  /\ List(AcceptEach("dst", S))
           /\ Range(AcceptEach("dst", S)) = {Accept([f \in {"dst"} |-> x]) : x \in S}
           /\ \A p, d : Verdict(AcceptEach("dst", S), p, d) =
                 IF p.dst \in S THEN "accept" ELSE d
<1>1. \A p, x : Matches(Accept([f \in {"dst"} |-> x]), p) <=> p.dst = x
  BY FieldRules, Zenon
<1>2. \A p : (\E x \in S : Matches(Accept([f \in {"dst"} |-> x]), p)) <=> p.dst \in S
  BY <1>1
<1>3. \A p, d : Verdict(AcceptEach("dst", S), p, d) =
         IF \E x \in S : Matches(Accept([f \in {"dst"} |-> x]), p) THEN "accept" ELSE d
  BY EachAccepted, Zenon
<1>4. /\ List(AcceptEach("dst", S))
      /\ Range(AcceptEach("dst", S)) = {Accept([f \in {"dst"} |-> x]) : x \in S}
  BY EachAccepted, Zenon
<1> QED BY <1>2, <1>3, <1>4, Zenon

\* One rule for each local subnet: accepts what goes to a subnet taken for the LAN.
LEMMA SubnetsListed ==
    ASSUME NEW l \in Links
    PROVE  /\ List(AcceptEach("net", DetectLocalSubnets(l)))
           /\ Range(AcceptEach("net", DetectLocalSubnets(l))) =
                 {Accept([f \in {"net"} |-> n]) : n \in DetectLocalSubnets(l)}
           /\ \A p, d : Verdict(AcceptEach("net", DetectLocalSubnets(l)), p, d) =
                 IF Local(p, l) THEN "accept" ELSE d
<1> DEFINE S == DetectLocalSubnets(l)
<1>0. IsFiniteSet(S)
  BY FiniteSubnets
<1>1. \A p, x : Matches(Accept([f \in {"net"} |-> x]), p) <=>
                   p.dst \in Hosts4 /\ Inside(Top16[p.dst], x)
  BY FieldRules, Zenon
<1>2. \A p : (\E n \in S : Matches(Accept([f \in {"net"} |-> n]), p)) <=> Local(p, l)
  BY <1>1 DEF Local
<1> HIDE DEF S
<1>3. \A p, d : Verdict(AcceptEach("net", S), p, d) =
         IF \E n \in S : Matches(Accept([f \in {"net"} |-> n]), p) THEN "accept" ELSE d
  BY <1>0, EachAccepted, Zenon
<1>4. /\ List(AcceptEach("net", S))
      /\ Range(AcceptEach("net", S)) = {Accept([f \in {"net"} |-> n]) : n \in S}
  BY <1>0, EachAccepted, Zenon
<1> QED BY <1>2, <1>3, <1>4, Zenon DEF S

\* The kill switch's policy on IPv4 as iptables gets it, and as nft gets it.
ChainVerdict(c, p, l) ==
    IF p.out = "lo" \/ p.est THEN "accept"
    ELSE DnsVerdict(c, TRUE, p,
            IF InTunnel(p) THEN "accept" ELSE IF DropsDoh(c, p) THEN "drop"
            ELSE IF p.dst \in Servers \cap Hosts4 \/ Local(p, l) \/ p.svc = "dhcp"
                 THEN "accept" ELSE "drop")

\* The servers for which a backend has a rule.
NftServers(c) == {s \in Servers : s \in Hosts4 \/ c.v6 # "block"}

TableVerdict(c, p, l) ==
    IF p.out = "lo" \/ p.est THEN "accept"
    ELSE IF c.v6 = "block" /\ p.fam = 6 THEN "drop"
    ELSE IF (c.v6 # "block" /\ p.dst = "linklocal6") \/ p.svc = "dhcp" THEN "accept"
    ELSE DnsVerdict(c, c.v6 # "block", p,
            IF DropsDoh(c, p) THEN "drop"
            ELSE IF Local(p, l) \/ InTunnel(p) \/ p.dst \in NftServers(c)
                 THEN "accept" ELSE "drop")

SixVerdict(c, p, l) ==
    IF p.out = "lo" THEN "accept"
    ELSE IF /\ c.v6 = "tunnel"
            /\ p.est \/ p.out = "tun" \/ p.dst \in DetectLocalSubnetsV6(l)
         THEN "accept" ELSE "drop"

\* detect_vpn_endpoints returns finitely many servers.
LEMMA FiniteServers == \A S \in SUBSET Servers : IsFiniteSet(S)
<1>1. IsFiniteSet({"server"} \cup {"server6"})
  BY FS_Singleton, FS_Union, Zenon
<1>2. {"server"} \cup {"server6"} = {"server", "server6"}
  OBVIOUS
<1>3. \A S \in SUBSET Servers : S \in SUBSET {"server", "server6"}
  BY VerifyAssumption
<1> QED BY <1>1, <1>2, <1>3, FS_Subset

\* The two rules every chain begins with.
LEMMA HeadListed ==
    /\ List(<<Lo, Established>>) /\ Range(<<Lo, Established>>) = {Lo, Established}
    /\ \A p \in Packets : \A d : Verdict(<<Lo, Established>>, p, d) =
          IF p.out = "lo" \/ p.est THEN "accept" ELSE d
<1>1. Lo.to = "accept" /\ Established.to = "accept"
  BY RuleVerdicts DEF Lo, Established
<1>2. \A p \in Packets :
          (Matches(Lo, p) <=> p.out = "lo") /\ (Matches(Established, p) <=> p.est)
  BY FixedRules
<1> QED BY <1>1, <1>2, TwoRules

\* The two rules the iptables chain ends with.
LEMMA TailListed ==
    /\ List(<<Dhcp, Drop(EveryPacket)>>)
    /\ Range(<<Dhcp, Drop(EveryPacket)>>) = {Dhcp, Drop(EveryPacket)}
    /\ \A p \in Packets : \A d : Verdict(<<Dhcp, Drop(EveryPacket)>>, p, d) =
          IF p.svc = "dhcp" THEN "accept" ELSE "drop"
<1> DEFINE all == Drop(EveryPacket)
<1>1. Dhcp.to = "accept" /\ all.to = "drop"
  BY RuleVerdicts DEF Dhcp
<1>2. \A p \in Packets : (Matches(Dhcp, p) <=> p.svc = "dhcp") /\ Matches(all, p)
  BY FixedRules
<1> HIDE DEF all
<1> QED BY <1>1, <1>2, TwoRules DEF all

\* build_complete_script writes that policy, with the rules the verification
\* looks for.
LEMMA ChainListed ==
    ASSUME NEW c \in Configs, NEW l \in Links
    PROVE  LET chain == IptablesChain(c, Servers, l)
           IN  /\ \A p \in Packets : \A d : Verdict(chain, p, d) = ChainVerdict(c, p, l)
               /\ Range(chain) = {Lo, Established} \cup Range(DnsRules(c, TRUE))
                     \cup {Accept([f \in {"out"} |-> t]) : t \in Tunnels}
                     \cup Range(DohRules(c))
                     \cup {Accept([f \in {"dst"} |-> x]) : x \in Servers \cap Hosts4}
                     \cup {Accept([f \in {"net"} |-> n]) : n \in DetectLocalSubnets(l)}
                     \cup {Dhcp, Drop(EveryPacket)}
<1> DEFINE head == <<Lo, Established>>
           dns == DnsRules(c, TRUE)
           doh == DohRules(c)
           srv == AcceptEach("dst", Servers \cap Hosts4)
           lan == AcceptEach("net", DetectLocalSubnets(l))
           tail == <<Dhcp, Drop(EveryPacket)>>
           a == head \o dns
           b == a \o TunnelRules
           e == b \o doh
           f == e \o srv
           g == f \o lan
           chain == g \o tail
<1>1. chain = IptablesChain(c, Servers, l)
  BY DEF IptablesChain
<1>2. /\ List(head) /\ List(dns) /\ List(doh) /\ List(srv) /\ List(lan) /\ List(tail)
      /\ List(TunnelRules)
  <2>1. IsFiniteSet(Servers \cap Hosts4)
    BY FiniteServers
  <2> QED BY <2>1, HeadListed, DnsListed, DohListed, AddressesListed, SubnetsListed,
             TailListed, TunnelsListed, Zenon
<1> HIDE DEF head, dns, doh, srv, lan, tail
<1>3. /\ List(a) /\ Range(a) = Range(head) \cup Range(dns)
      /\ \A p, d : Verdict(a, p, d) = Verdict(head, p, Verdict(dns, p, d))
  BY <1>2, Joined
<1> HIDE DEF a
<1>4. /\ List(b) /\ Range(b) = Range(a) \cup Range(TunnelRules)
      /\ \A p, d : Verdict(b, p, d) = Verdict(a, p, Verdict(TunnelRules, p, d))
  BY <1>2, <1>3, Joined
<1> HIDE DEF b
<1>5. /\ List(e) /\ Range(e) = Range(b) \cup Range(doh)
      /\ \A p, d : Verdict(e, p, d) = Verdict(b, p, Verdict(doh, p, d))
  BY <1>2, <1>4, Joined
<1> HIDE DEF e
<1>6. /\ List(f) /\ Range(f) = Range(e) \cup Range(srv)
      /\ \A p, d : Verdict(f, p, d) = Verdict(e, p, Verdict(srv, p, d))
  BY <1>2, <1>5, Joined
<1> HIDE DEF f
<1>7. /\ List(g) /\ Range(g) = Range(f) \cup Range(lan)
      /\ \A p, d : Verdict(g, p, d) = Verdict(f, p, Verdict(lan, p, d))
  BY <1>2, <1>6, Joined
<1> HIDE DEF g
<1>8. /\ Range(chain) = Range(g) \cup Range(tail)
      /\ \A p, d : Verdict(chain, p, d) = Verdict(g, p, Verdict(tail, p, d))
  BY <1>2, <1>7, Joined
<1> HIDE DEF chain
<1>9. ASSUME NEW p \in Packets, NEW d PROVE Verdict(chain, p, d) = ChainVerdict(c, p, l)
  <2> DEFINE d1 == IF p.svc = "dhcp" THEN "accept" ELSE "drop"
             d2 == IF Local(p, l) THEN "accept" ELSE d1
             d3 == IF p.dst \in Servers \cap Hosts4 THEN "accept" ELSE d2
             d4 == IF DropsDoh(c, p) THEN "drop" ELSE d3
             d5 == IF InTunnel(p) THEN "accept" ELSE d4
  <2>1. Verdict(tail, p, d) = d1
    BY TailListed DEF tail
  <2>2. Verdict(lan, p, d1) = d2
    BY SubnetsListed DEF lan
  <2>3. Verdict(srv, p, d2) = d3
    BY FiniteServers, AddressesListed DEF srv
  <2>4. Verdict(doh, p, d3) = d4
    BY DohListed DEF doh
  <2>5. Verdict(TunnelRules, p, d4) = d5
    BY TunnelsListed
  <2>6. Verdict(dns, p, d5) = DnsVerdict(c, TRUE, p, d5)
    BY DnsListed, Zenon DEF dns
  <2>7. \A x : Verdict(head, p, x) = IF p.out = "lo" \/ p.est THEN "accept" ELSE x
    BY HeadListed DEF head
  <2>8. d5 = IF InTunnel(p) THEN "accept" ELSE IF DropsDoh(c, p) THEN "drop"
             ELSE IF p.dst \in Servers \cap Hosts4 \/ Local(p, l) \/ p.svc = "dhcp"
                  THEN "accept" ELSE "drop"
    OBVIOUS
  <2> HIDE DEF d1, d2, d3, d4, d5
  <2>9. Verdict(chain, p, d) = Verdict(head, p, DnsVerdict(c, TRUE, p, d5))
    <3>1. Verdict(chain, p, d) = Verdict(f, p, d2)
      BY <1>7, <1>8, <2>1, <2>2
    <3>2. Verdict(f, p, d2) = Verdict(b, p, d4)
      BY <1>5, <1>6, <2>3, <2>4
    <3>3. Verdict(b, p, d4) = Verdict(head, p, Verdict(dns, p, d5))
      BY <1>3, <1>4, <2>5
    <3> QED BY <2>6, <3>1, <3>2, <3>3
  <2> QED BY <2>7, <2>8, <2>9, Zenon DEF ChainVerdict
<1>10. /\ Range(head) = {Lo, Established} /\ Range(tail) = {Dhcp, Drop(EveryPacket)}
       /\ Range(TunnelRules) = {Accept([x \in {"out"} |-> t]) : t \in Tunnels}
       /\ Range(srv) = {Accept([y \in {"dst"} |-> x]) : x \in Servers \cap Hosts4}
       /\ Range(lan) = {Accept([x \in {"net"} |-> n]) : n \in DetectLocalSubnets(l)}
  BY HeadListed, TailListed, TunnelsListed, FiniteServers, AddressesListed, SubnetsListed
     DEF head, tail, srv, lan
<1>11. Range(chain) = Range(head) \cup Range(dns) \cup Range(TunnelRules) \cup Range(doh)
                        \cup Range(srv) \cup Range(lan) \cup Range(tail)
  BY <1>3, <1>4, <1>5, <1>6, <1>7, <1>8
<1> QED BY <1>1, <1>9, <1>10, <1>11 DEF dns, doh

\* build_nft_ruleset writes its policy, with the rules the verification looks for.
LEMMA TableListed ==
    ASSUME NEW c \in Configs, NEW l \in Links
    PROVE  LET table == NftRules(c, Servers, l)
           IN  /\ \A p \in Packets : Verdict(table, p, "drop") = TableVerdict(c, p, l)
               /\ Range(table) = {Lo, Established}
                     \cup (IF c.v6 = "block" THEN {Drop([fam |-> 6])}
                                            ELSE {Accept([dst |-> "linklocal6"])})
                     \cup {Dhcp} \cup Range(DnsRules(c, c.v6 # "block"))
                     \cup Range(DohRules(c))
                     \cup {Accept([f \in {"net"} |-> n]) : n \in DetectLocalSubnets(l)}
                     \cup {Accept([f \in {"out"} |-> t]) : t \in Tunnels}
                     \cup {Accept([f \in {"dst"} |-> x]) : x \in NftServers(c)}
<1> DEFINE open == c.v6 # "block"
           drop6 == Drop([fam |-> 6])
           near6 == Accept([dst |-> "linklocal6"])
           head == <<Lo, Established>>
           six == IF c.v6 = "block" THEN <<drop6>> ELSE <<near6>>
           dhcp == <<Dhcp>>
           dns == DnsRules(c, open)
           doh == DohRules(c)
           lan == AcceptEach("net", DetectLocalSubnets(l))
           srv == AcceptEach("dst", NftServers(c))
           a == head \o six
           b == a \o dhcp
           e == b \o dns
           f == e \o doh
           g == f \o lan
           h == g \o TunnelRules
           table == h \o srv
<1>0. open \in BOOLEAN
  OBVIOUS
<1>1. table = NftRules(c, Servers, l)
  BY DEF NftRules, NftServers
<1>2. /\ List(six) /\ Range(six) = (IF c.v6 = "block" THEN {drop6} ELSE {near6})
      /\ \A p \in Packets : \A d : Verdict(six, p, d) =
            IF c.v6 = "block" THEN IF p.fam = 6 THEN "drop" ELSE d
            ELSE IF p.dst = "linklocal6" THEN "accept" ELSE d
  <2>1. /\ drop6.to = "drop" /\ near6.to = "accept"
        /\ \A p \in Packets : /\ Matches(drop6, p) <=> p.fam = 6
                              /\ Matches(near6, p) <=> p.dst = "linklocal6"
    BY FixedRules, RuleVerdicts
  <2> HIDE DEF drop6, near6
  <2>2. CASE c.v6 = "block"
    BY <2>1, <2>2, OneRule
  <2>3. CASE c.v6 # "block"
    BY <2>1, <2>3, OneRule
  <2> QED BY <2>2, <2>3
<1>3. /\ List(dhcp) /\ Range(dhcp) = {Dhcp}
      /\ \A p \in Packets : \A d : Verdict(dhcp, p, d) = IF p.svc = "dhcp" THEN "accept" ELSE d
  <2>1. Dhcp.to = "accept" /\ \A p \in Packets : Matches(Dhcp, p) <=> p.svc = "dhcp"
    BY FixedRules, RuleVerdicts DEF Dhcp
  <2> QED BY <2>1, OneRule
<1>4. IsFiniteSet(NftServers(c))
  BY FiniteServers DEF NftServers
<1>5. List(head) /\ List(dns) /\ List(doh) /\ List(lan) /\ List(srv) /\ List(TunnelRules)
  BY <1>0, <1>4, HeadListed, DnsListed, DohListed, AddressesListed, SubnetsListed,
     TunnelsListed, Zenon
<1> HIDE DEF head, six, dhcp, dns, doh, lan, srv
<1>6. /\ List(a) /\ Range(a) = Range(head) \cup Range(six)
      /\ \A p, d : Verdict(a, p, d) = Verdict(head, p, Verdict(six, p, d))
  BY <1>2, <1>5, Joined
<1> HIDE DEF a
<1>7. /\ List(b) /\ Range(b) = Range(a) \cup Range(dhcp)
      /\ \A p, d : Verdict(b, p, d) = Verdict(a, p, Verdict(dhcp, p, d))
  BY <1>3, <1>6, Joined
<1> HIDE DEF b
<1>8. /\ List(e) /\ Range(e) = Range(b) \cup Range(dns)
      /\ \A p, d : Verdict(e, p, d) = Verdict(b, p, Verdict(dns, p, d))
  BY <1>5, <1>7, Joined
<1> HIDE DEF e
<1>9. /\ List(f) /\ Range(f) = Range(e) \cup Range(doh)
      /\ \A p, d : Verdict(f, p, d) = Verdict(e, p, Verdict(doh, p, d))
  BY <1>5, <1>8, Joined
<1> HIDE DEF f
<1>10. /\ List(g) /\ Range(g) = Range(f) \cup Range(lan)
       /\ \A p, d : Verdict(g, p, d) = Verdict(f, p, Verdict(lan, p, d))
  BY <1>5, <1>9, Joined
<1> HIDE DEF g
<1>11. /\ List(h) /\ Range(h) = Range(g) \cup Range(TunnelRules)
       /\ \A p, d : Verdict(h, p, d) = Verdict(g, p, Verdict(TunnelRules, p, d))
  BY <1>5, <1>10, Joined
<1> HIDE DEF h
<1>12. /\ Range(table) = Range(h) \cup Range(srv)
       /\ \A p, d : Verdict(table, p, d) = Verdict(h, p, Verdict(srv, p, d))
  BY <1>5, <1>11, Joined
<1> HIDE DEF table
<1>13. ASSUME NEW p \in Packets PROVE Verdict(table, p, "drop") = TableVerdict(c, p, l)
  <2> DEFINE d1 == IF p.dst \in NftServers(c) THEN "accept" ELSE "drop"
             d2 == IF InTunnel(p) THEN "accept" ELSE d1
             d3 == IF Local(p, l) THEN "accept" ELSE d2
             d4 == IF DropsDoh(c, p) THEN "drop" ELSE d3
             d5 == DnsVerdict(c, open, p, d4)
             d6 == IF p.svc = "dhcp" THEN "accept" ELSE d5
             d7 == IF c.v6 = "block" THEN IF p.fam = 6 THEN "drop" ELSE d6
                   ELSE IF p.dst = "linklocal6" THEN "accept" ELSE d6
  <2>1. Verdict(srv, p, "drop") = d1
    BY <1>4, AddressesListed DEF srv
  <2>2. Verdict(TunnelRules, p, d1) = d2
    BY TunnelsListed
  <2>3. Verdict(lan, p, d2) = d3
    BY SubnetsListed DEF lan
  <2>4. Verdict(doh, p, d3) = d4
    BY DohListed DEF doh
  <2>5. d4 = IF DropsDoh(c, p) THEN "drop"
             ELSE IF Local(p, l) \/ InTunnel(p) \/ p.dst \in NftServers(c)
                  THEN "accept" ELSE "drop"
    OBVIOUS
  <2> HIDE DEF d1, d2, d3, d4
  <2>6. Verdict(dns, p, d4) = d5
    BY <1>0, DnsListed, Zenon DEF dns
  <2> HIDE DEF d5
  <2>7. Verdict(dhcp, p, d5) = d6
    BY <1>3
  <2>8. Verdict(six, p, d6) = d7
    BY <1>2
  <2>9. \A x : Verdict(head, p, x) = IF p.out = "lo" \/ p.est THEN "accept" ELSE x
    BY HeadListed DEF head
  <2>10. d7 = IF c.v6 = "block" /\ p.fam = 6 THEN "drop"
              ELSE IF (c.v6 # "block" /\ p.dst = "linklocal6") \/ p.svc = "dhcp" THEN "accept"
              ELSE d5
    OBVIOUS
  <2> HIDE DEF d6, d7
  <2>11. Verdict(table, p, "drop") = Verdict(head, p, d7)
    <3>1. Verdict(table, p, "drop") = Verdict(g, p, d2)
      BY <1>11, <1>12, <2>1, <2>2
    <3>2. Verdict(g, p, d2) = Verdict(e, p, d4)
      BY <1>9, <1>10, <2>3, <2>4
    <3>3. Verdict(e, p, d4) = Verdict(a, p, d6)
      BY <1>7, <1>8, <2>6, <2>7
    <3>4. Verdict(a, p, d6) = Verdict(head, p, d7)
      BY <1>6, <2>8
    <3> QED BY <3>1, <3>2, <3>3, <3>4
  <2> QED BY <2>5, <2>9, <2>10, <2>11 DEF d5, TableVerdict
<1>14. /\ Range(head) = {Lo, Established}
       /\ Range(TunnelRules) = {Accept([x \in {"out"} |-> t]) : t \in Tunnels}
       /\ Range(srv) = {Accept([y \in {"dst"} |-> x]) : x \in NftServers(c)}
       /\ Range(lan) = {Accept([x \in {"net"} |-> n]) : n \in DetectLocalSubnets(l)}
  BY <1>4, HeadListed, TunnelsListed, AddressesListed, SubnetsListed DEF head, srv, lan
<1>15. Range(table) = Range(head) \cup Range(six) \cup Range(dhcp) \cup Range(dns)
                        \cup Range(doh) \cup Range(lan) \cup Range(TunnelRules) \cup Range(srv)
  BY <1>6, <1>7, <1>8, <1>9, <1>10, <1>11, <1>12
<1> QED BY <1>1, <1>2, <1>3, <1>13, <1>14, <1>15 DEF dns, doh

\* detect_local_subnets_v6 keeps private prefixes only.
LEMMA PrivatePrefixes ==
    \A l \in Links : DetectLocalSubnetsV6(l) \subseteq {"ula", "linklocal6"}
BY DEF DetectLocalSubnetsV6, IsValidPrivateCidrV6

\* build_ipv6_script writes its policy: nothing with "off", and a last rule that
\* drops everything otherwise.
LEMMA SixListed ==
    ASSUME NEW c \in Configs, NEW l \in Links
    PROVE  /\ c.v6 = "off" => Range(Ip6Rules(c, l)) = {}
           /\ c.v6 # "off" => /\ Drop(EveryPacket) \in Range(Ip6Rules(c, l))
                              /\ \A p \in Packets : \A d :
                                    Verdict(Ip6Rules(c, l), p, d) = SixVerdict(c, p, l)
<1> DEFINE all == Drop(EveryPacket)
           tun == Accept([out |-> "tun"])
           S == DetectLocalSubnetsV6(l)
<1>0. c.v6 \in {"block", "tunnel", "off"}
  BY DEF Configs
<1>1. /\ Lo.to = "accept" /\ Established.to = "accept" /\ tun.to = "accept" /\ all.to = "drop"
      /\ \A p \in Packets : /\ Matches(Lo, p) <=> p.out = "lo"
                            /\ Matches(Established, p) <=> p.est
                            /\ Matches(tun, p) <=> p.out = "tun"
                            /\ Matches(all, p)
  BY FixedRules, RuleVerdicts DEF Lo, Established
<1>2. CASE c.v6 = "off"
  BY <1>2, EmptyList DEF Ip6Rules
<1>3. CASE c.v6 = "block"
  <2>1. Ip6Rules(c, l) = <<Lo, all>>
    BY <1>3 DEF Ip6Rules
  <2> HIDE DEF all
  <2>2. all \in Range(<<Lo, all>>) /\ \A p \in Packets : \A d :
           Verdict(<<Lo, all>>, p, d) = IF p.out = "lo" THEN "accept" ELSE "drop"
    BY <1>1, TwoRules
  <2>3. \A p : SixVerdict(c, p, l) = IF p.out = "lo" THEN "accept" ELSE "drop"
    BY <1>3 DEF SixVerdict
  <2> QED BY <1>3, <2>1, <2>2, <2>3 DEF all
<1>4. CASE c.v6 = "tunnel"
  <2> DEFINE head == <<Lo, Established, tun>>
             near == AcceptEach("dst", S)
             a == head \o near
             six == a \o <<all>>
  <2>1. Ip6Rules(c, l) = six
    BY <1>4 DEF Ip6Rules
  <2>2. IsFiniteSet(S)
    <3>1. IsFiniteSet({"ula"} \cup {"linklocal6"})
      BY FS_Singleton, FS_Union, Zenon
    <3>2. S \subseteq {"ula"} \cup {"linklocal6"}
      BY PrivatePrefixes
    <3> QED BY <3>1, <3>2, FS_Subset
  <2> HIDE DEF S, all, tun
  <2>3. /\ List(head)
        /\ \A p \in Packets : \A d : Verdict(head, p, d) =
              IF p.out = "lo" \/ p.est \/ p.out = "tun" THEN "accept" ELSE d
    BY <1>1, ThreeRules
  <2>4. List(near) /\ \A p, d : Verdict(near, p, d) = IF p.dst \in S THEN "accept" ELSE d
    BY <2>2, AddressesListed
  <2>5. /\ List(<<all>>) /\ Range(<<all>>) = {all}
        /\ \A p \in Packets : \A d : Verdict(<<all>>, p, d) = "drop"
    BY <1>1, OneRule
  <2> HIDE DEF head, near
  <2>6. List(a) /\ \A p, d : Verdict(a, p, d) = Verdict(head, p, Verdict(near, p, d))
    BY <2>3, <2>4, Joined
  <2> HIDE DEF a
  <2>7. /\ all \in Range(six)
        /\ \A p, d : Verdict(six, p, d) = Verdict(a, p, Verdict(<<all>>, p, d))
    BY <2>5, <2>6, Joined
  <2> HIDE DEF six
  <2>8. ASSUME NEW p \in Packets, NEW d PROVE Verdict(six, p, d) = SixVerdict(c, p, l)
    <3>1. Verdict(six, p, d) = Verdict(head, p, Verdict(near, p, "drop"))
      BY <2>5, <2>6, <2>7
    <3>2. Verdict(near, p, "drop") = IF p.dst \in S THEN "accept" ELSE "drop"
      BY <2>4
    <3>3. Verdict(six, p, d) = IF p.out = "lo" \/ p.est \/ p.out = "tun" \/ p.dst \in S
                               THEN "accept" ELSE "drop"
      BY <2>3, <3>1, <3>2
    <3> QED BY <1>4, <3>3 DEF SixVerdict, S
  <2> QED BY <1>4, <2>1, <2>7, <2>8 DEF all
<1> QED BY <1>0, <1>2, <1>3, <1>4

\* What config.toml promises of new traffic outside a tunnel that is let out.
Excused(c, p) ==
    \/ c.dns = "any" /\ p.svc = "dns"
    \/ p.svc = "dhcp"
    \/ /\ p.dst \in Servers \/ Private(p)
       /\ p.svc \in {"dns", "dot"} => c.dns = "any" \/ p.fam = 6

\* Such a packet has no loopback destination and its address is of its family.
LEMMA OutsideFacts ==
    ASSUME NEW p \in Outside
    PROVE  /\ p \in Packets /\ p.out = "eth" /\ ~p.est /\ ~InTunnel(p)
           /\ p.dst # "resolver" /\ p.dst # "lo6"
           /\ p.fam \in {4, 6}
           /\ p.fam = 4 => p.dst \in Hosts4
           /\ p.fam = 6 => p.dst \in Hosts6 /\ p.dst \notin Hosts4
<1>1. p \in Packets /\ p.out = "eth" /\ ~p.est
  BY DEF Outside
<1>2. /\ p.fam \in {4, 6} /\ p.dst \in Hosts4 \cup Hosts6
      /\ p.fam = 6 <=> p.dst \in Hosts6
      /\ p.out = "lo" <=> p.dst \in Loopbacks
  BY <1>1 DEF Packets
<1>3. \A h \in Hosts6 : h \notin Hosts4
  BY DEF Hosts4, Hosts6, Top16
<1> QED BY <1>1, <1>2, <1>3 DEF InTunnel, Tunnels, Loopbacks

\* The chain lets out what is excused and no other IPv4 packet, as long as the
\* subnets taken for the LAN hold private addresses only.
LEMMA ChainKeepsIn ==
    ASSUME links \in Links, LanIsPrivate, NEW c \in Configs, NEW p \in Outside, p.fam = 4,
           ChainVerdict(c, p, links) = "accept"
    PROVE  Excused(c, p)
<1>1. /\ ~(p.out = "lo") /\ ~p.est /\ ~InTunnel(p) /\ ~Resolves(p, TRUE) /\ p.dst \in Hosts4
  BY OutsideFacts DEF Resolves
<1>2. Local(p, links) => Private(p)
  BY <1>1 DEF Local, LanIsPrivate, Private
<1> DEFINE d == IF DropsDoh(c, p) THEN "drop"
                ELSE IF p.dst \in Servers \cap Hosts4 \/ Local(p, links) \/ p.svc = "dhcp"
                     THEN "accept" ELSE "drop"
<1>3. DnsVerdict(c, TRUE, p, d) = "accept"
  BY <1>1, Zenon DEF ChainVerdict
<1>4. d = "accept" => p.dst \in Servers \/ Private(p) \/ p.svc = "dhcp"
  BY <1>2
<1> HIDE DEF d
<1>5. CASE ~Plain(p)
  BY <1>3, <1>4, <1>5 DEF DnsVerdict, Excused, Plain
<1>6. CASE Plain(p)
  <2>1. c.dns = "any"
    BY <1>1, <1>3, <1>6, Zenon DEF DnsVerdict
  <2> QED BY <1>3, <1>4, <2>1 DEF DnsVerdict, Excused
<1> QED BY <1>5, <1>6

\* So does the table, on both families.
LEMMA TableKeepsIn ==
    ASSUME links \in Links, LanIsPrivate, NEW c \in Configs, NEW p \in Outside,
           TableVerdict(c, p, links) = "accept"
    PROVE  Excused(c, p)
<1>1. /\ ~(p.out = "lo") /\ ~p.est /\ ~InTunnel(p) /\ \A b \in BOOLEAN : ~Resolves(p, b)
      /\ p.fam = 4 => p.dst \in Hosts4
      /\ p.fam = 6 => p.dst \notin Hosts4
      /\ p.fam \in {4, 6}
  BY OutsideFacts DEF Resolves
<1>2. Local(p, links) => Private(p)
  BY <1>1 DEF Local, LanIsPrivate, Private
<1> DEFINE open == c.v6 # "block"
           d == IF DropsDoh(c, p) THEN "drop"
                ELSE IF Local(p, links) \/ InTunnel(p) \/ p.dst \in NftServers(c)
                     THEN "accept" ELSE "drop"
<1>3. d = "accept" => p.dst \in Servers \/ Private(p)
  BY <1>1, <1>2 DEF NftServers
<1>4. CASE p.dst = "linklocal6"
  <2>1. p.fam = 6
    BY <1>1, <1>4 DEF Hosts4, Top16
  <2> QED BY <1>4, <2>1 DEF Excused, Private, IsValidPrivateCidrV6
<1>5. CASE p.svc = "dhcp"
  BY <1>5 DEF Excused
<1>6. CASE p.dst # "linklocal6" /\ p.svc # "dhcp"
  <2>1. DnsVerdict(c, open, p, d) = "accept" /\ open \in BOOLEAN
    BY <1>1, <1>6 DEF TableVerdict
  <2> HIDE DEF d, open
  <2>2. CASE ~Plain(p)
    BY <1>3, <2>1, <2>2 DEF DnsVerdict, Excused, Plain
  <2>3. CASE Plain(p)
    <3>1. c.dns = "any"
      BY <1>1, <2>1, <2>3 DEF DnsVerdict
    <3> QED BY <1>3, <2>1, <3>1 DEF DnsVerdict, Excused
  <2> QED BY <2>2, <2>3
<1> QED BY <1>4, <1>5, <1>6

\* So do the ip6tables rules.
LEMMA SixKeepsIn ==
    ASSUME links \in Links, NEW c \in Configs, NEW p \in Outside, p.fam = 6,
           SixVerdict(c, p, links) = "accept"
    PROVE  Excused(c, p)
<1>1. p.dst \in {"ula", "linklocal6"}
  BY OutsideFacts, PrivatePrefixes DEF SixVerdict
<1> QED BY <1>1 DEF Excused, Private, IsValidPrivateCidrV6

----------------------------------------------------------------------------
(* The kernel and the verification *)

Maybe == Configs \cup {None}
Backends == {"iptables", "nftables"}
Leftovers == UNION {Range(Rules6(c)) : c \in Configs}

KsStates == [up : BOOLEAN, enabled : BOOLEAN, filling : BOOLEAN, cfg : Configs,
             backend : Backends]
FwStates == [chain : Maybe, jump : BOOLEAN, other : BOOLEAN, out6 : Maybe,
             stray : SUBSET Leftovers, table : Maybe]
Steps == {"off", "config", "table", "chain", "output", "ip6", "jump", "endpoints", "agree",
          "done"}
Reports == [pc : Steps, backend : Backends, cfg : Maybe, chain : Maybe, table : Maybe,
            first : {"none", "other", "jump"}, out6 : Maybe, jump : BOOLEAN,
            hostnames : BOOLEAN, daemon : {"down", "on", "off"}, held : BOOLEAN,
            moves : Nat, code : 0..2]

\* Only the backend in use has rules; the jump and the ip6tables rules belong to
\* the chain that is there, and a chain being filled is for the daemon's
\* configuration.
KernelInv ==
    /\ ks.backend = "iptables" => fw.table = None
    /\ ks.backend = "nftables" =>
          fw.chain = None /\ ~fw.jump /\ fw.out6 = None /\ ~ks.filling
    /\ ks.filling => fw.chain = ks.cfg /\ ~ks.enabled
    /\ fw.jump => fw.chain # None
    /\ fw.out6 # None => fw.out6 = fw.chain

\* The verification is past a step of run_verification: at one of the steps pcs
\* after it, or at the end without having been aborted.
Past(pcs) == v.pc \in pcs \/ (v.pc = "done" /\ v.code # 2)

Late == {"endpoints", "agree"}
Chained == {"output", "ip6", "jump"} \cup Late

\* A report goes through the steps of its backend, and an nft report has a table.
ReportInv ==
    /\ v.pc \in {"chain", "output", "ip6", "jump"} => v.backend = "iptables"
    /\ v.pc = "table" => v.backend = "nftables"
    /\ v.backend = "nftables" /\ Past(Late) => v.table # None

\* A report that found the jump in front, or read the table, noted that traffic
\* was held back then.
HeldInv ==
    /\ v.first = "jump" => v.held
    /\ v.table # None => v.held /\ v.backend = "nftables"

\* When nothing happened meanwhile, what was read is still so, and the exit code
\* is about it.
FreshInv ==
    v.pc # "off" /\ v.moves = 0 =>
        /\ v.backend = DetectBackend
        /\ Past({"table", "chain"} \cup Chained) => v.cfg = disk
        /\ v.backend = "iptables" =>
              /\ Past(Chained) => v.chain = fw.chain
              /\ Past({"ip6", "jump"} \cup Late) =>
                    (v.first = "jump" <=> fw.jump /\ ~fw.other)
              /\ Past({"jump"} \cup Late) => v.out6 = fw.out6
              /\ Past(Late) => v.jump = fw.jump
        /\ v.backend = "nftables" /\ Past(Late) => v.table = fw.table
        /\ Past({}) => v.daemon \in {"down", IF ks.enabled THEN "on" ELSE "off"}
        /\ v.pc = "done" /\ v.code = 1 => "fail" \in Checks(v)

KernelTypes ==
    links \in AllLinks /\ disk \in Configs /\ ks \in KsStates /\ fw \in FwStates

VerifyInv ==
    /\ KernelTypes /\ v \in Reports
    /\ KernelInv /\ ReportInv /\ FreshInv

\* No configuration is None, and a listing is a listing.
LEMMA Constants ==
    None \notin Configs /\ (links \in AllLinks => links \in Links)
BY VerifyAssumption

\* Everything starts without rules and without a report.
LEMMA VerifyInit == Init => VerifyInv /\ HeldInv
<1> SUFFICES ASSUME Init PROVE VerifyInv /\ HeldInv
  OBVIOUS
<1>1. KernelTypes /\ KernelInv
  BY Zenon DEF Init, KernelTypes, KernelInv, KsStates, FwStates, Maybe, Backends
<1>2. v \in Reports /\ ReportInv /\ FreshInv /\ HeldInv
  BY SMTT(40) DEF Init, NotRunning, Reports, Steps, ReportInv, FreshInv, HeldInv, Past, Late, Maybe,
         Backends
<1> QED BY <1>1, <1>2 DEF VerifyInv

\* robust_iptables_cleanup leaves nothing of iptables' but rules it cannot name.
LEMMA Cleaned ==
    ASSUME KernelTypes
    PROVE  /\ CleanIptables \in FwStates
           /\ CleanIptables.chain = None /\ ~CleanIptables.jump /\ CleanIptables.out6 = None
           /\ CleanIptables.table = fw.table
<1> DEFINE more == IF fw.out6 = None THEN {} ELSE Range(Rules6(fw.out6)) \ Ip6Removable
<1>1. fw \in FwStates
  BY DEF KernelTypes
<1>2. more \subseteq Leftovers
  BY <1>1 DEF FwStates, Maybe, Leftovers
<1>3. CleanIptables = [fw EXCEPT !.chain = None, !.jump = FALSE, !.out6 = None,
                                 !.stray = @ \cup more]
  BY DEF CleanIptables
<1> HIDE DEF more
<1> QED BY <1>1, <1>2, <1>3, Zenon DEF FwStates, Maybe

\* A step beside the verification makes every report in progress stale.
LEMMA Disturbs ==
    ASSUME VerifyInv, Disturbed
    PROVE  v' \in Reports /\ ReportInv' /\ FreshInv'
<1>1. v \in Reports /\ ReportInv
  BY DEF VerifyInv
<1>2. CASE v.pc = "off"
  <2>1. v' = v
    BY <1>2 DEF Disturbed
  <2> QED BY <1>1, <1>2, <2>1 DEF ReportInv, FreshInv, Past, Late
<1>3. CASE v.pc # "off"
  <2>1. v' = [v EXCEPT !.moves = @ + 1]
    BY <1>3 DEF Disturbed
  <2>2. v.moves \in Nat
    BY <1>1 DEF Reports
  <2>3. v' \in Reports /\ v'.moves # 0
    BY <1>1, <2>1, <2>2 DEF Reports
  <2>4. v'.pc = v.pc /\ v'.backend = v.backend /\ v'.code = v.code /\ v'.table = v.table
    BY <1>1, <2>1 DEF Reports
  <2>5. ReportInv'
    BY <1>1, <2>4 DEF ReportInv, Past
  <2> QED BY <2>3, <2>5 DEF FreshInv
<1> QED BY <1>2, <1>3

\* What the daemon and the others do to the kernel.
Beside ==
    \/ EnableFills \/ EnableHooks \/ EnableNft \/ Disable \/ Reload \/ Crash
    \/ \E c \in Edits : EditConfig(c)
    \/ Tamper

\* Whatever the daemon and the others do, rules stay those of a configuration, and
\* chain, jump, ip6tables and table stay in step (enable, disable, cleanup).
LEMMA KernelKept ==
    ASSUME KernelTypes, KernelInv, Beside
    PROVE  KernelTypes' /\ KernelInv'
<1> USE Constants DEF KernelTypes, KernelInv
<1>0. links' = links
  BY DEF Beside, EnableFills, EnableHooks, EnableNft, Disable, Reload, Crash, EditConfig,
         Tamper
<1>1. FwStates' = FwStates
  BY <1>0 DEF FwStates, Leftovers, Rules6
<1>2. CASE EnableFills
  <2>1. /\ ~ks.enabled /\ ks.backend = "iptables" /\ UNCHANGED disk
        /\ \/ fw' = CleanIptables /\ ks' = ks
           \/ /\ fw' = [CleanIptables EXCEPT !.chain = ks.cfg]
              /\ ks' = [ks EXCEPT !.filling = TRUE]
    BY <1>2 DEF EnableFills
  <2>2. CASE fw' = CleanIptables /\ ks' = ks
    <3>1. ~ks.filling
      BY <1>2 DEF EnableFills
    <3> QED BY <1>0, <1>1, <2>1, <2>2, <3>1, Cleaned
  <2>3. CASE /\ fw' = [CleanIptables EXCEPT !.chain = ks.cfg]
             /\ ks' = [ks EXCEPT !.filling = TRUE]
    <3>1. /\ fw' \in FwStates /\ fw'.chain = ks.cfg /\ ~fw'.jump /\ fw'.out6 = None
          /\ fw'.table = fw.table
      BY <2>3, Cleaned DEF FwStates, Maybe, KsStates
    <3>2. /\ ks' \in KsStates /\ ks'.cfg = ks.cfg /\ ks'.filling /\ ks'.enabled = ks.enabled
          /\ ks'.backend = ks.backend
      BY <2>3, Zenon DEF KsStates
    <3> QED BY <1>0, <1>1, <2>1, <3>1, <3>2 DEF KsStates
  <2> QED BY <2>1, <2>2, <2>3
<1>3. CASE EnableHooks
  <2>1. PICK six \in {None, ks.cfg} :
           fw' = [fw EXCEPT !.jump = TRUE, !.other = FALSE, !.out6 = six]
    BY <1>3, Zenon DEF EnableHooks
  <2>2. /\ ks.filling /\ ks' = [ks EXCEPT !.filling = FALSE, !.enabled = TRUE]
        /\ UNCHANGED disk
    BY <1>3 DEF EnableHooks
  <2>3. /\ fw' \in FwStates /\ fw'.chain = fw.chain /\ fw'.jump /\ fw'.out6 = six
        /\ fw'.table = fw.table
    BY <2>1, Zenon DEF FwStates, Maybe, KsStates
  <2>4. /\ ks' \in KsStates /\ ks'.cfg = ks.cfg /\ ~ks'.filling /\ ks'.enabled
        /\ ks'.backend = ks.backend
    BY <2>2, Zenon DEF KsStates
  <2>5. fw.chain = ks.cfg /\ fw.chain # None /\ ks.backend = "iptables"
    BY <2>2 DEF KsStates, Backends
  <2> QED BY <1>0, <1>1, <2>2, <2>3, <2>4, <2>5
<1>4. CASE EnableNft
  <2>1. /\ fw' = [CleanIptables EXCEPT !.table = ks.cfg] /\ ks' = [ks EXCEPT !.enabled = TRUE]
        /\ ks.backend = "nftables" /\ UNCHANGED disk
    BY <1>4 DEF EnableNft
  <2>2. fw' \in FwStates /\ fw'.chain = None /\ ~fw'.jump /\ fw'.out6 = None
    BY <2>1, Cleaned DEF FwStates, Maybe, KsStates
  <2>3. ks' \in KsStates /\ ks'.filling = ks.filling /\ ks'.backend = ks.backend
    BY <2>1, Zenon DEF KsStates
  <2> QED BY <1>0, <1>1, <2>1, <2>2, <2>3
<1>5. CASE Disable
  <2>1. /\ ks.enabled /\ ks' = [ks EXCEPT !.enabled = FALSE] /\ UNCHANGED disk
        /\ fw' = IF ks.backend = "iptables" THEN CleanIptables ELSE [fw EXCEPT !.table = None]
    BY <1>5 DEF Disable
  <2>2. ks' \in KsStates /\ ks'.filling = ks.filling /\ ks'.backend = ks.backend /\ ~ks.filling
    BY <2>1, Zenon DEF KsStates
  <2>3. CASE ks.backend = "iptables"
    BY <1>0, <1>1, <2>1, <2>2, <2>3, Cleaned
  <2>4. CASE ks.backend = "nftables"
    <3>1. /\ fw' \in FwStates /\ fw'.chain = fw.chain /\ fw'.jump = fw.jump
          /\ fw'.out6 = fw.out6
      BY <2>1, <2>4 DEF FwStates, Maybe
    <3> QED BY <1>0, <1>1, <2>1, <2>2, <2>4, <3>1
  <2> QED BY <2>3, <2>4 DEF KsStates, Backends
<1>6. CASE Reload
  <2>1. ~ks.filling /\ ks' = [ks EXCEPT !.cfg = disk] /\ UNCHANGED <<disk, fw>>
    BY <1>6 DEF Reload
  <2>2. ks' \in KsStates /\ ~ks'.filling /\ ks'.backend = ks.backend
    BY <2>1 DEF KsStates
  <2> QED BY <1>0, <1>1, <2>1, <2>2
<1>7. CASE Crash
  <2>1. ks' = [ks EXCEPT !.up = FALSE, !.filling = FALSE] /\ UNCHANGED <<disk, fw>>
    BY <1>7 DEF Crash
  <2>2. ks' \in KsStates /\ ~ks'.filling /\ ks'.backend = ks.backend
    BY <2>1, Zenon DEF KsStates
  <2> QED BY <1>0, <1>1, <2>1, <2>2
<1>8. ASSUME NEW c \in Edits, EditConfig(c) PROVE KernelTypes' /\ KernelInv'
  BY <1>0, <1>1, <1>8, VerifyAssumption DEF EditConfig
<1>9. CASE Tamper
  <2>1. /\ fw.jump /\ UNCHANGED <<disk, ks>>
        /\ fw' \in {[fw EXCEPT !.jump = FALSE], [fw EXCEPT !.other = TRUE]}
    BY <1>9 DEF Tamper
  <2>2. /\ fw' \in FwStates /\ fw'.chain = fw.chain /\ fw'.out6 = fw.out6
        /\ fw'.table = fw.table /\ (fw'.jump => fw.jump)
    BY <2>1, Zenon DEF FwStates
  <2> QED BY <1>0, <1>1, <2>1, <2>2
<1> QED BY <1>2, <1>3, <1>4, <1>5, <1>6, <1>7, <1>8, <1>9 DEF Beside

\* A check looks at what was read, and at nothing else of a report.
SameReading(w, x) ==
    /\ w.backend = x.backend /\ w.cfg = x.cfg /\ w.chain = x.chain /\ w.table = x.table
    /\ w.first = x.first /\ w.out6 = x.out6 /\ w.jump = x.jump
    /\ w.hostnames = x.hostnames /\ w.daemon = x.daemon

\* Two reports that read the same have the same checks.
LEMMA ChecksOfReading ==
    ASSUME NEW w, NEW x, SameReading(w, x)
    PROVE  Checks(w) = Checks(x)
<1>1. IptablesChecks(w) = IptablesChecks(x)
  BY DEF SameReading, IptablesChecks, CheckNoRogueRules
<1>2. NftChecks(w) = NftChecks(x)
  BY DEF SameReading, NftChecks
<1>3. CheckAgreement(w) = CheckAgreement(x)
  BY DEF SameReading, CheckAgreement, ActualEnabled
<1> QED BY <1>1, <1>2, <1>3 DEF SameReading, Checks

\* They depend on the interfaces through the rules, and interfaces stay.
LEMMA ChecksStay ==
    ASSUME links' = links, NEW w, v' = w
    PROVE  Checks(v)' = Checks(w)
<1>1. IptablesChecks(v)' = IptablesChecks(w)
  BY DEF IptablesChecks, CheckNoRogueRules, Chain, Rules6
<1>2. NftChecks(v)' = NftChecks(w)
  BY DEF NftChecks, Table
<1>3. CheckAgreement(v)' = CheckAgreement(w)
  BY DEF CheckAgreement, ActualEnabled
<1> QED BY <1>1, <1>2, <1>3 DEF Checks

\* Every step of the verification keeps the kernel.
Looks ==
    \/ Begin \/ ReadConfig \/ ReadTable \/ ReadChain \/ ReadOutput \/ ReadIp6
    \/ CheckJump \/ CheckEndpoints \/ Agree \/ Exit

\* No step of run_verification changes a rule, the daemon or the configuration.
LEMMA LooksOnly == Looks => UNCHANGED <<links, disk, ks, fw>>
BY Zenon DEF Looks, Begin, ReadConfig, ReadTable, ReadChain, ReadOutput, ReadIp6, CheckJump,
       CheckEndpoints, Agree, Exit, Goes, Aborts

\* A report in progress stays a report, and what it read stays fresh.
LEMMA ReportKept ==
    ASSUME VerifyInv, Looks
    PROVE  v' \in Reports /\ ReportInv' /\ FreshInv'
<1> USE Constants
<1>1. links' = links /\ disk' = disk /\ ks' = ks /\ fw' = fw
  BY LooksOnly
<1>2. /\ v \in Reports /\ fw \in FwStates /\ disk \in Configs /\ ks \in KsStates
      /\ ReportInv /\ FreshInv
  BY DEF VerifyInv, KernelTypes
<1>3. DetectBackend' = DetectBackend /\ DetectBackend \in Backends
  BY <1>1 DEF DetectBackend, Backends
<1>0. NotRunning \in Reports /\ NotRunning.pc = "off"
  BY DEF NotRunning, Reports, Steps, Maybe, Backends
<1>s. {"config", "table", "chain", "output", "ip6", "jump", "endpoints", "agree", "done"}
        \subseteq Steps
  BY DEF Steps
<1>4. CASE Begin
  <2>1. v' = [NotRunning EXCEPT !.pc = "config", !.backend = DetectBackend]
    BY <1>4 DEF Begin, Goes
  <2>2. v' \in Reports /\ v'.pc = "config" /\ v'.backend = DetectBackend
    BY <1>0, <1>3, <1>s, <2>1, Zenon DEF Reports
  <2> QED BY <1>3, <2>2 DEF ReportInv, FreshInv, Past, Late, Chained
<1>5. CASE Exit
  <2>1. v' = NotRunning
    BY <1>5 DEF Exit, Goes
  <2> QED BY <1>0, <2>1 DEF ReportInv, FreshInv, Past, Late
<1>6. ASSUME Aborts, v.pc # "off" PROVE v' \in Reports /\ ReportInv' /\ FreshInv'
  <2>1. v' = [v EXCEPT !.pc = "done", !.code = 2]
    BY <1>6 DEF Aborts, Goes
  <2>0. "done" \in Steps /\ 2 \in 0..2
    BY <1>s
  <2>2. v' \in Reports
    BY <1>2, <2>0, <2>1, Zenon DEF Reports
  <2>3. v'.pc = "done" /\ v'.code = 2 /\ v'.backend = v.backend /\ v'.moves = v.moves
    BY <1>2, <2>1 DEF Reports
  <2>4. ReportInv'
    BY <2>3 DEF ReportInv, Past, Late
  <2>5. v.moves = 0 => v.backend = DetectBackend
    BY <1>2, <1>6 DEF FreshInv
  <2>6. FreshInv'
    BY <1>3, <2>3, <2>5 DEF FreshInv, Past, Late, Chained
  <2> QED BY <2>2, <2>4, <2>6
<1>7. CASE ReadConfig /\ ~Aborts
  <2>1. /\ v.pc = "config"
        /\ v' = [v EXCEPT !.cfg = disk,
                          !.pc = IF v.backend = "iptables" THEN "chain" ELSE "table"]
    BY <1>7 DEF ReadConfig, At, Goes
  <2>2. /\ v' \in Reports /\ v'.cfg = disk /\ v'.backend = v.backend /\ v'.moves = v.moves
        /\ v'.pc = IF v.backend = "iptables" THEN "chain" ELSE "table"
    BY <1>2, <1>s, <2>1, Zenon DEF Reports, Maybe
  <2>3. v.backend \in {"iptables", "nftables"}
    BY <1>2 DEF Reports, Backends
  <2> QED BY <1>1, <1>2, <1>3, <2>1, <2>2, <2>3 DEF ReportInv, FreshInv, Past, Late, Chained
<1>8. CASE ReadTable /\ ~Aborts
  <2>1. /\ v.pc = "table" /\ fw.table # None
        /\ v' = [v EXCEPT !.table = fw.table, !.held = Holding, !.pc = "endpoints"]
    BY <1>8 DEF ReadTable, At, Goes
  <2>2. Holding \in BOOLEAN /\ fw.table \in Maybe /\ "endpoints" \in Steps
    BY <1>2, <1>s DEF Holding, FwStates
  <2>h. PICK b \in BOOLEAN : v' = [v EXCEPT !.table = fw.table, !.held = b, !.pc = "endpoints"]
    BY <2>1, <2>2, Zenon
  <2>3. v' \in Reports
    BY <1>2, <2>2, <2>h, Zenon DEF Reports
  <2>4. /\ v'.cfg = v.cfg /\ v'.backend = v.backend /\ v'.moves = v.moves
        /\ v'.pc = "endpoints" /\ v'.table = fw.table
    BY <1>2, <2>h DEF Reports
  <2> QED BY <1>1, <1>2, <1>3, <2>1, <2>3, <2>4 DEF ReportInv, FreshInv, Past, Late, Chained
<1>9. CASE ReadChain
  <2>1. v.pc = "chain" /\ v' = [v EXCEPT !.chain = fw.chain, !.pc = "output"]
    BY <1>9 DEF ReadChain, At, Goes
  <2>2. /\ v' \in Reports /\ v'.cfg = v.cfg /\ v'.backend = v.backend /\ v'.moves = v.moves
        /\ v'.pc = "output" /\ v'.chain = fw.chain
    BY <1>2, <1>s, <2>1, Zenon DEF Reports, FwStates
  <2> QED BY <1>1, <1>2, <1>3, <2>1, <2>2 DEF ReportInv, FreshInv, Past, Late, Chained
<1>10. CASE ReadOutput
  <2> DEFINE first == CASE fw.other -> "other" [] fw.jump /\ ~fw.other -> "jump"
                        [] OTHER -> "none"
  <2>1. v.pc = "output" /\ v' = [v EXCEPT !.pc = "ip6", !.held = Holding, !.first = first]
    BY <1>10 DEF ReadOutput, At, Goes
  <2>2. /\ first \in {"none", "other", "jump"}
        /\ first = "jump" <=> fw.jump /\ ~fw.other
        /\ Holding \in BOOLEAN /\ "ip6" \in Steps
    BY <1>2, <1>s DEF Holding, FwStates
  <2> HIDE DEF first
  <2>3. PICK b \in BOOLEAN : v' = [v EXCEPT !.pc = "ip6", !.held = b, !.first = first]
    BY <2>1, <2>2, Zenon
  <2>4. v' \in Reports
    BY <1>2, <2>2, <2>3, Zenon DEF Reports
  <2>5. /\ v'.cfg = v.cfg /\ v'.backend = v.backend /\ v'.moves = v.moves
        /\ v'.pc = "ip6" /\ v'.first = first /\ v'.chain = v.chain
    BY <1>2, <2>3 DEF Reports
  <2> QED BY <1>1, <1>2, <1>3, <2>1, <2>2, <2>4, <2>5
          DEF ReportInv, FreshInv, Past, Late, Chained
<1>11. CASE ReadIp6
  <2>1. v.pc = "ip6" /\ v' = [v EXCEPT !.out6 = fw.out6, !.pc = "jump"]
    BY <1>11 DEF ReadIp6, At, Goes
  <2>2. /\ v' \in Reports /\ v'.cfg = v.cfg /\ v'.backend = v.backend /\ v'.moves = v.moves
        /\ v'.pc = "jump" /\ v'.chain = v.chain /\ v'.first = v.first /\ v'.out6 = fw.out6
    BY <1>2, <1>s, <2>1, Zenon DEF Reports, FwStates
  <2> QED BY <1>1, <1>2, <1>3, <2>1, <2>2 DEF ReportInv, FreshInv, Past, Late, Chained
<1>12. CASE CheckJump
  <2>1. v.pc = "jump" /\ v' = [v EXCEPT !.jump = fw.jump, !.pc = "endpoints"]
    BY <1>12 DEF CheckJump, At, Goes
  <2>2. /\ v' \in Reports /\ v'.cfg = v.cfg /\ v'.backend = v.backend /\ v'.moves = v.moves
        /\ v'.pc = "endpoints" /\ v'.chain = v.chain /\ v'.first = v.first
        /\ v'.out6 = v.out6 /\ v'.jump = fw.jump
    BY <1>2, <1>s, <2>1, Zenon DEF Reports, FwStates
  <2> QED BY <1>1, <1>2, <1>3, <2>1, <2>2 DEF ReportInv, FreshInv, Past, Late, Chained
<1>13. CASE CheckEndpoints
  <2>1. PICK some \in BOOLEAN :
           v.pc = "endpoints" /\ v' = [v EXCEPT !.hostnames = some, !.pc = "agree"]
    BY <1>13, Zenon DEF CheckEndpoints, At, Goes
  <2>2. /\ v' \in Reports /\ v'.cfg = v.cfg /\ v'.backend = v.backend /\ v'.moves = v.moves
        /\ v'.pc = "agree" /\ v'.chain = v.chain /\ v'.first = v.first
        /\ v'.out6 = v.out6 /\ v'.jump = v.jump /\ v'.table = v.table
    BY <1>2, <1>s, <2>1, Zenon DEF Reports
  <2> QED BY <1>1, <1>2, <1>3, <2>1, <2>2 DEF ReportInv, FreshInv, Past, Late, Chained
<1>14. CASE Agree
  <2>1. v.pc = "agree" /\ \E d \in {"down", IF ks.enabled THEN "on" ELSE "off"} :
           LET w == [v EXCEPT !.daemon = d, !.pc = "done"]
           IN  v' = [w EXCEPT !.code = IF Overall(w) = "fail" THEN 1 ELSE 0]
    BY <1>14, Zenon DEF Agree, At, Goes
  <2>2. PICK d \in {"down", IF ks.enabled THEN "on" ELSE "off"} :
           LET w == [v EXCEPT !.daemon = d, !.pc = "done"]
           IN  v' = [w EXCEPT !.code = IF Overall(w) = "fail" THEN 1 ELSE 0]
    BY <2>1, Zenon
  <2> DEFINE w == [v EXCEPT !.daemon = d, !.pc = "done"]
             n == IF Overall(w) = "fail" THEN 1 ELSE 0
  <2>3. v' = [w EXCEPT !.code = n] /\ n \in {0, 1} /\ (n = 1 => Overall(w) = "fail")
    BY <2>2
  <2>4. n = 1 => "fail" \in Checks(w)
    BY <2>3 DEF Overall
  <2>5. d \in {"down", "on", "off"} /\ "done" \in Steps /\ n \in 0..2
    BY <1>s
  <2> HIDE DEF n
  <2>6. v' \in Reports
    BY <1>2, <2>3, <2>5, Zenon DEF Reports
  <2>7. /\ v'.cfg = v.cfg /\ v'.backend = v.backend /\ v'.moves = v.moves
        /\ v'.pc = "done" /\ v'.chain = v.chain /\ v'.first = v.first
        /\ v'.out6 = v.out6 /\ v'.jump = v.jump /\ v'.table = v.table
        /\ v'.daemon = d /\ v'.code = n
    BY <1>2, <2>3 DEF Reports
  <2>8. SameReading([w EXCEPT !.code = n], w)
    BY <1>2 DEF SameReading, Reports
  <2> HIDE DEF w
  <2>9. n = 1 => "fail" \in Checks(v)'
    BY <1>1, <2>3, <2>4, <2>8, ChecksOfReading, ChecksStay
  <2>10. ReportInv'
    BY <1>2, <2>1, <2>7 DEF ReportInv, Past, Late
  <2> QED BY <1>1, <1>2, <1>3, <2>1, <2>2, <2>6, <2>7, <2>9, <2>10, Zenon
          DEF FreshInv, Past, Late, Chained
<1>15. ReadConfig => v.pc # "off"
  BY DEF ReadConfig, At
<1>16. ReadTable => v.pc # "off"
  BY DEF ReadTable, At
<1> QED BY <1>4, <1>5, <1>6, <1>7, <1>8, <1>9, <1>10, <1>11, <1>12, <1>13, <1>14, <1>15, <1>16
        DEF Looks

\* The interfaces and everything else a step leaves alone.
LEMMA VerifyStep ==
    VerifyInv /\ [Next]_vars => VerifyInv' /\ links' = links
<1> SUFFICES ASSUME VerifyInv, [Next]_vars PROVE VerifyInv' /\ links' = links
  OBVIOUS
<1>1. CASE Beside
  <2>1. Disturbed /\ links' = links
    BY <1>1 DEF Beside, EnableFills, EnableHooks, EnableNft, Disable, Reload, Crash,
                EditConfig, Tamper
  <2>2. KernelTypes' /\ KernelInv'
    BY <1>1, KernelKept DEF VerifyInv
  <2> QED BY <2>1, <2>2, Disturbs DEF VerifyInv
<1>2. CASE Looks
  <2>1. UNCHANGED <<links, disk, ks, fw>>
    BY <1>2, LooksOnly
  <2>2. KernelTypes' /\ KernelInv'
    BY <2>1 DEF VerifyInv, KernelTypes, KernelInv, FwStates, Leftovers, Rules6
  <2> QED BY <1>2, <2>1, <2>2, ReportKept DEF VerifyInv
<1>3. CASE UNCHANGED vars
  <2>1. UNCHANGED <<links, disk, ks, fw>> /\ v' = v
    BY <1>3 DEF vars
  <2>2. KernelTypes' /\ KernelInv' /\ v' \in Reports /\ ReportInv'
    BY <2>1 DEF VerifyInv, KernelTypes, KernelInv, FwStates, Leftovers, Rules6, ReportInv, Past
  <2>3. Checks(v)' = Checks(v)
    BY <2>1, ChecksStay
  <2>4. FreshInv'
    BY <2>1, <2>3 DEF VerifyInv, FreshInv, Past, DetectBackend
  <2> QED BY <2>1, <2>2, <2>4 DEF VerifyInv
<1> QED BY <1>1, <1>2, <1>3 DEF Next, Beside, Looks

\* What a report in progress read stays true until somebody moves, whatever the
\* daemon, the user and other programs do.
THEOREM VerifyAlways == Spec => []VerifyInv
<1>1. Init => VerifyInv
  BY VerifyInit
<1>2. VerifyInv /\ [Next]_vars => VerifyInv'
  BY VerifyStep
<1> QED BY <1>1, <1>2, PTL DEF Spec

----------------------------------------------------------------------------
(* What is let out *)

\* New traffic outside a tunnel that gets through every rule set in the kernel
\* is excused by each of them.
LEMMA LetOut ==
    ASSUME KernelTypes, LanIsPrivate, NEW p \in Outside, Allowed(p)
    PROVE  /\ p.fam = 4 /\ fw.jump /\ ~fw.other /\ fw.chain # None => Excused(fw.chain, p)
           /\ fw.table # None => Excused(fw.table, p)
           /\ p.fam = 6 /\ fw.out6 # None /\ fw.out6.v6 # "off" => Excused(fw.out6, p)
<1>1. /\ links \in Links /\ p \in Packets
      /\ fw.chain \in Maybe /\ fw.table \in Maybe /\ fw.out6 \in Maybe
  BY Constants, OutsideFacts DEF KernelTypes, FwStates
<1>2. ASSUME p.fam = 4, fw.jump, ~fw.other, fw.chain # None PROVE Excused(fw.chain, p)
  <2>1. fw.chain \in Configs
    BY <1>1, <1>2 DEF Maybe
  <2>2. Verdict(Chain(fw.chain), p, "accept") = "accept"
    BY <1>2 DEF Allowed
  <2>3. Verdict(Chain(fw.chain), p, "accept") = ChainVerdict(fw.chain, p, links)
    BY <1>1, <2>1, ChainListed, Zenon DEF Chain
  <2> QED BY <1>1, <1>2, <2>1, <2>2, <2>3, ChainKeepsIn
<1>3. ASSUME fw.table # None PROVE Excused(fw.table, p)
  <2>1. fw.table \in Configs
    BY <1>1, <1>3 DEF Maybe
  <2>2. Verdict(Table(fw.table), p, "drop") = "accept"
    BY <1>3 DEF Allowed
  <2>3. Verdict(Table(fw.table), p, "drop") = TableVerdict(fw.table, p, links)
    BY <1>1, <2>1, TableListed DEF Table
  <2> QED BY <1>1, <2>1, <2>2, <2>3, TableKeepsIn
<1>4. ASSUME p.fam = 6, fw.out6 # None, fw.out6.v6 # "off" PROVE Excused(fw.out6, p)
  <2>1. fw.out6 \in Configs
    BY <1>1, <1>4 DEF Maybe
  <2>2. Verdict(Rules6(fw.out6), p, "accept") = "accept"
    BY <1>4 DEF Allowed
  <2>3. Verdict(Rules6(fw.out6), p, "accept") = SixVerdict(fw.out6, p, links)
    BY <1>1, <1>4, <2>1, SixListed DEF Rules6
  <2> QED BY <1>1, <1>4, <2>1, <2>2, <2>3, SixKeepsIn
<1> QED BY <1>2, <1>3, <1>4

\* Where the daemon's chain comes first in OUTPUT, or its table is there, public
\* traffic is held back.
LEMMA HoldsBack ==
    ASSUME KernelTypes, LanIsPrivate,
           (fw.jump /\ ~fw.other /\ fw.chain # None) \/ fw.table # None
    PROVE  Holding
<1> SUFFICES ASSUME NEW p \in Outside, p.fam = 4, p.svc = "other", ~Private(p),
                    p.dst \notin Servers, Allowed(p)
             PROVE  FALSE
  BY DEF Holding
<1>1. \E c \in {fw.chain, fw.table} : Excused(c, p)
  BY LetOut
<1> QED BY <1>1 DEF Excused

\* A report that found the jump in front, or read the table, noted the truth.
LEMMA HeldStep ==
    VerifyInv /\ LanIsPrivate /\ HeldInv /\ [Next]_vars => LanIsPrivate' /\ HeldInv'
<1> SUFFICES ASSUME VerifyInv, LanIsPrivate, HeldInv, [Next]_vars
             PROVE  LanIsPrivate' /\ HeldInv'
  OBVIOUS
<1>1. LanIsPrivate'
  BY VerifyStep DEF LanIsPrivate
<1>2. v \in Reports /\ KernelTypes /\ KernelInv
  BY DEF VerifyInv
<1>3. ASSUME v'.first = v.first, v'.table = v.table, v'.held = v.held, v'.backend = v.backend
      PROVE  HeldInv'
  BY <1>3 DEF HeldInv
<1>4. CASE ReadOutput
  <2>1. /\ v.pc = "output"
        /\ v' = [v EXCEPT !.pc = "ip6", !.held = Holding,
                          !.first = CASE fw.other -> "other"
                                      [] fw.jump /\ ~fw.other -> "jump"
                                      [] OTHER -> "none"]
    BY <1>4 DEF ReadOutput, At, Goes
  <2>2. v.table = None
    BY <2>1 DEF VerifyInv, ReportInv, HeldInv
  <2>3. v'.table = None
    BY <1>2, <2>1, <2>2 DEF Reports
  <2>4. CASE fw.jump /\ ~fw.other
    <3>1. Holding
      BY <1>2, <2>4, HoldsBack DEF KernelInv
    <3>2. v'.held = Holding
      BY <1>2, <2>1 DEF Reports
    <3> QED BY <1>1, <2>3, <3>1, <3>2 DEF HeldInv
  <2>5. CASE ~(fw.jump /\ ~fw.other)
    <3>1. v'.first # "jump"
      BY <1>2, <2>1, <2>5 DEF Reports
    <3> QED BY <1>1, <2>3, <3>1 DEF HeldInv
  <2> QED BY <2>4, <2>5
<1>5. CASE ReadTable
  <2>1. CASE Aborts
    <3>1. v' = [v EXCEPT !.pc = "done", !.code = 2]
      BY <2>1 DEF Aborts, Goes
    <3> QED BY <1>1, <1>2, <1>3, <3>1 DEF Reports
  <2>2. CASE ~Aborts
    <3>1. /\ v.pc = "table" /\ fw.table # None
          /\ v' = [v EXCEPT !.table = fw.table, !.held = Holding, !.pc = "endpoints"]
      BY <1>5, <2>2 DEF ReadTable, At, Goes
    <3>2. Holding
      BY <1>2, <3>1, HoldsBack
    <3>3. v'.held = Holding /\ v'.backend = v.backend
      BY <1>2, <3>1 DEF Reports
    <3>4. v.backend = "nftables"
      BY <3>1 DEF VerifyInv, ReportInv
    <3> QED BY <1>1, <3>2, <3>3, <3>4 DEF HeldInv
  <2> QED BY <2>1, <2>2
<1>6. CASE Begin \/ Exit
  <2>1. v'.first = "none" /\ v'.table = None
    <3>1. \/ v' = NotRunning
          \/ v' = [NotRunning EXCEPT !.pc = "config", !.backend = DetectBackend]
      BY <1>6 DEF Begin, Exit, Goes
    <3>2. NotRunning \in Reports /\ NotRunning.first = "none" /\ NotRunning.table = None
      BY DEF NotRunning, Reports, Steps, Maybe, Backends
    <3> QED BY <3>1, <3>2, Zenon DEF Reports
  <2> QED BY <1>1, <2>1 DEF HeldInv
<1>7. CASE Beside \/ UNCHANGED vars
  <2>1. v' = v \/ v' = [v EXCEPT !.moves = @ + 1]
    BY <1>7 DEF Beside, vars, EnableFills, EnableHooks, EnableNft, Disable, Reload, Crash,
                EditConfig, Tamper, Disturbed
  <2> QED BY <1>1, <1>2, <1>3, <2>1 DEF Reports
<1>8. CASE ReadConfig \/ ReadChain \/ ReadIp6 \/ CheckJump \/ CheckEndpoints
  <2>1. v'.first = v.first /\ v'.table = v.table /\ v'.held = v.held /\ v'.backend = v.backend
    BY <1>2, <1>8, Zenon DEF ReadConfig, ReadChain, ReadIp6, CheckJump, CheckEndpoints,
                             Aborts, Goes, Reports
  <2> QED BY <1>1, <1>3, <2>1
<1>9. CASE Agree
  <2>1. \E d, n : v' = [[v EXCEPT !.daemon = d, !.pc = "done"] EXCEPT !.code = n]
    BY <1>9, Zenon DEF Agree, Goes
  <2> QED BY <1>1, <1>2, <1>3, <2>1 DEF Reports
<1> QED BY <1>1, <1>4, <1>5, <1>6, <1>7, <1>8, <1>9 DEF Next, Beside

\* Where no subnet taken for the LAN holds a public address, none ever does, and a
\* report that found the daemon's chain in front of OUTPUT, or its table, looked
\* when public IPv4 traffic was held back (run_verification).
THEOREM HeldAlways == Spec /\ LanIsPrivate => [](LanIsPrivate /\ HeldInv)
<1>1. Init => HeldInv
  BY VerifyInit
<1>2. VerifyInv /\ LanIsPrivate /\ HeldInv /\ [Next]_vars => LanIsPrivate' /\ HeldInv'
  BY HeldStep
<1> QED BY <1>1, <1>2, VerifyAlways, PTL DEF Spec

\* The network of an address, by prefix length, without powers.
LEMMA Masks ==
    ASSUME NEW n \in Nat
    PROVE  /\ Mask(n, 16) = n
           /\ Mask(n, 15) = (n \div 2) * 2
           /\ Mask(n, 14) = (n \div 4) * 4
           /\ Mask(n, 13) = (n \div 8) * 8
           /\ Mask(n, 12) = (n \div 16) * 16
           /\ Mask(n, 11) = (n \div 32) * 32
           /\ Mask(n, 10) = (n \div 64) * 64
           /\ Mask(n, 9) = (n \div 128) * 128
           /\ Mask(n, 8) = (n \div 256) * 256
BY SMT DEF Mask

\* Clearing host bits twice: the shorter prefix counts.
LEMMA Nested ==
    ASSUME NEW h \in Nat, NEW k \in 8..16
    PROVE  /\ k >= 16 => Mask(Mask(h, k), 16) = Mask(h, 16)
           /\ k >= 12 => Mask(Mask(h, k), 12) = Mask(h, 12)
           /\ k >= 8 => Mask(Mask(h, k), 8) = Mask(h, 8)
<1>1. k \in {8, 9, 10, 11, 12, 13, 14, 15, 16}
  BY SMT
<1>2. Mask(h, k) \in Nat
  BY <1>1, Masks, SMT
<1> DEFINE Cut(m) == (h \div m) * m
<1>3. /\ Cut(16) \div 16 = h \div 16 /\ Cut(8) \div 16 = h \div 16
      /\ Cut(4) \div 16 = h \div 16 /\ Cut(2) \div 16 = h \div 16
  BY SMT
<1>4. /\ Cut(256) \div 256 = h \div 256 /\ Cut(128) \div 256 = h \div 256
      /\ Cut(64) \div 256 = h \div 256 /\ Cut(32) \div 256 = h \div 256
  BY SMT
<1>5. /\ Cut(16) \div 256 = h \div 256 /\ Cut(8) \div 256 = h \div 256
      /\ Cut(4) \div 256 = h \div 256 /\ Cut(2) \div 256 = h \div 256
  BY SMT
<1>6. /\ k = 16 => Mask(h, k) = h
      /\ k = 15 => Mask(h, k) = Cut(2)
      /\ k = 14 => Mask(h, k) = Cut(4)
      /\ k = 13 => Mask(h, k) = Cut(8)
      /\ k = 12 => Mask(h, k) = Cut(16)
      /\ k = 11 => Mask(h, k) = Cut(32)
      /\ k = 10 => Mask(h, k) = Cut(64)
      /\ k = 9 => Mask(h, k) = Cut(128)
      /\ k = 8 => Mask(h, k) = Cut(256)
  <2>1. /\ Mask(h, 16) = h /\ Mask(h, 15) = Cut(2) /\ Mask(h, 14) = Cut(4)
        /\ Mask(h, 13) = Cut(8) /\ Mask(h, 12) = Cut(16) /\ Mask(h, 11) = Cut(32)
        /\ Mask(h, 10) = Cut(64) /\ Mask(h, 9) = Cut(128) /\ Mask(h, 8) = Cut(256)
    BY SMT DEF Mask
  <2> HIDE DEF Cut
  <2> QED BY <2>1
<1> HIDE DEF Cut
<1>7. /\ k >= 12 => Mask(h, k) \div 16 = h \div 16
      /\ Mask(h, k) \div 256 = h \div 256
  BY <1>1, <1>3, <1>4, <1>5, <1>6
<1> DEFINE m == Mask(h, k)
<1>8. /\ Mask(m, 16) = m /\ Mask(m, 12) = (m \div 16) * 16 /\ Mask(m, 8) = (m \div 256) * 256
      /\ Mask(h, 16) = h /\ Mask(h, 12) = (h \div 16) * 16 /\ Mask(h, 8) = (h \div 256) * 256
  BY <1>2, Masks
<1>9. k >= 16 => m = h
  BY <1>1, <1>6
<1>10. /\ k >= 12 => m \div 16 = h \div 16
       /\ m \div 256 = h \div 256
  BY <1>7
<1> HIDE DEF m
<1>11. /\ k >= 16 => Mask(m, 16) = Mask(h, 16)
       /\ k >= 12 => Mask(m, 12) = Mask(h, 12)
       /\ k >= 8 => Mask(m, 8) = Mask(h, 8)
  BY <1>8, <1>9, <1>10
<1> QED BY <1>11 DEF m

\* What ordinary networks are like: a physical interface with a private address
\* has a prefix at least as long as the private range the address is from.
Narrow(l) ==
    \A a \in l.v4 :
        LET net == Mask(Top16[a.addr], a.len)
        IN  ~a.virtual /\ IsPrivateAddr(net) =>
                \E c \in LanSubnets : a.len >= c.len /\ Inside(net, c)

\* is_valid_private_cidr looks at the network address and for a length of 8 or more:
\* that is enough where prefixes are at least as long as the private ranges, and
\* where the interfaces cannot be listed (LAN_SUBNETS).
LEMMA NarrowIsPrivate ==
    ASSUME links \in Links, Narrow(links) \/ ~links.ok
    PROVE  LanIsPrivate
<1> DEFINE kept == {a \in links.v4 : ~a.virtual
                       /\ IsValidPrivateCidr(Cidr(Mask(Top16[a.addr], a.len), a.len))}
           nets == {Cidr(Mask(Top16[a.addr], a.len), a.len) : a \in kept}
<1>1. DetectLocalSubnets(links) = LanSubnets
      \/ (links.ok /\ DetectLocalSubnets(links) = nets \cup {LinkLocal4})
  BY DEF DetectLocalSubnets
<1>2. ASSUME NEW n \in LanSubnets, NEW x, Inside(x, n) PROVE IsPrivateAddr(x)
  BY <1>2 DEF IsPrivateAddr
<1>3. LinkLocal4 \in LanSubnets
  BY DEF LanSubnets
<1>4. ASSUME links.ok, NEW a \in kept, NEW h \in Hosts4,
             Inside(Top16[h], Cidr(Mask(Top16[a.addr], a.len), a.len))
      PROVE  IsPrivateAddr(Top16[h])
  <2> DEFINE net == Mask(Top16[a.addr], a.len)
  <2>1. /\ a \in links.v4 /\ ~a.virtual /\ a.len >= 8 /\ IsPrivateAddr(net)
        /\ a.len \in 0..16
    BY DEF IsValidPrivateCidr, Cidr, Links
  <2>2. PICK c \in LanSubnets : a.len >= c.len /\ Inside(net, c)
    BY <1>4, <2>1 DEF Narrow
  <2>3. Mask(Top16[h], a.len) = net
    BY <1>4 DEF Inside, Cidr
  <2>4. Mask(net, c.len) = c.net /\ c.len \in {8, 12, 16}
    BY <2>2 DEF Inside, LanSubnets, LinkLocal4, Cidr
  <2>5. Top16[h] \in Nat
    BY SMTT(40) DEF Hosts4, Top16, Octets
  <2>6. a.len \in 8..16
    BY <2>1
  <2> DEFINE k == a.len
             x == Top16[h]
             m == net
  <2> HIDE DEF net, k, x, m
  <2>7. Mask(Mask(Top16[h], a.len), c.len) = Mask(Top16[h], c.len)
    BY <2>2, <2>4, <2>5, <2>6, Nested
  <2>8. Inside(Top16[h], c)
    BY <2>3, <2>4, <2>7 DEF Inside
  <2> QED BY <1>2, <2>8
<1> HIDE DEF kept
<1>5. ASSUME NEW n \in DetectLocalSubnets(links), NEW h \in Hosts4, Inside(Top16[h], n)
      PROVE  IsPrivateAddr(Top16[h])
  <2>1. CASE n \in LanSubnets
    BY <1>2, <1>5, <2>1
  <2>2. CASE links.ok /\ n \in nets
    <3>1. PICK a \in kept : n = Cidr(Mask(Top16[a.addr], a.len), a.len)
      BY <2>2
    <3> QED BY <1>4, <1>5, <2>2, <3>1
  <2> QED BY <1>1, <1>3, <1>5, <2>1, <2>2
<1> QED BY <1>5 DEF LanIsPrivate

----------------------------------------------------------------------------
(* The properties *)

\* config.toml's promise: while the kill switch is in force, new traffic outside
\* a tunnel goes only to a VPN server, a private address or a DHCP server, and
\* plain DNS to nobody unless dns_mode is "any" (build_complete_script,
\* build_ipv6_script, build_nft_ruleset).  This needs LanIsPrivate: a wider
\* subnet on a physical interface is let out by design of the LAN exception.
THEOREM OnlyTheTunnelHolds == Spec /\ LanIsPrivate => []OnlyTheTunnel
<1>1. VerifyInv /\ LanIsPrivate => OnlyTheTunnel
  <2> SUFFICES ASSUME VerifyInv, LanIsPrivate, InForce, NEW p \in Outside, Allowed(p),
                      p.fam = 4 \/ InstalledFor.v6 # "off"
               PROVE  Excused(InstalledFor, p)
    BY DEF OnlyTheTunnel, Excused
  <2>1. KernelTypes /\ KernelInv
    BY DEF VerifyInv
  <2>2. CASE fw.table # None
    BY <2>1, <2>2, LetOut DEF InstalledFor
  <2>3. CASE fw.table = None
    <3>1. /\ InstalledFor = fw.chain /\ fw.chain # None
          /\ fw.jump /\ ~fw.other /\ (fw.out6 # None \/ fw.chain.v6 = "off")
      BY <2>1, <2>3 DEF InForce, InstalledFor, KernelInv
    <3>2. fw.out6 # None => fw.out6 = fw.chain
      BY <2>1 DEF KernelInv
    <3>3. p.fam \in {4, 6}
      BY OutsideFacts
    <3> QED BY <2>1, <3>1, <3>2, <3>3, LetOut
  <2> QED BY <2>2, <2>3
<1> QED BY <1>1, VerifyAlways, HeldAlways, PTL

\* build_nft_ruleset and build_complete_script decide alike on every IPv4 packet,
\* but for HTTPS to a DNS provider through the tunnel, which only nft drops.
LEMMA SamePolicy ==
    ASSUME NEW c \in Configs, NEW l \in Links, NEW p \in Packets, p.fam = 4,
           ~(InTunnel(p) /\ p.dst = "doh" /\ p.svc = "https")
    PROVE  ChainVerdict(c, p, l) = TableVerdict(c, p, l)
<1>0. p.dst \in Hosts4 \cup Hosts6 /\ (p.fam = 6 <=> p.dst \in Hosts6)
  BY DEF Packets
<1>1. p.dst \in Hosts4 /\ p.dst # "linklocal6" /\ p.dst # "lo6"
  BY <1>0 DEF Hosts6
<1>2. p.dst \in Servers \cap Hosts4 <=> p.dst \in NftServers(c)
  BY <1>1 DEF NftServers
<1>3. Resolves(p, TRUE) <=> Resolves(p, c.v6 # "block")
  BY <1>1 DEF Resolves
<1>4. CASE p.out = "lo" \/ p.est
  BY <1>4, Zenon DEF ChainVerdict, TableVerdict
<1>5. CASE ~(p.out = "lo" \/ p.est) /\ Plain(p)
  <2>1. p.svc # "dhcp" /\ ~DropsDoh(c, p)
    BY <1>5 DEF Plain, DropsDoh
  <2>2. \A d : DnsVerdict(c, TRUE, p, d) = DnsVerdict(c, c.v6 # "block", p, d)
    BY <1>3, Zenon DEF DnsVerdict
  <2> DEFINE one == IF InTunnel(p) THEN "accept" ELSE IF DropsDoh(c, p) THEN "drop"
                    ELSE IF p.dst \in Servers \cap Hosts4 \/ Local(p, l) \/ p.svc = "dhcp"
                         THEN "accept" ELSE "drop"
             other == IF DropsDoh(c, p) THEN "drop"
                      ELSE IF Local(p, l) \/ InTunnel(p) \/ p.dst \in NftServers(c)
                           THEN "accept" ELSE "drop"
  <2>3. ChainVerdict(c, p, l) = DnsVerdict(c, TRUE, p, one)
    BY <1>5, Zenon DEF ChainVerdict
  <2>4. TableVerdict(c, p, l) = DnsVerdict(c, c.v6 # "block", p, other)
    <3>1. p.fam # 6
      OBVIOUS
    <3> QED BY <1>1, <1>5, <2>1, <3>1, Zenon DEF TableVerdict
  <2>5. one = other
    BY <1>2, <2>1
  <2> QED BY <2>2, <2>3, <2>4, <2>5, Zenon
<1>6. CASE ~(p.out = "lo" \/ p.est) /\ ~Plain(p)
  BY <1>1, <1>2, <1>6 DEF ChainVerdict, TableVerdict, DnsVerdict, DropsDoh
<1> QED BY <1>4, <1>5, <1>6

\* The two backends write one IPv4 policy, for every configuration in force and
\* every listing of the interfaces (build_complete_script, build_nft_ruleset).
THEOREM BackendsAgreeHolds == Spec => []BackendsAgree
<1>1. VerifyInv => BackendsAgree
  <2> SUFFICES ASSUME VerifyInv, InForce, NEW p \in Packets, p.fam = 4,
                      ~(p.out \in Tunnels /\ p.dst = "doh" /\ p.svc = "https")
               PROVE  Verdict(Chain(InstalledFor), p, "accept")
                          = Verdict(Table(InstalledFor), p, "drop")
    BY DEF BackendsAgree
  <2> DEFINE c == InstalledFor
  <2>1. links \in Links /\ c \in Configs
    BY Constants DEF VerifyInv, KernelTypes, KernelInv, FwStates, Maybe, InForce, InstalledFor
  <2>2. Verdict(Chain(c), p, "accept") = ChainVerdict(c, p, links)
    BY <2>1, ChainListed, Zenon DEF Chain
  <2>3. Verdict(Table(c), p, "drop") = TableVerdict(c, p, links)
    BY <2>1, TableListed DEF Table
  <2> QED BY <2>1, <2>2, <2>3, SamePolicy DEF InTunnel
<1> QED BY <1>1, VerifyAlways, PTL

\* A tunnel's rule, whether written alone or for each tunnel.
LEMMA OutField == \A t : Accept([out |-> t]) = Accept([f \in {"out"} |-> t])
<1>1. \A t : [out |-> t] = [f \in {"out"} |-> t]
  OBVIOUS
<1> QED BY <1>1, Zenon

\* Rules with different fields, or different verdicts, are different rules.
LEMMA OneField ==
    /\ Drop([svc |-> "dns"]) \notin {Lo, Established, Dhcp, Accept([svc |-> "dns"]),
                                     Drop(EveryPacket), Drop([fam |-> 6]),
                                     Accept([dst |-> "linklocal6"])}
    /\ Accept([dst |-> "lo6", svc |-> "dns"]) \notin
          {Lo, Established, Dhcp, Accept([svc |-> "dns"]), Drop(EveryPacket)}
    /\ \A field, x :
          /\ Drop([svc |-> "dns"]) # Accept([f \in {field} |-> x])
          /\ Accept([dst |-> "lo6", svc |-> "dns"]) # Accept([f \in {field} |-> x])
<1>1. \A x, y : Accept(x) # Drop(y)
  BY DEF Accept, Drop
<1>2. \A x, y : (Accept(x) = Accept(y) => x = y) /\ (Drop(x) = Drop(y) => x = y)
  BY DEF Accept, Drop
<1>3. [svc |-> "dns"] # EveryPacket /\ [svc |-> "dns"] # [fam |-> 6]
  <2>1. DOMAIN [svc |-> "dns"] = {"svc"} /\ DOMAIN [fam |-> 6] = {"fam"}
    OBVIOUS
  <2>2. DOMAIN EveryPacket = {}
    BY DEF EveryPacket
  <2> QED BY <2>1, <2>2
<1>4. \A field, x : [dst |-> "lo6", svc |-> "dns"] # [f \in {field} |-> x]
  <2> TAKE field, x
  <2>1. /\ DOMAIN [dst |-> "lo6", svc |-> "dns"] = {"dst", "svc"}
        /\ DOMAIN [f \in {field} |-> x] = {field}
    OBVIOUS
  <2> QED BY <2>1
<1>5. \A x : /\ [out |-> x] = [f \in {"out"} |-> x]
            /\ [svc |-> x] = [f \in {"svc"} |-> x]
            /\ [est |-> x] = [f \in {"est"} |-> x]
  OBVIOUS
<1>6. Drop([svc |-> "dns"]) \notin {Lo, Established, Dhcp, Accept([svc |-> "dns"]),
                                    Accept([dst |-> "linklocal6"])}
  BY <1>1 DEF Lo, Established, Dhcp
<1>7. Drop([svc |-> "dns"]) \notin {Drop(EveryPacket), Drop([fam |-> 6])}
  BY <1>2, <1>3
<1>8. Accept([dst |-> "lo6", svc |-> "dns"]) \notin
          {Lo, Established, Dhcp, Accept([svc |-> "dns"]), Drop(EveryPacket)}
  <2>1. Accept([dst |-> "lo6", svc |-> "dns"]) # Drop(EveryPacket)
    BY <1>1
  <2>2. \A field, x : Accept([dst |-> "lo6", svc |-> "dns"]) # Accept([f \in {field} |-> x])
    BY <1>2, <1>4, Zenon
  <2>3. /\ Lo = Accept([f \in {"out"} |-> "lo"]) /\ Dhcp = Accept([f \in {"svc"} |-> "dhcp"])
        /\ Established = Accept([f \in {"est"} |-> TRUE])
        /\ Accept([svc |-> "dns"]) = Accept([f \in {"svc"} |-> "dns"])
    BY <1>5, Zenon DEF Lo, Established, Dhcp
  <2> QED BY <2>1, <2>2, <2>3, Zenon
<1>9. \A field, x :
          /\ Drop([svc |-> "dns"]) # Accept([f \in {field} |-> x])
          /\ Accept([dst |-> "lo6", svc |-> "dns"]) # Accept([f \in {field} |-> x])
  BY <1>1, <1>2, <1>4, Zenon
<1> QED BY <1>6, <1>7, <1>8, <1>9, Zenon

\* What the checks look for: the rules every chain and every table has, and the
\* rules that are missing where dns_mode is "any".
LEMMA ChainHas ==
    ASSUME NEW c \in Configs, NEW l \in Links
    PROVE  LET rules == Range(IptablesChain(c, Servers, l))
           IN  /\ {Lo, Drop(EveryPacket)} \subseteq rules
               /\ \A t \in Tunnels : Accept([out |-> t]) \in rules
               /\ c.dns = "any" => /\ Drop([svc |-> "dns"]) \notin rules
                                   /\ Accept([dst |-> "lo6", svc |-> "dns"]) \notin rules
<1> DEFINE rules == Range(IptablesChain(c, Servers, l))
<1>1. rules = {Lo, Established} \cup Range(DnsRules(c, TRUE))
                     \cup {Accept([f \in {"out"} |-> t]) : t \in Tunnels}
                     \cup Range(DohRules(c))
                     \cup {Accept([f \in {"dst"} |-> x]) : x \in Servers \cap Hosts4}
                     \cup {Accept([f \in {"net"} |-> n]) : n \in DetectLocalSubnets(l)}
                     \cup {Dhcp, Drop(EveryPacket)}
  BY ChainListed, Zenon
<1> HIDE DEF rules
<1>2. {Lo, Drop(EveryPacket)} \subseteq rules
  BY <1>1
<1>3. \A t \in Tunnels : Accept([out |-> t]) \in rules
  BY <1>1, OutField, Zenon
<1>4. ASSUME c.dns = "any", NEW r, r = Drop([svc |-> "dns"])
                                   \/ r = Accept([dst |-> "lo6", svc |-> "dns"])
      PROVE  r \notin rules
  <2>1. Range(DnsRules(c, TRUE)) = {Accept([svc |-> "dns"])} /\ Range(DohRules(c)) = {}
    BY <1>4, DnsListed, DohListed, Zenon
  <2>2. \A field, x : r # Accept([f \in {field} |-> x])
    BY <1>4, OneField, Zenon
  <2>3. r \notin {Lo, Established, Dhcp, Accept([svc |-> "dns"]), Drop(EveryPacket)}
    BY <1>4, OneField
  <2> QED BY <1>1, <2>1, <2>2, <2>3, Zenon
<1> QED BY <1>2, <1>3, <1>4 DEF rules

\* The same of the table.
LEMMA TableHas ==
    ASSUME NEW c \in Configs, NEW l \in Links
    PROVE  LET rules == Range(NftRules(c, Servers, l))
           IN  /\ Lo \in rules
               /\ \A t \in Tunnels : Accept([out |-> t]) \in rules
               /\ c.v6 = "block" => Drop([fam |-> 6]) \in rules
               /\ c.dns = "any" => Drop([svc |-> "dns"]) \notin rules
<1> DEFINE rules == Range(NftRules(c, Servers, l))
<1>1. rules = {Lo, Established}
                     \cup (IF c.v6 = "block" THEN {Drop([fam |-> 6])}
                                            ELSE {Accept([dst |-> "linklocal6"])})
                     \cup {Dhcp} \cup Range(DnsRules(c, c.v6 # "block"))
                     \cup Range(DohRules(c))
                     \cup {Accept([f \in {"net"} |-> n]) : n \in DetectLocalSubnets(l)}
                     \cup {Accept([f \in {"out"} |-> t]) : t \in Tunnels}
                     \cup {Accept([f \in {"dst"} |-> x]) : x \in NftServers(c)}
  BY TableListed
<1> HIDE DEF rules
<1>2. Lo \in rules /\ (c.v6 = "block" => Drop([fam |-> 6]) \in rules)
  BY <1>1
<1>3. \A t \in Tunnels : Accept([out |-> t]) \in rules
  BY <1>1, OutField, Zenon
<1>4. ASSUME c.dns = "any" PROVE Drop([svc |-> "dns"]) \notin rules
  <2> DEFINE r == Drop([svc |-> "dns"])
  <2>1. /\ Range(DnsRules(c, c.v6 # "block")) = {Accept([svc |-> "dns"])}
        /\ Range(DohRules(c)) = {}
    BY <1>4, DnsListed, DohListed, Zenon
  <2>2. \A field, x : r # Accept([f \in {field} |-> x])
    BY OneField, Zenon
  <2>3. r \notin {Lo, Established, Dhcp, Accept([svc |-> "dns"]), Drop([fam |-> 6]),
                  Accept([dst |-> "linklocal6"])}
    BY OneField
  <2> HIDE DEF r
  <2>4. r \notin rules
    <3> DEFINE six == IF c.v6 = "block" THEN {Drop([fam |-> 6])}
                                        ELSE {Accept([dst |-> "linklocal6"])}
    <3>1. r \notin six
      BY <2>3
    <3>2. rules = {Lo, Established} \cup six \cup {Dhcp}
                     \cup {Accept([svc |-> "dns"])} \cup {}
                     \cup {Accept([f \in {"net"} |-> n]) : n \in DetectLocalSubnets(l)}
                     \cup {Accept([f \in {"out"} |-> t]) : t \in Tunnels}
                     \cup {Accept([f \in {"dst"} |-> x]) : x \in NftServers(c)}
      BY <1>1, <2>1, Zenon
    <3> HIDE DEF six
    <3> QED BY <2>2, <2>3, <3>1, <3>2, Zenon
  <2> QED BY <2>4 DEF r
<1> QED BY <1>2, <1>3, <1>4 DEF rules

\* aggregate_verdict: a clean report has neither a failed check nor a warning.
LEMMA CleanReport ==
    ASSUME Overall(v) = "pass"
    PROVE  "fail" \notin Checks(v) /\ "warn" \notin Checks(v)
BY DEF Overall

\* The clean report of an iptables kill switch: the jump is first in OUTPUT, the
\* chain does not let DNS out to everyone, ip6tables drops what is left.
LEMMA CleanIptables4 ==
    ASSUME VerifyInv, v.pc = "done", v.code # 2, Overall(v) = "pass", v.backend = "iptables"
    PROVE  /\ v.first = "jump"
           /\ v.cfg \in Configs =>
                /\ v.chain # None /\ v.chain.dns # "any"
                /\ v.out6 # None /\ v.out6.v6 # "off"
<1> DEFINE rules == IF v.chain = None THEN {} ELSE Range(Chain(v.chain))
           six == IF v.out6 = None THEN {} ELSE Range(Rules6(v.out6))
<1>1. /\ {Fail(v.chain # None), CheckIpv6Iptables(six, v.cfg),
          CheckDnsModeIptables(rules, v.cfg), CheckNoRogueRules(v)} \subseteq Checks(v)
  BY DEF Checks, IptablesChecks
<1>2. "fail" \notin Checks(v) /\ "warn" \notin Checks(v)
  BY CleanReport
<1>3. v.chain \in Maybe /\ v.out6 \in Maybe /\ links \in Links
  BY Constants DEF VerifyInv, KernelTypes, Reports
<1>4. v.first = "jump"
  BY <1>1, <1>2 DEF CheckNoRogueRules, Warn
<1>5. v.chain # None
  BY <1>1, <1>2 DEF Fail
<1>6. ASSUME v.cfg \in Configs PROVE v.chain.dns # "any"
  <2>1. v.cfg.dns \in {"tunnel", "strict", "localhost", "any"}
    BY <1>6 DEF Configs
  <2>2. Drop([svc |-> "dns"]) \in rules \/ Accept([dst |-> "lo6", svc |-> "dns"]) \in rules
    <3> DEFINE r == Drop([svc |-> "dns"])
               s == Accept([dst |-> "lo6", svc |-> "dns"])
               via == \E t \in Tunnels : Accept([out |-> t, svc |-> "dns"]) \in rules
    <3>1. CheckDnsModeIptables(rules, v.cfg) =
            CASE v.cfg.dns \in {"tunnel", "strict"} -> Warn(r \in rules /\ via)
              [] v.cfg.dns = "localhost" -> Warn(s \in rules)
              [] v.cfg.dns = "any" -> "warn"
      BY Zenon DEF CheckDnsModeIptables
    <3> HIDE DEF r, s, via, rules
    <3> QED BY <1>1, <1>2, <2>1, <3>1 DEF Warn, r, s
  <2>3. v.chain \in Configs /\ rules = Range(IptablesChain(v.chain, Servers, links))
    BY <1>3, <1>5 DEF Maybe, Chain
  <2> QED BY <1>3, <2>2, <2>3, ChainHas
<1>7. ASSUME v.cfg \in Configs PROVE v.out6 # None /\ v.out6.v6 # "off"
  <2>1. v.cfg.v6 \in {"block", "tunnel", "off"}
    BY <1>7 DEF Configs
  <2>2. Drop(EveryPacket) \in six
    <3> DEFINE r == Drop(EveryPacket)
               s == Accept([out |-> "tun"])
    <3>1. CheckIpv6Iptables(six, v.cfg) =
            CASE v.cfg.v6 = "block" -> Fail(r \in six)
              [] v.cfg.v6 = "tunnel" -> Warn({s, r} \subseteq six)
              [] v.cfg.v6 = "off" -> "warn"
      BY DEF CheckIpv6Iptables
    <3> HIDE DEF r, s, six
    <3> QED BY <1>1, <1>2, <2>1, <3>1 DEF Warn, Fail, r
  <2>3. v.out6 # None /\ v.out6 \in Configs
    BY <1>3, <2>2 DEF Maybe
  <2>4. v.out6.v6 = "off" => Range(Ip6Rules(v.out6, links)) = {}
    BY <1>3, <2>3, SixListed
  <2> QED BY <2>2, <2>3, <2>4 DEF Rules6
<1> QED BY <1>4, <1>5, <1>6, <1>7

\* The clean report of an nftables kill switch: dns_mode is a mode the check
\* knows, and the table does not let DNS out to everyone.
LEMMA CleanNft ==
    ASSUME VerifyInv, v.pc = "done", v.code # 2, Overall(v) = "pass", v.backend = "nftables"
    PROVE  v.table # None /\ v.table.dns # "any"
<1> DEFINE rules == Range(Table(v.table))
<1>1. CheckDnsModeNft(rules, v.cfg) \in Checks(v)
  BY DEF Checks, NftChecks
<1>2. v.table # None /\ v.table \in Configs /\ links \in Links
  BY Constants DEF VerifyInv, KernelTypes, ReportInv, Past, Reports, Maybe
<1>3. Drop([svc |-> "dns"]) \in rules
  <2> DEFINE r == Drop([svc |-> "dns"])
  <2>1. CheckDnsModeNft(rules, v.cfg) =
          IF v.cfg.dns \in {"tunnel", "strict"} THEN Warn(r \in rules) ELSE "warn"
    BY DEF CheckDnsModeNft
  <2> HIDE DEF r, rules
  <2> QED BY <1>1, <2>1, CleanReport DEF Warn, r
<1> QED BY <1>2, <1>3, TableHas DEF Table

\* "Non-VPN traffic is blocked", what run_verification's caller prints on a clean
\* report, was true of IPv4 at a moment of the verification whatever happened
\* meanwhile, and is true of all new traffic if nothing did.
THEOREM PassIsTrueHolds == Spec /\ LanIsPrivate => []PassIsTrue
<1>1. VerifyInv /\ HeldInv /\ LanIsPrivate => PassIsTrue
  <2> SUFFICES ASSUME VerifyInv, HeldInv, LanIsPrivate, v.pc = "done", v.code # 2,
                      Overall(v) = "pass"
               PROVE  /\ v.held
                      /\ v.moves = 0 =>
                            \A p \in Outside :
                                p.dst \notin Servers /\ ~Private(p) /\ p.svc # "dhcp"
                                    => ~Allowed(p)
    BY DEF PassIsTrue, At
  <2>1. v.backend \in {"iptables", "nftables"} /\ KernelTypes /\ KernelInv
    BY DEF VerifyInv, Reports, Backends
  <2>2. v.held
    BY <2>1, CleanIptables4, CleanNft DEF HeldInv
  <2>3. ASSUME v.moves = 0, NEW p \in Outside, p.dst \notin Servers, ~Private(p),
               p.svc # "dhcp", Allowed(p)
        PROVE  FALSE
    <3>1. \A c : Excused(c, p) => c.dns = "any"
      BY <2>3 DEF Excused
    <3>2. v.cfg = disk /\ disk \in Configs
      BY <2>1, <2>3 DEF VerifyInv, FreshInv, Past, KernelTypes
    <3>3. CASE v.backend = "nftables"
      <4>1. v.table = fw.table
        BY <2>3, <3>3 DEF VerifyInv, FreshInv, Past
      <4> QED BY <2>1, <2>3, <3>1, <3>3, <4>1, CleanNft, LetOut
    <3>4. CASE v.backend = "iptables"
      <4>1. /\ v.chain = fw.chain /\ v.out6 = fw.out6
            /\ v.first = "jump" <=> fw.jump /\ ~fw.other
        BY <2>3, <3>4 DEF VerifyInv, FreshInv, Past
      <4>2. /\ fw.jump /\ ~fw.other /\ fw.chain # None /\ fw.chain.dns # "any"
            /\ fw.out6 # None /\ fw.out6.v6 # "off"
        BY <3>2, <3>4, <4>1, CleanIptables4
      <4>3. fw.out6 = fw.chain
        BY <2>1, <4>2 DEF KernelInv
      <4>4. p.fam \in {4, 6}
        BY OutsideFacts
      <4> QED BY <2>1, <2>3, <3>1, <4>2, <4>3, <4>4, LetOut
    <3> QED BY <2>1, <3>3, <3>4
  <2> QED BY <2>2, <2>3
<1> QED BY <1>1, VerifyAlways, HeldAlways, PTL

\* check_tunnel_interfaces passes on rules with every tunnel's exception.
LEMMA TunnelsSeen ==
    ASSUME NEW rules, \A t \in Tunnels : Accept([out |-> t]) \in rules
    PROVE  CheckInterfaces(rules) # "fail"
<1> DEFINE missing == {t \in Tunnels : Accept([out |-> t]) \notin rules}
<1>1. missing = {}
  OBVIOUS
<1>2. CheckInterfaces(rules) = CASE missing = {} -> "pass" [] missing = Tunnels -> "fail"
                                 [] OTHER -> "warn"
  BY DEF CheckInterfaces
<1>3. Tunnels # {}
  BY DEF Tunnels
<1> HIDE DEF missing
<1> QED BY <1>1, <1>2, <1>3

\* The checks of an iptables kill switch read in full, built for the configuration
\* they are told of, with the daemon saying "on" or nothing.
LEMMA IptablesUnfailed ==
    ASSUME links \in Links, NEW w, w.cfg \in Configs, w.backend = "iptables",
           w.chain = w.cfg, w.out6 = w.cfg, w.jump, w.daemon \in {"down", "on"}
    PROVE  "fail" \notin Checks(w)
<1> DEFINE rules == Range(Chain(w.cfg))
           six == Range(Rules6(w.cfg))
<1>1. w.cfg # None
  BY Constants
<1>2. /\ Lo \in rules /\ Drop(EveryPacket) \in rules
      /\ \A t \in Tunnels : Accept([out |-> t]) \in rules
  BY ChainHas DEF Chain
<1>3. w.cfg.v6 # "off" => Drop(EveryPacket) \in six
  BY SixListed DEF Rules6
<1>4. w.cfg.v6 \in {"block", "tunnel", "off"}
      /\ w.cfg.dns \in {"tunnel", "strict", "localhost", "any"}
  BY DEF Configs
<1>5. Checks(w) = {Fail(w.chain # None), Fail(w.jump), Fail(Drop(EveryPacket) \in rules),
                   Fail(Lo \in rules), CheckInterfaces(rules), Warn(Dhcp \in rules),
                   CheckIpv6Iptables(six, w.cfg), CheckDnsModeIptables(rules, w.cfg),
                   CheckNoRogueRules(w), Warn(~w.hostnames), CheckAgreement(w)}
  BY <1>1, Zenon DEF Checks, IptablesChecks
<1>6. \A b : Warn(b) # "fail"
  BY DEF Warn
<1>7. CheckInterfaces(rules) # "fail"
  BY <1>2, TunnelsSeen
<1>8. CheckIpv6Iptables(six, w.cfg) # "fail"
  BY <1>3, <1>4, <1>6 DEF CheckIpv6Iptables, Fail
<1>9. CheckDnsModeIptables(rules, w.cfg) # "fail" /\ CheckNoRogueRules(w) # "fail"
  BY <1>4, <1>6, Zenon DEF CheckDnsModeIptables, CheckNoRogueRules
<1>10. CheckAgreement(w) # "fail"
  BY <1>1 DEF CheckAgreement, ActualEnabled, Fail
<1>11. /\ Fail(w.chain # None) # "fail" /\ Fail(w.jump) # "fail"
       /\ Fail(Drop(EveryPacket) \in rules) # "fail" /\ Fail(Lo \in rules) # "fail"
  BY <1>1, <1>2 DEF Fail
<1> HIDE DEF rules, six
<1> QED BY <1>5, <1>6, <1>7, <1>8, <1>9, <1>10, <1>11, Zenon

\* The same of an nftables kill switch.
LEMMA NftUnfailed ==
    ASSUME links \in Links, NEW w, w.cfg \in Configs, w.backend = "nftables",
           w.table = w.cfg, w.daemon \in {"down", "on"}
    PROVE  "fail" \notin Checks(w)
<1> DEFINE rules == Range(Table(w.cfg))
<1>1. /\ Lo \in rules /\ (w.cfg.v6 = "block" => Drop([fam |-> 6]) \in rules)
      /\ \A t \in Tunnels : Accept([out |-> t]) \in rules
  BY TableHas DEF Table
<1>2. w.cfg.v6 \in {"block", "tunnel", "off"}
  BY DEF Configs
<1>3. Checks(w) = {Fail(Lo \in rules), CheckInterfaces(rules), Warn(Dhcp \in rules),
                   CheckIpv6Nft(rules, w.cfg), CheckDnsModeNft(rules, w.cfg),
                   Warn(~w.hostnames), CheckAgreement(w)}
  BY DEF Checks, NftChecks
<1>4. \A b : Warn(b) # "fail"
  BY DEF Warn
<1>5. CheckInterfaces(rules) # "fail"
  BY <1>1, TunnelsSeen
<1>6. CheckIpv6Nft(rules, w.cfg) # "fail" /\ CheckDnsModeNft(rules, w.cfg) # "fail"
  BY <1>1, <1>2, <1>4 DEF CheckIpv6Nft, CheckDnsModeNft, Fail
<1>7. CheckAgreement(w) # "fail" /\ Fail(Lo \in rules) # "fail"
  BY <1>1 DEF CheckAgreement, ActualEnabled, Fail
<1> HIDE DEF rules
<1> QED BY <1>3, <1>4, <1>5, <1>6, <1>7

\* No false alarm (run_verification's exit code 1): a kill switch completely in
\* force for the configuration on disk, its daemon up or dead, gets no failed
\* check as long as nothing moves during the verification.
THEOREM HealthyNotFailedHolds == Spec => []HealthyNotFailed
<1>1. VerifyInv => HealthyNotFailed
  <2> SUFFICES ASSUME VerifyInv, v.pc = "done", v.moves = 0, ks.enabled, ~fw.other,
                      InstalledFor = disk,
                      fw.table # None \/ (fw.jump /\ fw.out6 # None), v.code = 1
               PROVE  FALSE
    BY DEF HealthyNotFailed, At
  <2>1. /\ links \in Links /\ disk \in Configs /\ KernelInv
        /\ ks.backend \in {"iptables", "nftables"}
    BY Constants DEF VerifyInv, KernelTypes, KsStates, Backends
  <2>2. /\ v.backend = DetectBackend /\ v.cfg = disk /\ v.daemon \in {"down", "on"}
        /\ "fail" \in Checks(v)
    BY DEF VerifyInv, FreshInv, Past
  <2>3. CASE fw.table # None
    <3>1. v.backend = "nftables" /\ fw.table = disk
      BY <2>1, <2>2, <2>3 DEF KernelInv, DetectBackend, InstalledFor
    <3>2. v.table = fw.table
      BY <3>1 DEF VerifyInv, FreshInv, Past
    <3> QED BY <2>1, <2>2, <3>1, <3>2, NftUnfailed
  <2>4. CASE fw.table = None
    <3>1. /\ v.backend = "iptables" /\ fw.jump /\ fw.chain = disk /\ fw.out6 = disk
      BY <2>1, <2>2, <2>4 DEF KernelInv, DetectBackend, InstalledFor
    <3>0. Past(Chained) /\ Past({"jump"} \cup Late) /\ Past(Late)
      BY DEF Past
    <3>2. v.chain = fw.chain /\ v.out6 = fw.out6
      BY <3>0, <3>1, Zenon DEF VerifyInv, FreshInv
    <3>3. v.jump
      <4>1. v.jump = fw.jump
        BY <3>0, <3>1, Zenon DEF VerifyInv, FreshInv
      <4> QED BY <3>1, <4>1, Zenon
    <3> QED BY <2>1, <2>2, <3>1, <3>2, <3>3, IptablesUnfailed
  <2> QED BY <2>3, <2>4
<1> QED BY <1>1, VerifyAlways, PTL

\* The promise and the clean report on ordinary networks, whose prefixes are no
\* wider than the private ranges, and where the interfaces cannot be listed at
\* all (detect_local_subnets falls back to LAN_SUBNETS).
THEOREM OrdinaryNetworks ==
    Spec /\ (Narrow(links) \/ ~links.ok) => [](OnlyTheTunnel /\ PassIsTrue)
<1>1. Init /\ (Narrow(links) \/ ~links.ok) => LanIsPrivate
  BY Constants, NarrowIsPrivate DEF Init
<1> QED BY <1>1, OnlyTheTunnelHolds, PassIsTrueHolds, PTL DEF Spec
=============================================================================
