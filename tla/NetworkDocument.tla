--------------------------- MODULE NetworkDocument ---------------------------
(***************************************************************************)
(* buildNMState (network.go:227-789): which interfaces and routes of a     *)
(* config are accepted, and the nmstate document made of those that are.   *)
(*                                                                         *)
(* Names are what is left of them after TrimSpace.  An address is a record *)
(* [form, net, host]: its form is "v4", "v6", "mapped" (::ffff:a.b.c.d) or *)
(* "bad", a text that does not parse; an IPv4 address and the mapped one   *)
(* of the same number have the same net and host.  A prefix has bits too.  *)
(* net/netip and net tell the forms apart differently, and the code uses   *)
(* both.                                                                   *)
(***************************************************************************)
EXTENDS Integers, Sequences, SequencesExt

CONSTANTS
    Unset,      \* an optional field the config leaves out
    MaxU32      \* the largest 32-bit unsigned number

AddressRead(a) ==
    /\ DOMAIN a = {"form", "net", "host", "bits"}
    /\ a.form \in {"v4", "v6", "mapped", "bad"}
PrefixRead(p) ==
    /\ AddressRead(p)
    /\ p.form # "bad" => p.bits \in 0..(IF p.form = "v4" THEN 32 ELSE 128)

\* netip.ParseAddr, net.ParseCIDR and netip.ParsePrefix; net.IP.To4;
\* netip.Addr.Is4; net.IP.String, which writes a mapped address as IPv4.
Parses(a) == a.form # "bad"
To4(a) == a.form \in {"v4", "mapped"}
Is4(a) == a.form = "v4"
AsText(a) == [a EXCEPT !.form = IF To4(a) THEN "v4" ELSE "v6"]
\* netip.Prefix.Masked
Masked(p) == [p EXCEPT !.host = 0]

-----------------------------------------------------------------------------
(* Interfaces. *)

InterfaceType(i) == IF i.type = "" THEN "ethernet" ELSE i.type

validateMTU(i) == i.mtu = Unset \/ i.mtu \in 1..MaxU32
validateTxQueueLen(i) == i.txqueuelen = Unset \/ i.txqueuelen \in 0..MaxU32

VLANs == 1..4094
interfaceVLAN(i) ==
    IF InterfaceType(i) = "vlan"
    THEN i.vlan # Unset /\ i.vlan.base # "" /\ i.vlan.id \in VLANs
    ELSE i.vlan = Unset

PrimaryModes == {"active-backup", "balance-tlb", "balance-alb"}
BondModes == PrimaryModes \cup {"balance-rr", "balance-xor", "broadcast", "802.3ad"}

buildBondOptions(b) ==
    /\ b.miimon = Unset \/ b.miimon \in 0..MaxU32
    /\ b.primary # "" => b.mode \in PrimaryModes /\ b.primary \in ToSet(b.ports)

buildBond(i) ==
    /\ i.bond.mode \in BondModes
    /\ i.bond.ports # <<>>
    /\ ToSet(i.bond.ports) \cap {"", i.name} = {}
    /\ IsInjective(i.bond.ports)
    /\ buildBondOptions(i.bond)

interfaceBond(i) ==
    IF InterfaceType(i) = "bond" THEN i.bond # Unset /\ buildBond(i) ELSE i.bond = Unset

\* Only IPv6 stacks have an autoconf field.
NMStack(enabled, dhcp, autoconf, address) ==
    [enabled |-> enabled, dhcp |-> dhcp, autoconf |-> autoconf, gen |-> "", address |-> address]
Stack(dhcp, autoconf) == NMStack(TRUE, dhcp, autoconf, <<>>)
Disabled == NMStack(FALSE, FALSE, Unset, <<>>)
StacksOf(address) ==
    [enabled : BOOLEAN, dhcp : BOOLEAN, autoconf : BOOLEAN \cup {Unset},
     gen : {"", "eui64", "stable-privacy"}, address : {address}]

\* net.IPNet.Contains, which compares the two in their shortest form.  A mapped
\* subnet is one of IPv4 only while ParseCIDR leaves its ::ffff, the 96 bits in
\* front of the number, in place: a shorter one is an IPv6 network.
Subnet4(p) == p.form = "v4" \/ (p.form = "mapped" /\ p.bits >= 96)
parseInterfaceAddress(i) ==
    /\ Parses(i.ip) /\ Parses(i.subnet)
    /\ To4(i.ip) = Subnet4(i.subnet)
    /\ i.ip.net = i.subnet.net

StaticStack(i) ==
    NMStack(TRUE, FALSE, Unset, <<[ip |-> AsText(i.ip), prefix_length |-> i.subnet.bits]>>)
WithGen(stack, gen) == [stack EXCEPT !.gen = gen]

HasStatic4(i) == i.ip # Unset /\ To4(i.ip)
HasStatic6_AnyText(i) == i.ip # Unset /\ ~Is4(i.ip)
HasStatic6(i) == i.ip # Unset /\ ~To4(i.ip)

ipv4MethodStack ==
    [m \in {"dhcp", "auto", "disabled"} |-> IF m = "disabled" THEN Disabled ELSE Stack(TRUE, Unset)]
ipv6MethodStack ==
    [m \in {"link-local", "auto", "dhcp", "disabled"} |->
        IF m = "disabled" THEN Disabled ELSE Stack(m # "link-local", m = "auto")]

applyIPv4Settings(i) ==
    CASE HasStatic4(i) -> StaticStack(i)
      [] i.ipv4_method # "" -> ipv4MethodStack[i.ipv4_method]
      [] OTHER -> Unset

applyIPv6Settings(i) ==
    LET stack == CASE HasStatic6(i) -> StaticStack(i)
                   [] i.ipv6_method # "" -> ipv6MethodStack[i.ipv6_method]
                   [] OTHER -> Unset
    IN IF i.gen = "" THEN stack ELSE WithGen(stack, i.gen)

\* A static address is a method of its own, and excludes the others; an
\* addr-gen-mode needs a stack that is enabled.
MethodsAgree(i) ==
    /\ i.ip # Unset => parseInterfaceAddress(i)
    /\ i.ipv4_method # "" => ~HasStatic4(i) /\ i.ipv4_method \in DOMAIN ipv4MethodStack
    /\ i.ipv6_method # "" => ~HasStatic6(i) /\ i.ipv6_method \in DOMAIN ipv6MethodStack
    /\ i.gen # "" => /\ i.gen \in {"eui64", "stable-privacy"}
                     /\ HasStatic6(i) \/ i.ipv6_method \notin {"", "disabled"}

InterfaceAccepted(i) ==
    /\ i.name # ""
    /\ validateMTU(i) /\ validateTxQueueLen(i)
    /\ (i.ip = Unset) = (i.subnet = Unset)
    /\ interfaceVLAN(i) /\ interfaceBond(i)
    /\ MethodsAgree(i)

buildNMInterface(i) ==
    [name |-> i.name, type |-> InterfaceType(i), state |-> "up", mtu |-> i.mtu,
     vlan |-> i.vlan, bond |-> i.bond,
     ipv4 |-> applyIPv4Settings(i), ipv6 |-> applyIPv6Settings(i)]

-----------------------------------------------------------------------------
(* Routes and resolvers. *)

Everything(form) == [form |-> form, net |-> "any", host |-> 0, bits |-> 0]

gatewayRoute_ByForm(i) ==
    [destination |-> Everything(IF Is4(i.gateway) THEN "v4" ELSE "v6"),
     next_hop |-> AsText(i.gateway), interface |-> i.name,
     table_id |-> Unset, metric |-> Unset]
gatewayRoute(i) ==
    [destination |-> Everything(IF To4(i.gateway) THEN "v4" ELSE "v6"),
     next_hop |-> AsText(i.gateway), interface |-> i.name,
     table_id |-> Unset, metric |-> Unset]

validateRouteUint32(value) == value = Unset \/ value \in 0..MaxU32

\* The families are compared as netip has them: a mapped address is not IPv4.
RouteAccepted(r) ==
    /\ r.destination # Unset /\ Parses(r.destination)
    /\ r.interface # ""
    /\ r.next_hop # Unset => /\ Parses(r.next_hop)
                             /\ Is4(r.next_hop) = Is4(r.destination)
    /\ validateRouteUint32(r.table_id) /\ validateRouteUint32(r.metric)

buildNMRoute(r) == [r EXCEPT !.destination = Masked(r.destination)]

\* A resolver counts once, as text, where it is first seen.
appendInterfaceDNS(servers, dns) ==
    IF AsText(dns) \in ToSet(servers) THEN servers ELSE Append(servers, AsText(dns))

DeclaredDNS(interfaces) == FlattenSeq([k \in DOMAIN interfaces |-> interfaces[k].dns])

NetworkAccepted(interfaces, routes) ==
    /\ \A k \in DOMAIN interfaces :
           LET i == interfaces[k] IN
           /\ InterfaceAccepted(i)
           /\ i.gateway # Unset => Parses(i.gateway)
           /\ \A d \in ToSet(i.dns) : Parses(d)
    /\ \A k \in DOMAIN routes : RouteAccepted(routes[k])

Resolvers(dns) ==
    LET servers[n \in 0..Len(dns)] ==
            IF n = 0 THEN <<>> ELSE appendInterfaceDNS(servers[n - 1], dns[n])
    IN servers[Len(dns)]

\* The declared routes follow those of the gateways; nmstate takes them as a set.
buildNMState(interfaces, routes) ==
    [interfaces |-> [k \in DOMAIN interfaces |-> buildNMInterface(interfaces[k])],
     routes |-> {gatewayRoute(i) : i \in {j \in Range(interfaces) : j.gateway # Unset}}
                \cup {buildNMRoute(r) : r \in Range(routes)},
     server |-> Resolvers(DeclaredDNS(interfaces))]
=============================================================================
