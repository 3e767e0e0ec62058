---------------------------- MODULE MCAdmission ----------------------------
\* Small instances of Admission: a config that is accepted, with one part of it
\* varied through the values its checks tell apart.
EXTENDS Admission

UpTo(n, S) == UNION {[1..m -> S] : m \in 0..n}
Address(form, net, host) == [form |-> form, net |-> net, host |-> host, bits |-> Unset]
Prefix(form, net, bits) == [form |-> form, net |-> net, host |-> 3, bits |-> bits]

Bad == Address("bad", "lan", 0)
Addresses == {Bad, Address("v4", "lan", 1), Address("mapped", "lan", 1), Address("v6", "lan", 1)}
Subnets == {Prefix("bad", "lan", 0), Prefix("v4", "lan", 24), Prefix("mapped", "lan", 64),
            Prefix("mapped", "lan", 120), Prefix("v6", "lan", 64)}
Numbers == {Unset, -1, 0, 1, MaxU32, MaxU32 + 1}

NIC == [name |-> "eth0", type |-> "", ip |-> Unset, subnet |-> Unset, gateway |-> Unset,
        dns |-> <<>>, mtu |-> Unset, txqueuelen |-> Unset, ipv4_method |-> "dhcp",
        ipv6_method |-> "", gen |-> "", vlan |-> Unset, bond |-> Unset]

NICs ==
    {[NIC EXCEPT !.ip = a, !.subnet = s, !.ipv4_method = m4, !.ipv6_method = m6, !.gen = g] :
        a \in Addresses \cup {Unset, Address("v4", "wan", 1)}, s \in Subnets \cup {Unset},
        m4 \in {"", "auto", "dhcp", "disabled", "shared"},
        m6 \in {"", "link-local", "auto", "dhcp", "disabled", "shared"},
        g \in {"", "eui64", "random"}}
    \cup {[NIC EXCEPT !.mtu = m, !.txqueuelen = t, !.gateway = a, !.name = n] :
        m \in Numbers, t \in Numbers, a \in Addresses \cup {Unset}, n \in {"", "eth0"}}
    \cup {[NIC EXCEPT !.type = t, !.vlan = v, !.bond = b] :
        t \in {"", "dummy", "vlan", "bond"},
        v \in {Unset} \cup {[base |-> base, id |-> id] :
                               base \in {"", "eth1"}, id \in {0, 1, 4094, 4095}},
        b \in {Unset, [mode |-> "broadcast", ports |-> <<"eth1">>, miimon |-> Unset,
                       primary |-> ""]}}
    \cup {[NIC EXCEPT !.type = "bond", !.bond = [mode |-> mode, ports |-> ports,
                                                 miimon |-> m, primary |-> primary]] :
        mode \in {"", "active-backup", "balance-rr", "trunk"},
        ports \in UpTo(2, {"", "eth0", "eth1", "eth2"}),
        m \in {Unset, 0, MaxU32 + 1}, primary \in {"", "eth1", "eth3"}}

Resolved == {<<[NIC EXCEPT !.dns = d], [NIC EXCEPT !.name = "eth1", !.dns = e]>> :
                d \in UpTo(2, Addresses), e \in UpTo(2, Addresses \ {Bad})}

Routes == [destination : Subnets \cup {Unset}, next_hop : Addresses \cup {Unset},
           interface : {"", "eth0"}, table_id : {Unset, -1, MaxU32}, metric : {Unset, MaxU32 + 1}]

Route == [destination |-> Prefix("v4", "lan", 24), next_hop |-> Unset,
          interface |-> "eth0", table_id |-> Unset, metric |-> Unset]

Label(length) == [length |-> length, clean |-> TRUE]
Hostnames == {Unset, <<Label(0)>>, <<Label(63), Label(63), Label(63), Label(61)>>,
              <<Label(63), Label(63), Label(63), Label(62)>>, <<Label(64)>>,
              <<Label(5), Label(0)>>, <<Label(0), Label(0)>>, <<[Label(5) EXCEPT !.clean = FALSE]>>}

Modes == {Unset, NaN, 0, 4095, 4096}
Owners == {Unset} \cup [user : {"", "0", "app"}, group : {Unset, "", "0", "web"}]
Folder == [path |-> "/data", mode |-> 448, owner |-> Unset]
Folders == [path : {"", "/data"}, mode : Modes, owner : Owners]
File == [path |-> "/data/conf", mode |-> Unset, owner |-> Unset, encoding |-> "", decodes |-> FALSE]
Files == [path : {"", "/data/conf"}, mode : {Unset, 4096}, owner : Owners,
          encoding : {"", "base64", "rot13"}, decodes : BOOLEAN]

Opening == [low |-> 22, high |-> Unset, protocol |-> "tcp", source |-> Unset]
Openings == [low : {0, 1, 8080, 65535, 65536}, high : {Unset, NaN, 8080, 65535, 65536},
             protocol : {"", "sctp", "icmp"},
             source : Addresses \cup Subnets \cup {Unset}]

Container == [interfaces |-> <<>>, ports |-> <<>>, volumes |-> <<>>, network_mode |-> "",
              cap_add |-> <<>>, cap_drop |-> <<>>]
Ports == [host_ip : {""}, host_port : {0, 80, 65535, 65536}, container_port : {-1, 80, 65536},
          protocol : {"", "udp"}]
Capabilities == {[form |-> "ALL", clean |-> TRUE], [form |-> "CAP", clean |-> TRUE],
                 [form |-> "CAP", clean |-> FALSE], [form |-> "other", clean |-> TRUE]}
ContainersOffered ==
    {[Container EXCEPT !.ports = <<p, q>>] : p \in Ports, q \in Ports}
    \cup {[Container EXCEPT !.interfaces = i] : i \in {<<>>, <<NIC>>}}
    \cup {[Container EXCEPT !.network_mode = m, !.cap_add = a, !.cap_drop = d,
                            !.volumes = <<[host_path |-> "/data", container_path |-> "/srv",
                                           read_only |-> r, selinux |-> l]>>] :
             m \in {"host", "pasta", "ns:x"}, a \in UpTo(1, Capabilities),
             d \in UpTo(1, Capabilities), r \in BOOLEAN, l \in {"", "Z", "s"}}

Base == [podman_mode |-> "rootful", hostname |-> <<Label(5)>>, folders |-> <<Folder>>,
         files |-> <<File>>, interfaces |-> <<NIC>>, routes |-> <<Route>>,
         firewall_ports |-> <<Opening>>, containers |-> <<Container>>]

MCOffers ==
    {[Base EXCEPT !.podman_mode = m] : m \in {"", "rootless"}}
    \cup {[Base EXCEPT !.hostname = h] : h \in Hostnames}
    \cup {[Base EXCEPT !.folders = <<Folder, f>>] : f \in Folders}
    \cup {[Base EXCEPT !.files = <<File, f>>] : f \in Files}
    \cup {[Base EXCEPT !.interfaces = <<i>>] : i \in NICs}
    \cup {[Base EXCEPT !.interfaces = i] : i \in Resolved}
    \cup {[Base EXCEPT !.routes = <<Route, r>>] : r \in Routes}
    \cup {[Base EXCEPT !.firewall_ports = <<Opening, p>>] : p \in Openings}
    \cup {[Base EXCEPT !.containers = <<Container, c>>] : c \in ContainersOffered}
    \cup {[Base EXCEPT !.hostname = Unset, !.interfaces = <<>>, !.routes = <<>>,
                       !.firewall_ports = <<>>, !.containers = <<>>]}

\* Only accounts that the config names come and go.
MCInit == Init /\ accounts \in SUBSET (Names \cap Named(cfg))
MCNext == Next /\ accounts' \subseteq Named(cfg)
MCSpec == MCInit /\ [][MCNext]_vars
=============================================================================
