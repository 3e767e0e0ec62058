-------------------------- MODULE ConfigValidation --------------------------
(***************************************************************************)
(* validateConfig (config.go:187-523), with the parsing of modes, owners   *)
(* and contents it shares with the steps that provide them                 *)
(* (provision.go:172-271), and what those parsers and the port mapping of  *)
(* a container make of a field (firewall.go:179-199, podman.go:249-295).   *)
(*                                                                         *)
(* Texts that are numbers are numbers here, and Unset where they are       *)
(* empty; a text that does not parse as one is NaN, which is in no range.  *)
(* Names of users and groups are looked up in the accounts of the host.    *)
(***************************************************************************)
EXTENDS NetworkDocument

CONSTANTS
    Numeric     \* the owners that are written as numbers

NaN == -1

-----------------------------------------------------------------------------
(* Hostname: Unset, or its labels with their length; a label is clean when *)
(* it has only letters, digits and hyphens, and no hyphen at its ends.  A  *)
(* single empty label is the empty text, which declares no hostname.       *)

HostnameLength(h) ==
    FoldLeft(LAMBDA n, label : n + label.length, Len(h) - 1, h)

HasHostname(h) == h # Unset /\ HostnameLength(h) # 0

validateHostnameLabel(label) == label.length \in 1..63 /\ label.clean

validateHostname(h) ==
    HasHostname(h) => /\ HostnameLength(h) <= 253
                      /\ \A label \in ToSet(h) : validateHostnameLabel(label)

-----------------------------------------------------------------------------
(* Folders and files. *)

parseFileMode(mode) == mode \in 0..4095     \* 07777

parseUser(u, accounts) == u \in Numeric \cup accounts
parseGroup(g, accounts) == g \in Numeric \cup accounts

\* "user" or "user:group", where "user:" is not a user.
parseOwner(o, accounts) ==
    /\ o.user # "" /\ parseUser(o.user, accounts)
    /\ o.group # Unset => o.group # "" /\ parseGroup(o.group, accounts)

decodeFileContent(f) ==
    \/ f.encoding \in {"", "plain"}
    \/ f.encoding = "base64" /\ f.decodes

\* What validateFolders and ensureFolder ask of an entry alike.
EntryAccepted(e, accounts) ==
    /\ e.path # ""
    /\ e.mode # Unset => parseFileMode(e.mode)
    /\ e.owner # Unset => parseOwner(e.owner, accounts)

FileAccepted(f, accounts) == EntryAccepted(f, accounts) /\ decodeFileContent(f)

validateFolders(folders, accounts) ==
    \A k \in DOMAIN folders : EntryAccepted(folders[k], accounts)

validateFiles(files, accounts) ==
    \A k \in DOMAIN files : FileAccepted(files[k], accounts)

-----------------------------------------------------------------------------
(* Firewall entries: a port, or a range with an upper end. *)

MaxPort == 65535
parsePortNumber(port) == port \in 1..MaxPort

validateFirewallPort(p) ==
    /\ parsePortNumber(p.low)
    /\ p.high # Unset => parsePortNumber(p.high) /\ p.low <= p.high

validateFirewallProtocol(p) == p.protocol \in {"", "tcp", "udp", "sctp", "dccp"}

\* A source is Unset, an address (bits = Unset) or a prefix.
validateFirewallSource(p) == p.source # Unset => Parses(p.source)

validateFirewallPortConfigs(ports) ==
    \A k \in DOMAIN ports :
        /\ validateFirewallPort(ports[k])
        /\ validateFirewallProtocol(ports[k])
        /\ validateFirewallSource(ports[k])

\* The family and the normal form of a source: a mapped address is IPv6.
firewallSourceFamily(source) ==
    [family |-> IF Is4(source) THEN "ipv4" ELSE "ipv6",
     address |-> IF source.bits = Unset THEN source ELSE Masked(source)]

-----------------------------------------------------------------------------
(* Containers. *)

validateContainerPort_OneTooMany(port) == port \in 1..(MaxPort + 1)
validateContainerPort(port) == port \in 1..MaxPort

validateNetworkMode(mode) ==
    mode \in {"", "host", "bridge", "none", "private", "slirp4netns", "pasta"}

\* A capability is [form, clean]: "ALL", "CAP_" and more, or neither.
validateCapability(c) ==
    \/ c.form = "ALL"
    \/ c.form = "CAP" /\ c.clean

validateContainer(c) ==
    /\ c.interfaces = <<>>
    /\ \A p \in ToSet(c.ports) :
           validateContainerPort(p.host_port) /\ validateContainerPort(p.container_port)
    /\ \A v \in ToSet(c.volumes) : v.selinux \in {"", "z", "Z"}
    /\ validateNetworkMode(c.network_mode)
    /\ \A capability \in ToSet(c.cap_add) \cup ToSet(c.cap_drop) :
           validateCapability(capability)

uint16(n) == n % (MaxPort + 1)

portMappingFromConfig(p) ==
    [host_ip |-> p.host_ip, host_port |-> uint16(p.host_port),
     container_port |-> uint16(p.container_port),
     protocol |-> IF p.protocol = "" THEN "tcp" ELSE p.protocol]

mountFromVolume(v) ==
    [source |-> v.host_path, destination |-> v.container_path,
     options |-> <<"rbind", IF v.read_only THEN "ro" ELSE "rw">>
                 \o IF v.selinux = "" THEN <<>> ELSE <<v.selinux>>]

createSpec(c) ==
    [port_mappings |-> [k \in DOMAIN c.ports |-> portMappingFromConfig(c.ports[k])],
     mounts |-> [k \in DOMAIN c.volumes |-> mountFromVolume(c.volumes[k])],
     netns |-> c.network_mode, cap_add |-> c.cap_add, cap_drop |-> c.cap_drop]

-----------------------------------------------------------------------------
validateConfig_LocalOnly(cfg, accounts) ==
    /\ cfg.podman_mode \in {"", "rootful"}
    /\ validateHostname(cfg.hostname)
    /\ validateFolders(cfg.folders, accounts)
    /\ validateFiles(cfg.files, accounts)
    /\ validateFirewallPortConfigs(cfg.firewall_ports)
    /\ \A k \in DOMAIN cfg.containers : validateContainer(cfg.containers[k])

validateConfig(cfg, accounts) ==
    /\ cfg.podman_mode \in {"", "rootful"}
    /\ validateHostname(cfg.hostname)
    /\ validateFolders(cfg.folders, accounts)
    /\ validateFiles(cfg.files, accounts)
    /\ NetworkAccepted(cfg.interfaces, cfg.routes)
    /\ validateFirewallPortConfigs(cfg.firewall_ports)
    /\ \A k \in DOMAIN cfg.containers : validateContainer(cfg.containers[k])
=============================================================================
