------------------------------ MODULE Admission ------------------------------
(***************************************************************************)
(* What happens to one config, uploaded (server.go:199-251) or edited by   *)
(* hand and found at startup (orchestration.go:80-153): it is validated,   *)
(* by the handler and again by applyConfig, and then every step that       *)
(* provides a part of it interprets that part once more.  Between the two  *)
(* the accounts of the host, which both look owners up in, may change.     *)
(*                                                                         *)
(* Only the contents of the config make anything fail here; commands, D-Bus*)
(* calls and crashes are in the modules of the steps and in NodeService.   *)
(***************************************************************************)
EXTENDS ConfigValidation, FiniteSets

CONSTANTS
    Offers,         \* the configs
    Names,          \* users and groups that may have an account
    MaxChanges      \* bound: changes to the accounts

\* What a config is once it is read, accepted or not: lists, addresses and
\* prefixes of their kinds, and nothing that could be taken for a field left out.
OfferAssumption ==
    /\ Unset \notin BOOLEAN
    /\ Unset \notin StacksOf(<<>>)
    /\ \A c \in Offers :
        /\ c.folders \in Seq(Range(c.folders)) /\ c.files \in Seq(Range(c.files))
        /\ c.firewall_ports \in Seq(Range(c.firewall_ports))
        /\ c.interfaces \in Seq(Range(c.interfaces))
        /\ \A i \in Range(c.interfaces) :
            /\ i.dns \in Seq(Range(i.dns))
            /\ \A a \in {i.ip, i.gateway} : a # Unset => AddressRead(a)
            /\ i.subnet # Unset => PrefixRead(i.subnet)
            /\ i.ip # Unset /\ i.subnet # Unset => Unset \notin StacksOf(StaticStack(i).address)
        /\ \A r \in Range(c.routes) :
            /\ DOMAIN r = {"destination", "next_hop", "interface", "table_id", "metric"}
            /\ r.destination # Unset => PrefixRead(r.destination)
        /\ \A p \in Range(c.firewall_ports) : p.source # Unset => AddressRead(p.source)
ASSUME OfferAssumption

VARIABLES
    cfg, origin,    \* the config, and "upload" or "file"
    pc,             \* what handles it next
    k,              \* the entry of the folders or files in turn
    saved,          \* the config file holds it
    accounts,
    stale,          \* history: an account it names has gone since it was last validated
    refused,        \* who refused its contents
    changed,        \* the parts of the host it has changed
    document,       \* the network document applied
    rules,          \* the sources firewall ports are opened to
    specs,          \* the containers created
    changes

vars == <<cfg, origin, pc, k, saved, accounts, stale, refused, changed, document,
          rules, specs, changes>>
provided == <<changed, document, rules, specs>>

Init ==
    /\ cfg \in Offers
    /\ origin \in {"upload", "file"}
    /\ pc = IF origin = "upload" THEN "handler" ELSE "apply"
    /\ k = 1
    /\ saved = (origin = "file")
    /\ accounts \in SUBSET Names
    /\ stale = FALSE
    /\ refused = "nobody"
    /\ changed = {}
    /\ document = Unset
    /\ rules = {}
    /\ specs = <<>>
    /\ changes = 0

-----------------------------------------------------------------------------
Goto(step) == pc' = step /\ k' = 1 /\ UNCHANGED refused
Refuse(who) == pc' = "done" /\ refused' = who /\ UNCHANGED k

\* Before the file is touched and applyMu is taken.
HandlerValidates ==
    /\ pc = "handler"
    /\ IF validateConfig(cfg, accounts) THEN Goto("save") ELSE Refuse("handler")
    /\ stale' = FALSE
    /\ UNCHANGED <<cfg, origin, saved, accounts, provided, changes>>

writeConfigFile ==
    /\ pc = "save"
    /\ saved' = TRUE
    /\ Goto("apply")
    /\ UNCHANGED <<cfg, origin, accounts, stale, provided, changes>>

ApplyValidates ==
    /\ pc = "apply"
    /\ IF validateConfig(cfg, accounts)
       THEN Goto("hostname") /\ stale' = FALSE
       ELSE Refuse("apply") /\ UNCHANGED stale
    /\ UNCHANGED <<cfg, origin, saved, accounts, provided, changes>>

Change(part) == changed' = changed \cup {part}
SkipOr(nothing, part) == IF nothing THEN UNCHANGED changed ELSE Change(part)

ensureHostname ==
    /\ pc = "hostname"
    /\ SkipOr(~HasHostname(cfg.hostname), "hostname")
    /\ Goto("folders")
    /\ UNCHANGED <<cfg, origin, saved, accounts, stale, document, rules, specs, changes>>

\* One entry after the other: the ones before a bad one stay provided.
EnsureEntry(step, entries, accepted, next) ==
    /\ pc = step
    /\ IF k > Len(entries) THEN Goto(next) /\ UNCHANGED changed
       ELSE IF entries[k] \in accepted
            THEN Change(step) /\ k' = k + 1 /\ UNCHANGED <<pc, refused>>
            ELSE Refuse(step) /\ UNCHANGED changed
    /\ UNCHANGED <<cfg, origin, saved, accounts, stale, document, rules, specs, changes>>

ensureFolder ==
    EnsureEntry("folders", cfg.folders,
                {e \in Range(cfg.folders) : EntryAccepted(e, accounts)}, "files")
ensureFile ==
    EnsureEntry("files", cfg.files,
                {f \in Range(cfg.files) : FileAccepted(f, accounts)}, "network")

NothingDeclared == cfg.interfaces = <<>> /\ cfg.routes = <<>>

configureHostInterfaces ==
    /\ pc = "network"
    /\ IF NothingDeclared THEN Goto("firewall") /\ UNCHANGED <<document, changed>>
       ELSE IF NetworkAccepted(cfg.interfaces, cfg.routes)
            THEN /\ document' = buildNMState(cfg.interfaces, cfg.routes)
                 /\ Change("network")
                 /\ Goto("firewall")
            ELSE Refuse("network") /\ UNCHANGED <<document, changed>>
    /\ UNCHANGED <<cfg, origin, saved, accounts, stale, rules, specs, changes>>

\* Each entry is opened in turn; only one with a source can be refused.
openDeclaredFirewallPort ==
    /\ pc = "firewall"
    /\ k <= Len(cfg.firewall_ports)
    /\ LET source == cfg.firewall_ports[k].source IN
       IF source = Unset \/ Parses(source)
       THEN /\ rules' = rules \cup IF source = Unset THEN {} ELSE {firewallSourceFamily(source)}
            /\ Change("firewall")
            /\ k' = k + 1
            /\ UNCHANGED <<pc, refused>>
       ELSE Refuse("firewall") /\ UNCHANGED <<rules, changed>>
    /\ UNCHANGED <<cfg, origin, saved, accounts, stale, document, specs, changes>>

\* declaredFirewallPorts makes the rules once more, to prune all others.
declaredFirewallPorts ==
    /\ pc = "firewall"
    /\ k > Len(cfg.firewall_ports)
    /\ Goto("containers")
    /\ UNCHANGED <<cfg, origin, saved, accounts, stale, provided, changes>>

reconcileContainers ==
    /\ pc = "containers"
    /\ specs' = [c \in DOMAIN cfg.containers |-> createSpec(cfg.containers[c])]
    /\ SkipOr(cfg.containers = <<>>, "containers")
    /\ Goto("done")
    /\ UNCHANGED <<cfg, origin, saved, accounts, stale, document, rules, changes>>

\* useradd, userdel; any time.
Named(c) ==
    LET owners == {e.owner : e \in Range(c.folders) \cup Range(c.files)} \ {Unset}
    IN {o.user : o \in owners} \cup {o.group : o \in owners}
AccountsChange(n) ==
    /\ pc # "done"
    /\ changes < MaxChanges
    /\ changes' = changes + 1
    /\ accounts' = IF n \in accounts THEN accounts \ {n} ELSE accounts \cup {n}
    /\ stale' = (stale \/ n \in accounts \cap Named(cfg))
    /\ UNCHANGED <<cfg, origin, pc, k, saved, refused, provided>>

Next ==
    \/ HandlerValidates \/ writeConfigFile \/ ApplyValidates
    \/ ensureHostname \/ ensureFolder \/ ensureFile
    \/ configureHostInterfaces
    \/ openDeclaredFirewallPort \/ declaredFirewallPorts
    \/ reconcileContainers
    \/ \E n \in Names : AccountsChange(n)

Spec == Init /\ [][Next]_vars

-----------------------------------------------------------------------------
\* Validation is complete: a config refused by validation has changed nothing,
\* on disk or on the host, and one that passed is refused by a step only when
\* an account it names has gone in the meantime, so that no config can, by its
\* contents alone, be applied in part (server.go:218, network.go:273,
\* config.go:330).
RefusalsComeFirst ==
    /\ refused \in {"handler", "apply"} => changed = {}
    /\ refused = "handler" => ~saved
    /\ refused = "apply" /\ origin = "upload" => stale
    /\ refused \notin {"nobody", "handler", "apply"} =>
           stale /\ refused \in {"folders", "files"}

\* What NetworkManager makes of a stack of the document.
Method(stack) ==
    CASE stack = Unset -> ""
      [] stack # Unset /\ ~stack.enabled -> "disabled"
      [] stack # Unset /\ stack.enabled ->
            CASE stack.address # <<>> -> "manual"
              [] stack.address = <<>> /\ stack.dhcp ->
                    IF stack.autoconf = TRUE THEN "auto" ELSE "dhcp"
              [] OTHER -> IF stack.autoconf = FALSE THEN "link-local" ELSE "none"

\* Each interface of the document says what the config declares: the method of
\* either family survives the translation, a static address being the manual
\* one, an addr-gen-mode only where IPv6 is on, and the settings of a VLAN or a
\* bond exactly where the type asks for them (network.go:379-500).
InterfaceMeans(i, d) ==
    LET manual4 == i.ip # Unset /\ AsText(i.ip).form = "v4"
        manual6 == i.ip # Unset /\ AsText(i.ip).form = "v6"
    IN /\ Method(d.ipv4) = IF manual4 THEN "manual"
                           ELSE IF i.ipv4_method = "auto" THEN "dhcp" ELSE i.ipv4_method
       /\ Method(d.ipv6) = IF manual6 THEN "manual" ELSE i.ipv6_method
       /\ i.gen # "" => d.ipv6.enabled /\ d.ipv6.gen = i.gen
       /\ (d.type = "vlan") = (d.vlan # Unset)
       /\ (d.type = "bond") = (d.bond # Unset)

DocumentKeepsTheMethods ==
    document # Unset =>
        \A n \in DOMAIN cfg.interfaces :
            InterfaceMeans(cfg.interfaces[n], document.interfaces[n])

FirstPlace(declared, s) ==
    CHOOSE n \in DOMAIN declared : declared[n] = s /\ \A m \in 1..(n - 1) : declared[m] # s
FirstSeen(server, declared) ==
    /\ ToSet(server) = ToSet(declared)
    /\ \A m, n \in DOMAIN server :
           m < n => FirstPlace(declared, server[m]) < FirstPlace(declared, server[n])

\* And its resolver list is the declared one without repetitions, however an
\* address is written, in the order in which the interfaces first name them
\* (network.go:229-233, 746-763).
DocumentMeansConfig ==
    /\ DocumentKeepsTheMethods
    /\ document # Unset =>
           LET dns == DeclaredDNS(cfg.interfaces)
           IN FirstSeen(document.server, [n \in DOMAIN dns |-> AsText(dns[n])])

\* Every address is used in the family it is written in: addresses in the stack
\* with a prefix that fits, next hops on a destination of theirs, sources in
\* rules.  The prefix of an IPv4 address in a mapped subnet is the exception: it
\* is counted in 128 bits (network.go:382-402, 649-669, 715; firewall.go:179-199).
Family(form) == IF form = "v4" THEN "ipv4" ELSE "ipv6"
Width(form) == IF form = "v4" THEN 32 ELSE 128

AddressesKeepFamily ==
    /\ document # Unset =>
        /\ \A n \in DOMAIN cfg.interfaces :
               LET i == cfg.interfaces[n]
                   d == document.interfaces[n]
                   Fits(stack, form) ==
                       stack # Unset =>
                           \A a \in ToSet(stack.address) :
                               /\ a.ip.form = form
                               /\ form = "v6" \/ i.subnet.form # "mapped" =>
                                      a.prefix_length \in 0..Width(form)
               IN Fits(d.ipv4, "v4") /\ Fits(d.ipv6, "v6")
        /\ \A r \in document.routes :
               /\ r.next_hop # Unset => Family(r.next_hop.form) = Family(r.destination.form)
               /\ r.destination.host = 0
    /\ \A rule \in rules : rule.family = Family(rule.address.form)

\* A container is reached at the ports its config declares, and never at the
\* port 0 that Podman takes for a random one: the conversion to 16 bits is only
\* safe behind the validation (podman.go:254-257).
MappedPortsAreDeclared ==
    \A c \in DOMAIN specs :
        \A n \in DOMAIN specs[c].port_mappings :
            LET mapped == specs[c].port_mappings[n]
                declared == cfg.containers[c].ports[n]
            IN /\ mapped.host_port = declared.host_port /\ mapped.host_port # 0
               /\ mapped.container_port = declared.container_port
=============================================================================
