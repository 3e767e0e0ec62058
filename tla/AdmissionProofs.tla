--------------------------- MODULE AdmissionProofs ---------------------------
(***************************************************************************)
(* Proofs about Admission: for every set of configs, every account that    *)
(* comes or goes and any number of entries, a config is refused before it  *)
(* changes anything or because of an account that went, and what is made   *)
(* of its addresses, methods and ports is what it declares.                *)
(***************************************************************************)
EXTENDS Admission, WellFoundedInduction, TLAPS

Validating == {"handler", "save", "apply"}
Providing == {"hostname", "folders", "files", "network", "firewall", "containers"}

\* The part of validateConfig that no account can change.
AcceptedForever ==
    /\ NetworkAccepted(cfg.interfaces, cfg.routes)
    /\ validateFirewallPortConfigs(cfg.firewall_ports)
    /\ \A c \in DOMAIN cfg.containers : validateContainer(cfg.containers[c])

Position ==
    /\ cfg \in Offers
    /\ origin \in {"upload", "file"}
    /\ k \in Nat \ {0}
    /\ pc \in Validating \cup Providing \cup {"done"}
    /\ pc = "handler" => ~saved
    /\ pc \in {"handler", "save"} => origin = "upload"
    /\ pc # "done" => refused = "nobody"
    /\ pc \in Validating => changed = {}

\* What the last validation found still holds, but for accounts that changed.
Promise ==
    /\ pc \in {"save"} \cup Providing \/ (pc = "apply" /\ origin = "upload") =>
           stale \/ validateConfig(cfg, accounts)
    /\ pc \in Providing => AcceptedForever

\* What the host was given was accepted, and made by the functions of its step.
MadeOfTheConfig ==
    /\ document # Unset =>
           /\ NetworkAccepted(cfg.interfaces, cfg.routes)
           /\ document = buildNMState(cfg.interfaces, cfg.routes)
    /\ specs # <<>> =>
           /\ \A c \in DOMAIN cfg.containers : validateContainer(cfg.containers[c])
           /\ specs = [c \in DOMAIN cfg.containers |-> createSpec(cfg.containers[c])]
    /\ \A rule \in rules : \E p \in Range(cfg.firewall_ports) :
           p.source # Unset /\ rule = firewallSourceFamily(p.source)

IInv == Position /\ Promise /\ MadeOfTheConfig /\ RefusalsComeFirst

-----------------------------------------------------------------------------
\* What validation accepts, every step accepts.
LEMMA ValidationIsComplete ==
    ASSUME validateConfig(cfg, accounts)
    PROVE  /\ AcceptedForever
           /\ validateFolders(cfg.folders, accounts)
           /\ validateFiles(cfg.files, accounts)
BY DEF validateConfig, AcceptedForever

LEMMA Start == Init => IInv
<1> SUFFICES ASSUME Init PROVE IInv
  OBVIOUS
<1> USE DEF Init
<1>1. Position
  <2>1. pc = "handler" => ~saved
    BY Zenon
  <2>2. pc \in {"handler", "save"} => origin = "upload"
    BY Zenon
  <2>3. cfg \in Offers /\ k \in Nat \ {0} /\ refused = "nobody" /\ changed = {}
    OBVIOUS
  <2>4. origin \in {"upload", "file"} /\ pc \in {"handler", "apply"}
    BY Zenon
  <2> QED
    BY <2>1, <2>2, <2>3, <2>4 DEF Position, Validating
<1>2. Promise
  BY DEF Promise, Providing
<1>3. MadeOfTheConfig
  BY DEF MadeOfTheConfig
<1>4. RefusalsComeFirst
  BY DEF RefusalsComeFirst
<1> QED
  BY <1>1, <1>2, <1>3, <1>4 DEF IInv

LEMMA HandlerValidatesKeeps == IInv /\ HandlerValidates => IInv'
<1> SUFFICES ASSUME IInv, HandlerValidates PROVE IInv'
  OBVIOUS
<1> USE DEF IInv, HandlerValidates, Goto, Refuse, provided
<1>1. Position'
  BY DEF Position, Validating, Providing
<1>2. Promise'
  BY ValidationIsComplete DEF Position, Promise, Providing
<1>3. MadeOfTheConfig'
  BY DEF MadeOfTheConfig
<1>4. RefusalsComeFirst'
  BY DEF RefusalsComeFirst, Position, Validating
<1> QED
  BY <1>1, <1>2, <1>3, <1>4

LEMMA writeConfigFileKeeps == IInv /\ writeConfigFile => IInv'
<1> SUFFICES ASSUME IInv, writeConfigFile PROVE IInv'
  OBVIOUS
<1> USE DEF IInv, writeConfigFile, Goto, provided
<1>1. Position'
  BY DEF Position, Validating, Providing
<1>2. Promise'
  BY DEF Position, Promise, Providing
<1>3. MadeOfTheConfig'
  BY DEF MadeOfTheConfig
<1>4. RefusalsComeFirst'
  BY DEF RefusalsComeFirst, Position
<1> QED
  BY <1>1, <1>2, <1>3, <1>4

LEMMA ApplyValidatesKeeps == IInv /\ ApplyValidates => IInv'
<1> SUFFICES ASSUME IInv, ApplyValidates PROVE IInv'
  OBVIOUS
<1> USE DEF IInv, ApplyValidates, Goto, Refuse, provided
<1>1. Position'
  BY DEF Position, Validating, Providing
<1>2. Promise'
  BY ValidationIsComplete DEF Position, Promise, Providing, AcceptedForever
<1>3. MadeOfTheConfig'
  BY DEF MadeOfTheConfig
<1>4. RefusalsComeFirst'
  BY DEF RefusalsComeFirst, Position, Promise, Validating
<1> QED
  BY <1>1, <1>2, <1>3, <1>4

LEMMA ensureHostnameKeeps == IInv /\ ensureHostname => IInv'
<1> SUFFICES ASSUME IInv, ensureHostname PROVE IInv'
  OBVIOUS
<1> USE DEF IInv, ensureHostname, Goto
<1>1. Position'
  BY DEF Position, Validating, Providing
<1>2. Promise'
  BY DEF Promise, Providing, AcceptedForever
<1>3. MadeOfTheConfig'
  BY DEF MadeOfTheConfig
<1>4. RefusalsComeFirst'
  BY DEF RefusalsComeFirst, Position, Validating, Providing
<1> QED
  BY <1>1, <1>2, <1>3, <1>4

\* An entry that validation accepted is refused only if the accounts changed.
LEMMA EnsureEntryKeeps ==
    ASSUME NEW STATE entries, NEW STATE accepted, NEW step, NEW next,
           step \in {"folders", "files"}, next \in {"files", "network"},
           IInv, EnsureEntry(step, entries, accepted, next),
           entries \in Seq(Range(entries)),
           validateConfig(cfg, accounts) => Range(entries) \subseteq accepted
    PROVE  IInv'
<1> USE DEF IInv, EnsureEntry, Goto, Refuse, Change
<1>1. pc = step /\ pc \in Providing /\ pc # "done" /\ pc \notin Validating
  BY DEF Providing, Validating
<1>2. Position'
  <2>1. k' \in Nat \ {0}
    BY DEF Position
  <2>2. pc' \in Providing \cup {"done"} /\ (pc' # "done" => refused' = refused)
    BY DEF Providing
  <2> QED
    BY <1>1, <2>1, <2>2 DEF Position, Validating, Providing
<1>3. Promise'
  <2>1. pc' \in Providing \/ pc' = "done"
    BY <1>1 DEF Providing
  <2> QED
    BY <1>1, <2>1 DEF Promise, Providing, AcceptedForever
<1>4. MadeOfTheConfig'
  BY DEF MadeOfTheConfig
<1>5. RefusalsComeFirst'
  <2>1. CASE refused' = refused
    BY <2>1, <1>1 DEF RefusalsComeFirst, Position
  <2>2. CASE refused' # refused
    <3>1. k <= Len(entries) /\ entries[k] \notin accepted /\ refused' = step
      BY <2>2 DEF Position
    <3>2. entries[k] \in Range(entries)
      BY <3>1 DEF Position
    <3>3. stale
      BY <3>1, <3>2, <1>1 DEF Promise
    <3> QED
      BY <3>1, <3>3 DEF RefusalsComeFirst
  <2> QED
    BY <2>1, <2>2
<1> QED
  BY <1>2, <1>3, <1>4, <1>5

LEMMA ensureFolderKeeps == IInv /\ ensureFolder => IInv'
<1> SUFFICES ASSUME IInv, ensureFolder PROVE IInv'
  OBVIOUS
<1> DEFINE accepted == {e \in Range(cfg.folders) : EntryAccepted(e, accounts)}
<1>1. EnsureEntry("folders", cfg.folders, accepted, "files")
  BY DEF ensureFolder
<1>2. cfg.folders \in Seq(Range(cfg.folders))
  BY OfferAssumption DEF OfferAssumption, IInv, Position
<1>3. validateConfig(cfg, accounts) => Range(cfg.folders) \subseteq accepted
  BY ValidationIsComplete DEF validateFolders, Range
<1> HIDE DEF accepted
<1> QED
  BY <1>1, <1>2, <1>3, EnsureEntryKeeps

LEMMA ensureFileKeeps == IInv /\ ensureFile => IInv'
<1> SUFFICES ASSUME IInv, ensureFile PROVE IInv'
  OBVIOUS
<1> DEFINE accepted == {f \in Range(cfg.files) : FileAccepted(f, accounts)}
<1>1. EnsureEntry("files", cfg.files, accepted, "network")
  BY DEF ensureFile
<1>2. cfg.files \in Seq(Range(cfg.files))
  BY OfferAssumption DEF OfferAssumption, IInv, Position
<1>3. validateConfig(cfg, accounts) => Range(cfg.files) \subseteq accepted
  BY ValidationIsComplete DEF validateFiles, Range
<1> HIDE DEF accepted
<1> QED
  BY <1>1, <1>2, <1>3, EnsureEntryKeeps

LEMMA configureHostInterfacesKeeps == IInv /\ configureHostInterfaces => IInv'
<1> SUFFICES ASSUME IInv, configureHostInterfaces PROVE IInv'
  OBVIOUS
<1> USE DEF IInv, configureHostInterfaces, Goto, Refuse, Change
<1>1. NetworkAccepted(cfg.interfaces, cfg.routes)
  BY DEF Promise, Providing, AcceptedForever
<1>2. pc' = "firewall" /\ refused' = refused
  BY <1>1
<1>3. Position'
  BY <1>2 DEF Position, Validating, Providing
<1>4. Promise'
  BY <1>2 DEF Promise, Providing, AcceptedForever
<1>5. MadeOfTheConfig'
  <2>1. document' = document \/ document' = buildNMState(cfg.interfaces, cfg.routes)
    BY DEF Position
  <2> QED
    BY <2>1, <1>1 DEF MadeOfTheConfig
<1>6. RefusalsComeFirst'
  BY <1>2 DEF RefusalsComeFirst, Position
<1> QED
  BY <1>3, <1>4, <1>5, <1>6

LEMMA openDeclaredFirewallPortKeeps == IInv /\ openDeclaredFirewallPort => IInv'
<1> SUFFICES ASSUME IInv, openDeclaredFirewallPort PROVE IInv'
  OBVIOUS
<1> DEFINE source == cfg.firewall_ports[k].source
<1> USE DEF IInv, openDeclaredFirewallPort, Refuse, Change
<1>1. k \in DOMAIN cfg.firewall_ports /\ cfg.firewall_ports[k] \in Range(cfg.firewall_ports)
  <2>1. cfg.firewall_ports \in Seq(Range(cfg.firewall_ports))
    BY OfferAssumption DEF OfferAssumption, Position
  <2> QED
    BY <2>1 DEF Position, Range
<1>2. source = Unset \/ Parses(source)
  BY <1>1 DEF Promise, Providing, AcceptedForever, validateFirewallPortConfigs,
              validateFirewallSource
<1>3. /\ rules' = rules \cup IF source = Unset THEN {} ELSE {firewallSourceFamily(source)}
      /\ k' = k + 1 /\ pc' = pc /\ refused' = refused
  BY <1>2
<1>4. Position'
  BY <1>3 DEF Position, Validating, Providing
<1>5. Promise'
  BY <1>3 DEF Promise, Providing, AcceptedForever
<1>6. MadeOfTheConfig'
  <2>1. \A rule \in rules' : \E p \in Range(cfg.firewall_ports) :
            p.source # Unset /\ rule = firewallSourceFamily(p.source)
    BY <1>1, <1>3 DEF MadeOfTheConfig
  <2> QED
    BY <2>1 DEF MadeOfTheConfig
<1>7. RefusalsComeFirst'
  BY <1>3 DEF RefusalsComeFirst, Position
<1> QED
  BY <1>4, <1>5, <1>6, <1>7

LEMMA declaredFirewallPortsKeeps == IInv /\ declaredFirewallPorts => IInv'
<1> SUFFICES ASSUME IInv, declaredFirewallPorts PROVE IInv'
  OBVIOUS
<1> USE DEF IInv, declaredFirewallPorts, Goto, provided
<1>1. Position'
  BY DEF Position, Validating, Providing
<1>2. Promise'
  BY DEF Promise, Providing, AcceptedForever
<1>3. MadeOfTheConfig'
  BY DEF MadeOfTheConfig
<1>4. RefusalsComeFirst'
  BY DEF RefusalsComeFirst, Position
<1> QED
  BY <1>1, <1>2, <1>3, <1>4

LEMMA reconcileContainersKeeps == IInv /\ reconcileContainers => IInv'
<1> SUFFICES ASSUME IInv, reconcileContainers PROVE IInv'
  OBVIOUS
<1> USE DEF IInv, reconcileContainers, Goto
<1>1. Position'
  BY DEF Position, Validating, Providing
<1>2. Promise'
  BY DEF Promise, Providing
<1>3. MadeOfTheConfig'
  <2>1. \A c \in DOMAIN cfg.containers : validateContainer(cfg.containers[c])
    BY DEF Promise, Providing, AcceptedForever
  <2> QED
    BY <2>1 DEF MadeOfTheConfig
<1>4. RefusalsComeFirst'
  BY DEF RefusalsComeFirst, Position
<1> QED
  BY <1>1, <1>2, <1>3, <1>4

\* An entry is accepted as long as the accounts it names are there.
LEMMA AcceptedWhileNamedStay ==
    ASSUME NEW e \in Range(cfg.folders) \cup Range(cfg.files), EntryAccepted(e, accounts),
           accounts \cap Named(cfg) \subseteq accounts'
    PROVE  EntryAccepted(e, accounts')
<1>1. ASSUME e.owner # Unset PROVE {e.owner.user, e.owner.group} \subseteq Named(cfg)
  BY <1>1 DEF Named
<1>2. e.owner # Unset => parseOwner(e.owner, accounts')
  BY <1>1 DEF EntryAccepted, parseOwner, parseUser, parseGroup
<1> QED
  BY <1>2 DEF EntryAccepted

LEMMA AccountsChangeKeeps == \A n \in Names : IInv /\ AccountsChange(n) => IInv'
<1> SUFFICES ASSUME NEW n \in Names, IInv, AccountsChange(n) PROVE IInv'
  OBVIOUS
<1> USE DEF IInv, AccountsChange, provided
<1>1. Position'
  BY DEF Position
<1>2. Promise'
  <2>1. stale' \/ (~stale /\ accounts \cap Named(cfg) \subseteq accounts')
    BY Zenon
  <2>2. ASSUME accounts \cap Named(cfg) \subseteq accounts', validateConfig(cfg, accounts)
        PROVE  validateConfig(cfg, accounts')
    <3>1. \A j \in DOMAIN cfg.folders : cfg.folders[j] \in Range(cfg.folders)
      BY DEF Range
    <3>2. \A j \in DOMAIN cfg.files : cfg.files[j] \in Range(cfg.files)
      BY DEF Range
    <3>3. validateFolders(cfg.folders, accounts')
      BY <2>2, <3>1, AcceptedWhileNamedStay DEF validateConfig, validateFolders
    <3>4. validateFiles(cfg.files, accounts')
      BY <2>2, <3>2, AcceptedWhileNamedStay DEF validateConfig, validateFiles, FileAccepted
    <3> QED
      BY <2>2, <3>3, <3>4 DEF validateConfig
  <2> QED
    BY <2>1, <2>2 DEF Promise, AcceptedForever
<1>3. MadeOfTheConfig'
  BY DEF MadeOfTheConfig
<1>4. RefusalsComeFirst'
  BY DEF RefusalsComeFirst, Position
<1> QED
  BY <1>1, <1>2, <1>3, <1>4

\* The admission of a config keeps the invariant, whatever configs are offered
\* and whenever accounts come and go (server.go:199-251, orchestration.go:80-153).
THEOREM AdmissionInvariance == Spec => []IInv
<1>1. Init => IInv
  BY Start
<1>2. IInv /\ [Next]_vars => IInv'
  <2> SUFFICES ASSUME IInv, [Next]_vars PROVE IInv'
    OBVIOUS
  <2>1. CASE UNCHANGED vars
    BY <2>1 DEF vars, IInv, Position, Promise, MadeOfTheConfig, RefusalsComeFirst,
               AcceptedForever
  <2>2. CASE Next
    BY <2>2, HandlerValidatesKeeps, writeConfigFileKeeps, ApplyValidatesKeeps,
       ensureHostnameKeeps, ensureFolderKeeps, ensureFileKeeps,
       configureHostInterfacesKeeps, openDeclaredFirewallPortKeeps,
       declaredFirewallPortsKeeps, reconcileContainersKeeps, AccountsChangeKeeps
       DEF Next
  <2> QED
    BY <2>1, <2>2
<1> QED
  BY <1>1, <1>2, PTL DEF Spec

\* Validation is complete: a config refused by validation has changed nothing,
\* and one that passed is refused by a step only after an account it names went
\* (server.go:218, network.go:273, config.go:330).
THEOREM RefusalsComeFirstAlways == Spec => []RefusalsComeFirst
<1>1. IInv => RefusalsComeFirst
  BY DEF IInv
<1> QED
  BY <1>1, AdmissionInvariance, PTL

-----------------------------------------------------------------------------
\* Behind the validation, the conversion to 16 bits is the identity.
LEMMA PortsFit ==
    ASSUME NEW n, validateContainerPort(n)
    PROVE  uint16(n) = n /\ n # 0
<1>1. MaxPort \in Nat
  BY DEF MaxPort
<1>2. \A max \in Nat : \A m \in 1..max : m % (max + 1) = m /\ m # 0
  OBVIOUS
<1> QED
  BY <1>1, <1>2 DEF uint16, validateContainerPort

LEMMA MappingIs ==
    ASSUME NEW p
    PROVE  /\ portMappingFromConfig(p).host_port = uint16(p.host_port)
           /\ portMappingFromConfig(p).container_port = uint16(p.container_port)
BY DEF portMappingFromConfig

LEMMA SpecKeepsThePorts ==
    ASSUME NEW container, validateContainer(container),
           NEW n \in DOMAIN createSpec(container).port_mappings
    PROVE  LET mapped == createSpec(container).port_mappings[n]
               port == container.ports[n]
           IN /\ mapped.host_port = port.host_port /\ mapped.host_port # 0
              /\ mapped.container_port = port.container_port
<1> DEFINE mapped == createSpec(container).port_mappings[n]
           port == container.ports[n]
<1>1. n \in DOMAIN container.ports /\ mapped = portMappingFromConfig(port)
  BY DEF createSpec
<1>2. port \in ToSet(container.ports)
  BY <1>1 DEF ToSet
<1>3. \A p \in ToSet(container.ports) :
          validateContainerPort(p.host_port) /\ validateContainerPort(p.container_port)
  BY DEF validateContainer
<1>4. validateContainerPort(port.host_port) /\ validateContainerPort(port.container_port)
  BY <1>2, <1>3
<1>5. /\ uint16(port.host_port) = port.host_port /\ port.host_port # 0
      /\ uint16(port.container_port) = port.container_port
  BY <1>4, PortsFit
<1> QED
  BY <1>1, <1>5, MappingIs

\* A container is reached at the ports its config declares, and never at the
\* port 0 that Podman takes for a random one (podman.go:254-257).
THEOREM MappedPortsAreDeclaredAlways == Spec => []MappedPortsAreDeclared
<1>1. IInv => MappedPortsAreDeclared
  <2> SUFFICES ASSUME IInv,
                      NEW c \in DOMAIN specs,
                      NEW n \in DOMAIN specs[c].port_mappings
               PROVE  /\ specs[c].port_mappings[n].host_port
                             = cfg.containers[c].ports[n].host_port
                      /\ specs[c].port_mappings[n].host_port # 0
                      /\ specs[c].port_mappings[n].container_port
                             = cfg.containers[c].ports[n].container_port
    BY DEF MappedPortsAreDeclared
  <2>1. specs # <<>>
    OBVIOUS
  <2>2. /\ c \in DOMAIN cfg.containers
        /\ validateContainer(cfg.containers[c])
        /\ specs[c] = createSpec(cfg.containers[c])
    BY <2>1 DEF IInv, MadeOfTheConfig
  <2> QED
    BY <2>2, SpecKeepsThePorts
<1> QED
  BY <1>1, AdmissionInvariance, PTL

-----------------------------------------------------------------------------
\* A text keeps its number and becomes of one of the two families.
LEMMA TextOfAddress ==
    ASSUME NEW a, AddressRead(a), Parses(a)
    PROVE  AsText(a).form = IF To4(a) THEN "v4" ELSE "v6"
BY DEF AddressRead, Parses, AsText, To4

LEMMA MaskedKeepsItsForm ==
    ASSUME NEW p, AddressRead(p)
    PROVE  Masked(p).form = p.form /\ Masked(p).host = 0
BY DEF AddressRead, Masked

\* What a config that is offered consists of.
StaticAddress(i) == <<[ip |-> AsText(i.ip), prefix_length |-> i.subnet.bits]>>

InterfaceRead(i) ==
    /\ i.ip # Unset => AddressRead(i.ip)
    /\ i.gateway # Unset => AddressRead(i.gateway)
    /\ i.subnet # Unset => PrefixRead(i.subnet)
    /\ i.ip # Unset /\ i.subnet # Unset => Unset \notin StacksOf(StaticAddress(i))

LEMMA OfferedInterface ==
    ASSUME NEW c \in Offers, NEW n \in DOMAIN c.interfaces
    PROVE  c.interfaces[n] \in Range(c.interfaces) /\ InterfaceRead(c.interfaces[n])
<1>1. c.interfaces[n] \in Range(c.interfaces)
  BY DEF Range
<1>2. \A i : StaticStack(i).address = StaticAddress(i)
  BY DEF StaticStack, NMStack, StaticAddress
<1> QED
  BY <1>1, <1>2, OfferAssumption DEF OfferAssumption, InterfaceRead

LEMMA OfferedRoute ==
    ASSUME NEW c \in Offers, NEW r \in Range(c.routes)
    PROVE  /\ DOMAIN r = {"destination", "next_hop", "interface", "table_id", "metric"}
           /\ r.destination # Unset => PrefixRead(r.destination)
BY OfferAssumption DEF OfferAssumption

LEMMA OfferedSource ==
    ASSUME NEW c \in Offers, NEW p \in Range(c.firewall_ports), p.source # Unset
    PROVE  AddressRead(p.source)
BY OfferAssumption DEF OfferAssumption

\* A stack with its fields, which no field that is left out is taken for.
IsStack(s, enabled, dhcp, autoconf, address) ==
    /\ s # Unset
    /\ s.enabled = enabled /\ s.dhcp = dhcp /\ s.autoconf = autoconf /\ s.address = address

LEMMA StackIsStack ==
    ASSUME NEW l, Unset \notin StacksOf(l),
           NEW e \in BOOLEAN, NEW d \in BOOLEAN, NEW a \in BOOLEAN \cup {Unset}
    PROVE  IsStack(NMStack(e, d, a, l), e, d, a, l)
<1>1. NMStack(e, d, a, l) \in StacksOf(l)
  BY Zenon DEF StacksOf, NMStack
<1>2. NMStack(e, d, a, l) # Unset
  BY <1>1
<1> QED
  BY <1>2, Zenon DEF NMStack, IsStack

LEMMA WithGenIs ==
    ASSUME NEW e, NEW d, NEW a, NEW l, NEW g
    PROVE  WithGen(NMStack(e, d, a, l), g)
               = [enabled |-> e, dhcp |-> d, autoconf |-> a, gen |-> g, address |-> l]
<1>1. PICK h : h = ""
  OBVIOUS
<1>2. NMStack(e, d, a, l)
          = [enabled |-> e, dhcp |-> d, autoconf |-> a, gen |-> h, address |-> l]
  BY <1>1 DEF NMStack
<1>3. [[enabled |-> e, dhcp |-> d, autoconf |-> a, gen |-> h, address |-> l] EXCEPT !.gen = g]
          = [enabled |-> e, dhcp |-> d, autoconf |-> a, gen |-> g, address |-> l]
  OBVIOUS
<1> QED
  BY <1>2, <1>3, Zenon DEF WithGen

LEMMA WithGenIsStack ==
    ASSUME NEW l, Unset \notin StacksOf(l), NEW g \in {"eui64", "stable-privacy"},
           NEW e \in BOOLEAN, NEW d \in BOOLEAN, NEW a \in BOOLEAN \cup {Unset}
    PROVE  /\ IsStack(WithGen(NMStack(e, d, a, l), g), e, d, a, l)
           /\ WithGen(NMStack(e, d, a, l), g).gen = g
<1> DEFINE s == WithGen(NMStack(e, d, a, l), g)
<1>1. s = [enabled |-> e, dhcp |-> d, autoconf |-> a, gen |-> g, address |-> l]
  BY WithGenIs
<1> HIDE DEF s
<1>2. s \in StacksOf(l)
  BY <1>1, Zenon DEF StacksOf
<1>3. s # Unset
  BY <1>2
<1>4. /\ s.enabled = e /\ s.dhcp = d /\ s.autoconf = a /\ s.gen = g /\ s.address = l
  BY <1>1, Zenon
<1> QED
  BY <1>3, <1>4 DEF s, IsStack

LEMMA MethodOfStack ==
    ASSUME NEW s, NEW e, NEW d, NEW a, NEW l, IsStack(s, e, d, a, l)
    PROVE  /\ e = FALSE => Method(s) = "disabled"
           /\ e = TRUE /\ l # <<>> => Method(s) = "manual"
           /\ e = TRUE /\ l = <<>> /\ d = TRUE /\ a # TRUE => Method(s) = "dhcp"
           /\ e = TRUE /\ l = <<>> /\ d = TRUE /\ a = TRUE => Method(s) = "auto"
           /\ e = TRUE /\ l = <<>> /\ d = FALSE /\ a = FALSE => Method(s) = "link-local"
BY Zenon DEF Method, IsStack

\* What each accepted combination of an address and a method becomes.
LEMMA StaticStackIsStack ==
    ASSUME NEW i, InterfaceRead(i), InterfaceAccepted(i), i.ip # Unset
    PROVE  IsStack(StaticStack(i), TRUE, FALSE, Unset, StaticAddress(i))
<1>1. Unset \notin StacksOf(StaticAddress(i))
  BY DEF InterfaceRead, InterfaceAccepted
<1> QED
  BY <1>1, StackIsStack DEF StaticStack, StaticAddress

LEMMA MethodStacks ==
    /\ IsStack(Disabled, FALSE, FALSE, Unset, <<>>)
    /\ \A d \in BOOLEAN, a \in BOOLEAN \cup {Unset} : IsStack(Stack(d, a), TRUE, d, a, <<>>)
<1>1. Unset \notin StacksOf(<<>>)
  BY OfferAssumption DEF OfferAssumption
<1> QED
  BY <1>1, StackIsStack DEF Disabled, Stack

LEMMA IPv4Settings ==
    ASSUME NEW i, InterfaceRead(i), InterfaceAccepted(i)
    PROVE  LET s == applyIPv4Settings(i) IN
           \/ /\ HasStatic4(i) /\ i.ipv4_method = ""
              /\ IsStack(s, TRUE, FALSE, Unset, StaticAddress(i))
           \/ /\ ~HasStatic4(i) /\ i.ipv4_method = "disabled"
              /\ IsStack(s, FALSE, FALSE, Unset, <<>>)
           \/ /\ ~HasStatic4(i) /\ i.ipv4_method \in {"dhcp", "auto"}
              /\ IsStack(s, TRUE, TRUE, Unset, <<>>)
           \/ ~HasStatic4(i) /\ i.ipv4_method = "" /\ s = Unset
<1>1. i.ipv4_method # "" => ~HasStatic4(i) /\ i.ipv4_method \in {"dhcp", "auto", "disabled"}
  BY DEF InterfaceAccepted, MethodsAgree, ipv4MethodStack
<1>2. CASE HasStatic4(i)
  <2>1. applyIPv4Settings(i) = StaticStack(i)
    BY <1>1, <1>2 DEF applyIPv4Settings
  <2>2. IsStack(StaticStack(i), TRUE, FALSE, Unset, StaticAddress(i))
    BY <1>2, StaticStackIsStack DEF HasStatic4
  <2> QED
    BY <1>1, <1>2, <2>1, <2>2, Zenon
<1>3. CASE ~HasStatic4(i) /\ i.ipv4_method = "disabled"
  <2>1. applyIPv4Settings(i) = Disabled
    BY <1>3 DEF applyIPv4Settings, ipv4MethodStack
  <2> QED
    BY <1>3, <2>1, MethodStacks, Zenon
<1>4. CASE ~HasStatic4(i) /\ i.ipv4_method \in {"dhcp", "auto"}
  <2>1. applyIPv4Settings(i) = Stack(TRUE, Unset)
    <3> DEFINE m == i.ipv4_method
    <3>1. m \in {"dhcp", "auto", "disabled"} /\ m # "disabled" /\ m # ""
      BY <1>4
    <3>2. ipv4MethodStack[m] = Stack(TRUE, Unset)
      BY <3>1, Zenon DEF ipv4MethodStack
    <3> QED
      BY <1>4, <3>1, <3>2, Zenon DEF applyIPv4Settings
  <2>2. IsStack(Stack(TRUE, Unset), TRUE, TRUE, Unset, <<>>)
    BY MethodStacks, Zenon
  <2> QED
    BY <1>4, <2>1, <2>2, Zenon
<1>5. CASE ~HasStatic4(i) /\ i.ipv4_method = ""
  <2>1. applyIPv4Settings(i) = Unset
    BY <1>5 DEF applyIPv4Settings
  <2> QED
    BY <1>5, <2>1, Zenon
<1> QED
  BY <1>1, <1>2, <1>3, <1>4, <1>5

\* The stack before it is given an addr-gen-mode.
LEMMA IPv6Settings ==
    ASSUME NEW i, InterfaceRead(i), InterfaceAccepted(i)
    PROVE  LET s == applyIPv6Settings(i)
               on == i.ipv6_method # "link-local"
               auto == i.ipv6_method = "auto"
           IN /\ \/ /\ HasStatic6(i) /\ i.ipv6_method = ""
                    /\ IsStack(s, TRUE, FALSE, Unset, StaticAddress(i))
                 \/ /\ ~HasStatic6(i) /\ i.ipv6_method = "disabled"
                    /\ IsStack(s, FALSE, FALSE, Unset, <<>>)
                 \/ /\ ~HasStatic6(i) /\ i.ipv6_method \in {"link-local", "dhcp", "auto"}
                    /\ IsStack(s, TRUE, on, auto, <<>>)
                 \/ ~HasStatic6(i) /\ i.ipv6_method = "" /\ s = Unset
              /\ i.gen # "" => s # Unset /\ s.enabled = TRUE /\ s.gen = i.gen
<1> DEFINE m == i.ipv6_method
           on == m # "link-local"
           auto == m = "auto"
           stack == CASE HasStatic6(i) -> StaticStack(i)
                      [] m # "" -> ipv6MethodStack[m]
                      [] OTHER -> Unset
           Kept(s, e, d, a, l) ==
               /\ IsStack(s, e, d, a, l)
               /\ i.gen # "" => s.gen = i.gen
<1>1. m # "" => ~HasStatic6(i) /\ m \in {"link-local", "dhcp", "auto", "disabled"}
  BY DEF InterfaceAccepted, MethodsAgree, ipv6MethodStack
<1>2. i.gen # "" => /\ i.gen \in {"eui64", "stable-privacy"}
                    /\ HasStatic6(i) \/ m \notin {"", "disabled"}
  BY DEF InterfaceAccepted, MethodsAgree
<1>3. applyIPv6Settings(i) = IF i.gen = "" THEN stack ELSE WithGen(stack, i.gen)
  BY DEF applyIPv6Settings
<1>4. ASSUME NEW e \in BOOLEAN, NEW d \in BOOLEAN, NEW a \in BOOLEAN \cup {Unset}, NEW l,
             Unset \notin StacksOf(l), stack = NMStack(e, d, a, l)
      PROVE  Kept(applyIPv6Settings(i), e, d, a, l)
  <2>1. CASE i.gen = ""
    BY <1>3, <1>4, <2>1, StackIsStack, Zenon
  <2>2. CASE i.gen # ""
    <3>1. /\ IsStack(WithGen(NMStack(e, d, a, l), i.gen), e, d, a, l)
          /\ WithGen(NMStack(e, d, a, l), i.gen).gen = i.gen
      <4>1. i.gen \in {"eui64", "stable-privacy"}
        BY <1>2, <2>2
      <4>2. Unset \notin StacksOf(l)
        BY <1>4
      <4> QED
        BY <4>1, <4>2, WithGenIsStack
    <3> QED
      BY <1>3, <1>4, <2>2, <3>1, Zenon
  <2> QED
    BY <2>1, <2>2
<1>5. Unset \notin StacksOf(<<>>)
  BY OfferAssumption DEF OfferAssumption
<1>6. CASE HasStatic6(i)
  <2>1. stack = NMStack(TRUE, FALSE, Unset, StaticAddress(i)) /\ m = ""
    BY <1>1, <1>6, Zenon DEF StaticStack, StaticAddress
  <2>2. Unset \notin StacksOf(StaticAddress(i))
    BY <1>6 DEF InterfaceRead, InterfaceAccepted, HasStatic6
  <2>3. Kept(applyIPv6Settings(i), TRUE, FALSE, Unset, StaticAddress(i))
    BY <2>1, <2>2, <1>4, Zenon
  <2> QED
    BY <1>6, <2>1, <2>3, Zenon DEF IsStack
<1>7. CASE m = "disabled"
  <2>1. stack = Disabled /\ ~HasStatic6(i) /\ i.gen = ""
    BY <1>1, <1>2, <1>7 DEF ipv6MethodStack
  <2>2. Kept(applyIPv6Settings(i), FALSE, FALSE, Unset, <<>>)
    BY <2>1, <1>4, <1>5, Zenon DEF Disabled
  <2> QED
    BY <1>7, <2>1, <2>2, Zenon
<1>8. CASE m \in {"link-local", "dhcp", "auto"}
  <2>1. m # "" /\ m # "disabled" /\ ~HasStatic6(i)
    BY <1>1, <1>8
  <2>2. stack = ipv6MethodStack[m]
    BY <2>1, Zenon
  <2>3. m \in {"link-local", "auto", "dhcp", "disabled"}
    BY <1>8
  <2>4. stack = NMStack(TRUE, on, auto, <<>>)
    BY <2>1, <2>2, <2>3, Zenon DEF ipv6MethodStack, Stack
  <2>5. Kept(applyIPv6Settings(i), TRUE, on, auto, <<>>)
    BY <2>4, <1>4, <1>5, Zenon
  <2> QED
    BY <1>8, <2>1, <2>5, Zenon DEF IsStack
<1>9. CASE m = "" /\ ~HasStatic6(i)
  <2>1. stack = Unset /\ i.gen = ""
    BY <1>2, <1>9
  <2> QED
    BY <1>3, <1>9, <2>1, Zenon
<1> QED
  BY <1>1, <1>6, <1>7, <1>8, <1>9, Zenon

LEMMA MethodOfStatic ==
    ASSUME NEW s, NEW l, l # <<>>, IsStack(s, TRUE, FALSE, Unset, l)
    PROVE  Method(s) = "manual"
BY Zenon DEF Method, IsStack

LEMMA MethodOfNoStack == Method(Unset) = ""
BY Zenon DEF Method

LEMMA StaticFamily ==
    ASSUME NEW i, InterfaceRead(i), InterfaceAccepted(i), i.ip # Unset
    PROVE  /\ AsText(i.ip).form = IF HasStatic4(i) THEN "v4" ELSE "v6"
           /\ HasStatic6(i) = ~HasStatic4(i)
<1>1. AddressRead(i.ip) /\ Parses(i.ip)
  BY DEF InterfaceRead, InterfaceAccepted, MethodsAgree, parseInterfaceAddress
<1>2. AsText(i.ip).form = IF To4(i.ip) THEN "v4" ELSE "v6"
  BY <1>1, TextOfAddress
<1> QED
  BY <1>2 DEF HasStatic4, HasStatic6

LEMMA InterfaceParts ==
    ASSUME NEW i
    PROVE  LET d == buildNMInterface(i) IN
           /\ d.type = InterfaceType(i) /\ d.vlan = i.vlan /\ d.bond = i.bond
           /\ d.ipv4 = applyIPv4Settings(i) /\ d.ipv6 = applyIPv6Settings(i)
BY DEF buildNMInterface

\* What an interface declares is what is made of it.
LEMMA InterfaceKeepsItsMeaning ==
    ASSUME NEW i, InterfaceRead(i), InterfaceAccepted(i)
    PROVE  InterfaceMeans(i, buildNMInterface(i))
<1> DEFINE d == buildNMInterface(i)
           manual4 == i.ip # Unset /\ AsText(i.ip).form = "v4"
           manual6 == i.ip # Unset /\ AsText(i.ip).form = "v6"
           four == applyIPv4Settings(i)
           six == applyIPv6Settings(i)
<1>1. manual4 = HasStatic4(i) /\ manual6 = HasStatic6(i)
  BY StaticFamily DEF HasStatic4, HasStatic6
<1>2. Method(four) = IF HasStatic4(i) THEN "manual"
                     ELSE IF i.ipv4_method = "auto" THEN "dhcp" ELSE i.ipv4_method
  <2> HIDE DEF four
  <2>1. StaticAddress(i) # <<>> /\ Unset # TRUE
    BY OfferAssumption DEF StaticAddress, OfferAssumption
  <2>2. CASE HasStatic4(i) /\ IsStack(four, TRUE, FALSE, Unset, StaticAddress(i))
    <3>1. Method(four) = "manual"
      BY <2>1, <2>2, MethodOfStatic
    <3> QED
      BY <2>2, <3>1, Zenon
  <2>3. CASE ~HasStatic4(i) /\ i.ipv4_method = "disabled"
             /\ IsStack(four, FALSE, FALSE, Unset, <<>>)
    <3>1. Method(four) = "disabled"
      BY <2>3, MethodOfStack, Zenon
    <3> QED
      BY <2>3, <3>1
  <2>4. CASE ~HasStatic4(i) /\ i.ipv4_method \in {"dhcp", "auto"}
             /\ IsStack(four, TRUE, TRUE, Unset, <<>>)
    <3>1. Method(four) = "dhcp"
      BY <2>1, <2>4, MethodOfStack, Zenon
    <3> QED
      BY <2>4, <3>1
  <2>5. CASE ~HasStatic4(i) /\ i.ipv4_method = "" /\ four = Unset
    BY <2>5, MethodOfNoStack
  <2> QED
    BY <2>2, <2>3, <2>4, <2>5, IPv4Settings DEF four
<1>3. Method(six) = IF HasStatic6(i) THEN "manual" ELSE i.ipv6_method
  <2> HIDE DEF six
  <2> DEFINE on == i.ipv6_method # "link-local"
             auto == i.ipv6_method = "auto"
  <2>1. StaticAddress(i) # <<>>
    BY DEF StaticAddress
  <2>2. CASE HasStatic6(i) /\ IsStack(six, TRUE, FALSE, Unset, StaticAddress(i))
    <3>1. Method(six) = "manual"
      BY <2>1, <2>2, MethodOfStatic
    <3> QED
      BY <2>2, <3>1, Zenon
  <2>3. CASE ~HasStatic6(i) /\ i.ipv6_method = "disabled"
             /\ IsStack(six, FALSE, FALSE, Unset, <<>>)
    BY <2>3, MethodOfStack, Zenon
  <2>4. CASE ~HasStatic6(i) /\ i.ipv6_method \in {"link-local", "dhcp", "auto"}
             /\ IsStack(six, TRUE, on, auto, <<>>)
    <3>1. CASE i.ipv6_method = "link-local"
      <4>1. on = FALSE /\ auto = FALSE
        BY <3>1
      <4> QED
        BY <2>4, <3>1, <4>1, MethodOfStack, Zenon
    <3>2. CASE i.ipv6_method = "dhcp"
      <4>1. on = TRUE /\ auto = FALSE
        BY <3>2
      <4>2. auto # TRUE
        BY <4>1
      <4> QED
        BY <2>4, <3>2, <4>1, <4>2, MethodOfStack, Zenon
    <3>3. CASE i.ipv6_method = "auto"
      <4>1. on = TRUE /\ auto = TRUE
        BY <3>3
      <4> QED
        BY <2>4, <3>3, <4>1, MethodOfStack, Zenon
    <3> QED
      BY <2>4, <3>1, <3>2, <3>3
  <2>5. CASE ~HasStatic6(i) /\ i.ipv6_method = "" /\ six = Unset
    BY <2>5, MethodOfNoStack
  <2> QED
    BY <2>2, <2>3, <2>4, <2>5, IPv6Settings, Zenon DEF six
<1>4. i.gen # "" => six.enabled /\ six.gen = i.gen
  BY IPv6Settings, Zenon
<1>5. /\ (InterfaceType(i) = "vlan") = (i.vlan # Unset)
      /\ (InterfaceType(i) = "bond") = (i.bond # Unset)
  <2>1. interfaceVLAN(i) /\ interfaceBond(i)
    BY DEF InterfaceAccepted
  <2> QED
    BY <2>1, Zenon DEF interfaceVLAN, interfaceBond
<1> HIDE DEF four, six
<1>6. /\ d.type = InterfaceType(i) /\ d.vlan = i.vlan /\ d.bond = i.bond
      /\ d.ipv4 = four /\ d.ipv6 = six
  BY InterfaceParts DEF four, six
<1> HIDE DEF d
<1> QED
  BY <1>1, <1>2, <1>3, <1>4, <1>5, <1>6, Zenon DEF InterfaceMeans, d

\* The addresses of either stack of an accepted interface fit it.
Fits(i, stack, form) ==
    stack # Unset =>
        \A a \in ToSet(stack.address) :
            /\ a.ip.form = form
            /\ form = "v6" \/ i.subnet.form # "mapped" => a.prefix_length \in 0..Width(form)

LEMMA NoAddressFits ==
    ASSUME NEW i, NEW s, NEW e, NEW d, NEW a, NEW form, IsStack(s, e, d, a, <<>>)
    PROVE  Fits(i, s, form)
<1>1. ToSet(<<>>) = {}
  BY DEF ToSet
<1>2. s.address = <<>>
  BY DEF IsStack
<1> QED
  BY <1>1, <1>2 DEF Fits

LEMMA StaticAddressFits ==
    ASSUME NEW i, InterfaceRead(i), InterfaceAccepted(i), i.ip # Unset,
           NEW s, IsStack(s, TRUE, FALSE, Unset, StaticAddress(i))
    PROVE  Fits(i, s, IF HasStatic4(i) THEN "v4" ELSE "v6")
<1> DEFINE address == [ip |-> AsText(i.ip), prefix_length |-> i.subnet.bits]
           form == IF HasStatic4(i) THEN "v4" ELSE "v6"
<1>1. s.address = <<address>>
  BY DEF IsStack, StaticAddress
<1>2. ToSet(<<address>>) = {address}
  BY DEF ToSet
<1>3. address.ip.form = form /\ address.prefix_length = i.subnet.bits
  BY StaticFamily
<1>4. form = "v6" \/ i.subnet.form # "mapped" => i.subnet.bits \in 0..Width(form)
  <2>1. /\ PrefixRead(i.subnet) /\ Parses(i.subnet)
        /\ HasStatic4(i) <=> Subnet4(i.subnet)
    <3>1. MethodsAgree(i) /\ i.subnet # Unset
      BY DEF InterfaceAccepted
    <3>2. parseInterfaceAddress(i)
      BY <3>1 DEF MethodsAgree
    <3>3. To4(i.ip) <=> Subnet4(i.subnet)
      BY <3>2 DEF parseInterfaceAddress
    <3>4. HasStatic4(i) <=> To4(i.ip)
      BY DEF HasStatic4
    <3>5. PrefixRead(i.subnet) /\ Parses(i.subnet)
      BY <3>1, <3>2 DEF InterfaceRead, parseInterfaceAddress
    <3> QED
      BY <3>3, <3>4, <3>5
  <2>2. /\ HasStatic4(i) /\ i.subnet.form # "mapped" => i.subnet.form = "v4"
        /\ ~HasStatic4(i) => i.subnet.form # "v4"
    BY <2>1 DEF Subnet4
  <2>3. i.subnet.bits \in 0..(IF i.subnet.form = "v4" THEN 32 ELSE 128)
    BY <2>1 DEF PrefixRead, Parses
  <2>4. CASE HasStatic4(i)
    BY <2>2, <2>3, <2>4 DEF Width
  <2>5. CASE ~HasStatic4(i)
    BY <2>2, <2>3, <2>5 DEF Width
  <2> QED
    BY <2>4, <2>5
<1> HIDE DEF address, form
<1> QED
  BY <1>1, <1>2, <1>3, <1>4 DEF Fits, form

LEMMA AddressesFit ==
    ASSUME NEW i, InterfaceRead(i), InterfaceAccepted(i)
    PROVE  Fits(i, applyIPv4Settings(i), "v4") /\ Fits(i, applyIPv6Settings(i), "v6")
<1> DEFINE four == applyIPv4Settings(i)
           six == applyIPv6Settings(i)
           on == i.ipv6_method # "link-local"
           auto == i.ipv6_method = "auto"
<1>1. Fits(i, four, "v4")
  <2>1. \/ HasStatic4(i) /\ IsStack(four, TRUE, FALSE, Unset, StaticAddress(i))
        \/ IsStack(four, FALSE, FALSE, Unset, <<>>)
        \/ IsStack(four, TRUE, TRUE, Unset, <<>>)
        \/ four = Unset
    BY IPv4Settings, Zenon
  <2> HIDE DEF four
  <2>2. CASE HasStatic4(i) /\ IsStack(four, TRUE, FALSE, Unset, StaticAddress(i))
    BY <2>2, StaticAddressFits DEF HasStatic4
  <2>3. CASE IsStack(four, FALSE, FALSE, Unset, <<>>) \/ IsStack(four, TRUE, TRUE, Unset, <<>>)
    BY <2>3, NoAddressFits, Zenon
  <2>4. CASE four = Unset
    BY <2>4 DEF Fits
  <2> QED
    BY <2>1, <2>2, <2>3, <2>4
<1>2. Fits(i, six, "v6")
  <2> HIDE DEF six
  <2>1. CASE HasStatic6(i) /\ IsStack(six, TRUE, FALSE, Unset, StaticAddress(i))
    BY <2>1, StaticAddressFits, StaticFamily DEF HasStatic6
  <2>2. CASE IsStack(six, FALSE, FALSE, Unset, <<>>)
    BY <2>2, NoAddressFits, Zenon
  <2>3. CASE IsStack(six, TRUE, on, auto, <<>>)
    BY <2>3, NoAddressFits, Zenon
  <2>4. CASE six = Unset
    BY <2>4 DEF Fits
  <2> QED
    BY <2>1, <2>2, <2>3, <2>4, IPv6Settings, Zenon DEF six
<1> QED
  BY <1>1, <1>2

\* A gateway and a next hop are on a route of their own family.
RouteFits(r) ==
    /\ r.next_hop # Unset => Family(r.next_hop.form) = Family(r.destination.form)
    /\ r.destination.host = 0

LEMMA GatewayRouteFits ==
    ASSUME NEW i, AddressRead(i.gateway), Parses(i.gateway)
    PROVE  RouteFits(gatewayRoute(i))
<1> DEFINE form == IF To4(i.gateway) THEN "v4" ELSE "v6"
<1>1. AsText(i.gateway).form = form
  BY TextOfAddress
<1>2. gatewayRoute(i).destination = Everything(form) /\ gatewayRoute(i).next_hop = AsText(i.gateway)
  BY DEF gatewayRoute
<1>3. Everything(form).form = form /\ Everything(form).host = 0
  BY DEF Everything
<1> HIDE DEF form
<1> QED
  BY <1>1, <1>2, <1>3 DEF RouteFits

LEMMA DeclaredRouteFits ==
    ASSUME NEW r, RouteAccepted(r),
           DOMAIN r = {"destination", "next_hop", "interface", "table_id", "metric"},
           r.destination # Unset => PrefixRead(r.destination)
    PROVE  RouteFits(buildNMRoute(r))
<1>1. /\ AddressRead(r.destination)
      /\ r.next_hop # Unset => Is4(r.next_hop) = Is4(r.destination)
  BY DEF RouteAccepted, PrefixRead
<1>2. buildNMRoute(r).destination = Masked(r.destination) /\ buildNMRoute(r).next_hop = r.next_hop
  BY DEF buildNMRoute
<1>3. Masked(r.destination).form = r.destination.form /\ Masked(r.destination).host = 0
  BY <1>1, MaskedKeepsItsForm
<1>4. r.next_hop # Unset => Family(r.next_hop.form) = Family(r.destination.form)
  BY <1>1, Zenon DEF Is4, Family
<1> QED
  BY <1>2, <1>3, <1>4 DEF RouteFits

LEMMA RuleFits ==
    ASSUME NEW source, AddressRead(source)
    PROVE  firewallSourceFamily(source).family = Family(firewallSourceFamily(source).address.form)
<1>1. firewallSourceFamily(source).address \in {source, Masked(source)}
  BY DEF firewallSourceFamily
<1>2. firewallSourceFamily(source).address.form = source.form
  BY <1>1, MaskedKeepsItsForm
<1>3. firewallSourceFamily(source).family = IF Is4(source) THEN "ipv4" ELSE "ipv6"
  BY DEF firewallSourceFamily
<1> QED
  BY <1>2, <1>3 DEF Family, Is4

-----------------------------------------------------------------------------
\* The document of a config that was accepted, interface by interface.
LEMMA DocumentInterface ==
    ASSUME IInv, document # Unset, NEW n \in DOMAIN cfg.interfaces
    PROVE  LET i == cfg.interfaces[n] IN
           /\ document.interfaces[n] = buildNMInterface(i)
           /\ InterfaceRead(i) /\ InterfaceAccepted(i)
<1>1. NetworkAccepted(cfg.interfaces, cfg.routes)
      /\ document = buildNMState(cfg.interfaces, cfg.routes)
  BY DEF IInv, MadeOfTheConfig
<1>2. document.interfaces[n] = buildNMInterface(cfg.interfaces[n])
  BY <1>1 DEF buildNMState
<1>3. InterfaceAccepted(cfg.interfaces[n])
  BY <1>1, Zenon DEF NetworkAccepted
<1>4. InterfaceRead(cfg.interfaces[n])
  BY OfferedInterface DEF IInv, Position
<1> QED
  BY <1>2, <1>3, <1>4

LEMMA DocumentRoute ==
    ASSUME IInv, document # Unset, NEW r \in document.routes
    PROVE  RouteFits(r)
<1>1. NetworkAccepted(cfg.interfaces, cfg.routes)
      /\ document = buildNMState(cfg.interfaces, cfg.routes)
  BY DEF IInv, MadeOfTheConfig
<1>2. cfg \in Offers
  BY DEF IInv, Position
<1>3. \/ \E n \in DOMAIN cfg.interfaces :
             cfg.interfaces[n].gateway # Unset /\ r = gatewayRoute(cfg.interfaces[n])
      \/ \E n \in DOMAIN cfg.routes : r = buildNMRoute(cfg.routes[n])
  BY <1>1 DEF buildNMState, Range
<1>4. ASSUME NEW n \in DOMAIN cfg.interfaces, cfg.interfaces[n].gateway # Unset,
             r = gatewayRoute(cfg.interfaces[n])
      PROVE  RouteFits(r)
  <2>1. Parses(cfg.interfaces[n].gateway)
    BY <1>1, <1>4, Zenon DEF NetworkAccepted
  <2>2. AddressRead(cfg.interfaces[n].gateway)
    BY <1>2, <1>4, OfferedInterface DEF InterfaceRead
  <2> QED
    BY <1>4, <2>1, <2>2, GatewayRouteFits
<1>5. ASSUME NEW n \in DOMAIN cfg.routes, r = buildNMRoute(cfg.routes[n])
      PROVE  RouteFits(r)
  <2>1. RouteAccepted(cfg.routes[n])
    BY <1>1, Zenon DEF NetworkAccepted
  <2>2. cfg.routes[n] \in Range(cfg.routes)
    BY DEF Range
  <2> QED
    BY <1>2, <1>5, <2>1, <2>2, OfferedRoute, DeclaredRouteFits
<1> QED
  BY <1>3, <1>4, <1>5

LEMMA RulesFit ==
    ASSUME IInv, NEW rule \in rules
    PROVE  rule.family = Family(rule.address.form)
<1>1. PICK p \in Range(cfg.firewall_ports) : p.source # Unset /\ rule = firewallSourceFamily(p.source)
  BY DEF IInv, MadeOfTheConfig
<1>2. AddressRead(p.source)
  BY <1>1, OfferedSource DEF IInv, Position
<1> QED
  BY <1>1, <1>2, RuleFits

\* Every address is used in the family it is written in: an interface's in the
\* stack with a prefix that fits, a next hop on a destination of its family, a
\* source in a rule (network.go:382-402, 649-669, 715; firewall.go:179-199).
THEOREM AddressesKeepFamilyAlways == Spec => []AddressesKeepFamily
<1>1. IInv => AddressesKeepFamily
  <2> SUFFICES ASSUME IInv PROVE AddressesKeepFamily
    OBVIOUS
  <2>1. ASSUME document # Unset, NEW n \in DOMAIN cfg.interfaces
        PROVE  /\ Fits(cfg.interfaces[n], document.interfaces[n].ipv4, "v4")
               /\ Fits(cfg.interfaces[n], document.interfaces[n].ipv6, "v6")
    BY <2>1, DocumentInterface, InterfaceParts, AddressesFit
  <2>2. ASSUME document # Unset, NEW r \in document.routes
        PROVE  RouteFits(r)
    BY <2>2, DocumentRoute
  <2>3. \A rule \in rules : rule.family = Family(rule.address.form)
    BY RulesFit
  <2> QED
    BY <2>1, <2>2, <2>3 DEF AddressesKeepFamily, Fits, RouteFits
<1> QED
  BY <1>1, AdmissionInvariance, PTL

-----------------------------------------------------------------------------
\* Induction: a set of numbers has a least member, so that what holds of 0 and
\* is handed on holds of all of them.
LEMMA LeastOf ==
    ASSUME NEW T \in SUBSET Nat, T # {}
    PROVE  \E x \in T : \A y \in T : x <= y
<1>1. PICK R : R = OpToRel(<, Nat)
  BY Zenon
<1>2. IsWellFoundedOn(R, Nat)
  BY <1>1, NatLessThanWellFounded, Zenon
<1>3. \A x, y \in Nat : x < y => <<x, y>> \in R
  BY <1>1 DEF OpToRel
<1>4. \E x \in T : \A y \in T : <<y, x>> \notin R
  BY <1>2, WFMin
<1>5. \A x, y \in T : <<y, x>> \notin R => x <= y
  BY <1>3
<1> QED
  BY <1>4, <1>5

LEMMA UpTo ==
    ASSUME NEW N \in Nat, NEW T, 0 \in T,
           \A n \in 1..N : n - 1 \in T => n \in T
    PROVE  \A n \in 0..N : n \in T
<1> SUFFICES ASSUME NEW z \in 0..N, z \notin T PROVE FALSE
  OBVIOUS
<1> DEFINE Missing == {n \in 0..N : n \notin T}
<1>1. PICK x \in Missing : \A y \in Missing : x <= y
  <2>1. Missing \in SUBSET Nat /\ Missing # {}
    OBVIOUS
  <2> HIDE DEF Missing
  <2> QED
    BY <2>1, LeastOf
<1>2. x \in 1..N /\ x - 1 \in 0..N
  BY <1>1
<1>3. x - 1 \in T
  BY <1>1, <1>2
<1> QED
  BY <1>1, <1>2, <1>3

\* A recursion over 1..N has a solution: f[n] is what n calls of next leave.
IsRun(f, V, base, N, next) ==
    f \in [0..N -> V] /\ f[0] = base /\ \A n \in 1..N : f[n] = next[n][f[n - 1]]

LEMMA Recursion ==
    ASSUME NEW V, NEW base \in V, NEW N \in Nat, NEW next \in [1..N -> [V -> V]]
    PROVE  \E f : IsRun(f, V, base, N, next)
<1> DEFINE Upto(m, f) == f[0] = base /\ \A n \in 1..m : f[n] = next[n][f[n - 1]]
           T == {m \in 0..N : \E f \in [0..m -> V] : Upto(m, f)}
<1>1. 0 \in T
  <2> DEFINE f == [n \in 0..0 |-> base]
  <2>1. f \in [0..0 -> V] /\ Upto(0, f)
    OBVIOUS
  <2>2. \E h \in [0..0 -> V] : Upto(0, h)
    BY <2>1, Zenon
  <2> QED
    BY <2>2
<1>2. ASSUME NEW m \in 1..N, m - 1 \in T PROVE m \in T
  <2>1. PICK f \in [0..(m - 1) -> V] : Upto(m - 1, f)
    BY <1>2
  <2>2. f[m - 1] \in V /\ next[m][f[m - 1]] \in V
    OBVIOUS
  <2> DEFINE g == [n \in 0..m |-> IF n = m THEN next[m][f[m - 1]] ELSE f[n]]
  <2>3. g \in [0..m -> V]
    BY <2>2
  <2>4. ASSUME NEW n \in 1..m PROVE g[n] = next[n][g[n - 1]]
    <3>1. g[n - 1] = f[n - 1]
      OBVIOUS
    <3>2. CASE n = m
      BY <3>1, <3>2
    <3>3. CASE n # m
      <4>1. n \in 1..(m - 1) /\ g[n] = f[n]
        BY <3>3
      <4> QED
        BY <2>1, <3>1, <4>1
    <3> QED
      BY <3>2, <3>3
  <2>5. g[0] = base
    BY <2>1
  <2>6. Upto(m, g)
    BY <2>4, <2>5
  <2>7. \E h \in [0..m -> V] : Upto(m, h)
    BY <2>3, <2>6, Zenon
  <2> QED
    BY <2>7
<1> HIDE DEF T
<1>3. \A n \in 0..N : n \in T
  BY <1>1, <1>2, UpTo, Zenon
<1>4. N \in T
  BY <1>3
<1> QED
  BY <1>4 DEF T, IsRun

\* The lists of all interfaces together are a list.
LEMMA FlattenNonEmpty ==
    ASSUME NEW S, NEW seqs \in Seq(Seq(S)), NEW N \in Nat, N = Len(seqs), N >= 1
    PROVE  FlattenSeq(seqs) \in Seq(S)
<1> DEFINE V == Seq(S)
           next == [n \in 1..N |-> [s \in V |-> s \o seqs[n]]]
<1>0. \A n \in 1..N : seqs[n] \in V
  OBVIOUS
<1>1. next \in [1..N -> [V -> V]]
  BY <1>0
<1>2. \A n \in 1..N, s \in V : next[n][s] = s \o seqs[n]
  OBVIOUS
<1>3. PICK f : IsRun(f, V, <<>>, N, next)
  <2>1. <<>> \in V
    OBVIOUS
  <2> HIDE DEF V, next
  <2> QED
    BY <1>1, <2>1, Recursion
<1>4. \A n \in 1..N : n - 1 \in 0..N
  OBVIOUS
<1>5. \A n \in 1..N : f[n] = f[n - 1] \o seqs[n]
  <2> HIDE DEF V, next
  <2> QED
    BY <1>2, <1>3, <1>4 DEF IsRun
<1> DEFINE Body(g) == [i \in 1..N |-> IF i = 1 THEN seqs[i] ELSE g[i - 1] \o seqs[i]]
           g0 == [i \in 1..N |-> f[i]]
           flatten == CHOOSE g : g = Body(g)
<1>6. f[1] = seqs[1]
  <2>1. <<>> \o seqs[1] = seqs[1] /\ 1 \in 1..N /\ 1 - 1 = 0
    BY <1>0
  <2>2. f[1] = f[1 - 1] \o seqs[1]
    BY <1>5, <2>1, Zenon
  <2> QED
    BY <1>3, <2>1, <2>2 DEF IsRun
<1>7. g0 = Body(g0)
  <2>1. ASSUME NEW i \in 1..N PROVE g0[i] = IF i = 1 THEN seqs[i] ELSE g0[i - 1] \o seqs[i]
    <3>1. CASE i = 1
      BY <1>6, <3>1
    <3>2. CASE i # 1
      <4>1. i - 1 \in 1..N
        BY <3>2
      <4>2. g0[i - 1] = f[i - 1] /\ g0[i] = f[i]
        BY <4>1
      <4> QED
        BY <1>5, <3>2, <4>2
    <3> QED
      BY <3>1, <3>2
  <2> QED
    BY <2>1
<1>8. flatten = Body(flatten)
  <2> HIDE DEF Body, g0
  <2> QED
    BY <1>7
<1>9. \A n \in 1..N : flatten[n] = IF n = 1 THEN seqs[n] ELSE flatten[n - 1] \o seqs[n]
  <2> HIDE DEF flatten
  <2> QED
    BY <1>8
<1> DEFINE T == {m \in 0..N : m >= 1 => flatten[m] \in V}
<1>10. \A n \in 0..N : n \in T
  <2> HIDE DEF flatten
  <2>1. 0 \in T
    OBVIOUS
  <2>2. ASSUME NEW n \in 1..N, n - 1 \in T PROVE n \in T
    <3>1. n # 1 => flatten[n - 1] \in V
      BY <2>2
    <3>2. flatten[n] \in V
      <4>1. \A s, t \in V : s \o t \in V
        OBVIOUS
      <4> HIDE DEF V
      <4> QED
        BY <1>0, <1>9, <3>1, <4>1
    <3> QED
      BY <3>2
  <2> HIDE DEF T
  <2> QED
    BY <2>1, <2>2, UpTo
<1>11. flatten[N] \in V
  <2> HIDE DEF flatten, V
  <2> QED
    BY <1>10
<1>12. FlattenSeq(seqs) = flatten[N]
  <2>1. FlattenSeq(seqs) =
            (CHOOSE g : g = [i \in 1..N |-> IF i = 1 THEN seqs[i] ELSE g[i - 1] \o seqs[i]])[N]
    BY DEF FlattenSeq
  <2> QED
    BY <2>1
<1> QED
  BY <1>11, <1>12

LEMMA Flattened ==
    ASSUME NEW S, NEW seqs \in Seq(Seq(S))
    PROVE  FlattenSeq(seqs) \in Seq(S)
<1>1. CASE seqs = <<>>
  BY <1>1 DEF FlattenSeq
<1>2. CASE Len(seqs) >= 1
  <2>1. Len(seqs) \in Nat
    OBVIOUS
  <2> QED
    BY <1>2, <2>1, FlattenNonEmpty
<1> QED
  BY <1>1, <1>2

\* What n calls of appendInterfaceDNS leave, for every n.
AppendsTo(f, N, V, dns) ==
    /\ f \in [0..N -> V] /\ f[0] = <<>>
    /\ \A n \in 1..N : f[n] = appendInterfaceDNS(f[n - 1], dns[n])

LEMMA ResolversRun ==
    ASSUME NEW S, NEW dns \in Seq(S), NEW N \in Nat, N = Len(dns),
           NEW V, V = Seq({AsText(d) : d \in S})
    PROVE  \E f : AppendsTo(f, N, V, dns) /\ Resolvers(dns) = f[N]
<1> DEFINE next == [n \in 1..N |-> [s \in V |-> appendInterfaceDNS(s, dns[n])]]
<1>0. \A n \in 1..N, s \in V : appendInterfaceDNS(s, dns[n]) \in V
  <2> SUFFICES ASSUME NEW n \in 1..N, NEW s \in V PROVE appendInterfaceDNS(s, dns[n]) \in V
    OBVIOUS
  <2>1. AsText(dns[n]) \in {AsText(d) : d \in S}
    OBVIOUS
  <2>2. Append(s, AsText(dns[n])) \in V
    BY <2>1
  <2> QED
    BY <2>2 DEF appendInterfaceDNS
<1>1. next \in [1..N -> [V -> V]]
  BY <1>0
<1>2. \A n \in 1..N, s \in V : next[n][s] = appendInterfaceDNS(s, dns[n])
  OBVIOUS
<1>3. PICK f : IsRun(f, V, <<>>, N, next)
  <2>1. <<>> \in V
    OBVIOUS
  <2> HIDE DEF next
  <2> QED
    BY <1>1, <2>1, Recursion
<1>4. \A n \in 1..N : n - 1 \in 0..N
  OBVIOUS
<1>5. AppendsTo(f, N, V, dns)
  <2> HIDE DEF next
  <2> QED
    BY <1>2, <1>3, <1>4 DEF IsRun, AppendsTo
<1> DEFINE Body(g) == [n \in 0..N |-> IF n = 0 THEN <<>> ELSE appendInterfaceDNS(g[n - 1], dns[n])]
           servers == CHOOSE g : g = Body(g)
<1>6. servers = Body(servers)
  <2>1. f = Body(f)
    BY <1>5 DEF AppendsTo
  <2> HIDE DEF Body
  <2> QED
    BY <2>1
<1>7. /\ servers[0] = <<>>
      /\ \A n \in 1..N : servers[n] = appendInterfaceDNS(servers[n - 1], dns[n])
      /\ servers = [n \in 0..N |-> servers[n]]
  <2> HIDE DEF servers
  <2> QED
    BY <1>6
<1>8. \A n \in 0..N : n \in {m \in 0..N : servers[m] \in V}
  <2> DEFINE T == {m \in 0..N : servers[m] \in V}
  <2> HIDE DEF servers
  <2>1. 0 \in T
    BY <1>7
  <2>2. ASSUME NEW n \in 1..N, n - 1 \in T PROVE n \in T
    <3>1. servers[n - 1] \in V
      BY <2>2
    <3>2. servers[n] \in V
      BY <1>0, <1>7, <3>1, Zenon
    <3> QED
      BY <3>2
  <2> HIDE DEF T
  <2>3. \A n \in 0..N : n \in T
    BY <2>1, <2>2, UpTo
  <2> QED
    BY <2>3 DEF T
<1>9. AppendsTo(servers, N, V, dns)
  <2> HIDE DEF servers
  <2>1. \A n \in 0..N : servers[n] \in V
    BY <1>8
  <2>2. servers \in [0..N -> V]
    BY <1>7, <2>1
  <2> QED
    BY <1>7, <2>2 DEF AppendsTo
<1>10. Resolvers(dns) = servers[N]
  BY DEF Resolvers
<1> QED
  <2> HIDE DEF servers
  <2> QED
    BY <1>9, <1>10

\* The first place of an element is the only one with none before it.
LEMMA FirstPlaceIs ==
    ASSUME NEW declared, NEW N \in Nat, DOMAIN declared = 1..N,
           NEW n \in 1..N, \A m \in 1..(n - 1) : declared[m] # declared[n]
    PROVE  FirstPlace(declared, declared[n]) = n
<1> DEFINE F(j) == declared[j] = declared[n] /\ \A m \in 1..(j - 1) : declared[m] # declared[n]
<1>1. F(n)
  OBVIOUS
<1>2. ASSUME NEW j \in 1..N, F(j) PROVE j = n
  <2>1. ~(j < n)
    BY <1>2
  <2>2. ~(n < j)
    BY <1>2
  <2> QED
    BY <2>1, <2>2
<1>3. FirstPlace(declared, declared[n]) = CHOOSE j \in 1..N : F(j)
  BY DEF FirstPlace
<1> HIDE DEF F
<1> QED
  BY <1>1, <1>2, <1>3

LEMMA FirstPlaceUpTo ==
    ASSUME NEW declared, NEW N \in Nat, DOMAIN declared = 1..N, NEW j \in 1..N
    PROVE  FirstPlace(declared, declared[j]) \in 1..j
<1> DEFINE Places == {m \in 1..N : declared[m] = declared[j]}
<1>1. PICK n \in Places : \A m \in Places : n <= m
  <2>1. Places \in SUBSET Nat /\ Places # {}
    OBVIOUS
  <2> HIDE DEF Places
  <2> QED
    BY <2>1, LeastOf
<1>2. n <= j /\ n \in 1..N /\ declared[n] = declared[j]
  BY <1>1
<1>3. \A m \in 1..(n - 1) : declared[m] # declared[n]
  BY <1>1, <1>2
<1>4. FirstPlace(declared, declared[n]) = n
  BY <1>2, <1>3, FirstPlaceIs
<1> QED
  BY <1>2, <1>4

\* The list after n resolvers: those n, in the order of their first places.
InOrder(s, declared) ==
    \A a, b \in DOMAIN s : a < b => FirstPlace(declared, s[a]) < FirstPlace(declared, s[b])

SeenUpTo(n, s, declared) ==
    ToSet(s) = {declared[j] : j \in 1..n} /\ InOrder(s, declared)

LEMMA AppendedInOrder ==
    ASSUME NEW T, NEW declared, NEW N \in Nat, DOMAIN declared = 1..N, NEW n \in 1..N,
           NEW s \in Seq(T), declared[n] \in T, declared[n] \notin ToSet(s),
           SeenUpTo(n - 1, s, declared)
    PROVE  SeenUpTo(n, Append(s, declared[n]), declared)
<1> DEFINE L == Len(s)
<1>0. L \in Nat /\ DOMAIN s = 1..L
  OBVIOUS
<1> PICK t : t = Append(s, declared[n])
  OBVIOUS
<1>1. /\ DOMAIN t = 1..(L + 1)
      /\ t[L + 1] = declared[n]
      /\ \A a \in 1..L : t[a] = s[a]
  OBVIOUS
<1> HIDE DEF L
<1>2. ToSet(s) = {s[a] : a \in 1..L} /\ ToSet(t) = {t[a] : a \in 1..(L + 1)}
  BY <1>0, <1>1 DEF ToSet
<1>3. ToSet(t) = ToSet(s) \cup {declared[n]}
  <2>1. 1..(L + 1) = (1..L) \cup {L + 1}
    BY <1>0
  <2>2. {t[a] : a \in 1..(L + 1)} = {t[a] : a \in 1..L} \cup {t[L + 1]}
    BY <2>1
  <2>3. {t[a] : a \in 1..L} = {s[a] : a \in 1..L}
    BY <1>1
  <2> QED
    BY <1>1, <1>2, <2>2, <2>3
<1>4. {declared[j] : j \in 1..n} = {declared[j] : j \in 1..(n - 1)} \cup {declared[n]}
  <2>1. 1..n = 1..(n - 1) \cup {n}
    OBVIOUS
  <2> QED
    BY <2>1
<1>5. FirstPlace(declared, declared[n]) = n
  <2>1. \A m \in 1..(n - 1) : declared[m] # declared[n]
    BY DEF SeenUpTo
  <2> QED
    BY <2>1, FirstPlaceIs
<1>6. \A a \in 1..L : FirstPlace(declared, s[a]) \in 1..(n - 1)
  <2> TAKE a \in 1..L
  <2>1. PICK j \in 1..(n - 1) : s[a] = declared[j]
    BY <1>2 DEF SeenUpTo
  <2>2. j \in 1..N
    OBVIOUS
  <2>3. FirstPlace(declared, declared[j]) \in 1..j
    BY <2>2, FirstPlaceUpTo
  <2> QED
    BY <2>1, <2>3
<1>7. ASSUME NEW a \in DOMAIN t, NEW b \in DOMAIN t, a < b
      PROVE  FirstPlace(declared, t[a]) < FirstPlace(declared, t[b])
  <2>1. a \in 1..L /\ t[a] = s[a] /\ b \in 1..(L + 1)
    BY <1>0, <1>1, <1>7
  <2>2. CASE b = L + 1
    BY <1>1, <1>5, <1>6, <2>1, <2>2
  <2>3. CASE b # L + 1
    <3>1. b \in 1..L /\ t[b] = s[b]
      BY <1>0, <1>1, <2>1, <2>3
    <3> QED
      BY <1>0, <1>7, <2>1, <3>1 DEF InOrder, SeenUpTo
  <2> QED
    BY <2>2, <2>3
<1> QED
  BY <1>3, <1>4, <1>7 DEF InOrder, SeenUpTo

\* Resolvers are listed once, where they are first seen.
LEMMA ResolversInOrder ==
    ASSUME NEW S, NEW dns \in Seq(S)
    PROVE  FirstSeen(Resolvers(dns), [n \in DOMAIN dns |-> AsText(dns[n])])
<1> PICK declared : declared = [n \in DOMAIN dns |-> AsText(dns[n])]
  OBVIOUS
<1> PICK N \in Nat : N = Len(dns)
  OBVIOUS
<1>1. DOMAIN declared = 1..N /\ \A n \in 1..N : declared[n] = AsText(dns[n]) /\ dns[n] \in S
  OBVIOUS
<1> PICK T : T = {AsText(d) : d \in S}
  OBVIOUS
<1>2. PICK f : AppendsTo(f, N, Seq(T), dns) /\ Resolvers(dns) = f[N]
  BY ResolversRun
<1> DEFINE Good == {n \in 0..N : SeenUpTo(n, f[n], declared)}
<1>3. 0 \in Good
  <2>1. f[0] = <<>> /\ DOMAIN f[0] = {}
    BY <1>2 DEF AppendsTo
  <2>2. ToSet(f[0]) = {} /\ InOrder(f[0], declared)
    BY <2>1 DEF ToSet, InOrder
  <2>3. {declared[j] : j \in 1..0} = {}
    OBVIOUS
  <2> QED
    BY <2>2, <2>3 DEF SeenUpTo
<1>4. ASSUME NEW n \in 1..N, n - 1 \in Good PROVE n \in Good
  <2>1. f[n - 1] \in Seq(T) /\ f[n] = appendInterfaceDNS(f[n - 1], dns[n])
    <3>1. n - 1 \in 0..N
      OBVIOUS
    <3> QED
      BY <1>2, <3>1, Zenon DEF AppendsTo
  <2>2. SeenUpTo(n - 1, f[n - 1], declared)
    BY <1>4
  <2>3. declared[n] = AsText(dns[n]) /\ declared[n] \in T
    BY <1>1
  <2>4. CASE declared[n] \in ToSet(f[n - 1])
    <3>1. f[n] = f[n - 1]
      BY <2>1, <2>3, <2>4 DEF appendInterfaceDNS
    <3>2. 1..n = 1..(n - 1) \cup {n}
      OBVIOUS
    <3>3. {declared[j] : j \in 1..n} = {declared[j] : j \in 1..(n - 1)}
      BY <2>2, <2>4, <3>2 DEF SeenUpTo
    <3>4. SeenUpTo(n, f[n], declared)
      BY <2>2, <3>1, <3>3 DEF SeenUpTo
    <3> QED
      BY <3>4
  <2>5. CASE declared[n] \notin ToSet(f[n - 1])
    <3>1. f[n] = Append(f[n - 1], declared[n])
      BY <2>1, <2>3, <2>5 DEF appendInterfaceDNS
    <3>2. DOMAIN declared = 1..N
      BY <1>1
    <3>3. SeenUpTo(n, f[n], declared)
      BY <2>1, <2>2, <2>3, <2>5, <3>1, <3>2, AppendedInOrder
    <3> QED
      BY <3>3
  <2> QED
    BY <2>4, <2>5
<1>5. N \in Good
  <2> HIDE DEF Good
  <2>1. \A n \in 0..N : n \in Good
    BY <1>3, <1>4, UpTo
  <2> QED
    BY <2>1
<1>6. {declared[j] : j \in 1..N} = ToSet(declared)
  BY <1>1 DEF ToSet
<1> QED
  BY <1>2, <1>5, <1>6 DEF FirstSeen, InOrder, SeenUpTo

LEMMA DocumentResolvers ==
    ASSUME IInv, document # Unset
    PROVE  LET dns == DeclaredDNS(cfg.interfaces)
           IN FirstSeen(document.server, [n \in DOMAIN dns |-> AsText(dns[n])])
<1>1. cfg \in Offers /\ document = buildNMState(cfg.interfaces, cfg.routes)
  BY DEF IInv, Position, MadeOfTheConfig
<1>2. document.server = Resolvers(DeclaredDNS(cfg.interfaces))
  BY <1>1 DEF buildNMState
<1> PICK interfaces : interfaces = cfg.interfaces
  OBVIOUS
<1> DEFINE S == UNION {Range(interfaces[n].dns) : n \in DOMAIN interfaces}
           lists == [n \in DOMAIN interfaces |-> interfaces[n].dns]
<1>3. interfaces \in Seq(Range(interfaces))
      /\ \A i \in Range(interfaces) : i.dns \in Seq(Range(i.dns))
  BY <1>1, OfferAssumption DEF OfferAssumption
<1>4. \A n \in DOMAIN interfaces : interfaces[n].dns \in Seq(S)
  <2> TAKE n \in DOMAIN interfaces
  <2>1. interfaces[n].dns \in Seq(Range(interfaces[n].dns))
    BY <1>3 DEF Range
  <2>2. Range(interfaces[n].dns) \subseteq S
    OBVIOUS
  <2> HIDE DEF S
  <2> QED
    BY <2>1, <2>2
<1>5. lists \in Seq(Seq(S))
  <2>1. Len(interfaces) \in Nat /\ DOMAIN interfaces = 1..Len(interfaces)
    BY <1>3
  <2> HIDE DEF S
  <2>2. lists \in [1..Len(interfaces) -> Seq(S)]
    BY <1>4, <2>1
  <2> HIDE DEF lists
  <2> QED
    BY <2>1, <2>2
<1>6. FlattenSeq(lists) \in Seq(S)
  <2> HIDE DEF S, lists
  <2> QED
    BY <1>5, Flattened
<1>7. DeclaredDNS(interfaces) = FlattenSeq(lists)
  BY DEF DeclaredDNS
<1> HIDE DEF S, lists
<1> QED
  BY <1>2, <1>6, <1>7, ResolversInOrder

\* The document means the config: the methods and settings of every interface,
\* and a resolver list that is the declared one without repetitions, in the
\* order in which the interfaces first name them (network.go:229-233, 379-500,
\* 746-763).
THEOREM DocumentMeansConfigAlways == Spec => []DocumentMeansConfig
<1>1. IInv => DocumentMeansConfig
  BY DocumentInterface, InterfaceKeepsItsMeaning, DocumentResolvers
     DEF DocumentMeansConfig, DocumentKeepsTheMethods
<1> QED
  BY <1>1, AdmissionInvariance, PTL
=============================================================================
