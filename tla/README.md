# Edgecommander in TLA+

Specifications of `edgecommander` (module `servermaster`), the service that
brings a node to the state its `/etc/edgecommander.json` declares: hostname,
folders, files, host network, firewall, containers, and the OS image. The
modules are translated from the Go code; `PROJECT.json` maps every definition
to the lines it stands for. TLC checks the modules on small instances, TLAPS
proves the theorems for every value of the constants.

Contents: [the system](#the-system), [the modules](#the-modules),
[the runs](#the-runs), [fairness](#fairness), [the proofs](#the-proofs),
[disagreements](#disagreements-between-code-and-documentation),
[what is left out](#what-is-not-modelled), [the plan](#the-plan).

## The system

One process per node, started by systemd (`Restart=always`). It starts a web
server, reconciles the host with the config file once, and from then on acts
only on HTTP requests. `net/http` runs each request in a goroutine of its own;
the startup reconcile is one more.

| Component | Source | State it keeps | Operations |
|---|---|---|---|
| Orchestration | `orchestration.go`, `main.go`, `edgecommander.service` | `applyMu`, the config file | startup reconcile, `applyConfig` with its eight converging steps |
| HTTP API | `server.go` | none of its own | config upload, restart, image upload, upgrade, health, status |
| Config | `config.go`, parts of `network.go` | none | load, validate, build the network document |
| Durable files | `fileio.go` | files, their directories, temporary files | `writeConfigFile`, `streamToFileAtomic`, `syncDir` |
| Provisioning | `provision.go` | hostname, folders, files of the host | `ensureHostname`, `ensureFolders`, `ensureFiles` |
| Host network | `network.go` | nmstate document, live network, queue lengths | `configureHostInterfaces`, `removeNMStateDocument`, `applyTxQueueLengths` |
| Firewall | `firewall.go` | firewalld's runtime and permanent tables | open, make permanent, prune |
| systemd | `systemd.go` | units, jobs | `startPodmanSocket`, `ensureFirewalldRunning`, `waitForUnixSocket` |
| Containers | `podman.go` | Podman's containers and images | stop the undeclared, reconcile one by one |
| OS update | `ostree.go`, `server.go`, `exec.go` | staged image, deployments, reboot goroutines | upload, upgrade, reboot |
| Log ring | `log.go` | the last lines of the log | write (every logger), snapshot (status page) |
| Status page | `status.go`, `hoststats.go`, `networkstatus.go`, `hardware.go`, `ostree.go` | none, but some twenty readings put into one answer | collect the page |
| Packaging | `cmd/mkrpm` | none | build tool |

How they interact:

- A config upload and the startup reconcile call `applyConfig` under `applyMu`;
  an upload also saves the file under it. `applyConfig` calls provisioning, the
  network, the firewall, systemd and Podman in a fixed order and ends at the
  first error, except that a container that fails does not stop the others.
- The config file is shared: uploads write it, the startup reconcile, the OS
  update endpoints and the status page read it, the last three without a lock.
- firewalld, nmstate, systemd and Podman are processes of their own, which other
  administrators use too. They are modelled as external, from how the code calls
  them.
- A reboot (an endpoint, or the end of an upgrade) is a goroutine that runs
  `systemctl reboot` a second later. It takes no lock and ends everything.

What is hard about it: uploads against the reconcile and each other; a failure,
a kill, a reboot or a power loss between any two steps, with half of the host
changed; the durability of a file that was acknowledged; changes by others
between a query and the change that rests on it; progress, since one step
that does not return keeps `applyMu`; and checks made twice, by validation and by
the step, which must agree. `PROJECT.json` lists these hazards line by
line, each with the properties that cover it.

For each component, what makes it correct:

| Component | Correct when |
|---|---|
| Orchestration | applies never interleave; what is applied is what is on disk; an apply that leaves the host different from its file is not called a success; an acknowledged upload is never undone; every upload is answered; an outage is repaired |
| Durable files | nobody reads a cut-off file; what was acknowledged outlasts every outage |
| Config | whatever a step would refuse is refused before anything changes; documents, rules and containers say what was declared |
| Provisioning | what an apply has been through is as declared; what is not declared is left alone |
| Host network | boot applies only what was accepted; an accepted network outlasts a power loss |
| Firewall | after a success exactly the declared rules are open, now and after a reload; nobody is cut off on the way |
| systemd | a result belongs to the call that takes it; nothing blocks for ever |
| Containers | a failure is contained; the undeclared is down; the unchanged is untouched; retries converge |
| OS update | a partial image is never applied; a reboot follows only a success |
| Log ring | the ring is the end of the log, for every reader |
| Status page | "ok" leaves nothing out; a failure hides nothing else; what one page says fits together |

## The modules

| Module | Models | Notes |
|---|---|---|
| `NodeService` | `applyMu`, config upload, startup reconcile, the steps of `applyConfig`, crash, reboot, power loss | `DesiredState` is its abstract specification |
| `DesiredState` | the promise: the host is brought to the configuration on disk and to no other | abstract |
| `NetworkDocument` | `buildNMState`: which interfaces and routes are accepted, and the document made of them | operators, used by `ConfigValidation` |
| `ConfigValidation` | `validateConfig` and the parsers the steps share with it | operators, used by `Admission` |
| `Admission` | one config from its upload, or from the file at startup, through validation and every step that interprets it again | composes the two above |
| `AtomicFile` | both functions of `fileio.go`, one system call per step | implements `DurableRegister` |
| `DurableRegister` | a file that is always whole, and settled once it is synced | abstract; `AtomicFile` implements it, and `NodeService`'s config file and `HostNetwork`'s boot document are proved to be no more than it |
| `Firewall` | `configureFirewallPorts`, one D-Bus call per step | |
| `Containers` | `stopUnmanagedContainers`, `reconcileContainer`, one libpod request per step | |
| `HostNetwork` | `configureHostInterfaces`, one system call per step, nmstate at boot | |
| `Provision` | hostname, folders and files, one system call per step | |
| `SystemdUnit` | starting a unit, the library's result goroutine, the wait for the socket | |
| `OsUpdate` | image uploads, upgrades, `/restart`, the reboot goroutine | |
| `LogRing` | the logger's tee, the ring, snapshots | |
| `StatusPage` | the readings of a status page, one per step, while the host changes | extends `LogRing`, whose reader it is |
| `NodeServiceProofs`, `AdmissionProofs`, `AtomicFileProofs`, `FirewallProofs`, `ContainersProofs`, `ProvisionProofs` | the theorems about the module each is named after | |
| `HostProofs` | the theorems about `HostNetwork`, `SystemdUnit` and `OsUpdate` | their specifications are `Spec`, `UnitSpec` and `UpdateSpec` |
| `StatusPageProofs` | the theorems about `LogRing` and `StatusPage` | `PageSpec` implements `LogRing`'s `Spec` |
| `MCNodeService`, `MCAdmission`, `MCAtomicFile`, `MCFirewall`, `MCContainers`, `MCHostNetwork`, `MCProvision`, `MCStatusPage` | the small instances | values of constants, symmetry, initial states |

The modules form two levels. `NodeService` has the concurrency of the whole
process, and takes each step of `applyConfig` and the config file as a whole.
The modules of the steps open them up, one call at a time; none of them needs
the lock, because `ApplyUsesDisk` and `AppliedPrefix` say that one apply runs at
a time. `AtomicFile` justifies the config file `NodeService` works with: it
implements `DurableRegister` (`IsRegister`), and `disk` and `survivors` are the
`value` and `possible` of another instance of it (`ConfigFileIsRegister`). `Admission` justifies that a configuration is one value in
`NodeService`, good or bad: `RefusalsComeFirst` says that no step finds a fault in
a config validation let through, except for an account it names that has gone since.

### State and actions against the code

- **NodeService.** An operation is an upload or the startup reconcile (`Startup`).
  `pc` says where its goroutine is: waiting for `applyMu`, reading or saving the
  file, syncing the directory, applying, done. `lock` is `applyMu`. `host[s]` is
  the configuration step `s` of `applyConfig` has last brought its part of the
  host to, or `Drift` when it failed half way. `disk` is the config file and
  `survivors` what it may be after a power loss. `outcome` and `resp` are what
  was logged or answered. Each early return of `applyConfig` is `StepFails`.
- **NetworkDocument, ConfigValidation.** Operators named after the functions they
  translate. A text is the value of the form its parser tells apart: an address is
  its form (IPv4, IPv6, IPv4 mapped into IPv6, or no address) with a net and a
  host, a number that does not parse is `NaN`, a hostname is its labels' lengths
  (one empty label is the empty text, no hostname).
  `net` and `net/netip` classify a mapped address differently (`To4`, `Is4`), and
  the code uses both.
- **Admission.** `pc` is who looks at the config next: the handler, the file,
  `applyConfig`, then each step. `changed` is what it has changed, `refused` who
  refused it, `document`, `rules` and `specs` what was made of it. `accounts` are
  the users and groups of the host, which may change at any time; `stale` is history:
  one the config names has gone since it was validated.
- **AtomicFile.** An inode per call; `dest` is what the final name refers to and
  `survivors` what it may refer to after a power loss; data that was not fsynced
  may be missing. `function` and `fresh` never change: which of the two functions
  is called, and whether `os.MkdirAll` had to create the directory.
- **Firewall.** `runtime` and `permanent` are tables of rules per zone. `pc` is
  the D-Bus call to be made next. A rule that is spelled in another way than
  firewalld lists it is a `Variant` of its `Canonical` form. Ports are atoms: that
  firewalld merges ranges that overlap or touch is left out. Others reload firewalld, change the default
  zone, and add and remove rules between any two calls.
- **Containers.** `podman` says which container has each name, its state, its
  hash label and its port. A request may fail with or without its effect, and a
  forced removal that fails may have stopped the container first. The hash is the
  declared record itself. `touched` is history: the containers others have changed
  since the apply looked at them or stopped them.
- **HostNetwork.** `file` is what the nmstate document is now and `durable` what
  it may be after a power loss; `live` is the network nmstate has applied.
  `buildNMState` is the document it yields.
- **Provision.** `fs` is a function from paths to nodes with kind, content, mode
  and owner. Modes are numbers, since the code converts them. An owner is a user and
  a group, and a config may leave out either. `os.MkdirAll` is one `mkdir` per
  missing parent, each of which can fail or be the last before a kill.
- **SystemdUnit.** `chan[c]` is the channel call `c` made; the library's goroutine
  sends a job's result to the channel registered for it, however late.
- **OsUpdate.** `up` and `ug` are the handlers at work; `staged` the file at each
  staging path; `booting` the deployment of the next boot; `timers` the reboot
  goroutines that sleep, each with the number of the upgrade that asked for it, or
  that of `/restart`. Staging takes `AtomicFile`'s result for granted, whose rename is
  atomic, and no power loss is modelled here. A request that finds no readable
  config is answered with an error and changes nothing: it is no action.
- **LogRing.** `journal` is all that was logged, `ring` what the code keeps. A
  write is the two steps of `io.MultiWriter`, under the logger's own mutex.
- **StatusPage.** `step` is the next reading, `local` what the collectors keep
  between two of them (mount points to measure, devices seen, names of links, links
  whose addresses are still to be read, the first CPU sample), `page` what is shown and `errors` what `status.Errors` is
  about. `failed`, `still` and `ran` are history, for the properties. Figures are
  left out, except the CPU counters, which have a width and wrap.

## The runs

Constants are small sets of model values; the bounds are in the `.cfg` files.

| Run | Bounds | Shows |
|---|---|---|
| `node_safety` | two uploads, two configs, one failure, two outages | the safety properties of the service and, as `PromiseKept`, that it implements `DesiredState` |
| `node_liveness` | two uploads, one config, one failure, one outage | `EveryUploadAnswered`, `OutageIsRepaired` |
| `admission` | some 7,000 configs, two changes of accounts | refusals come before changes; document, rules and containers say what was declared |
| `atomic_file` | three calls, two readers, two failures, two outages | no cut-off file, durability, and, as `IsRegister`, that the calls implement `DurableRegister` |
| `firewall` | two zones, a port, another spelling of it, a rich rule, a service; five lists | enforcement, reachability, order, stability, reloads |
| `containers` | two declared names and a stray one; five lists | containment, convergence, no needless restarts, image before removal, and a bound on the number of requests |
| `host_network` | three networks, two failures, two boots | only accepted documents at boot, durability of a success |
| `host_network_stale` | one boot | a disagreement, below |
| `provision_safety` | five configs, fourteen file systems, two failures or outages | declared so far, undeclared untouched |
| `status_page` | three mount points of two disks, three links, two containers, one failing reading, two changes of the host; two loggers, five lines, a ring of two | "ok" is complete, failures hide nothing else, routes name links of the page, CPU use is a share, the log is the end of the journal |
| `systemd_unit` | three calls, one stop by somebody else | results are taken, and by the right call; calls return |
| `os_update` | two uploaders and upgraders, two images and paths, one reboot, one config | only whole images boot, a reboot follows a success |

Why the bounds are enough to be interesting:

- Two uploads and the startup reconcile are the three kinds of competition for
  `applyMu`; two configurations tell old from new, and `node_safety` has an outage
  while the service recovers from another. Failures are capped because each is
  independent of the others: one is enough for a partial apply, and a second
  operation then starts from it.
- Three calls of `streamToFileAtomic` let a sync of one settle a rename of the
  second while the third is between its own two steps.
- In `admission` each config is one that is accepted, with one part of it (an
  interface, a route, a folder, a container, ...) taking every combination of the
  values its checks tell apart. The parts are checked independently of each other,
  except the resolvers of interfaces and the ports of containers, which come in
  pairs.
- In `firewall` any runtime and permanent tables are initial states (4096 pairs),
  since the host was administered by others before; `MCFirewall` gives these a
  failing call, and a freshly installed firewalld two changes by others. The lists
  have an entry without a zone, a repeated rule, both zones, another spelling of
  the port, and an unknown zone.
  `ssh` provides the declared port, so that pruning services can cut someone off.
- In `containers` any containers of others are initial states; two lists exchange
  host ports, one changes a setting and an image, one names a container twice.
- `provision_safety` starts from a missing, a differing and a matching file, and
  from a directory in the way of a file, or a file in the way of a folder. One config
  names paths twice, one puts a file where a folder above has just been made, and
  owners are a user, a group, both or neither.
- In `status_page` the lines logged and the moves of the CPU counters are combined
  with failures and changes of the host only as far as they can meet (`MCNext`):
  the log is one reading, and the counters are two.

The bounds (`MaxFaults`, `MaxOutages`, `MaxBoots`, `MaxMeddling`, `MaxUploads`,
`MaxLines` and so on) appear only in the guards of failures, of steps of others,
and of what starts an operation: a request, a reconcile, a line to log. Once it
has started, no step of an operation has a bound that is not in the code. Runs say `CHECK_DEADLOCK FALSE` where all
requests of the instance may have been served.

Symmetry is used in `node_safety` (uploads, configurations) and `atomic_file`
(calls), in which no liveness property is checked: the values are model values
that no definition orders.

Every property has a mutant: a definition next to the one it changes, named
after it with an underscore (`LockIsFree_Ignored`), with which TLC finds the
property violated. The mutants are not part of any behaviour.

## Fairness

- `NodeService`: weak fairness of each step of an operation that runs, outside
  firewalld, since each has a deadline (`exec.go:18-22`, `network.go:19-25`,
  `systemd.go:12-18`, the ten minutes of `orchestration.go:127`); strong fairness
  of taking `applyMu`, because Go's mutex hands itself over to a waiter that has
  starved; weak fairness of `Boot`, because of `Restart=always`. The D-Bus calls
  of `firewall.go` have no deadline, so `EveryUploadAnswered` and
  `OutageIsRepaired` exempt the behaviours that stay in the firewall step for ever.
  One wait is left out: `runCommand` sets no `WaitDelay` (`exec.go:29-30`), so a command
  that is killed at its deadline but has left a child with its output open keeps
  `CombinedOutput`, and `applyMu`, until that child ends.
- `SystemdUnit`: the call's own goroutine, its deadline and the library's
  goroutine run; nothing is assumed of systemd, whose job may never end.
- `Containers` assumes nothing: that an apply ends is stated as a number that
  every request decreases (`RequestsAreBounded`), and so it is proved, without a
  run, of `Firewall` and `Provision`. The other modules state no liveness.

## The proofs

TLAPS checks every step of these (Z3, Zenon, and LS4 for the temporal ones).

`NodeServiceProofs`, for any non-empty set of configurations, any uploads, and
any bounds (`NodeServiceAssumption`):

- `TypeCorrect`, `ApplyUsesDiskAlways`, `AppliedPrefixAlways`,
  `DriftIsReportedAlways`, `AckedUploadAlwaysSurvives` are the safety properties
  of `node_safety`; `KeepsPromise` is its refinement of `DesiredState`.
- The argument is one inductive invariant (`Invariance`):
  `IInv == TypeOK /\ LockInv /\ HostInv`. `LockInv` says that whoever is between
  taking and releasing `applyMu` holds it (`Mutex`), has read or parsed its
  configuration by the time it applies it (`Parsed`), works on what the file
  holds (`OwnsDisk`), and that nobody runs when the process is down
  (`DownIsIdle`). `HostInv` says that the steps done so far hold the
  configuration being applied (`AppliedPrefix`) and that after a success all of
  them do (`OkHolds`). `ApplyUsesDisk` is not inductive alone: without `Mutex`
  another upload could rename its file, and without `OwnsDisk` nothing says what
  an operation holds between its rename and its first step.
- `AckedUploadAlwaysSurvives` adds `AckInv`: the file is that of the last saved
  upload, an outage can leave only what was saved since the last sync, and a saved
  upload does not change its configuration any more.
- `LockIsNeverLeaked` and `HoldIsAlwaysBounded` are what `EveryUploadAnswered` comes
  down to, but for the fairness: who has `applyMu` is in the running process and at
  work (`HolderWorks`), and each of its own steps leaves less to do (`WorkLeft`) until
  it gives the lock back, at most `Last + 2` steps after it took it.
- `ConfigFileIsRegister` is the refinement: every step of the service reads, replaces,
  settles or loses the file as `DurableRegister` allows.

`AtomicFileProofs`, for any calls, readers, failures and outages
(`AtomicFileAssumption`): `NeverPartialAlways`, `AckedSurvivesAlways`, and
`ImplementsRegister`, the refinement of `DurableRegister`. The invariant says that
a call's inode is private until its rename and synced by then (`CallInv`), so that
every name and every descriptor is `Safe`; that a call that has renamed its file is
in the list of renames, and the destination names its file or a later one
(`RenameInv`); and that a directory that is not durable is a fresh one (`FreshInv`).

`FirewallProofs`, for any zones, rules, services, spellings, lists, tables,
failures and changes by others (`FirewallAssumption`): `EnforcedAlways`,
`OpenBeforeCloseAlways`, `NeverCutOffAlways`, `SteadyIsLeftAloneAlways`,
`PermanentSurvivesReloadAlways`. None of them is inductive: the invariant says
where an apply is (`PlaceInv`), that the elements before `i` are open, in the
runtime table first, and are held from the pruning on (`OpenInv`), that the zones
done, and the kinds before the one under way, are clean (`PruneInv`), and that a
host on which all was in force is as it was (`SteadyInv`). Each part is guarded by
what others have left alone since the apply began, as the properties are.
`CallsAreAlwaysBounded` says that an apply ends if its calls do. Its measure is
ordered lexicographically: the calls left for the elements still to open, the
tables still to prune, the set of zones still to look at, the kinds left for the
zone, the set of rules left of the kind. Zones and rules are read from firewalld
once before they are gone through, so nothing others do meanwhile adds to them.

`ContainersProofs`, for any finite set of names, any lists, hosts, failures and
commands of others (`ContainersAssumption`): all six properties of the run. The
invariant has the place of an apply (`PlaceInv`), what is known of the element
under way while nobody meddles (`ElementInv`: the image is here before the
removal, the answer of the existence check still holds, what is started was just
created), that the elements before it run as declared or are reported
(`DoneSoFar`), and what applies without a flaw leave (`SmoothInv`).
`SecondApplyConvergesAlways` is the one that needs thought: after a first flawless
apply every element has a container with its own port, even one that could not
start (`OwnAtEnd`), so in a second one no other container can hold the port of the
one being started (`SecondCanStart`). `RequestsAreBoundedAlways` proves that every
request decreases `RequestsLeft`. Working on these proofs led to the present form
of `RemovedOnlyWithImage`, which also says that what nobody declares is kept.
`UnmanagedIsDown` needs no undisturbed apply: it leaves out the containers others
have changed since the list was read or their own stop (`touched`), and rests on what
the list and each stop have left of the others (`WillStop`).

`AdmissionProofs`, for any set of configs that were read (`OfferAssumption`: lists
are lists, addresses and prefixes are of their kinds and no longer than their
family, and nothing is taken for a field left out; accepted or not), any accounts
and any changes to them: `RefusalsComeFirstAlways`, `AddressesKeepFamilyAlways`,
`MappedPortsAreDeclaredAlways` and `DocumentMeansConfigAlways`. The invariant has a `Promise`: from the
validation on, what it accepted still holds, unless an account it names has gone
since (`AcceptedWhileNamedStay`: no other change of the accounts matters), and the parts in which no account is named hold in any case
(`AcceptedForever`). Every step then accepts what it finds (`EnsureEntryKeeps`,
`configureHostInterfacesKeeps`), which is what "refused by a step only when an
account has gone" comes down to. `MadeOfTheConfig` says that the document, rules
and containers were made of an accepted config, so that the other three
theorems are facts about the operators: `IPv4Settings` and `IPv6Settings` say
which stack each accepted combination of an address and a method becomes, and
`PortsFit` that a port in range is its own remainder. The resolver list is the one
part that is computed by recursion, over the lists of all interfaces: that it has
each declared resolver once, in the order of its first mention
(`ResolversInOrder`), is proved by looking at the first place where it would fail
(`LeastOf`, from the well-founded order of the naturals), since an induction theorem
that takes a predicate cannot be instantiated here. `UpTo` and `Recursion` derive
from it that such a recursive function exists and obeys its equation.

`ProvisionProofs`, for any tree of paths, configs, file systems, failures and
outages (`ProvisionAssumption`: `Parent` leads to a path or the root, configs have
entries of the declared types, file systems are functions from paths to nodes):
`ProvidedSoFarAlways` and `KeepsTheUndeclaredAlways`. `InProgress` says what the
calls before `pc` have done for the entry at hand: a folder exists, and has its
owner, before its mode is set; a file has its content before its mode, and its
mode before its owner. What a later entry may do to an earlier one is the crux:
`ProvidedSoFar` asks an entry to be as declared only where no later entry names
its path (`Current`), and creating a path can only fill what is absent above it,
so `FoldersProvided` and `FilesProvided` are kept by the entries after them.
`CallsAreAlwaysBounded` counts the calls that are left (`CallsLeft`, three for a folder
and five for a file, those of `os.MkdirAll` being one): each takes one off at least, or
is a `mkdir` that leaves fewer paths absent, and only a restart begins anew.

`HostProofs` has three components, which share nothing but the module:

- `HostNetwork`, for any networks, failures, kills and power losses
  (`HostNetworkAssumption`): `OnlyAcceptedAtBootAlways` and
  `RebootKeepsNetworkAlways`. The invariant follows the document of the apply from
  the temporary file (written, then synced, then accepted) to its name and to the
  synced directory; whatever has the name was accepted once. `BootDocumentIsRegister`
  proves that what nmstate.service may find is a `DurableRegister`, which only the
  directory's sync, or the kernel's writing back, settles.
- `SystemdUnit`, for any number of calls (`SystemdUnitAssumption`):
  `ResultIsOwnAlways`. What matters is that only the call that waits is registered
  (`OneWaits`), and that a "done" on its way to it is of a job later than its
  request (`OnItsWay`). `SenderIsNeverBlocked` is what `ResultsAreTaken` comes down to,
  but for the fairness: a channel of its own for each call, with room for the one
  result of its one job (`OneJobPerCall`).
- `OsUpdate`, for any images, paths, handlers and reboots:
  `PartialIsNeverAppliedAlways` and `RebootFollowsSuccessAlways`, from: what has the
  name of a staging path is whole, what an upgrade has opened is whole, what it
  answers for it has itself deployed.

`StatusPageProofs`, first about the ring, for any ring size, writers, readers and
lines (`LogRingAssumption`): `RingIsTheTailAlways` and `SnapshotIsCurrentAlways` from
`RingInv`, which says what the ring is at each point of a write; the step that
matters is `TrimIsLastOf`, that appending and trimming yields the tail of the
longer journal. `PageReadsTheRing` proves that a page with all that goes on around
it is a behaviour of the ring, so that both hold of pages too.

Then about the page, for any mount table, disks, links, routes, containers,
deployments, readings that fail and changes of the host between two readings, and
counters of any width (`StatusPageAssumption`: a counter moves by less than its
width between the two samples, one deployment is booted, the root is mounted):
`OkMeansCompleteAlways`, `FailuresHideNothingElseAlways`,
`RoutesNameTheirLinkAlways`, `CpuNeverOverstatedAlways`. The invariant says, collector
by collector, what the ones before `step` have left. The one of the disks is the
hard one: a device that was seen is on the page, has failed, or is the one under
measure (`SeenIsReported`, `UnderMeasure`), a mount that is no longer to be
measured failed or is of a device that was seen (`MountsAreTaken`), so that at the
end every device was handled (`DevicesAreHandled`); all this of the devices whose
mounts have not changed meanwhile (`still`), and, while none has, no device is there
twice (`OncePerDevice`). For the CPU, the two samples are as far apart as the host
moved its counters between them (`CountersStand`, `ran`), modulo their width.

The type invariants are part of the inductive invariants and are proved with
them; no run is spent on them.

Every invariant and action property of the runs is proved. Only model-checked are
the four liveness properties (`EveryUploadAnswered`, `OutageIsRepaired`,
`ResultsAreTaken`, `CallsReturn`): they rest on fairness and ENABLED, which are beyond
TLAPS. Of the first and the third the part without fairness is proved, as named
above: the lock is held for a bounded number of steps, the sender has room. The counterexample of
`host_network_stale` is a run. `HostnameLength`, a sum over the labels, is left
unexpanded by the proofs: they need that a name is accepted or not, not what it
adds up to. No module declares a RECURSIVE operator.

The bounds in those theorems (`Closer`, `CallsLeft`, `WorkLeft`) were checked by TLC on
the instances of the runs before they were proved.

## Disagreements between code and documentation

One has a run, which shows the behaviour as a counterexample:

- `host_network_stale` (`network.go:126`): the removal of the nmstate document is
  not followed by a sync of its directory. After a power loss nmstate.service can
  reapply the withdrawn network, which `network.go:122-124` says the removal is for.

Others were met while modelling. The properties are stated around them, and name
the exception:

- `provision.go:203`: a declared mode such as 1777 is accepted and 0777 is set,
  because `os.FileMode` keeps setuid, setgid and sticky in other bits.
  `provision.go:155-156` says the file lands at exactly the requested permissions.
  `ProvidedSoFar` asks for the lower nine bits.
- A mapped subnet such as `::ffff:10.0.0.0/120` passes validation, and its address
  becomes an IPv4 one with prefix length 120 (`network.go:386-398`).
  `AddressesKeepFamily` leaves the prefix of such an address out. (A mapped subnet
  shorter than 96 bits is an IPv6 network to `net.ParseCIDR`: `Subnet4`.)
- `config.go:463-488` accepts a port in a spelling firewalld does not list, such as
  "080". It is opened, and then closed again as undeclared, at every apply.
  `Enforced` speaks of the rules firewalld can list (`Wanted`).
- `hoststats.go:69-73` says a filesystem mounted at several paths is reported once.
  A device counts as seen before its numbers are read: when its first mount is
  unmounted between `stat` and `statfs`, or its `statfs` fails, its other mounts are
  skipped too. In the first case the page is still "ok". `OkMeansComplete` and
  `FailuresHideNothingElse` speak of devices whose mounts stayed and could be read.
- The CPU use is shown as 0 when iowait goes back, as the counters of `/proc/stat`
  may (`hoststats.go:355-363`); `CpuNeverOverstated` allows it.
- A hostname of up to 253 characters is accepted (`config.go:200`); Linux takes 64,
  so the apply of a longer one fails at its first step.
- Owners written as numbers are accepted without a look at the accounts, negative
  ones too (`provision.go:228-256`); -1 leaves the owner as it is.
- `provision.go:115-116` calls rewriting a matching file harmless. `os.WriteFile`
  truncates it in place first, so at every reconcile a container that reads it in
  between finds it empty or cut off (actions `OpenFile` and `WriteFile`).
- `config.go:360` accepts a list that names a container twice. Each entry then
  replaces the other's container at every reconcile, though nothing changed
  (`README.md:493` of the repository). `NeverRestartsCurrent`,
  `FailuresAreContained` and `SecondApplyConverges` are stated for distinct names.
- `firewall.go:213-215` says an empty zone resolves to the zone firewalld
  substitutes. The code reads the default zone at line 67 and firewalld
  substitutes the current one at each call: if it changes in between, a rule
  without a zone is opened in the new default zone and pruned there again, and
  the apply succeeds. `PermanentSurvivesReload` covers entries with a zone only.
- `fileio.go:32-33` says an upload survives a power loss. When `os.MkdirAll`
  creates the directory its parent is never fsynced, so the directory itself may
  be missing then. `AckedSurvives` allows this one outcome, and no other.

## What is not modelled

- The listener (`listen`, `listenUnix`, `startWebServer` and its shutdown), the
  routes and the health page. `listenUnix` removes whatever socket has its name,
  also one a second instance serves (`server.go:161`); no promise is made about it.
- The upload path is read from the config again at each request (`server.go:299`):
  `OsUpdate` has a config that moves it, and an upgrade then finds the file of the
  new path. A kill while a temporary file is open leaves it behind
  (`fileio.go:47`), which nothing promises to remove.
- The figures of the status page: units, percentages, the parsing of `/proc`,
  `resolv.conf` and DMI records, interface counters, a container's log frames, and
  which field of an OS tool's JSON is shown as what.
- The characters of names, images, protocols, CPU sets and volumes: a name is a
  value that passes or does not. The path of the config file and the spelling of
  its JSON fields.
- The rendering of the network document as YAML, and `createSpec`'s environment,
  devices and limits, which nothing interprets again.
- Decoding of file contents and lookups of users: a content, a user, a group is a
  value.
- The making of `/etc/nmstate` (`network.go:150`), whose parent is not synced: as with
  the config file, a power loss could take a fresh directory with its document.
- Rules an administrator adds or removes in the middle of an apply, as far as
  properties go: they are actions of `Firewall`, and whatever they do is exempt, since
  the code promises nothing about them.
- An operator's own `ostree.apply_command`: the default switch onto the staged
  image stands for it.
- The command line and the packaging tool.
- Writers of the same paths outside the process, and disks that lie about fsync.

## The plan

Done, in this order: `NodeService` with `DesiredState`, `AtomicFile` with
`DurableRegister`, `Firewall`, `Containers`, `HostNetwork`, `Provision`, `LogRing`,
`SystemdUnit`, `OsUpdate`; then `NetworkDocument`, `ConfigValidation` and
`Admission`, and `StatusPage`; and the proofs about all of them.

Next, modules:

1. The listener's start and stop, and a second instance.
2. `NodeService` opened up: its config file as an instance of `AtomicFile`, one
   apply step as an instance of `Firewall` or `Containers`.

Next, theorems:

1. What `createSpec` makes of mounts and capabilities, as `MappedPortsAreDeclared`
   says of ports; no run states it yet.
2. What `NodeService` takes for granted of the steps, as an instance of their
   modules: that a firewall step that succeeds leaves `Enforced`. That a step ends is
   proved of `Firewall`, `Containers` and `Provision`; `NodeService` states it of all.
