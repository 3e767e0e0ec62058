------------------------------ MODULE StatusPage ------------------------------
(***************************************************************************)
(* collectEdgecommanderStatus (status.go:40-94): one page is put together  *)
(* from some twenty readings of the host, one after the other and without  *)
(* a lock, while disks are mounted and unmounted, links come and go,       *)
(* containers stop, an OS image is staged and other goroutines log.  A     *)
(* reading that fails is told on the page, which is then "degraded".       *)
(*                                                                         *)
(* The log of the page is the ring of LogRing, whose readers are the page  *)
(* requests; one of them is followed here.                                 *)
(***************************************************************************)
EXTENDS Integers, FiniteSets, LogRing

CONSTANTS
    Table,          \* mount points in the order of /proc/mounts
    Root,           \* the first of them
    Device, Gone,
    Index, LinkName,
    Container,
    Width,          \* the counters of /proc/stat are Width-valued
    Worlds,         \* the states the host may be in when the request comes
    Ticks,          \* what the counters may move by between two samples
    MaxFaults,      \* bound: readings that fail by themselves
    MaxEvents       \* bound: changes of the host

Mount == {Table[m] : m \in DOMAIN Table}
Part == {"hostname", "config", "ostree", "mounts", "memory", "cpu", "uptime",
         "inventory", "links", "addresses", "routes", "list"}
Update == [id |-> "staged", booted |-> FALSE]
Deployment == {Update} \cup UNION {{w.deployments[n] : n \in DOMAIN w.deployments} : w \in Worlds}

\* The root is mounted and stays so, one deployment is booted, the counters move
\* by less than their range between two samples, and no container has the name
\* of a mount point or a part.
ASSUME StatusPageAssumption ==
    /\ Table \in Seq(Mount) /\ Table # <<>> /\ Root = Table[1]
    /\ Gone \notin Device
    /\ Container \cap (Mount \cup Part) = {}
    /\ Width \in Nat \ {0}
    /\ \A t \in Ticks : t.busy \in Nat /\ t.idle \in Int /\ t.busy + t.idle < Width
    /\ \A w \in Worlds :
          /\ DOMAIN w = {"mounted", "links", "routes", "running", "deployments", "tools", "stat"}
          /\ w.mounted \in [Mount -> Device \cup {Gone}] /\ w.mounted[Root] # Gone
          /\ w.running \subseteq Container
          /\ w.deployments \in Seq(Deployment)
          /\ \E n \in DOMAIN w.deployments : w.deployments[n].booted
          /\ w.stat \in [total : 0..(Width - 1), idle : 0..(Width - 1)]

VARIABLES
    host,       \* mounted, links, routes, running, deployments, tools, stat
    step,       \* the next reading
    local,      \* todo, seen, names, unread, before, list: what the collectors keep meanwhile
    page,       \* ostree, disks, cpu, interfaces, routes, containers
    errors,     \* the parts that status.Errors is about
    failed,     \* history: the readings that failed and have no fallback
    still,      \* history: the devices, links and containers that have not changed
    ran,        \* history: what the counters moved by between the samples
    faults, events

ring == <<journal, lines, logging, pc, taken>>
pageVars == <<ring, host, step, local, page, errors, failed, still, ran, faults, events>>
history == <<still, ran, events>>

Nothing == [ostree |-> Gone, disks |-> <<>>, cpu |-> [used |-> 0, total |-> 1],
            interfaces |-> {}, routes |-> {}, containers |-> {}]

PageInit ==
    /\ Init
    /\ host \in Worlds
    /\ step = "hostname"
    /\ local = [todo |-> {}, seen |-> {}, names |-> <<>>, unread |-> {},
                before |-> host.stat, list |-> {}]
    /\ page = Nothing
    /\ errors = {}
    /\ failed = {}
    /\ still = [devices |-> Device, links |-> DOMAIN host.links, running |-> host.running]
    /\ ran = [busy |-> 0, idle |-> 0]
    /\ faults = 0
    /\ events = 0

-----------------------------------------------------------------------------
(* Readings. *)

Quiet == UNCHANGED <<ring, host, history>>
Works == UNCHANGED <<failed, faults>>
Fault == faults < MaxFaults /\ faults' = faults + 1
Fails(what) == Fault /\ failed' = failed \cup {what}
Told(part) == errors' = errors \cup {part}

\* A part that is one reading, or several that must all succeed; its figures
\* are left out.
ReadPart(part, next) ==
    /\ step = part
    /\ \/ Works /\ UNCHANGED errors
       \/ Fails(part) /\ Told(part)
    /\ step' = next
    /\ UNCHANGED <<local, page>>
    /\ Quiet

collectHostnameInto == ReadPart("hostname", "config")
loadConfig == ReadPart("config", "rpm")
collectMemoryStatus == ReadPart("memory", "cpu")
collectUptimeStatus == ReadPart("uptime", "inventory")
collectInventoryInto == ReadPart("inventory", "links")

First(S) == CHOOSE n \in S : \A k \in S : n <= k

\* The booted deployment, or the first.
parseRPMOstreeStatus(deployments) ==
    LET booted == {n \in DOMAIN deployments : deployments[n].booted}
    IN deployments[IF booted # {} THEN First(booted) ELSE 1]

\* rpm-ostree, else bootc, else ostree admin; the first that answers counts,
\* and only when none does is something wrong.
Fallback == [rpm |-> "bootc", bootc |-> "ostree", ostree |-> "mounts"]

collectOstreeStatus ==
    /\ step \in DOMAIN Fallback
    /\ \/ /\ step \in host.tools
          /\ Works
          /\ page' = [page EXCEPT !.ostree =
                         IF step = "rpm" THEN parseRPMOstreeStatus(host.deployments)
                         ELSE CHOOSE d \in {host.deployments[n] : n \in DOMAIN host.deployments} :
                                  d.booted]
          /\ step' = "mounts"
          /\ UNCHANGED errors
       \/ /\ IF step \in host.tools THEN Fault ELSE UNCHANGED faults
          /\ step' = Fallback[step]
          /\ IF step = "ostree" THEN Told("ostree") /\ failed' = failed \cup {"ostree"}
             ELSE UNCHANGED <<errors, failed>>
          /\ UNCHANGED page
    /\ UNCHANGED local
    /\ Quiet

\* The lines of /proc/mounts with a /dev device, taken in order.
readDiskMounts ==
    /\ step = "mounts"
    /\ \/ /\ Works
          /\ local' = [local EXCEPT !.todo = {n \in DOMAIN Table : host.mounted[Table[n]] # Gone}]
          /\ step' = "stat"
          /\ UNCHANGED errors
       \/ /\ Fails("mounts")
          /\ Told("disk")
          /\ step' = "memory"
          /\ UNCHANGED local
    /\ UNCHANGED page
    /\ Quiet

\* Where nothing is mounted any more, a path is on the disk of the root.
DeviceAt(m) == IF host.mounted[m] # Gone THEN host.mounted[m] ELSE host.mounted[Root]

Point == Table[First(local.todo)]
NextMount == local' = [local EXCEPT !.todo = @ \ {First(@)}] /\ step' = "stat"

\* A device counts as seen before its numbers are read.
Measure == /\ step' = "statfs"
           /\ local' = [local EXCEPT !.seen = @ \cup {DeviceAt(Point)}]
StatResult_EveryPoint == Measure
StatResult == IF DeviceAt(Point) \in local.seen THEN NextMount ELSE Measure

statMount ==
    /\ step = "stat"
    /\ IF local.todo = {} THEN step' = "memory" /\ Works /\ UNCHANGED <<local, errors>>
       ELSE \/ Works /\ StatResult /\ UNCHANGED errors
            \/ Fails(Point) /\ Told("disk") /\ NextMount
    /\ UNCHANGED page
    /\ Quiet

diskStatusForPath ==
    /\ step = "statfs"
    /\ \/ /\ Works
          /\ page' = [page EXCEPT !.disks = Append(@,
                         [path |-> Point, device |-> DeviceAt(Point)])]
          /\ UNCHANGED errors
       \/ Fails(Point) /\ Told("disk") /\ UNCHANGED page
    /\ NextMount
    /\ Quiet

-----------------------------------------------------------------------------
(* CPU. *)

Minus(a, b) == (a - b) % Width

cpuUsedPercent_Unguarded(before, after) ==
    LET total == Minus(after.total, before.total)
        idle == Minus(after.idle, before.idle)
    IN [used |-> Minus(total, idle), total |-> IF total = 0 THEN 1 ELSE total]

cpuUsedPercent(before, after) ==
    LET total == Minus(after.total, before.total)
        idle == Minus(after.idle, before.idle)
    IN IF total = 0 \/ idle > total THEN [used |-> 0, total |-> 1]
       ELSE [used |-> total - idle, total |-> total]

readCPUTimes ==
    /\ step = "cpu"
    /\ \/ /\ Works
          /\ local' = [local EXCEPT !.before = host.stat]
          /\ step' = "sample"
          /\ UNCHANGED errors
       \/ Fails("cpu") /\ Told("cpu") /\ step' = "uptime" /\ UNCHANGED local
    /\ UNCHANGED page
    /\ Quiet

\* The wait is over: iowait, a part of idle, may have gone back.
collectCPUStatus(tick) ==
    /\ step = "sample"
    /\ LET stat == [total |-> (host.stat.total + tick.busy + tick.idle) % Width,
                    idle |-> (host.stat.idle + tick.idle) % Width] IN
       /\ host' = [host EXCEPT !.stat = stat]
       /\ ran' = tick
       /\ \/ /\ Works
             /\ page' = [page EXCEPT !.cpu = cpuUsedPercent(local.before, stat)]
             /\ UNCHANGED errors
          \/ Fails("cpu") /\ Told("cpu") /\ UNCHANGED page
    /\ step' = "uptime"
    /\ UNCHANGED <<ring, local, still, events>>

-----------------------------------------------------------------------------
(* Network. *)

linkList ==
    /\ step = "links"
    /\ \/ /\ Works
          /\ local' = [local EXCEPT !.names = host.links, !.unread = DOMAIN host.links]
          /\ page' = [page EXCEPT !.interfaces = {[index |-> x, name |-> host.links[x]] :
                                                      x \in DOMAIN host.links}]
          /\ step' = "addresses"
          /\ UNCHANGED errors
       \/ Fails("links") /\ Told("network") /\ step' = "list" /\ UNCHANGED <<local, page>>
    /\ Quiet

\* The addresses of one link after the other; a link that has gone in the
\* meantime keeps its entry without them, and the kernel may call that an error.
\* Its speed, read from sysfs under its name, has no error to tell, and is left
\* out like the other figures.
addrList ==
    \E x \in local.unread :
        /\ step = "addresses"
        /\ \/ Works /\ UNCHANGED errors
           \/ Fails("addresses") /\ Told("network")
           \/ /\ x \notin DOMAIN host.links
              /\ failed' = failed \cup {"addresses"}
              /\ Told("network")
              /\ UNCHANGED faults
        /\ local' = [local EXCEPT !.unread = @ \ {x}]
        /\ UNCHANGED <<step, page>>
        /\ Quiet

\* nameByIndex, as it was when the links were listed.
convertRoute_Live(x) == [index |-> x, interface |-> host.links[x]]
convertRoute(x) ==
    [index |-> x, interface |-> IF x \in DOMAIN local.names THEN local.names[x] ELSE ""]

\* resolv.conf, read last, has no error to tell.
routeList ==
    /\ step = "addresses"
    /\ local.unread = {}
    /\ \/ /\ Works
          /\ page' = [page EXCEPT !.routes = {convertRoute(x) : x \in host.routes}]
          /\ UNCHANGED errors
       \/ Fails("routes") /\ Told("network") /\ UNCHANGED page
    /\ step' = "list"
    /\ UNCHANGED local
    /\ Quiet

-----------------------------------------------------------------------------
(* Containers. *)

listContainers ==
    /\ step = "list"
    /\ \/ /\ Works
          /\ local' = [local EXCEPT !.list = host.running]
          /\ step' = "inspect"
          /\ UNCHANGED errors
       \/ Fails("list") /\ Told("containers") /\ step' = "log" /\ UNCHANGED local
    /\ UNCHANGED page
    /\ Quiet

\* Inspect, then logs; what fails is kept with the container, whose entry is
\* made from the list.  One that stopped after the list still has both, one that
\* was removed neither.
Entry(c, ok) == [id |-> c, ok |-> ok]

buildRunningContainerStatus(c) ==
    /\ step = "inspect"
    /\ \/ Works /\ page' = [page EXCEPT !.containers = @ \cup {Entry(c, TRUE)}]
       \/ /\ failed' = failed \cup {c}
          /\ IF c \in host.running THEN Fault ELSE UNCHANGED faults
          /\ page' = [page EXCEPT !.containers = @ \cup {Entry(c, FALSE)}]
    /\ local' = [local EXCEPT !.list = @ \ {c}]
    /\ UNCHANGED <<step, errors>>
    /\ Quiet

containerStatusErrors_Inspected == FALSE
containerStatusErrors == \E e \in page.containers : ~e.ok

collectRunningContainerStatuses ==
    /\ step = "inspect"
    /\ local.list = {}
    /\ IF containerStatusErrors THEN Told("container") ELSE UNCHANGED errors
    /\ step' = "log"
    /\ UNCHANGED <<local, page, failed, faults>>
    /\ Quiet

\* The ring is copied last.
snapshotLog(r) ==
    /\ step = "log"
    /\ Snapshot(r)
    /\ step' = "done"
    /\ UNCHANGED <<host, local, page, errors, failed, faults, history>>

Status == IF errors = {} THEN "ok" ELSE "degraded"

-----------------------------------------------------------------------------
(* The host and the other goroutines. *)

Event(h) ==
    /\ step # "done"
    /\ events < MaxEvents
    /\ events' = events + 1
    /\ host' = h
    /\ still' = [devices |-> {d \in still.devices : \A m \in Mount :
                                h.mounted[m] = d <=> host.mounted[m] = d},
                 links |-> {x \in still.links : x \in DOMAIN h.links /\ h.links[x] = host.links[x]},
                 running |-> still.running \cap h.running]
    /\ UNCHANGED <<ring, step, local, page, errors, failed, ran, faults>>

Remount(m, d) == m # Root /\ d # host.mounted[m] /\ Event([host EXCEPT !.mounted[m] = d])

LinkGoes(x) ==
    Event([host EXCEPT !.links = [y \in DOMAIN host.links \ {x} |-> host.links[y]],
                       !.routes = @ \ {x}])

\* A new link, or a new name for one; names are unique.
LinkNamed(x, n) ==
    /\ n \notin {host.links[y] : y \in DOMAIN host.links}
    /\ x \in DOMAIN host.links \cup (Index \ still.links)
    /\ Event([host EXCEPT !.links = [y \in DOMAIN host.links \cup {x} |->
                                        IF y = x THEN n ELSE host.links[y]],
                          !.routes = @ \cup {x}])

ContainerEnds(c) == c \in host.running /\ Event([host EXCEPT !.running = @ \ {c}])
ContainerStarts(c) == c \notin host.running /\ Event([host EXCEPT !.running = @ \cup {c}])

Staged ==
    Event([host EXCEPT !.deployments = <<Update>> \o @])

Collect ==
    \/ collectHostnameInto \/ loadConfig \/ collectOstreeStatus
    \/ readDiskMounts \/ statMount \/ diskStatusForPath
    \/ collectMemoryStatus
    \/ readCPUTimes \/ \E tick \in Ticks : collectCPUStatus(tick)
    \/ collectUptimeStatus \/ collectInventoryInto
    \/ linkList \/ addrList \/ routeList
    \/ listContainers \/ collectRunningContainerStatuses
    \/ \E c \in local.list : buildRunningContainerStatus(c)
    \/ \E r \in Reader : snapshotLog(r)

HostChanges ==
    \/ \E m \in Mount, d \in Device \cup {Gone} : Remount(m, d)
    \/ \E x \in DOMAIN host.links : LinkGoes(x)
    \/ \E x \in Index, n \in LinkName : LinkNamed(x, n)
    \/ \E c \in Container : ContainerEnds(c) \/ ContainerStarts(c)
    \/ Staged

OthersLog ==
    /\ \E w \in Writer : AppendLine(w) \/ Trim(w) \/ \E l \in Line : Log(w, l)
    /\ UNCHANGED <<host, step, local, page, errors, failed, still, ran, faults, events>>

PageNext == Collect \/ HostChanges \/ OthersLog

PageSpec == PageInit /\ [][PageNext]_pageVars

-----------------------------------------------------------------------------
Reported(d) == {n \in DOMAIN page.disks : page.disks[n].device = d}
PointsOf(d) == {m \in Mount : host.mounted[m] = d}

\* "ok" is said of a page nothing failed for, and of no other: a tool another
\* one stands in for is no failure.  Such a page leaves out nothing that was
\* there all the time: no link, no container and no device whose mounts stayed as
\* they were, and the deployment it shows is the booted one (status.go:40-94, ostree.go:67-101).
OkMeansComplete ==
    step = "done" =>
        /\ (Status = "ok") = (failed = {})
        /\ Status = "ok" =>
              /\ page.ostree.booted
              /\ \A d \in still.devices : PointsOf(d) # {} => Reported(d) # {}
              /\ \A x \in still.links : \E i \in page.interfaces : i.index = x
              /\ still.running \subseteq {e.id : e \in page.containers}

\* A part that fails hides nothing else: a container that ran all the time is
\* listed, with its own readings if they succeeded, and a device whose mounts
\* stayed and could be read is there once, however many mounts it has
\* (podman.go:446-460, hoststats.go:69-104).
FailuresHideNothingElse ==
    step = "done" =>
        /\ "list" \notin failed =>
              \A c \in still.running : Entry(c, c \notin failed) \in page.containers
        /\ "mounts" \notin failed /\ still.devices = Device =>
              \A d \in Device : PointsOf(d) # {} =>
                  Cardinality(Reported(d)) = 1 \/ PointsOf(d) \cap failed # {}

\* Whatever the links do between the list of links and the list of routes, a
\* route on the page is one of the interface of that name on the same page, or
\* of none (networkstatus.go:120-156, 249-253).
RoutesNameTheirLink ==
    \A r \in page.routes :
        \/ [index |-> r.index, name |-> r.interface] \in page.interfaces
        \/ r.interface = "" /\ r.index \notin still.links

\* The CPU use on the page is the share of the time that was not idle.  The
\* idle columns can go back, and the differences are of unsigned numbers: even
\* then the page shows a share, never more than all (hoststats.go:355-363).
CpuNeverOverstated ==
    "cpu" \notin failed /\ ran.busy + ran.idle # 0 =>
        IF ran.idle >= 0
        THEN page.cpu.used * (ran.busy + ran.idle) = ran.busy * page.cpu.total
        ELSE page.cpu.used <= page.cpu.total
=============================================================================
