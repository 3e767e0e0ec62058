--------------------------- MODULE StatusPageProofs ---------------------------
(***************************************************************************)
(* The ring of LogRing is the end of the journal, for every ring size and  *)
(* every number of goroutines; and the page of StatusPage is complete when *)
(* it says "ok", whatever the host has, fails and does meanwhile.          *)
(***************************************************************************)
EXTENDS StatusPage, NaturalsInduction, FiniteSetTheorems, TLAPS

-----------------------------------------------------------------------------
(* The ring (LogRing). *)

\* What the invariant says in the middle of a write: the new line is behind
\* the tail of what the ring had taken in.
RingInv ==
    /\ pc = "out" <=> logging = {}
    /\ pc = "out" => lines = LastOf(journal)
    /\ pc = "ring" => journal # <<>>
                      /\ lines = LastOf(SubSeq(journal, 1, Len(journal) - 1))
    /\ pc = "trim" => journal # <<>>
                      /\ lines = Append(LastOf(SubSeq(journal, 1, Len(journal) - 1)),
                                        journal[Len(journal)])

IInv == TypeOK /\ RingInv

\* The tail of a sequence of lines is one, and holds at most Size of them.
LEMMA LastOfType ==
    ASSUME NEW s \in Seq(Line)
    PROVE  LastOf(s) \in Seq(Line) /\ Len(LastOf(s)) <= Size
  BY LogRingAssumption DEF LastOf

\* What Append and SubSeq give, in the form the steps below need.
LEMMA AppendFacts ==
    ASSUME NEW s \in Seq(Line), NEW l \in Line
    PROVE  /\ Append(s, l) \in Seq(Line)
           /\ Len(Append(s, l)) = Len(s) + 1
           /\ \A k \in 1..Len(s) : Append(s, l)[k] = s[k]
           /\ Append(s, l)[Len(s) + 1] = l
<1>1. Append(s, l) \in Seq(Line)
  OBVIOUS
<1>2. Len(Append(s, l)) = Len(s) + 1
  OBVIOUS
<1>3. \A k \in 1..Len(s) : Append(s, l)[k] = s[k]
  OBVIOUS
<1>4. Append(s, l)[Len(s) + 1] = l
  OBVIOUS
<1> QED
  BY <1>1, <1>2, <1>3, <1>4

\* The part of a sequence that the trim keeps (log.go:43-46).
LEMMA SubSeqFacts ==
    ASSUME NEW s \in Seq(Line), NEW m \in Nat \ {0}, NEW n \in Nat,
           m <= n + 1, n <= Len(s)
    PROVE  /\ SubSeq(s, m, n) \in Seq(Line)
           /\ Len(SubSeq(s, m, n)) = n - m + 1
           /\ \A k \in 1..(n - m + 1) : SubSeq(s, m, n)[k] = s[m + k - 1]
<1>1. Len(SubSeq(s, m, n)) = n - m + 1
  OBVIOUS
<1>2. \A k \in 1..(n - m + 1) : SubSeq(s, m, n)[k] = s[m + k - 1]
  OBVIOUS
<1>3. SubSeq(s, m, n) \in Seq(Line)
  OBVIOUS
<1> QED
  BY <1>1, <1>2, <1>3

\* Sequences of the same length with the same elements are equal.
LEMMA SeqEquality ==
    ASSUME NEW s \in Seq(Line), NEW t \in Seq(Line), Len(s) = Len(t),
           \A k \in 1..Len(s) : s[k] = t[k]
    PROVE  s = t
  OBVIOUS

\* Cutting the line just appended off again gives the sequence before it.
LEMMA CutOff ==
    ASSUME NEW s \in Seq(Line), NEW l \in Line
    PROVE  /\ Append(s, l) # <<>>
           /\ SubSeq(Append(s, l), 1, Len(Append(s, l)) - 1) = s
<1> DEFINE a == Append(s, l)
<1>1. a \in Seq(Line) /\ Len(a) = Len(s) + 1 /\ \A k \in 1..Len(s) : a[k] = s[k]
  BY AppendFacts
<1>2. Len(s) \in Nat
  OBVIOUS
<1> HIDE DEF a
<1>3. Len(a) - 1 = Len(s) /\ Len(a) # 0
  BY <1>1, <1>2
<1>4. /\ SubSeq(a, 1, Len(s)) \in Seq(Line) /\ Len(SubSeq(a, 1, Len(s))) = Len(s)
      /\ \A k \in 1..Len(s) : SubSeq(a, 1, Len(s))[k] = a[k]
  BY <1>1, <1>2, SubSeqFacts
<1>5. SubSeq(a, 1, Len(s)) = s
  BY <1>1, <1>4, SeqEquality
<1>6. a # <<>>
  BY <1>3
<1> QED
  BY <1>3, <1>5, <1>6 DEF a

\* Appending to the tail and trimming is the tail of the longer sequence
\* (log.go:40-46).
LEMMA TrimIsLastOf ==
    ASSUME NEW s \in Seq(Line), s # <<>>,
           lines = Append(LastOf(SubSeq(s, 1, Len(s) - 1)), s[Len(s)])
    PROVE  Trimmed = LastOf(s)
<1> DEFINE t == SubSeq(s, 1, Len(s) - 1)
<1>0. /\ t \in Seq(Line) /\ Len(t) = Len(s) - 1
      /\ \A k \in 1..Len(t) : t[k] = s[k]
      /\ Len(s) \in Nat \ {0} /\ s[Len(s)] \in Line
      /\ Size \in Nat \ {0}
  <2>1. Len(s) \in Nat \ {0}
    OBVIOUS
  <2>2. s[Len(s)] \in Line
    BY <2>1
  <2> DEFINE n == Len(s) - 1
  <2>3. n \in Nat /\ 1 \in Nat \ {0} /\ 1 <= n + 1 /\ n <= Len(s) /\ n - 1 + 1 = n
    BY <2>1
  <2> HIDE DEF n
  <2>4. /\ SubSeq(s, 1, n) \in Seq(Line)
        /\ Len(SubSeq(s, 1, n)) = n - 1 + 1
        /\ \A k \in 1..(n - 1 + 1) : SubSeq(s, 1, n)[k] = s[1 + k - 1]
    BY <2>3, SubSeqFacts
  <2>5. \A k \in 1..n : 1 + k - 1 = k
    BY <2>3
  <2>6. \A k \in 1..n : SubSeq(s, 1, n)[k] = s[k]
    BY <2>3, <2>4, <2>5
  <2>7. t \in Seq(Line) /\ Len(t) = Len(s) - 1 /\ \A k \in 1..Len(t) : t[k] = s[k]
    BY <2>3, <2>4, <2>6 DEF n
  <2> QED
    BY <2>1, <2>2, <2>7, LogRingAssumption
<1> HIDE DEF t
<1>1. CASE Len(t) < Size
  <2>1. LastOf(t) = t /\ LastOf(s) = s
    BY <1>0, <1>1 DEF LastOf
  <2>2. lines = Append(t, s[Len(s)])
    BY <2>1 DEF t
  <2>3. Len(lines) = Len(s) /\ lines \in Seq(Line)
    <3>1. Len(lines) = Len(t) + 1
      BY <2>2, <1>0
    <3>2. lines \in Seq(Line)
      BY <2>2, <1>0, AppendFacts
    <3> QED
      BY <3>1, <3>2, <1>0
  <2>4. \A k \in 1..Len(s) : lines[k] = s[k]
    BY <2>2, <1>0
  <2>5. lines = s
    BY <2>3, <2>4
  <2> QED
    BY <2>1, <2>3, <2>5, <1>0, <1>1 DEF Trimmed
<1>2. CASE Len(t) >= Size
  <2> DEFINE u == LastOf(t)
  <2>1. /\ u \in Seq(Line) /\ Len(u) = Size
        /\ \A k \in 1..Size : u[k] = t[Len(t) - Size + k]
    BY <1>0, <1>2 DEF LastOf
  <2>2. lines = Append(u, s[Len(s)])
    BY DEF t
  <2> HIDE DEF u
  <2>3. /\ lines \in Seq(Line) /\ Len(lines) = Size + 1
        /\ \A k \in 1..Size : lines[k] = u[k]
        /\ lines[Size + 1] = s[Len(s)]
    <3>1. /\ lines \in Seq(Line) /\ Len(lines) = Len(u) + 1
          /\ \A k \in 1..Len(u) : lines[k] = u[k]
          /\ lines[Len(u) + 1] = s[Len(s)]
      <4> DEFINE l == s[Len(s)]
      <4>1. l \in Line /\ lines = Append(u, l) /\ u \in Seq(Line)
        BY <2>1, <2>2, <1>0
      <4> HIDE DEF l
      <4>2. /\ Append(u, l) \in Seq(Line) /\ Len(Append(u, l)) = Len(u) + 1
            /\ \A k \in 1..Len(u) : Append(u, l)[k] = u[k]
            /\ Append(u, l)[Len(u) + 1] = l
        BY ONLY <4>1, AppendFacts
      <4> QED
        BY <4>1, <4>2, Zenon DEF l
    <3> QED
      BY <2>1, <3>1
  <2>4. /\ Trimmed = SubSeq(lines, 2, Size + 1)
        /\ LastOf(s) = SubSeq(s, Len(s) - Size + 1, Len(s))
    <3>1. Len(lines) > Size /\ Len(lines) - Size + 1 = 2
      BY <2>3, <1>0
    <3>2. ~(Len(s) <= Size)
      BY <1>0, <1>2
    <3> QED
      BY <2>3, <3>1, <3>2 DEF Trimmed, LastOf
  <2>5. /\ Trimmed \in Seq(Line) /\ Len(Trimmed) = Size
        /\ \A k \in 1..Size : Trimmed[k] = lines[k + 1]
    BY <2>3, <2>4, <1>0
  <2>6. /\ LastOf(s) \in Seq(Line) /\ Len(LastOf(s)) = Size
        /\ \A k \in 1..Size : LastOf(s)[k] = s[Len(s) - Size + k]
    BY <2>4, <1>0, <1>2
  <2>7. ASSUME NEW k \in 1..Size PROVE lines[k + 1] = s[Len(s) - Size + k]
    <3>1. CASE k = Size
      BY <3>1, <2>3, <1>0
    <3>2. CASE k # Size
      <4>1. k + 1 \in 1..Size
        BY <3>2, <1>0
      <4>2. lines[k + 1] = t[Len(t) - Size + (k + 1)]
        BY <4>1, <2>1, <2>3
      <4>3. /\ Len(t) - Size + (k + 1) \in 1..Len(t)
            /\ Len(t) - Size + (k + 1) = Len(s) - Size + k
        BY <4>1, <1>0, <1>2
      <4> QED
        BY <4>2, <4>3, <1>0
    <3> QED
      BY <3>1, <3>2
  <2>8. \A k \in 1..Size : Trimmed[k] = LastOf(s)[k]
    BY <2>5, <2>6, <2>7
  <2> QED
    BY <2>5, <2>6, <2>8
<1> QED
  BY <1>0, <1>1, <1>2

\* The invariant holds whatever the goroutines do: the logger's mutex keeps
\* one line on its way to the ring.
THEOREM Invariance == Spec => []IInv
<1>1. Init => IInv
  <2> SUFFICES ASSUME Init PROVE IInv
    OBVIOUS
  <2>1. LastOf(<<>>) = <<>>
    BY LogRingAssumption DEF LastOf
  <2> QED
    BY <2>1, LogRingAssumption DEF Init, IInv, TypeOK, RingInv
<1>2. IInv /\ [Next]_vars => IInv'
  <2> SUFFICES ASSUME IInv, [Next]_vars PROVE IInv'
    OBVIOUS
  <2> USE DEF IInv
  <2>1. ASSUME NEW w \in Writer, NEW l \in Line, Log(w, l) PROVE IInv'
    <3>1. pc = "out"
      BY <2>1 DEF Log, TypeOK, RingInv
    <3>2. /\ journal' = Append(journal, l)
          /\ journal \in Seq(Line) /\ lines = LastOf(journal) /\ lines' = lines
          /\ pc' = "ring"
      BY <2>1, <3>1 DEF Log, TypeOK, RingInv
    <3>3. journal' # <<>> /\ SubSeq(journal', 1, Len(journal') - 1) = journal
      BY <3>2, CutOff
    <3>4. logging' # {} /\ lines' = LastOf(SubSeq(journal', 1, Len(journal') - 1))
      BY <2>1, <3>2, <3>3 DEF Log
    <3>5. RingInv'
      BY <3>2, <3>3, <3>4 DEF RingInv, LastOf
    <3>6. journal' \in Seq(Line) /\ Len(journal') = Len(journal) + 1
      BY <3>2, AppendFacts
    <3>7. Len(journal') <= MaxLines
      BY <2>1, <3>6, LogRingAssumption DEF Log, TypeOK
    <3>8. TypeOK'
      BY <2>1, <3>6, <3>7 DEF Log, TypeOK
    <3> QED
      BY <3>5, <3>8
  <2>2. ASSUME NEW w \in Writer, AppendLine(w) PROVE IInv'
    <3> DEFINE s == SubSeq(journal, 1, Len(journal) - 1)
    <3>1. /\ journal \in Seq(Line) /\ journal # <<>> /\ lines = LastOf(s)
          /\ lines' = Append(lines, journal[Len(journal)])
          /\ journal' = journal /\ pc' = "trim" /\ logging' # {}
      BY <2>2 DEF AppendLine, TypeOK, RingInv
    <3>2. s \in Seq(Line) /\ journal[Len(journal)] \in Line
      BY <3>1
    <3>3. lines \in Seq(Line) /\ Len(lines) <= Size
      BY <3>1, <3>2, LastOfType
    <3>4. RingInv'
      BY <3>1 DEF RingInv, LastOf
    <3>5. lines' \in Seq(Line) /\ Len(lines') <= Size + 1
      BY <3>1, <3>2, <3>3, LogRingAssumption
    <3>6. TypeOK'
      BY <2>2, <3>5 DEF AppendLine, TypeOK
    <3> QED
      BY <3>4, <3>6
  <2>3. ASSUME NEW w \in Writer, Trim(w) PROVE IInv'
    <3>1. /\ journal \in Seq(Line) /\ journal # <<>>
          /\ lines = Append(LastOf(SubSeq(journal, 1, Len(journal) - 1)),
                            journal[Len(journal)])
          /\ lines' = Trimmed /\ journal' = journal /\ pc' = "out" /\ logging' = {}
      BY <2>3 DEF Trim, TypeOK, RingInv
    <3>2. lines' = LastOf(journal)
      BY <3>1, TrimIsLastOf
    <3>3. RingInv'
      BY <3>1, <3>2 DEF RingInv, LastOf
    <3>4. lines' \in Seq(Line) /\ Len(lines') <= Size + 1
      BY <3>1, <3>2, LastOfType, LogRingAssumption
    <3>5. TypeOK'
      BY <2>3, <3>4 DEF Trim, TypeOK
    <3> QED
      BY <3>3, <3>5
  <2>4. ASSUME NEW r \in Reader, Snapshot(r) PROVE IInv'
    <3>1. RingInv'
      BY <2>4 DEF Snapshot, RingInv, LastOf
    <3>2. TypeOK'
      BY <2>4 DEF Snapshot, TypeOK
    <3> QED
      BY <3>1, <3>2
  <2>5. CASE UNCHANGED vars
    BY <2>5 DEF vars, TypeOK, RingInv, LastOf
  <2> QED
    BY <2>1, <2>2, <2>3, <2>4, <2>5 DEF Next
<1> QED
  BY <1>1, <1>2, PTL DEF Spec

\* Between two writes the ring is the end of the journal (log.go:35-47).
THEOREM RingIsTheTailAlways == Spec => []RingIsTheTail
<1>1. IInv => RingIsTheTail
  BY DEF IInv, TypeOK, RingInv, RingIsTheTail, RingIsLocked, Ringed
<1> QED
  BY <1>1, Invariance, PTL

\* A snapshot is the end of the journal, at most one line behind (log.go:49-57).
THEOREM SnapshotIsCurrentAlways == Spec => SnapshotIsCurrent
<1>1. IInv /\ [Next]_vars =>
        [\A r \in Reader : taken'[r] # taken[r] => taken'[r] = LastOf(Ringed)]_vars
  <2> SUFFICES ASSUME IInv, Next, NEW r \in Reader, taken'[r] # taken[r]
               PROVE  taken'[r] = LastOf(Ringed)
    BY DEF vars
  <2>1. PICK q \in Reader : Snapshot(q)
    BY DEF Next, Log, AppendLine, Trim
  <2>2. taken'[r] = lines /\ pc # "trim"
    BY <2>1 DEF Snapshot, RingIsLocked, IInv, TypeOK
  <2> QED
    BY <2>2 DEF IInv, TypeOK, RingInv, Ringed
<1> QED
  BY <1>1, Invariance, PTL DEF Spec, SnapshotIsCurrent

-----------------------------------------------------------------------------
(* The page (StatusPage). *)

\* The readings up to the mounts, to the second sample of the counters, and so on.
UntilDeployment == {"hostname", "config", "rpm", "bootc", "ostree"}
UntilMounts == UntilDeployment \cup {"mounts"}
Disks == {"stat", "statfs"}
UntilSample == UntilMounts \cup Disks \cup {"memory", "cpu", "sample"}
UntilLinks == UntilSample \cup {"uptime", "inventory", "links"}
UntilRoutes == UntilLinks \cup {"addresses"}
UntilList == UntilRoutes \cup {"list"}
Step == UntilList \cup {"inspect", "log", "done"}

Stat == [total : 0..(Width - 1), idle : 0..(Width - 1)]

PageTypeOK ==
    /\ step \in Step
    /\ DOMAIN host = {"mounted", "links", "routes", "running", "deployments", "tools", "stat"}
    /\ host.mounted \in [Mount -> Device \cup {Gone}]
    /\ host.running \subseteq Container
    /\ host.deployments \in Seq(Deployment)
    /\ host.stat \in Stat
    /\ DOMAIN local = {"todo", "seen", "names", "unread", "before", "list"}
    /\ local.todo \subseteq DOMAIN Table
    /\ local.list \subseteq Container
    /\ DOMAIN page = {"ostree", "disks", "cpu", "interfaces", "routes", "containers"}
    /\ page.disks \in Seq([path : Mount, device : Device \cup {Gone}])
    /\ failed \subseteq Part \cup Mount \cup Container
    /\ DOMAIN still = {"devices", "links", "running"}
    /\ still.devices \subseteq Device

\* The root stays mounted, one deployment is booted, what has not changed is there.
HostStands ==
    /\ host.mounted[Root] # Gone
    /\ \E n \in DOMAIN host.deployments : host.deployments[n].booted
    /\ still.links \subseteq DOMAIN host.links
    /\ still.running \subseteq host.running

\* Every failure is told, those of the containers after the last of them.
FailuresAreTold ==
    /\ errors # {} => failed # {}
    /\ failed # {} => errors # {} \/ (step = "inspect" /\ containerStatusErrors)
    /\ \A e \in page.containers : e.ok \/ e.id \in failed

BootedIsShown == step \notin UntilDeployment /\ "ostree" \notin failed => page.ostree.booted

\* A mount that stayed as it was is still to come, or its device was seen, or
\* asking for it failed; and what was seen is reported, unless that failed.
Handled(d) == Reported(d) # {} \/ PointsOf(d) \cap failed # {}
NoneYet == step \in UntilMounts => local.seen = {} /\ page.disks = <<>>
MountsAreTaken ==
    step \in Disks =>
        \A n \in DOMAIN Table : host.mounted[Table[n]] \in still.devices =>
            n \in local.todo \/ host.mounted[Table[n]] \in local.seen \/ Table[n] \in failed
SeenIsReported ==
    \A d \in local.seen \cap still.devices :
        Handled(d) \/ (step = "statfs" /\ host.mounted[Point] = d)
UnderMeasure ==
    step = "statfs" =>
        /\ local.todo # {}
        /\ host.mounted[Point] \in still.devices => host.mounted[Point] \in local.seen
DevicesAreHandled ==
    step \notin UntilMounts \cup Disks /\ "mounts" \notin failed =>
        \A d \in still.devices : PointsOf(d) # {} => Handled(d)

\* While no mount changes, no device is reported twice.
OncePerDevice ==
    still.devices = Device =>
        /\ \A n \in DOMAIN page.disks : page.disks[n].device \in local.seen
        /\ \A m, n \in DOMAIN page.disks : page.disks[m].device = page.disks[n].device => m = n
        /\ step = "statfs" =>
              /\ DeviceAt(Point) \in local.seen
              /\ \A n \in DOMAIN page.disks : page.disks[n].device # DeviceAt(Point)

\* The interfaces of the page are the links whose names the routes are given.
NamesAreListed ==
    page.interfaces = {[index |-> x, name |-> local.names[x]] : x \in DOMAIN local.names}
LinksAreListed ==
    step = "addresses" \/ (step \notin UntilLinks /\ "links" \notin failed) =>
        still.links \subseteq DOMAIN local.names
NoRoutesYet == step \in UntilRoutes => page.routes = {}

\* A container that ran all the time is still to be inspected, or is on the page.
Listed(c) == Entry(c, c \notin failed) \in page.containers
ContainersAreListed ==
    /\ step \in UntilList => failed \cap Container = {}
    /\ step = "inspect" => /\ \A c \in still.running : c \in local.list \/ Listed(c)
                           /\ local.list \cap failed = {}
    /\ step \in {"log", "done"} /\ "list" \notin failed => \A c \in still.running : Listed(c)

\* Until the second sample the counters stand still.
CountersStand ==
    /\ step \in UntilSample => ran = [busy |-> 0, idle |-> 0]
    /\ step = "sample" => local.before = host.stat

DisksInv == NoneYet /\ MountsAreTaken /\ SeenIsReported /\ UnderMeasure /\ DevicesAreHandled
            /\ OncePerDevice
LinksInv == NamesAreListed /\ LinksAreListed /\ NoRoutesYet /\ RoutesNameTheirLink
CpuInv == CountersStand /\ CpuNeverOverstated

PageInv == /\ PageTypeOK /\ HostStands /\ FailuresAreTold /\ BootedIsShown
           /\ DisksInv /\ LinksInv /\ ContainersAreListed /\ CpuInv

\* What the constants are known to be, and what the parts are.
LEMMA PageConstants ==
    /\ Gone \notin Device /\ Root \in Mount
    /\ Container \cap Part = {} /\ Container \cap Mount = {}
    /\ 1 \in DOMAIN Table /\ Table[1] = Root /\ DOMAIN Table \subseteq Nat \ {0}
    /\ \A n \in DOMAIN Table : Table[n] \in Mount
<1>1. /\ Table \in Seq(Mount) /\ Table # <<>> /\ Root = Table[1] /\ Gone \notin Device
      /\ Container \cap (Mount \cup Part) = {}
  BY StatusPageAssumption
<1>2. DOMAIN Table = 1..Len(Table) /\ Len(Table) \in Nat \ {0}
  BY <1>1
<1> QED
  BY <1>1, <1>2

\* What a change of the host leaves, and what it says of what has not changed
\* (every event of the host).
EventLeaves ==
    /\ step # "done"
    /\ UNCHANGED <<ring, step, local, page, errors, failed, ran, faults>>
    /\ DOMAIN host' = DOMAIN host /\ host'.stat = host.stat
    /\ host'.mounted \in [Mount -> Device \cup {Gone}] /\ host'.mounted[Root] # Gone
    /\ host'.running \subseteq Container
    /\ host'.deployments \in Seq(Deployment)
    /\ \E n \in DOMAIN host'.deployments : host'.deployments[n].booted
    /\ DOMAIN still' = DOMAIN still /\ still'.devices \subseteq still.devices
    /\ \A d \in still'.devices : \A m \in Mount : host'.mounted[m] = d <=> host.mounted[m] = d
    /\ still'.links \subseteq still.links /\ still'.links \subseteq DOMAIN host'.links
    /\ still'.running \subseteq still.running /\ still'.running \subseteq host'.running

\* Putting a deployment in front keeps the booted one (rpm-ostree stages it).
LEMMA StagedKeepsBooted ==
    ASSUME NEW s \in Seq(Deployment), \E n \in DOMAIN s : s[n].booted, NEW d \in Deployment
    PROVE  /\ <<d>> \o s \in Seq(Deployment)
           /\ \E n \in DOMAIN (<<d>> \o s) : (<<d>> \o s)[n].booted
<1>1. PICK n \in 1..Len(s) : s[n].booted
  OBVIOUS
<1>2. <<d>> \in Seq(Deployment) /\ Len(<<d>>) = 1
  OBVIOUS
<1>3. /\ <<d>> \o s \in Seq(Deployment) /\ Len(<<d>> \o s) = 1 + Len(s)
      /\ (<<d>> \o s)[1 + n] = s[n]
  BY <1>2
<1>4. 1 + n \in DOMAIN (<<d>> \o s)
  BY <1>3
<1> QED
  BY <1>1, <1>3, <1>4

\* A state of the host that keeps what must stand may take the place of host.
LEMMA EventFacts ==
    ASSUME PageTypeOK, NEW h, Event(h),
           DOMAIN h = DOMAIN host, h.stat = host.stat,
           h.mounted \in [Mount -> Device \cup {Gone}], h.mounted[Root] # Gone,
           h.running \subseteq Container, h.deployments \in Seq(Deployment),
           \E n \in DOMAIN h.deployments : h.deployments[n].booted
    PROVE  EventLeaves
<1>1. host' = h
  BY DEF Event
<1>2. still' = [devices |-> {d \in still.devices : \A m \in Mount :
                                h.mounted[m] = d <=> host.mounted[m] = d},
                links |-> {x \in still.links : x \in DOMAIN h.links /\ h.links[x] = host.links[x]},
                running |-> still.running \cap h.running]
  BY DEF Event
<1>3. /\ still'.devices = {d \in still.devices : \A m \in Mount :
                                h.mounted[m] = d <=> host.mounted[m] = d}
      /\ still'.links = {x \in still.links : x \in DOMAIN h.links /\ h.links[x] = host.links[x]}
      /\ still'.running = still.running \cap h.running
      /\ DOMAIN still' = {"devices", "links", "running"}
  BY <1>2
<1>4. step # "done" /\ UNCHANGED <<ring, step, local, page, errors, failed, ran, faults>>
  BY DEF Event
<1>5. DOMAIN still' = DOMAIN still
  BY <1>3 DEF PageTypeOK
<1> QED
  BY <1>1, <1>3, <1>4, <1>5 DEF EventLeaves

\* Every change of the host is one of those (mounts, links, containers, a
\* staged deployment).
LEMMA HostChangesLeave ==
    ASSUME PageTypeOK, HostStands, HostChanges
    PROVE  EventLeaves
<1> USE PageConstants DEF PageTypeOK, HostStands
<1>1. ASSUME NEW m \in Mount, NEW d \in Device \cup {Gone}, Remount(m, d) PROVE EventLeaves
  <2> DEFINE h == [host EXCEPT !.mounted[m] = d]
  <2>1. /\ DOMAIN h = DOMAIN host /\ h.stat = host.stat /\ h.running = host.running
        /\ h.deployments = host.deployments
        /\ h.mounted = [host.mounted EXCEPT ![m] = d]
    OBVIOUS
  <2>2. h.mounted \in [Mount -> Device \cup {Gone}] /\ h.mounted[Root] # Gone /\ Event(h)
    BY <1>1, <2>1 DEF Remount
  <2> HIDE DEF h
  <2> QED
    BY <2>1, <2>2, EventFacts
<1>2. ASSUME NEW x \in DOMAIN host.links, LinkGoes(x) PROVE EventLeaves
  <2> DEFINE h == [host EXCEPT !.links = [y \in DOMAIN host.links \ {x} |-> host.links[y]],
                               !.routes = @ \ {x}]
  <2>1. /\ DOMAIN h = DOMAIN host /\ h.stat = host.stat /\ h.running = host.running
        /\ h.deployments = host.deployments /\ h.mounted = host.mounted
    OBVIOUS
  <2>2. Event(h)
    BY <1>2 DEF LinkGoes
  <2> HIDE DEF h
  <2> QED
    BY <2>1, <2>2, EventFacts
<1>3. ASSUME NEW x \in Index, NEW n \in LinkName, LinkNamed(x, n) PROVE EventLeaves
  <2> DEFINE h == [host EXCEPT !.links = [y \in DOMAIN host.links \cup {x} |->
                                             IF y = x THEN n ELSE host.links[y]],
                               !.routes = @ \cup {x}]
  <2>1. /\ DOMAIN h = DOMAIN host /\ h.stat = host.stat /\ h.running = host.running
        /\ h.deployments = host.deployments /\ h.mounted = host.mounted
    OBVIOUS
  <2>2. Event(h)
    BY <1>3 DEF LinkNamed
  <2> HIDE DEF h
  <2> QED
    BY <2>1, <2>2, EventFacts
<1>4. ASSUME NEW c \in Container, NEW S \in SUBSET Container, Event([host EXCEPT !.running = S])
      PROVE  EventLeaves
  <2> DEFINE h == [host EXCEPT !.running = S]
  <2>1. /\ DOMAIN h = DOMAIN host /\ h.stat = host.stat /\ h.running \subseteq Container
        /\ h.deployments = host.deployments /\ h.mounted = host.mounted
    OBVIOUS
  <2> HIDE DEF h
  <2> QED
    BY <1>4, <2>1, EventFacts DEF h
<1>5. ASSUME NEW c \in Container, ContainerEnds(c) PROVE EventLeaves
  <2>1. host.running \ {c} \in SUBSET Container /\ Event([host EXCEPT !.running = host.running \ {c}])
    BY <1>5 DEF ContainerEnds
  <2> QED
    BY <1>4, <2>1
<1>6. ASSUME NEW c \in Container, ContainerStarts(c) PROVE EventLeaves
  <2>1. /\ host.running \cup {c} \in SUBSET Container
        /\ Event([host EXCEPT !.running = host.running \cup {c}])
    BY <1>6 DEF ContainerStarts
  <2> QED
    BY <1>4, <2>1
<1>7. CASE Staged
  <2> DEFINE h == [host EXCEPT !.deployments = <<Update>> \o @]
  <2>1. /\ DOMAIN h = DOMAIN host /\ h.stat = host.stat /\ h.running = host.running
        /\ h.deployments = <<Update>> \o host.deployments /\ h.mounted = host.mounted
    OBVIOUS
  <2>2. Update \in Deployment
    BY DEF Deployment
  <2>3. Event(h)
    BY <1>7 DEF Staged
  <2> HIDE DEF h
  <2>4. h.deployments \in Seq(Deployment) /\ \E n \in DOMAIN h.deployments : h.deployments[n].booted
    BY <2>1, <2>2, StagedKeepsBooted
  <2> QED
    BY <2>1, <2>3, <2>4, EventFacts
<1> QED
  BY <1>1, <1>2, <1>3, <1>5, <1>6, <1>7 DEF HostChanges

\* What one step of the collectors leaves of the host, and what it is about.
LEMMA CollectLeaves ==
    ASSUME PageTypeOK, Collect
    PROVE  /\ UNCHANGED <<still, events>>
           /\ failed \subseteq failed'
           /\ DOMAIN host' = DOMAIN host
           /\ \A f \in DOMAIN host \ {"stat"} : host'[f] = host[f]
<1> USE DEF PageTypeOK, Quiet, Works, Fails, Fault, Told, history, ring
<1>1. CASE collectHostnameInto \/ loadConfig \/ collectMemoryStatus \/ collectUptimeStatus
           \/ collectInventoryInto
  BY <1>1 DEF collectHostnameInto, loadConfig, collectMemoryStatus, collectUptimeStatus,
              collectInventoryInto, ReadPart
<1>2. CASE collectOstreeStatus
  BY <1>2 DEF collectOstreeStatus
<1>3. CASE readDiskMounts
  BY <1>3 DEF readDiskMounts
<1>4. CASE statMount
  BY <1>4 DEF statMount
<1>5. CASE diskStatusForPath
  BY <1>5 DEF diskStatusForPath
<1>6. CASE readCPUTimes
  BY <1>6 DEF readCPUTimes
<1>7. ASSUME NEW tick \in Ticks, collectCPUStatus(tick)
      PROVE  /\ UNCHANGED <<still, events>>
             /\ failed \subseteq failed'
             /\ DOMAIN host' = DOMAIN host
             /\ \A f \in DOMAIN host \ {"stat"} : host'[f] = host[f]
  <2>1. PICK stat : host' = [host EXCEPT !.stat = stat]
    BY <1>7 DEF collectCPUStatus
  <2> QED
    BY <1>7, <2>1 DEF collectCPUStatus
<1>8. CASE linkList \/ addrList \/ routeList
  BY <1>8 DEF linkList, addrList, routeList
<1>9. CASE listContainers \/ collectRunningContainerStatuses
  BY <1>9 DEF listContainers, collectRunningContainerStatuses
<1>10. ASSUME NEW c \in local.list, buildRunningContainerStatus(c)
       PROVE  UNCHANGED <<still, events, host>> /\ failed \subseteq failed'
  BY <1>10 DEF buildRunningContainerStatus
<1>11. ASSUME NEW r \in Reader, snapshotLog(r) PROVE UNCHANGED <<still, events, host, failed>>
  BY <1>11 DEF snapshotLog
<1> QED
  BY <1>1, <1>2, <1>3, <1>4, <1>5, <1>6, <1>7, <1>8, <1>9, <1>10, <1>11 DEF Collect

\* A step that leaves the links, their names and the routes of the page alone.
LEMMA LinksStand ==
    ASSUME LinksInv,
           page'.interfaces = page.interfaces, page'.routes = page.routes,
           local'.names = local.names,
           still'.links \subseteq still.links, failed \subseteq failed',
           step' \in UntilRoutes => step \in UntilRoutes,
           step' = "addresses" => step = "addresses",
           step' \notin UntilLinks => step \notin UntilLinks \/ "links" \in failed'
    PROVE  LinksInv'
<1>1. NamesAreListed'
  BY DEF LinksInv, NamesAreListed
<1>2. LinksAreListed'
  BY DEF LinksInv, LinksAreListed
<1>3. NoRoutesYet'
  BY DEF LinksInv, NoRoutesYet
<1>4. RoutesNameTheirLink'
  BY DEF LinksInv, RoutesNameTheirLink
<1> QED
  BY <1>1, <1>2, <1>3, <1>4 DEF LinksInv

\* The routes of the page have names of links of the page, whatever the
\* collectors read.
LEMMA CollectLinks ==
    ASSUME PageInv, Collect
    PROVE  LinksInv'
<1> DEFINE Stand ==
      /\ page'.interfaces = page.interfaces /\ page'.routes = page.routes
      /\ local'.names = local.names
      /\ step' \in UntilRoutes => step \in UntilRoutes
      /\ step' = "addresses" => step = "addresses"
      /\ step' \notin UntilLinks => step \notin UntilLinks \/ "links" \in failed'
<1>0. /\ DOMAIN page = {"ostree", "disks", "cpu", "interfaces", "routes", "containers"}
      /\ DOMAIN local = {"todo", "seen", "names", "unread", "before", "list"}
      /\ LinksInv /\ still.links \subseteq DOMAIN host.links
  BY DEF PageInv, PageTypeOK, HostStands
<1>s. still' = still /\ failed \subseteq failed'
  BY CollectLeaves DEF PageInv
<1>f. Stand => LinksInv'
  BY <1>0, <1>s, LinksStand
<1> USE DEF UntilRoutes, UntilLinks, UntilSample, UntilMounts, UntilDeployment, Disks,
            Quiet, Works, Fails
<1>1. CASE collectHostnameInto \/ loadConfig \/ collectMemoryStatus \/ collectUptimeStatus
           \/ collectInventoryInto
  <2>1. Stand
    BY <1>1 DEF collectHostnameInto, loadConfig, collectMemoryStatus, collectUptimeStatus,
                collectInventoryInto, ReadPart
  <2> QED
    BY <1>f, <2>1
<1>2. CASE collectOstreeStatus
  <2>1. Stand
    BY <1>0, <1>2 DEF collectOstreeStatus, Fallback
  <2> QED
    BY <1>f, <2>1
<1>3. CASE readDiskMounts \/ readCPUTimes
  <2>1. Stand
    BY <1>0, <1>3 DEF readDiskMounts, readCPUTimes
  <2> QED
    BY <1>f, <2>1
<1>4. CASE statMount
  <2>1. Stand
    BY <1>0, <1>4 DEF statMount, StatResult, Measure, NextMount
  <2> QED
    BY <1>f, <2>1
<1>5. CASE diskStatusForPath
  <2>1. Stand
    BY <1>0, <1>5 DEF diskStatusForPath, NextMount
  <2> QED
    BY <1>f, <2>1
<1>6. ASSUME NEW tick \in Ticks, collectCPUStatus(tick) PROVE Stand
  BY <1>0, <1>6 DEF collectCPUStatus
<1>7. CASE linkList
  <2>1. CASE step' = "list"
    <3>1. Stand
      BY <1>7, <2>1 DEF linkList
    <3> QED
      BY <1>f, <3>1
  <2>2. CASE step' # "list"
    <3>1. /\ step' = "addresses" /\ local'.names = host.links /\ page'.routes = page.routes
          /\ page'.interfaces = {[index |-> x, name |-> host.links[x]] : x \in DOMAIN host.links}
          /\ page.routes = {}
      BY <1>0, <1>7, <2>2 DEF linkList, LinksInv, NoRoutesYet
    <3>2. NamesAreListed'
      BY <3>1 DEF NamesAreListed
    <3> QED
      BY <1>0, <1>s, <3>1, <3>2 DEF LinksInv, LinksAreListed, NoRoutesYet, RoutesNameTheirLink
  <2> QED
    BY <2>1, <2>2
<1>8. CASE addrList
  <2>1. Stand
    BY <1>0, <1>8 DEF addrList
  <2> QED
    BY <1>f, <2>1
<1>9. CASE routeList
  <2>1. CASE Fails("routes") /\ UNCHANGED page
    <3>1. Stand
      BY <1>9, <2>1 DEF routeList
    <3> QED
      BY <1>f, <3>1
  <2>2. CASE ~(Fails("routes") /\ UNCHANGED page)
    <3>1. /\ step = "addresses" /\ step' = "list" /\ local' = local
          /\ page'.interfaces = page.interfaces
          /\ page'.routes = {convertRoute(x) : x \in host.routes}
      BY <1>0, <1>9, <2>2 DEF routeList
    <3>2. still.links \subseteq DOMAIN local.names /\ NamesAreListed
      BY <1>0, <3>1 DEF LinksInv, LinksAreListed
    <3>3. ASSUME NEW x \in host.routes
          PROVE  \/ [index |-> convertRoute(x).index, name |-> convertRoute(x).interface]
                        \in page.interfaces
                 \/ convertRoute(x).interface = "" /\ convertRoute(x).index \notin still.links
      BY <3>2 DEF convertRoute, NamesAreListed
    <3>4. RoutesNameTheirLink'
      BY <1>s, <3>1, <3>3 DEF RoutesNameTheirLink
    <3>5. NamesAreListed' /\ LinksAreListed' /\ NoRoutesYet'
      BY <1>s, <3>1, <3>2 DEF NamesAreListed, LinksAreListed, NoRoutesYet
    <3> QED
      BY <3>4, <3>5 DEF LinksInv
  <2> QED
    BY <2>1, <2>2
<1>10. CASE listContainers \/ collectRunningContainerStatuses
  <2>1. Stand
    BY <1>0, <1>10 DEF listContainers, collectRunningContainerStatuses
  <2> QED
    BY <1>f, <2>1
<1>11. ASSUME NEW c \in local.list, buildRunningContainerStatus(c) PROVE Stand
  BY <1>0, <1>11 DEF buildRunningContainerStatus
<1>12. ASSUME NEW r \in Reader, snapshotLog(r) PROVE Stand
  BY <1>12 DEF snapshotLog
<1> QED
  BY <1>f, <1>1, <1>2, <1>3, <1>4, <1>5, <1>6, <1>7, <1>8, <1>9, <1>10, <1>11, <1>12 DEF Collect

\* Differences of counters that wrap (hoststats.go:355-363).
LEMMA WrapOf == ASSUME NEW a \in 0..(Width - 1) PROVE a % Width = a
  BY StatusPageAssumption
LEMMA WrapBelow == ASSUME NEW a \in Int, a < 0, -Width <= a PROVE a % Width = a + Width
  BY StatusPageAssumption
LEMMA WrapAbove == ASSUME NEW a \in Width..(2 * Width - 1) PROVE a % Width = a - Width
  BY StatusPageAssumption
LEMMA WrapRange == ASSUME NEW a \in Int PROVE a % Width \in 0..(Width - 1)
  BY StatusPageAssumption

\* The difference is what the counter moved by, if that is less than its range.
LEMMA MinusOfMoved ==
    ASSUME NEW a \in 0..(Width - 1), NEW d \in 0..(Width - 1)
    PROVE  Minus((a + d) % Width, a) = d
<1>0. Width \in Nat \ {0}
  BY StatusPageAssumption
<1>1. CASE a + d < Width
  <2>1. (a + d) % Width = a + d
    BY <1>0, <1>1, WrapOf
  <2>2. Minus(a + d, a) = d % Width
    BY <1>0 DEF Minus
  <2> QED
    BY <2>1, <2>2, WrapOf
<1>2. CASE a + d >= Width
  <2>1. (a + d) % Width = a + d - Width
    BY <1>0, <1>2, WrapAbove
  <2>2. Minus(a + d - Width, a) = (d - Width) % Width
    BY <1>0 DEF Minus
  <2>3. (d - Width) % Width = d
    BY <1>0, WrapBelow
  <2> QED
    BY <2>1, <2>2, <2>3
<1> QED
  BY <1>0, <1>1, <1>2

\* The share of the page is right where idle did not go back, and a share in any
\* case.
LEMMA UsedIsAShare ==
    ASSUME NEW t \in Ticks, NEW before \in Stat,
           t.busy + t.idle # 0
    PROVE  LET after == [total |-> (before.total + t.busy + t.idle) % Width,
                         idle |-> (before.idle + t.idle) % Width]
               cpu == cpuUsedPercent(before, after)
           IN IF t.idle >= 0 THEN cpu.used * (t.busy + t.idle) = t.busy * cpu.total
              ELSE cpu.used <= cpu.total
<1> DEFINE after == [total |-> (before.total + t.busy + t.idle) % Width,
                     idle |-> (before.idle + t.idle) % Width]
           cpu == cpuUsedPercent(before, after)
           total == Minus(after.total, before.total)
           idle == Minus(after.idle, before.idle)
<1>0. /\ Width \in Nat \ {0} /\ t.busy \in Nat /\ t.idle \in Int /\ t.busy + t.idle < Width
      /\ before.total \in 0..(Width - 1) /\ before.idle \in 0..(Width - 1)
  BY StatusPageAssumption DEF Stat
<1>1. after.total \in Int /\ after.idle \in Int
  BY <1>0, WrapRange
<1>2. total \in Nat /\ idle \in Nat
  BY <1>0, <1>1, WrapRange DEF Minus
<1>3. cpu = IF total = 0 \/ idle > total THEN [used |-> 0, total |-> 1]
            ELSE [used |-> total - idle, total |-> total]
  BY DEF cpuUsedPercent
<1>4. CASE t.idle >= 0
  <2>1. /\ t.idle \in 0..(Width - 1) /\ t.busy + t.idle \in 0..(Width - 1)
        /\ before.total + t.busy + t.idle = before.total + (t.busy + t.idle)
    BY <1>0, <1>4
  <2>2. total = t.busy + t.idle /\ idle = t.idle
    BY <1>0, <2>1, MinusOfMoved
  <2> HIDE DEF total, idle, cpu
  <2>3. cpu = [used |-> t.busy, total |-> t.busy + t.idle]
    BY <1>0, <1>3, <1>4, <2>1, <2>2
  <2>4. cpu.used * (t.busy + t.idle) = t.busy * cpu.total
    BY <2>3
  <2> QED
    BY <1>4, <2>4 DEF cpu
<1>5. CASE ~(t.idle >= 0)
  <2> HIDE DEF total, idle, cpu
  <2>1. cpu.used <= cpu.total
    BY <1>2, <1>3
  <2> QED
    BY <1>5, <2>1 DEF cpu
<1> QED
  BY <1>4, <1>5

\* A step that leaves the counters and the CPU of the page alone.
LEMMA CountersStandStill ==
    ASSUME CpuInv,
           page'.cpu = page.cpu, ran' = ran, host'.stat = host.stat,
           local'.before = local.before, failed \subseteq failed',
           step' \in UntilSample => step \in UntilSample,
           step' = "sample" => step = "sample"
    PROVE  CpuInv'
  BY DEF CpuInv, CountersStand, CpuNeverOverstated

\* The CPU of the page is a share of what the counters moved by.
LEMMA CollectCpu ==
    ASSUME PageInv, Collect
    PROVE  CpuInv'
<1> DEFINE Stand ==
      /\ page'.cpu = page.cpu /\ ran' = ran /\ host'.stat = host.stat
      /\ local'.before = local.before
      /\ step' \in UntilSample => step \in UntilSample
      /\ step' = "sample" => step = "sample"
<1>0. /\ DOMAIN page = {"ostree", "disks", "cpu", "interfaces", "routes", "containers"}
      /\ DOMAIN local = {"todo", "seen", "names", "unread", "before", "list"}
      /\ "stat" \in DOMAIN host /\ host.stat \in Stat /\ CpuInv
  BY DEF PageInv, PageTypeOK
<1>s. failed \subseteq failed'
  BY CollectLeaves DEF PageInv
<1>f. Stand => CpuInv'
  BY <1>0, <1>s, CountersStandStill
<1> USE DEF UntilSample, UntilMounts, UntilDeployment, Disks, Quiet, Works, history
<1>1. CASE collectHostnameInto \/ loadConfig \/ collectMemoryStatus \/ collectUptimeStatus
           \/ collectInventoryInto
  <2>1. Stand
    BY <1>1 DEF collectHostnameInto, loadConfig, collectMemoryStatus, collectUptimeStatus,
                collectInventoryInto, ReadPart
  <2> QED
    BY <1>f, <2>1
<1>2. CASE collectOstreeStatus
  <2>1. Stand
    BY <1>0, <1>2 DEF collectOstreeStatus, Fallback
  <2> QED
    BY <1>f, <2>1
<1>3. CASE readDiskMounts
  <2>1. Stand
    BY <1>0, <1>3 DEF readDiskMounts
  <2> QED
    BY <1>f, <2>1
<1>4. CASE statMount
  <2>1. Stand
    BY <1>0, <1>4 DEF statMount, StatResult, Measure, NextMount
  <2> QED
    BY <1>f, <2>1
<1>5. CASE diskStatusForPath
  <2>1. Stand
    BY <1>0, <1>5 DEF diskStatusForPath, NextMount
  <2> QED
    BY <1>f, <2>1
<1>6. CASE readCPUTimes
  <2>1. /\ step = "cpu" /\ ran' = ran /\ host' = host /\ page' = page
        /\ ran = [busy |-> 0, idle |-> 0]
    BY <1>0, <1>6 DEF readCPUTimes, CpuInv, CountersStand
  <2>2. step' = "sample" => local'.before = host.stat
    BY <1>0, <1>6 DEF readCPUTimes
  <2> QED
    BY <2>1, <2>2 DEF CpuInv, CountersStand, CpuNeverOverstated
<1>7. ASSUME NEW tick \in Ticks, collectCPUStatus(tick) PROVE CpuInv'
  <2> DEFINE stat == [total |-> (host.stat.total + tick.busy + tick.idle) % Width,
                      idle |-> (host.stat.idle + tick.idle) % Width]
  <2>1. step = "sample" /\ step' = "uptime" /\ ran' = tick /\ local.before = host.stat
    BY <1>0, <1>7 DEF collectCPUStatus, CpuInv, CountersStand
  <2>2. CASE "cpu" \in failed'
    BY <2>1, <2>2 DEF CpuInv, CountersStand, CpuNeverOverstated
  <2>3. CASE "cpu" \notin failed'
    <3>1. page'.cpu = cpuUsedPercent(host.stat, stat)
      BY <1>0, <1>7, <2>1, <2>3 DEF collectCPUStatus, Fails
    <3>2. tick.busy + tick.idle # 0 =>
             IF tick.idle >= 0
             THEN page'.cpu.used * (tick.busy + tick.idle) = tick.busy * page'.cpu.total
             ELSE page'.cpu.used <= page'.cpu.total
      <4> HIDE DEF stat
      <4>1. SUFFICES ASSUME tick.busy + tick.idle # 0
                     PROVE  IF tick.idle >= 0
                            THEN page'.cpu.used * (tick.busy + tick.idle) = tick.busy * page'.cpu.total
                            ELSE page'.cpu.used <= page'.cpu.total
        OBVIOUS
      <4> QED
        BY <1>0, <3>1, <4>1, UsedIsAShare DEF stat
    <3>3. CpuNeverOverstated'
      BY <2>1, <3>2 DEF CpuNeverOverstated
    <3> QED
      BY <2>1, <3>3 DEF CpuInv, CountersStand
  <2> QED
    BY <2>2, <2>3
<1>8. CASE linkList \/ addrList \/ routeList
  <2>1. Stand
    BY <1>0, <1>8 DEF linkList, addrList, routeList
  <2> QED
    BY <1>f, <2>1
<1>9. CASE listContainers \/ collectRunningContainerStatuses
  <2>1. Stand
    BY <1>0, <1>9 DEF listContainers, collectRunningContainerStatuses
  <2> QED
    BY <1>f, <2>1
<1>10. ASSUME NEW c \in local.list, buildRunningContainerStatus(c) PROVE Stand
  BY <1>0, <1>10 DEF buildRunningContainerStatus
<1>11. ASSUME NEW r \in Reader, snapshotLog(r) PROVE Stand
  BY <1>11 DEF snapshotLog, Snapshot
<1> QED
  BY <1>f, <1>1, <1>2, <1>3, <1>4, <1>5, <1>6, <1>7, <1>8, <1>9, <1>10, <1>11 DEF Collect

\* The least of a set of numbers (First in StatusPage).
LEMMA FirstIsLeast ==
    ASSUME NEW S \in SUBSET Nat, S # {}
    PROVE  First(S) \in S /\ \A k \in S : First(S) <= k
<1>1. PICK x \in S : \A y \in S : ~(<<y, x>> \in OpToRel(<, Nat))
  BY NatLessThanWellFounded, WFMin
<1>2. \A y \in S : ~(y < x)
  BY <1>1 DEF OpToRel
<1>3. \A y \in S : x <= y
  BY <1>2
<1> QED
  BY <1>3 DEF First

\* A step that tells what fails, or after which everything has been told.
LEMMA ToldStands ==
    ASSUME FailuresAreTold, failed \subseteq failed',
           page'.containers = page.containers,
           \/ errors' = errors /\ failed' = failed
           \/ errors' # {} /\ failed' # {},
           step = "inspect" => step' = "inspect" \/ errors' # {} \/ ~containerStatusErrors
    PROVE  FailuresAreTold'
  BY DEF FailuresAreTold, containerStatusErrors

\* A page is degraded when something failed, and only then.
LEMMA CollectTells ==
    ASSUME PageInv, Collect
    PROVE  FailuresAreTold'
<1> DEFINE Stand ==
      /\ page'.containers = page.containers
      /\ \/ errors' = errors /\ failed' = failed
         \/ errors' # {} /\ failed' # {}
      /\ step = "inspect" => step' = "inspect" \/ errors' # {} \/ ~containerStatusErrors
<1>0. /\ DOMAIN page = {"ostree", "disks", "cpu", "interfaces", "routes", "containers"}
      /\ FailuresAreTold
  BY DEF PageInv, PageTypeOK
<1>s. failed \subseteq failed'
  BY CollectLeaves DEF PageInv
<1>f. Stand => FailuresAreTold'
  BY <1>0, <1>s, ToldStands
<1> USE DEF Works, Fails, Told
<1>1. CASE collectHostnameInto \/ loadConfig \/ collectMemoryStatus \/ collectUptimeStatus
           \/ collectInventoryInto
  <2>1. Stand
    BY <1>1 DEF collectHostnameInto, loadConfig, collectMemoryStatus, collectUptimeStatus,
                collectInventoryInto, ReadPart
  <2> QED
    BY <1>f, <2>1
<1>2. CASE collectOstreeStatus
  <2>1. Stand
    BY <1>0, <1>2 DEF collectOstreeStatus, Fallback
  <2> QED
    BY <1>f, <2>1
<1>3. CASE readDiskMounts \/ readCPUTimes
  <2>1. Stand
    BY <1>0, <1>3 DEF readDiskMounts, readCPUTimes
  <2> QED
    BY <1>f, <2>1
<1>4. CASE statMount \/ diskStatusForPath
  <2>1. Stand
    BY <1>0, <1>4 DEF statMount, diskStatusForPath
  <2> QED
    BY <1>f, <2>1
<1>5. ASSUME NEW tick \in Ticks, collectCPUStatus(tick) PROVE Stand
  BY <1>0, <1>5 DEF collectCPUStatus
<1>6. CASE linkList \/ addrList \/ routeList
  <2>1. Stand
    BY <1>0, <1>6 DEF linkList, addrList, routeList
  <2> QED
    BY <1>f, <2>1
<1>7. CASE listContainers
  <2>1. Stand
    BY <1>0, <1>7 DEF listContainers
  <2> QED
    BY <1>f, <2>1
<1>8. CASE collectRunningContainerStatuses
  <2>1. /\ step = "inspect" /\ step' = "log" /\ page' = page /\ failed' = failed
        /\ errors' = IF containerStatusErrors THEN errors \cup {"container"} ELSE errors
    BY <1>8 DEF collectRunningContainerStatuses
  <2>2. containerStatusErrors => failed # {}
    BY <1>0 DEF FailuresAreTold, containerStatusErrors
  <2> QED
    BY <1>0, <2>1, <2>2 DEF FailuresAreTold
<1>9. ASSUME NEW c \in local.list, buildRunningContainerStatus(c) PROVE FailuresAreTold'
  <2>1. /\ step = "inspect" /\ step' = "inspect" /\ errors' = errors
        /\ \/ /\ page'.containers = page.containers \cup {Entry(c, TRUE)}
              /\ failed' = failed
           \/ /\ page'.containers = page.containers \cup {Entry(c, FALSE)}
              /\ failed' = failed \cup {c}
    BY <1>0, <1>9 DEF buildRunningContainerStatus
  <2>2. Entry(c, TRUE).ok /\ ~Entry(c, FALSE).ok /\ Entry(c, FALSE).id = c
    BY DEF Entry
  <2> QED
    BY <1>0, <2>1, <2>2 DEF FailuresAreTold, containerStatusErrors
<1>10. ASSUME NEW r \in Reader, snapshotLog(r) PROVE Stand
  BY <1>10 DEF snapshotLog
<1> QED
  BY <1>f, <1>1, <1>2, <1>3, <1>4, <1>5, <1>6, <1>7, <1>8, <1>9, <1>10 DEF Collect

\* The deployment of the page is the booted one, whichever tool answered.
LEMMA CollectBooted ==
    ASSUME PageInv, Collect
    PROVE  BootedIsShown'
<1> DEFINE Stand ==
      /\ page'.ostree = page.ostree
      /\ step' \notin UntilDeployment => step \notin UntilDeployment \/ "ostree" \in failed'
<1>0. /\ DOMAIN page = {"ostree", "disks", "cpu", "interfaces", "routes", "containers"}
      /\ host.deployments \in Seq(Deployment)
      /\ \E n \in DOMAIN host.deployments : host.deployments[n].booted
      /\ BootedIsShown
  BY DEF PageInv, PageTypeOK, HostStands
<1>s. failed \subseteq failed'
  BY CollectLeaves DEF PageInv
<1>f. Stand => BootedIsShown'
  BY <1>0, <1>s DEF BootedIsShown
<1> USE DEF UntilDeployment, Works, Fails
<1>1. CASE collectHostnameInto \/ loadConfig \/ collectMemoryStatus \/ collectUptimeStatus
           \/ collectInventoryInto
  <2>1. Stand
    BY <1>1 DEF collectHostnameInto, loadConfig, collectMemoryStatus, collectUptimeStatus,
                collectInventoryInto, ReadPart
  <2> QED
    BY <1>f, <2>1
<1>2. CASE collectOstreeStatus
  <2>1. CASE Stand
    BY <1>f, <2>1
  <2>2. CASE ~Stand
    <3> DEFINE booted == {n \in DOMAIN host.deployments : host.deployments[n].booted}
    <3>1. booted # {} /\ booted \in SUBSET Nat
      BY <1>0
    <3>2. host.deployments[First(booted)].booted
      BY <3>1, FirstIsLeast
    <3>3. parseRPMOstreeStatus(host.deployments).booted
      BY <3>1, <3>2 DEF parseRPMOstreeStatus
    <3>4. LET d == CHOOSE d \in {host.deployments[n] : n \in DOMAIN host.deployments} : d.booted
          IN d.booted
      BY <1>0
    <3> DEFINE shown == IF step = "rpm" THEN parseRPMOstreeStatus(host.deployments)
                        ELSE CHOOSE d \in {host.deployments[n] : n \in DOMAIN host.deployments} :
                                 d.booted
    <3>a. \/ page' = [page EXCEPT !.ostree = shown]
          \/ /\ page' = page /\ step' = Fallback[step]
             /\ step = "ostree" => "ostree" \in failed'
      BY <1>2 DEF collectOstreeStatus
    <3>b. /\ step \in {"rpm", "bootc", "ostree"}
          /\ step = "rpm" => Fallback[step] = "bootc"
          /\ step = "bootc" => Fallback[step] = "ostree"
      BY <1>2 DEF collectOstreeStatus, Fallback
    <3> HIDE DEF shown
    <3>c. page' = [page EXCEPT !.ostree = shown]
      BY <2>2, <3>a, <3>b
    <3>5. page'.ostree = shown
      BY <1>0, <3>c
    <3>6. page'.ostree.booted
      BY <3>3, <3>4, <3>5 DEF shown
    <3> QED
      BY <3>6 DEF BootedIsShown
  <2> QED
    BY <2>1, <2>2
<1>3. CASE readDiskMounts \/ readCPUTimes
  <2>1. Stand
    BY <1>0, <1>3 DEF readDiskMounts, readCPUTimes
  <2> QED
    BY <1>f, <2>1
<1>4. CASE statMount \/ diskStatusForPath
  <2>1. Stand
    BY <1>0, <1>4 DEF statMount, diskStatusForPath
  <2> QED
    BY <1>f, <2>1
<1>5. ASSUME NEW tick \in Ticks, collectCPUStatus(tick) PROVE Stand
  BY <1>0, <1>5 DEF collectCPUStatus
<1>6. CASE linkList \/ addrList \/ routeList
  <2>1. Stand
    BY <1>0, <1>6 DEF linkList, addrList, routeList
  <2> QED
    BY <1>f, <2>1
<1>7. CASE listContainers \/ collectRunningContainerStatuses
  <2>1. Stand
    BY <1>0, <1>7 DEF listContainers, collectRunningContainerStatuses
  <2> QED
    BY <1>f, <2>1
<1>8. ASSUME NEW c \in local.list, buildRunningContainerStatus(c) PROVE Stand
  BY <1>0, <1>8 DEF buildRunningContainerStatus
<1>9. ASSUME NEW r \in Reader, snapshotLog(r) PROVE Stand
  BY <1>9 DEF snapshotLog
<1> QED
  BY <1>f, <1>1, <1>2, <1>3, <1>4, <1>5, <1>6, <1>7, <1>8, <1>9 DEF Collect

\* The mount point whose turn it is.
LEMMA PointOfTodo ==
    ASSUME local.todo \subseteq DOMAIN Table, local.todo # {}
    PROVE  /\ First(local.todo) \in local.todo /\ First(local.todo) \in DOMAIN Table
           /\ \A k \in local.todo : First(local.todo) <= k
           /\ Point = Table[First(local.todo)] /\ Point \in Mount
<1>1. local.todo \in SUBSET Nat
  BY PageConstants
<1>2. First(local.todo) \in local.todo /\ \A k \in local.todo : First(local.todo) <= k
  BY <1>1, FirstIsLeast
<1> QED
  BY <1>2, PageConstants DEF Point

\* A step that leaves the list and the entries of the containers alone, and
\* fails, if at all, by something else.
LEMMA ListStands ==
    ASSUME ContainersAreListed,
           page'.containers = page.containers, local'.list = local.list,
           still'.running \subseteq still.running,
           failed \subseteq failed', failed' \cap Container = failed \cap Container,
           still.running \subseteq Container, local.list \subseteq Container,
           step' \in UntilList => step \in UntilList,
           step' = "inspect" => step = "inspect",
           step' \in {"log", "done"} => \/ step \in {"log", "done"} \/ "list" \in failed'
                                        \/ step = "inspect" /\ local.list = {}
    PROVE  ContainersAreListed'
<1>1. \A c \in Container : c \in failed' <=> c \in failed
  OBVIOUS
<1>2. \A c \in still.running : Listed(c) => (Listed(c))'
  BY <1>1 DEF Listed, Entry
<1>3. step' \in UntilList => failed' \cap Container = {}
  BY DEF ContainersAreListed
<1>4. step' = "inspect" => /\ \A c \in still'.running : c \in local'.list \/ (Listed(c))'
                           /\ local'.list \cap failed' = {}
  BY <1>1, <1>2 DEF ContainersAreListed
<1>5. step' \in {"log", "done"} /\ "list" \notin failed' => \A c \in still'.running : (Listed(c))'
  BY <1>1, <1>2 DEF ContainersAreListed
<1> QED
  BY <1>3, <1>4, <1>5 DEF ContainersAreListed

\* A container that ran all the time gets an entry, with its own readings unless
\* they failed.
LEMMA CollectContainers ==
    ASSUME PageInv, Collect
    PROVE  ContainersAreListed'
<1> DEFINE Stand ==
      /\ page'.containers = page.containers /\ local'.list = local.list
      /\ failed' \cap Container = failed \cap Container
      /\ step' \in UntilList => step \in UntilList
      /\ step' = "inspect" => step = "inspect"
      /\ step' \in {"log", "done"} => \/ step \in {"log", "done"} \/ "list" \in failed'
                                      \/ step = "inspect" /\ local.list = {}
<1>0. /\ DOMAIN page = {"ostree", "disks", "cpu", "interfaces", "routes", "containers"}
      /\ DOMAIN local = {"todo", "seen", "names", "unread", "before", "list"}
      /\ local.list \subseteq Container /\ local.todo \subseteq DOMAIN Table
      /\ host.running \subseteq Container /\ still.running \subseteq host.running
      /\ failed \subseteq Part \cup Mount \cup Container
      /\ ContainersAreListed /\ UnderMeasure
  BY DEF PageInv, PageTypeOK, HostStands, DisksInv
<1>s. still' = still /\ failed \subseteq failed'
  BY CollectLeaves DEF PageInv
<1>f. Stand => ContainersAreListed'
  BY <1>0, <1>s, ListStands
<1>p. \A w \in Part \cup Mount : (failed \cup {w}) \cap Container = failed \cap Container
  BY PageConstants
<1> USE DEF UntilList, UntilRoutes, UntilLinks, UntilSample, UntilMounts, UntilDeployment, Disks,
            Quiet, Works, Fails
<1>1. CASE collectHostnameInto \/ loadConfig \/ collectMemoryStatus \/ collectUptimeStatus
           \/ collectInventoryInto
  <2>1. Stand
    BY <1>1, <1>p DEF collectHostnameInto, loadConfig, collectMemoryStatus, collectUptimeStatus,
                collectInventoryInto, ReadPart, Part
  <2> QED
    BY <1>f, <2>1
<1>2. CASE collectOstreeStatus
  <2>1. Stand
    BY <1>0, <1>2, <1>p DEF collectOstreeStatus, Fallback, Part
  <2> QED
    BY <1>f, <2>1
<1>3. CASE readDiskMounts \/ readCPUTimes
  <2>1. Stand
    BY <1>0, <1>3, <1>p DEF readDiskMounts, readCPUTimes, Part
  <2> QED
    BY <1>f, <2>1
<1>4. CASE statMount \/ diskStatusForPath
  <2>1. ASSUME local.todo # {} PROVE Point \in Mount
    BY <1>0, <2>1, PointOfTodo
  <2>2. failed' = failed \/ (failed' = failed \cup {Point} /\ local.todo # {})
    <3>1. CASE statMount
      BY <3>1 DEF statMount
    <3>2. CASE diskStatusForPath
      BY <1>0, <3>2 DEF diskStatusForPath, UnderMeasure
    <3> QED
      BY <1>4, <3>1, <3>2
  <2>3. failed' \cap Container = failed \cap Container
    BY <1>p, <2>1, <2>2
  <2>4. /\ page'.containers = page.containers /\ local'.list = local.list
        /\ step \in UntilList /\ step' \in {"stat", "statfs", "memory"}
    BY <1>0, <1>4 DEF statMount, diskStatusForPath, StatResult, Measure, NextMount
  <2>5. Stand
    BY <2>3, <2>4
  <2> QED
    BY <1>f, <2>5
<1>5. ASSUME NEW tick \in Ticks, collectCPUStatus(tick) PROVE Stand
  BY <1>0, <1>5, <1>p DEF collectCPUStatus, Part
<1>6. CASE linkList \/ addrList \/ routeList
  <2>1. Stand
    BY <1>0, <1>6, <1>p DEF linkList, addrList, routeList, Part
  <2> QED
    BY <1>f, <2>1
<1>7. CASE listContainers
  <2>1. CASE step' = "log"
    <3>1. Stand
      BY <1>0, <1>7, <1>p, <2>1 DEF listContainers, Part
    <3> QED
      BY <1>f, <3>1
  <2>2. CASE step' # "log"
    <3>1. /\ step' = "inspect" /\ local'.list = host.running /\ failed' = failed
          /\ failed \cap Container = {}
      BY <1>0, <1>7, <2>2 DEF listContainers, ContainersAreListed
    <3> QED
      BY <1>0, <1>s, <3>1 DEF ContainersAreListed
  <2> QED
    BY <2>1, <2>2
<1>8. CASE collectRunningContainerStatuses
  <2>1. Stand
    BY <1>8 DEF collectRunningContainerStatuses
  <2> QED
    BY <1>f, <2>1
<1>9. ASSUME NEW c \in local.list, buildRunningContainerStatus(c) PROVE ContainersAreListed'
  <2>1. /\ step = "inspect" /\ step' = "inspect" /\ local'.list = local.list \ {c}
        /\ \/ /\ page'.containers = page.containers \cup {Entry(c, TRUE)}
              /\ failed' = failed
           \/ /\ page'.containers = page.containers \cup {Entry(c, FALSE)}
              /\ failed' = failed \cup {c}
    BY <1>0, <1>9 DEF buildRunningContainerStatus
  <2>2. c \notin failed /\ \A d \in still.running : d \in local.list \/ Listed(d)
    BY <1>0, <2>1 DEF ContainersAreListed
  <2>3. (Listed(c))'
    BY <2>1, <2>2 DEF Listed, Entry
  <2>4. \A d \in still.running \ {c} : Listed(d) => (Listed(d))'
    BY <2>1 DEF Listed, Entry
  <2>5. \A d \in still'.running : d \in local'.list \/ (Listed(d))'
    BY <1>s, <2>1, <2>2, <2>3, <2>4
  <2>6. local'.list \cap failed' = {}
    BY <1>0, <2>1 DEF ContainersAreListed
  <2> QED
    BY <2>1, <2>5, <2>6 DEF ContainersAreListed
<1>10. ASSUME NEW r \in Reader, snapshotLog(r) PROVE Stand
  BY <1>10 DEF snapshotLog
<1> QED
  BY <1>f, <1>1, <1>2, <1>3, <1>4, <1>5, <1>6, <1>7, <1>8, <1>9, <1>10 DEF Collect

\* What has been handled stays handled while its mounts stay.
LEMMA HandledStands ==
    ASSUME NEW d, Handled(d), failed \subseteq failed',
           \A m \in Mount : host.mounted[m] = d => host'.mounted[m] = d,
           Reported(d) # {} => (Reported(d))' # {}
    PROVE  (Handled(d))'
<1>1. PointsOf(d) \subseteq (PointsOf(d))'
  BY DEF PointsOf
<1> QED
  BY <1>1 DEF Handled

\* One more entry of the disks reports its own device, and no other less.
LEMMA OneMoreDisk ==
    ASSUME NEW e \in [path : Mount, device : Device \cup {Gone}],
           page.disks \in Seq([path : Mount, device : Device \cup {Gone}]),
           page'.disks = Append(page.disks, e)
    PROVE  /\ (Reported(e.device))' # {}
           /\ \A d : Reported(d) # {} => (Reported(d))' # {}
           /\ DOMAIN page'.disks = DOMAIN page.disks \cup {Len(page.disks) + 1}
           /\ Len(page.disks) + 1 \notin DOMAIN page.disks
           /\ page'.disks[Len(page.disks) + 1] = e
           /\ \A n \in DOMAIN page.disks : page'.disks[n] = page.disks[n]
<1>1. /\ Len(page'.disks) = Len(page.disks) + 1 /\ Len(page.disks) \in Nat
      /\ page'.disks \in Seq([path : Mount, device : Device \cup {Gone}])
      /\ page'.disks[Len(page.disks) + 1] = e
      /\ \A n \in 1..Len(page.disks) : page'.disks[n] = page.disks[n]
  OBVIOUS
<1>2. DOMAIN page.disks = 1..Len(page.disks) /\ DOMAIN page'.disks = 1..(Len(page.disks) + 1)
  BY <1>1
<1>3. /\ DOMAIN page'.disks = DOMAIN page.disks \cup {Len(page.disks) + 1}
      /\ Len(page.disks) + 1 \notin DOMAIN page.disks
  BY <1>1, <1>2
<1>4. Len(page.disks) + 1 \in (Reported(e.device))'
  BY <1>1, <1>3 DEF Reported
<1>5. \A d : Reported(d) \subseteq (Reported(d))'
  BY <1>1, <1>2, <1>3 DEF Reported
<1> QED
  BY <1>1, <1>2, <1>3, <1>4, <1>5

\* A step that leaves the disks alone, and the mounts of what has not changed.
LEMMA DisksStand ==
    ASSUME DisksInv,
           page'.disks = page.disks, local'.seen = local.seen, local'.todo = local.todo,
           local.todo \subseteq DOMAIN Table,
           host.mounted \in [Mount -> Device \cup {Gone}],
           host'.mounted \in [Mount -> Device \cup {Gone}],
           failed \subseteq failed',
           still'.devices \subseteq still.devices, still.devices \subseteq Device,
           \A d \in still'.devices : \A m \in Mount : host'.mounted[m] = d <=> host.mounted[m] = d,
           step' \in UntilMounts => step \in UntilMounts,
           step \in Disks \/ step' \in Disks => step' = step,
           step' \notin UntilMounts \cup Disks =>
               step \notin UntilMounts \cup Disks \/ "mounts" \in failed'
    PROVE  DisksInv'
<1>1. Point' = Point
  BY DEF Point
<1>2. \A n \in DOMAIN Table : Table[n] \in Mount
  BY PageConstants
<1>3. step' = "statfs" => Point \in Mount
  BY PointOfTodo DEF DisksInv, UnderMeasure, Disks
<1>4. \A d \in still'.devices : Handled(d) => (Handled(d))'
  <2>1. SUFFICES ASSUME NEW d \in still'.devices, Handled(d) PROVE (Handled(d))'
    OBVIOUS
  <2>2. (Reported(d))' = Reported(d)
    BY DEF Reported
  <2> QED
    BY <2>1, <2>2, HandledStands
<1>5. NoneYet'
  BY DEF DisksInv, NoneYet
<1>6. MountsAreTaken'
  <2>1. SUFFICES ASSUME step' \in Disks, NEW n \in DOMAIN Table,
                        host'.mounted[Table[n]] \in still'.devices
                 PROVE  n \in local.todo \/ host'.mounted[Table[n]] \in local.seen
                        \/ Table[n] \in failed'
    BY DEF MountsAreTaken
  <2>2. host.mounted[Table[n]] = host'.mounted[Table[n]]
    BY <1>2, <2>1
  <2> QED
    BY <2>1, <2>2 DEF DisksInv, MountsAreTaken
<1>7. SeenIsReported'
  <2>1. SUFFICES ASSUME NEW d \in local.seen \cap still'.devices
                 PROVE  (Handled(d))' \/ (step' = "statfs" /\ host'.mounted[Point] = d)
    BY <1>1 DEF SeenIsReported
  <2>2. CASE Handled(d)
    BY <1>4, <2>2
  <2>3. CASE step = "statfs" /\ host.mounted[Point] = d
    BY <1>3, <2>3 DEF Disks
  <2> QED
    BY <2>1, <2>2, <2>3 DEF DisksInv, SeenIsReported
<1>8. UnderMeasure'
  BY <1>1, <1>3 DEF DisksInv, UnderMeasure, Disks
<1>9. DevicesAreHandled'
  <2>1. \A d \in still'.devices : (PointsOf(d))' = PointsOf(d)
    BY DEF PointsOf
  <2> QED
    BY <1>4, <2>1 DEF DisksInv, DevicesAreHandled
<1>10. OncePerDevice'
  <2>1. SUFFICES ASSUME still'.devices = Device PROVE OncePerDevice'
    BY DEF OncePerDevice
  <2>2. host'.mounted = host.mounted
    <3>1. \A m \in Mount : host'.mounted[m] = host.mounted[m]
      BY <2>1
    <3> QED
      BY <3>1
  <2>3. (DeviceAt(Point))' = DeviceAt(Point)
    BY <1>1, <2>2 DEF DeviceAt
  <2>4. still.devices = Device
    BY <2>1
  <2> QED
    BY <2>3, <2>4 DEF DisksInv, OncePerDevice, Disks
<1> QED
  BY <1>5, <1>6, <1>7, <1>8, <1>9, <1>10 DEF DisksInv

\* A device whose mounts stay is reported once, or asking for it failed.
LEMMA CollectDisks ==
    ASSUME PageInv, Collect
    PROVE  DisksInv'
<1> DEFINE Stand ==
      /\ page'.disks = page.disks /\ local'.seen = local.seen /\ local'.todo = local.todo
      /\ step' \in UntilMounts => step \in UntilMounts
      /\ step \in Disks \/ step' \in Disks => step' = step
      /\ step' \notin UntilMounts \cup Disks =>
            step \notin UntilMounts \cup Disks \/ "mounts" \in failed'
<1>0. /\ DOMAIN page = {"ostree", "disks", "cpu", "interfaces", "routes", "containers"}
      /\ DOMAIN local = {"todo", "seen", "names", "unread", "before", "list"}
      /\ DOMAIN host = {"mounted", "links", "routes", "running", "deployments", "tools", "stat"}
      /\ local.todo \subseteq DOMAIN Table
      /\ host.mounted \in [Mount -> Device \cup {Gone}] /\ host.mounted[Root] # Gone
      /\ page.disks \in Seq([path : Mount, device : Device \cup {Gone}])
      /\ still.devices \subseteq Device
      /\ DisksInv
  BY DEF PageInv, PageTypeOK, HostStands
<1>s. still' = still /\ failed \subseteq failed' /\ host'.mounted = host.mounted
  BY <1>0, CollectLeaves DEF PageInv
<1>f. Stand => DisksInv'
  BY <1>0, <1>s, DisksStand
<1>h. \A d : Handled(d) /\ (Reported(d) # {} => (Reported(d))' # {}) => (Handled(d))'
  BY <1>s, HandledStands
<1>m. ASSUME NEW m \in Mount, host.mounted[m] \in still.devices PROVE DeviceAt(m) = host.mounted[m]
  BY <1>0, <1>m, PageConstants DEF DeviceAt
<1>n. (DeviceAt(Root))' = DeviceAt(Root) /\ \A m \in Mount : (DeviceAt(m))' = DeviceAt(m)
  BY <1>s DEF DeviceAt
<1> USE DEF UntilMounts, UntilDeployment, Disks, Works, Fails
<1>1. CASE collectHostnameInto \/ loadConfig \/ collectMemoryStatus \/ collectUptimeStatus
           \/ collectInventoryInto
  <2>1. Stand
    BY <1>1 DEF collectHostnameInto, loadConfig, collectMemoryStatus, collectUptimeStatus,
                collectInventoryInto, ReadPart
  <2> QED
    BY <1>f, <2>1
<1>2. CASE collectOstreeStatus
  <2>1. Stand
    BY <1>0, <1>2 DEF collectOstreeStatus, Fallback
  <2> QED
    BY <1>f, <2>1
<1>3. CASE readDiskMounts
  <2>1. CASE step' = "memory"
    <3>1. Stand
      BY <1>3, <2>1 DEF readDiskMounts
    <3> QED
      BY <1>f, <3>1
  <2>2. CASE step' # "memory"
    <3>1. /\ step' = "stat" /\ page' = page /\ local'.seen = {} /\ page.disks = <<>>
          /\ local'.todo = {n \in DOMAIN Table : host.mounted[Table[n]] # Gone}
      BY <1>0, <1>3, <2>2 DEF readDiskMounts, DisksInv, NoneYet
    <3>2. MountsAreTaken'
      BY <1>0, <1>s, <3>1, PageConstants DEF MountsAreTaken
    <3> QED
      BY <3>1, <3>2 DEF DisksInv, NoneYet, SeenIsReported, UnderMeasure, DevicesAreHandled,
                        OncePerDevice
  <2> QED
    BY <2>1, <2>2
<1>4. CASE step = "stat" /\ local.todo = {} /\ step' = "memory" /\ UNCHANGED <<page, local, failed>>
  <2>1. ASSUME NEW d \in still.devices, PointsOf(d) # {} PROVE (Handled(d))'
    <3>1. PICK m \in Mount : host.mounted[m] = d
      BY <2>1 DEF PointsOf
    <3>2. PICK n \in DOMAIN Table : Table[n] = m
      BY DEF Mount
    <3>3. d \in local.seen \/ m \in failed
      BY <1>0, <1>4, <3>1, <3>2 DEF DisksInv, MountsAreTaken
    <3>4. Handled(d)
      BY <1>0, <1>4, <3>1, <3>3 DEF DisksInv, SeenIsReported, Handled, PointsOf
    <3> QED
      BY <1>4, <1>h, <3>4 DEF Reported
  <2>2. (\A d : Handled(d) => (Handled(d))') /\ (\A d : (PointsOf(d))' = PointsOf(d))
    BY <1>4, <1>h, <1>s DEF Reported, PointsOf
  <2> QED
    BY <1>0, <1>4, <1>s, <2>1, <2>2
       DEF DisksInv, NoneYet, MountsAreTaken, SeenIsReported, UnderMeasure, DevicesAreHandled,
           OncePerDevice
\* On to the next mount point, from one that is seen, reported or failed.
<1>5. ASSUME local.todo # {}, step \in Disks, NextMount,
             \A d \in local.seen \cap still.devices : (Handled(d))',
             host.mounted[Point] \in still.devices =>
                 host.mounted[Point] \in local.seen \/ Point \in failed',
             OncePerDevice'
      PROVE  DisksInv'
  <2>1. /\ step' = "stat" /\ local'.seen = local.seen
        /\ local'.todo = local.todo \ {First(local.todo)}
    BY <1>0, <1>5 DEF NextMount
  <2>2. Point \in Mount /\ Point = Table[First(local.todo)]
    BY <1>0, <1>5, PointOfTodo
  <2>3. MountsAreTaken'
    <3>1. SUFFICES ASSUME NEW n \in DOMAIN Table, host.mounted[Table[n]] \in still.devices,
                          n \notin local'.todo, Table[n] \notin failed'
                   PROVE  host.mounted[Table[n]] \in local.seen
      BY <1>s, <2>1 DEF MountsAreTaken
    <3>2. CASE n \in local.todo
      <4>1. Table[n] = Point
        BY <2>1, <2>2, <3>1, <3>2
      <4> QED
        BY <1>5, <2>2, <3>1, <4>1
    <3>3. CASE n \notin local.todo
      BY <1>0, <1>5, <1>s, <3>1, <3>3 DEF DisksInv, MountsAreTaken
    <3> QED
      BY <3>2, <3>3
  <2>4. SeenIsReported'
    BY <1>5, <1>s, <2>1 DEF SeenIsReported
  <2> QED
    BY <1>5, <2>1, <2>3, <2>4 DEF DisksInv, NoneYet, UnderMeasure, DevicesAreHandled
\* The numbers of a mount point are asked for.
<1>6. ASSUME step = "stat", local.todo # {}, Measure, DeviceAt(Point) \notin local.seen,
             UNCHANGED <<page, failed>>
      PROVE  DisksInv'
  <2>1. /\ step' = "statfs" /\ local'.todo = local.todo
        /\ local'.seen = local.seen \cup {DeviceAt(Point)}
    BY <1>0, <1>6 DEF Measure
  <2>2. Point \in Mount /\ Point = Table[First(local.todo)] /\ Point' = Point
        /\ First(local.todo) \in DOMAIN Table /\ \A k \in local.todo : First(local.todo) <= k
    BY <1>0, <1>6, <2>1, PointOfTodo DEF Point
  <2>3. MountsAreTaken'
    BY <1>0, <1>6, <1>s, <2>1 DEF DisksInv, MountsAreTaken
  <2>4. ASSUME NEW d \in still.devices, d \in local'.seen, host.mounted[Point] # d
        PROVE  Handled(d)
    <3>1. CASE d \in local.seen
      BY <1>0, <1>6, <3>1 DEF DisksInv, SeenIsReported
    <3>2. CASE d \notin local.seen
      <4>1. d = host.mounted[Root] /\ Point # Root
        BY <2>1, <2>4, <3>2 DEF DeviceAt
      <4>2. 1 \notin local.todo
        <5>1. SUFFICES ASSUME 1 \in local.todo PROVE FALSE
          OBVIOUS
        <5>2. First(local.todo) <= 1 /\ First(local.todo) \in Nat \ {0}
          BY <2>2, <5>1, PageConstants
        <5>3. First(local.todo) = 1
          BY <5>2
        <5> QED
          BY <2>2, <4>1, <5>3, PageConstants
      <4>3. Root \in failed
        BY <1>0, <1>6, <3>2, <4>1, <4>2, PageConstants DEF DisksInv, MountsAreTaken
      <4> QED
        BY <4>1, <4>3, PageConstants DEF Handled, PointsOf
    <3> QED
      BY <3>1, <3>2
  <2>5. SeenIsReported'
    <3>1. \A d : Handled(d) => (Handled(d))'
      BY <1>6, <1>h DEF Reported
    <3> QED
      BY <1>s, <2>1, <2>2, <2>4, <3>1 DEF SeenIsReported
  <2>6. UnderMeasure'
    BY <1>6, <1>m, <1>s, <2>1, <2>2 DEF UnderMeasure
  <2>7. OncePerDevice'
    <3>1. SUFFICES ASSUME still.devices = Device PROVE OncePerDevice'
      BY <1>s DEF OncePerDevice
    <3>2. (DeviceAt(Point))' = DeviceAt(Point)
      BY <1>n, <2>2 DEF DeviceAt
    <3> QED
      BY <1>0, <1>6, <2>1, <3>1, <3>2 DEF DisksInv, OncePerDevice
  <2> QED
    BY <2>1, <2>3, <2>5, <2>6, <2>7 DEF DisksInv, NoneYet, DevicesAreHandled
<1>7. CASE statMount
  <2>1. CASE local.todo = {}
    BY <1>4, <1>7, <2>1 DEF statMount
  <2>2. CASE local.todo # {}
    <3>1. Point \in Mount
      BY <1>0, <2>2, PointOfTodo
    <3>2. step = "stat" /\ page' = page
      BY <1>7 DEF statMount
    <3>3. \A d \in local.seen \cap still.devices : (Handled(d))'
      BY <1>0, <1>h, <3>2 DEF Reported, DisksInv, SeenIsReported
    <3>4. NextMount => OncePerDevice'
      <4>1. SUFFICES ASSUME NextMount, still.devices = Device PROVE OncePerDevice'
        BY <1>s DEF OncePerDevice
      <4>2. local'.seen = local.seen /\ step' = "stat"
        BY <1>0, <4>1 DEF NextMount
      <4> QED
        BY <1>0, <3>2, <4>1, <4>2 DEF DisksInv, OncePerDevice
    <3>5. \/ Works /\ StatResult
          \/ Fails(Point) /\ NextMount
      BY <1>7, <2>2 DEF statMount
    <3>6. CASE Works /\ DeviceAt(Point) \notin local.seen /\ Measure
      BY <1>6, <2>2, <3>2, <3>6
    <3>7. CASE NextMount /\ (DeviceAt(Point) \in local.seen \/ Point \in failed')
      <4>1. host.mounted[Point] \in still.devices =>
                host.mounted[Point] \in local.seen \/ Point \in failed'
        BY <1>m, <3>1, <3>7
      <4> QED
        BY <1>5, <2>2, <3>2, <3>3, <3>4, <3>7, <4>1
    <3> QED
      BY <3>5, <3>6, <3>7 DEF StatResult
  <2> QED
    BY <2>1, <2>2
<1>8. CASE diskStatusForPath
  <2>1. step = "statfs" /\ NextMount /\ local.todo # {}
    BY <1>0, <1>8 DEF diskStatusForPath, DisksInv, UnderMeasure
  <2>2. Point \in Mount
    BY <1>0, <2>1, PointOfTodo
  <2>3. local'.seen = local.seen /\ step' = "stat"
    BY <1>0, <2>1 DEF NextMount
  <2>4. PICK e \in [path : Mount, device : Device \cup {Gone}] :
            e = [path |-> Point, device |-> DeviceAt(Point)]
    <3>1. DeviceAt(Point) \in Device \cup {Gone}
      BY <1>0, <2>2, PageConstants DEF DeviceAt
    <3> HIDE DEF Fails, Works
    <3> QED
      BY <2>2, <3>1
  <2>5. host.mounted[Point] \in still.devices => host.mounted[Point] \in local.seen
    BY <1>0, <2>1 DEF DisksInv, UnderMeasure
  <2>6. CASE page' = page /\ Point \in failed'
    <3>1. \A d \in local.seen \cap still.devices : (Handled(d))'
      <4>1. SUFFICES ASSUME NEW d \in local.seen \cap still.devices PROVE (Handled(d))'
        OBVIOUS
      <4>2. CASE Handled(d)
        BY <1>h, <2>6, <4>2 DEF Reported
      <4>3. CASE ~Handled(d)
        <5>1. host.mounted[Point] = d
          BY <1>0, <4>1, <4>3 DEF DisksInv, SeenIsReported
        <5>2. Point \in (PointsOf(d))'
          BY <1>s, <2>2, <5>1 DEF PointsOf
        <5> QED
          BY <2>6, <5>2 DEF Handled
      <4> QED
        BY <4>2, <4>3
    <3>2. OncePerDevice'
      BY <1>0, <1>s, <2>3, <2>6 DEF DisksInv, OncePerDevice
    <3> QED
      BY <1>5, <2>1, <2>6, <3>1, <3>2
  <2>7. CASE page' = [page EXCEPT !.disks = Append(@, e)]
    <3>0. page'.disks = Append(page.disks, e)
      BY <1>0, <2>7
    <3>1. /\ (Reported(e.device))' # {}
          /\ \A d : Reported(d) # {} => (Reported(d))' # {}
          /\ DOMAIN page'.disks = DOMAIN page.disks \cup {Len(page.disks) + 1}
          /\ page'.disks[Len(page.disks) + 1] = e
          /\ \A n \in DOMAIN page.disks : page'.disks[n] = page.disks[n]
      BY <1>0, <3>0, OneMoreDisk
    <3>2. e.device = DeviceAt(Point)
      BY <2>4
    <3>3. \A d \in local.seen \cap still.devices : (Handled(d))'
      <4>1. SUFFICES ASSUME NEW d \in local.seen \cap still.devices PROVE (Handled(d))'
        OBVIOUS
      <4>2. CASE Handled(d)
        BY <1>h, <3>1, <4>2
      <4>3. CASE ~Handled(d)
        <5>1. host.mounted[Point] = d
          BY <1>0, <4>1, <4>3 DEF DisksInv, SeenIsReported
        <5>2. e.device = d
          BY <1>m, <2>2, <3>2, <4>1, <5>1
        <5> QED
          BY <3>1, <5>2 DEF Handled
      <4> QED
        BY <4>2, <4>3
    <3>4. OncePerDevice'
      <4>1. SUFFICES ASSUME still.devices = Device PROVE OncePerDevice'
        BY <1>s DEF OncePerDevice
      <4>2. /\ \A n \in DOMAIN page.disks : page.disks[n].device \in local.seen
            /\ \A m, n \in DOMAIN page.disks : page.disks[m].device = page.disks[n].device => m = n
            /\ e.device \in local.seen
            /\ \A n \in DOMAIN page.disks : page.disks[n].device # e.device
        BY <1>0, <2>1, <3>2, <4>1 DEF DisksInv, OncePerDevice
      <4>3. \A n \in DOMAIN page'.disks : page'.disks[n].device \in local'.seen
        BY <2>3, <3>1, <4>2
      <4>4. \A m, n \in DOMAIN page'.disks : page'.disks[m].device = page'.disks[n].device => m = n
        BY <3>1, <4>2
      <4> QED
        BY <2>3, <4>3, <4>4 DEF OncePerDevice
    <3> QED
      BY <1>5, <2>1, <2>5, <3>3, <3>4
  <2>8. \/ page' = page /\ Point \in failed'
        \/ page' = [page EXCEPT !.disks = Append(@, e)]
    BY <1>8, <2>4 DEF diskStatusForPath
  <2> QED
    BY <2>6, <2>7, <2>8
<1>9. CASE readCPUTimes
  <2>1. Stand
    BY <1>0, <1>9 DEF readCPUTimes
  <2> QED
    BY <1>f, <2>1
<1>10. ASSUME NEW tick \in Ticks, collectCPUStatus(tick) PROVE Stand
  BY <1>0, <1>10 DEF collectCPUStatus
<1>11. CASE linkList \/ addrList \/ routeList
  <2>1. Stand
    BY <1>0, <1>11 DEF linkList, addrList, routeList
  <2> QED
    BY <1>f, <2>1
<1>12. CASE listContainers \/ collectRunningContainerStatuses
  <2>1. Stand
    BY <1>0, <1>12 DEF listContainers, collectRunningContainerStatuses
  <2> QED
    BY <1>f, <2>1
<1>13. ASSUME NEW c \in local.list, buildRunningContainerStatus(c) PROVE Stand
  BY <1>0, <1>13 DEF buildRunningContainerStatus
<1>14. ASSUME NEW r \in Reader, snapshotLog(r) PROVE Stand
  BY <1>14 DEF snapshotLog
<1> QED
  BY <1>f, <1>1, <1>2, <1>3, <1>7, <1>8, <1>9, <1>10, <1>11, <1>12, <1>13, <1>14 DEF Collect

\* The host keeps its root and its booted deployment; of it a step of the
\* collectors moves the counters only.
LEMMA CollectHost ==
    ASSUME PageInv, Collect
    PROVE  HostStands'
<1>1. HostStands /\ DOMAIN host = {"mounted", "links", "routes", "running", "deployments", "tools", "stat"}
  BY DEF PageInv, PageTypeOK
<1>2. /\ still' = still /\ host'.mounted = host.mounted /\ host'.links = host.links
      /\ host'.running = host.running /\ host'.deployments = host.deployments
  BY <1>1, CollectLeaves DEF PageInv
<1> QED
  BY <1>1, <1>2 DEF HostStands

\* A step that leaves what is typed alone, but for the steps and the failures.
LEMMA TypeStands ==
    ASSUME PageTypeOK, step' \in Step, UNCHANGED <<host, still>>,
           DOMAIN local' = DOMAIN local, local'.todo \subseteq DOMAIN Table,
           local'.list \subseteq Container,
           DOMAIN page' = DOMAIN page,
           page'.disks \in Seq([path : Mount, device : Device \cup {Gone}]),
           failed' \subseteq Part \cup Mount \cup Container
    PROVE  PageTypeOK'
  BY DEF PageTypeOK

\* The collectors keep to their steps, and report mount points and devices.
LEMMA CollectTypeOK ==
    ASSUME PageInv, Collect
    PROVE  PageTypeOK'
<1> DEFINE Typed ==
      /\ step' \in Step /\ UNCHANGED <<host, still>>
      /\ DOMAIN local' = DOMAIN local
      /\ local'.todo \subseteq DOMAIN Table /\ local'.list \subseteq Container
      /\ DOMAIN page' = DOMAIN page
      /\ page'.disks \in Seq([path : Mount, device : Device \cup {Gone}])
      /\ failed' \subseteq Part \cup Mount \cup Container
<1>0. /\ DOMAIN page = {"ostree", "disks", "cpu", "interfaces", "routes", "containers"}
      /\ DOMAIN local = {"todo", "seen", "names", "unread", "before", "list"}
      /\ DOMAIN host = {"mounted", "links", "routes", "running", "deployments", "tools", "stat"}
      /\ host.running \subseteq Container
      /\ local.todo \subseteq DOMAIN Table /\ local.list \subseteq Container
      /\ failed \subseteq Part \cup Mount \cup Container
      /\ page.disks \in Seq([path : Mount, device : Device \cup {Gone}])
      /\ host.mounted \in [Mount -> Device \cup {Gone}] /\ host.mounted[Root] # Gone
      /\ UnderMeasure
  BY DEF PageInv, PageTypeOK, HostStands, DisksInv
<1>f. Typed => PageTypeOK'
  BY TypeStands DEF PageInv
<1>p. \A what \in Part : Fails(what) => failed' \subseteq Part \cup Mount \cup Container
  BY <1>0 DEF Fails
<1> USE DEF Step, UntilList, UntilRoutes, UntilLinks, UntilSample, UntilMounts, UntilDeployment, Disks,
            Quiet, Works, history
<1>1. CASE collectHostnameInto \/ loadConfig \/ collectMemoryStatus \/ collectUptimeStatus
           \/ collectInventoryInto
  <2>1. Typed
    BY <1>0, <1>1, <1>p DEF collectHostnameInto, loadConfig, collectMemoryStatus,
       collectUptimeStatus, collectInventoryInto, ReadPart, Part
  <2> QED
    BY <1>f, <2>1
<1>2. CASE collectOstreeStatus
  <2>1. Typed
    BY <1>0, <1>2 DEF collectOstreeStatus, Fallback, Part
  <2> QED
    BY <1>f, <2>1
<1>3. CASE readDiskMounts \/ readCPUTimes
  <2>1. Typed
    BY <1>0, <1>3, <1>p DEF readDiskMounts, readCPUTimes, Part
  <2> QED
    BY <1>f, <2>1
<1>4. ASSUME local.todo # {}, Works \/ Fails(Point), UNCHANGED <<host, still>>,
             \/ Measure
             \/ NextMount,
             \/ page' = page
             \/ page' = [page EXCEPT !.disks = Append(@,
                            [path |-> Point, device |-> DeviceAt(Point)])]
      PROVE  Typed
  <2>1. Point \in Mount
    BY <1>0, <1>4, PointOfTodo
  <2>2. DeviceAt(Point) \in Device \cup {Gone}
    BY <1>0, <2>1, PageConstants DEF DeviceAt
  <2>3. /\ DOMAIN page' = DOMAIN page
        /\ page'.disks \in Seq([path : Mount, device : Device \cup {Gone}])
    <3> DEFINE e == [path |-> Point, device |-> DeviceAt(Point)]
    <3>1. e \in [path : Mount, device : Device \cup {Gone}]
      BY <2>1, <2>2
    <3>2. page' = page \/ page' = [page EXCEPT !.disks = Append(@, e)]
      BY <1>4
    <3> HIDE DEF e
    <3>3. /\ DOMAIN page' = DOMAIN page
          /\ page'.disks = page.disks \/ page'.disks = Append(page.disks, e)
      BY <1>0, <3>2
    <3> DEFINE disk == [path : Mount, device : Device \cup {Gone}]
    <3>4. page.disks \in Seq(disk) /\ e \in disk
      BY <1>0, <3>1
    <3> HIDE DEF disk
    <3>5. page'.disks \in Seq(disk)
      BY <3>3, <3>4
    <3> QED
      BY <3>3, <3>5 DEF disk
  <2>4. failed' \subseteq Part \cup Mount \cup Container
    BY <1>0, <1>4, <2>1 DEF Fails
  <2>5. /\ step' \in Step /\ DOMAIN local' = DOMAIN local
        /\ local'.todo \subseteq DOMAIN Table /\ local'.list \subseteq Container
    BY <1>0, <1>4 DEF Measure, NextMount
  <2> QED
    BY <1>4, <2>3, <2>4, <2>5
<1>5. CASE statMount
  <2>1. CASE local.todo = {}
    <3>1. Typed
      BY <1>0, <1>5, <2>1 DEF statMount
    <3> QED
      BY <1>f, <3>1
  <2>2. CASE local.todo # {}
    <3>1. Typed
      BY <1>4, <1>5, <2>2 DEF statMount, StatResult
    <3> QED
      BY <1>f, <3>1
  <2> QED
    BY <2>1, <2>2
<1>6. CASE diskStatusForPath
  <2>1. local.todo # {}
    BY <1>0, <1>6 DEF diskStatusForPath, UnderMeasure
  <2>2. Typed
    BY <1>4, <1>6, <2>1 DEF diskStatusForPath
  <2> QED
    BY <1>f, <2>2
<1>7. ASSUME NEW tick \in Ticks, collectCPUStatus(tick) PROVE PageTypeOK'
  <2> DEFINE total == (host.stat.total + tick.busy + tick.idle) % Width
             idle == (host.stat.idle + tick.idle) % Width
  <2>1. /\ host' = [host EXCEPT !.stat = [total |-> total, idle |-> idle]]
        /\ step' = "uptime" /\ UNCHANGED <<local, still>>
        /\ DOMAIN page' = DOMAIN page /\ page'.disks = page.disks
        /\ failed' = failed \/ Fails("cpu")
    BY <1>0, <1>7 DEF collectCPUStatus
  <2>2. total \in 0..(Width - 1) /\ idle \in 0..(Width - 1)
    <3>1. /\ host.stat.total \in Int /\ host.stat.idle \in Int
          /\ tick.busy \in Int /\ tick.idle \in Int
      BY StatusPageAssumption DEF PageInv, PageTypeOK, Stat
    <3>2. host.stat.total + tick.busy + tick.idle \in Int /\ host.stat.idle + tick.idle \in Int
      BY <3>1
    <3> QED
      BY <3>2, WrapRange
  <2> HIDE DEF total, idle
  <2>3. [total |-> total, idle |-> idle] \in Stat
    BY <2>2 DEF Stat
  <2>4. failed' \subseteq Part \cup Mount \cup Container
    BY <1>0, <1>p, <2>1 DEF Part
  <2> QED
    BY <2>1, <2>3, <2>4 DEF PageInv, PageTypeOK
<1>8. CASE linkList \/ addrList \/ routeList
  <2>1. Typed
    BY <1>0, <1>8, <1>p DEF linkList, addrList, routeList, Part
  <2> QED
    BY <1>f, <2>1
<1>9. CASE listContainers \/ collectRunningContainerStatuses
  <2>1. Typed
    BY <1>0, <1>9, <1>p DEF listContainers, collectRunningContainerStatuses, Part
  <2> QED
    BY <1>f, <2>1
<1>10. ASSUME NEW c \in local.list, buildRunningContainerStatus(c) PROVE Typed
  <2>1. c \in Container
    BY <1>0
  <2> QED
    BY <1>0, <1>10, <2>1 DEF buildRunningContainerStatus
<1>11. ASSUME NEW r \in Reader, snapshotLog(r) PROVE Typed
  BY <1>0, <1>11 DEF snapshotLog
<1> QED
  BY <1>f, <1>1, <1>2, <1>3, <1>5, <1>6, <1>7, <1>8, <1>9, <1>10, <1>11 DEF Collect

\* What has no part of the page in it, the log, changes nothing of this.
LEMMA PageStands ==
    ASSUME PageInv, UNCHANGED <<host, step, local, page, errors, failed, still, ran>>
    PROVE  PageInv'
<1>1. PageTypeOK' /\ HostStands'
  BY DEF PageInv, PageTypeOK, HostStands
<1>2. FailuresAreTold' /\ BootedIsShown'
  BY DEF PageInv, FailuresAreTold, BootedIsShown, containerStatusErrors
<1>3. DisksInv'
  BY DisksStand DEF PageInv, PageTypeOK
<1>4. LinksInv' /\ CpuInv'
  BY DEF PageInv, LinksInv, NamesAreListed, LinksAreListed, NoRoutesYet, RoutesNameTheirLink,
         CpuInv, CountersStand, CpuNeverOverstated
<1>5. ContainersAreListed'
  BY DEF PageInv, ContainersAreListed, Listed
<1> QED
  BY <1>1, <1>2, <1>3, <1>4, <1>5 DEF PageInv

\* A change of the host takes nothing from the page, and nothing that has not
\* changed.
LEMMA EventKeepsThePage ==
    ASSUME PageInv, EventLeaves
    PROVE  PageInv'
<1>0. /\ DOMAIN host = {"mounted", "links", "routes", "running", "deployments", "tools", "stat"}
      /\ PageTypeOK /\ still.devices \subseteq Device /\ still.running \subseteq Container
  BY DEF PageInv, PageTypeOK, HostStands
<1>1. PageTypeOK' 
  BY <1>0 DEF EventLeaves, PageTypeOK
<1>2. HostStands'
  BY DEF EventLeaves, HostStands
<1>3. FailuresAreTold' /\ BootedIsShown'
  BY DEF EventLeaves, PageInv, FailuresAreTold, BootedIsShown, containerStatusErrors
<1>4. DisksInv'
  BY <1>0, <1>1, DisksStand DEF EventLeaves, PageInv, PageTypeOK
<1>5. LinksInv'
  BY LinksStand DEF EventLeaves, PageInv
<1>6. CpuInv'
  BY DEF EventLeaves, PageInv, CpuInv, CountersStand, CpuNeverOverstated
<1>7. ContainersAreListed'
  BY <1>0, ListStands DEF EventLeaves, PageInv, PageTypeOK
<1> QED
  BY <1>1, <1>2, <1>3, <1>4, <1>5, <1>6, <1>7 DEF PageInv

\* When the request comes there is nothing on the page and nothing has failed.
LEMMA PageStarts ==
    ASSUME PageInit
    PROVE  PageInv
<1>1. /\ host \in Worlds /\ step = "hostname" /\ page = Nothing /\ errors = {} /\ failed = {}
      /\ local = [todo |-> {}, seen |-> {}, names |-> <<>>, unread |-> {}, before |-> host.stat, list |-> {}]
      /\ still = [devices |-> Device, links |-> DOMAIN host.links, running |-> host.running]
      /\ ran = [busy |-> 0, idle |-> 0]
  BY DEF PageInit
<1>2. /\ DOMAIN host = {"mounted", "links", "routes", "running", "deployments", "tools", "stat"}
      /\ host.mounted \in [Mount -> Device \cup {Gone}] /\ host.mounted[Root] # Gone
      /\ host.running \subseteq Container
      /\ host.deployments \in Seq(Deployment)
      /\ \E n \in DOMAIN host.deployments : host.deployments[n].booted
      /\ host.stat \in Stat
  BY <1>1, StatusPageAssumption DEF Stat
<1>3. /\ DOMAIN page = {"ostree", "disks", "cpu", "interfaces", "routes", "containers"}
      /\ page.disks = <<>> /\ page.interfaces = {} /\ page.routes = {} /\ page.containers = {}
  BY <1>1 DEF Nothing
<1> USE DEF Step, UntilList, UntilRoutes, UntilLinks, UntilSample, UntilMounts, UntilDeployment, Disks
<1>4. PageTypeOK
  BY <1>1, <1>2, <1>3 DEF PageTypeOK
<1>5. HostStands
  BY <1>1, <1>2 DEF HostStands
<1>6. FailuresAreTold /\ BootedIsShown
  BY <1>1, <1>3 DEF FailuresAreTold, BootedIsShown
<1>7. DisksInv
  BY <1>1, <1>3 DEF DisksInv, NoneYet, MountsAreTaken, SeenIsReported, UnderMeasure,
                    DevicesAreHandled, OncePerDevice
<1>8. LinksInv
  BY <1>1, <1>3 DEF LinksInv, NamesAreListed, LinksAreListed, NoRoutesYet, RoutesNameTheirLink
<1>9. ContainersAreListed
  BY <1>1 DEF ContainersAreListed
<1>10. CpuInv
  BY <1>1 DEF CpuInv, CountersStand, CpuNeverOverstated
<1> QED
  BY <1>4, <1>5, <1>6, <1>7, <1>8, <1>9, <1>10 DEF PageInv

\* The invariant holds whatever the collectors, the host and the other
\* goroutines do meanwhile (collectEdgecommanderStatus, status.go:40-94).
THEOREM PageInvariance == PageSpec => []PageInv
<1>1. PageInit => PageInv
  BY PageStarts
<1>2. PageInv /\ [PageNext]_pageVars => PageInv'
  <2> SUFFICES ASSUME PageInv, [PageNext]_pageVars PROVE PageInv'
    OBVIOUS
  <2>1. CASE Collect
    BY <2>1, CollectTypeOK, CollectHost, CollectTells, CollectBooted, CollectDisks, CollectLinks,
       CollectContainers, CollectCpu DEF PageInv
  <2>2. CASE HostChanges
    BY <2>2, HostChangesLeave, EventKeepsThePage DEF PageInv
  <2>3. CASE OthersLog
    BY <2>3, PageStands DEF OthersLog
  <2>4. CASE UNCHANGED pageVars
    BY <2>4, PageStands DEF pageVars
  <2> QED
    BY <2>1, <2>2, <2>3, <2>4 DEF PageNext
<1> QED
  BY <1>1, <1>2, PTL DEF PageSpec

\* "ok" is said of a page nothing failed for and that leaves out nothing that
\* stayed (status.go:40-94).
THEOREM OkMeansCompleteAlways == PageSpec => []OkMeansComplete
<1>1. PageInv => OkMeansComplete
  <2> SUFFICES ASSUME PageInv, step = "done" PROVE OkMeansComplete
    BY DEF OkMeansComplete
  <2> USE DEF UntilList, UntilRoutes, UntilLinks, UntilSample, UntilMounts, UntilDeployment, Disks
  <2>1. Status = "ok" <=> failed = {}
    BY DEF PageInv, FailuresAreTold, Status
  <2>2. SUFFICES ASSUME failed = {}
                 PROVE  /\ page.ostree.booted
                        /\ \A d \in still.devices : PointsOf(d) # {} => Reported(d) # {}
                        /\ \A x \in still.links : \E i \in page.interfaces : i.index = x
                        /\ still.running \subseteq {e.id : e \in page.containers}
    BY <2>1 DEF OkMeansComplete
  <2>3. page.ostree.booted
    BY <2>2 DEF PageInv, BootedIsShown
  <2>4. \A d \in still.devices : PointsOf(d) # {} => Reported(d) # {}
    BY <2>2 DEF PageInv, DisksInv, DevicesAreHandled, Handled
  <2>5. ASSUME NEW x \in still.links PROVE \E i \in page.interfaces : i.index = x
    <3>1. x \in DOMAIN local.names
      BY <2>2 DEF PageInv, LinksInv, LinksAreListed
    <3>2. [index |-> x, name |-> local.names[x]] \in page.interfaces
      BY <3>1 DEF PageInv, LinksInv, NamesAreListed
    <3> QED
      BY <3>2
  <2>6. ASSUME NEW c \in still.running PROVE c \in {e.id : e \in page.containers}
    <3>1. Entry(c, c \notin failed) \in page.containers
      BY <2>2 DEF PageInv, ContainersAreListed, Listed
    <3> QED
      BY <3>1 DEF Entry
  <2> QED
    BY <2>3, <2>4, <2>5, <2>6
<1> QED
  BY <1>1, PageInvariance, PTL

\* A part that fails hides nothing else (podman.go:446-460, hoststats.go:69-104).
THEOREM FailuresHideNothingElseAlways == PageSpec => []FailuresHideNothingElse
<1>1. PageInv => FailuresHideNothingElse
  <2> SUFFICES ASSUME PageInv, step = "done" PROVE FailuresHideNothingElse
    BY DEF FailuresHideNothingElse
  <2> USE DEF UntilMounts, UntilDeployment, Disks
  <2>1. "list" \notin failed =>
            \A c \in still.running : Entry(c, c \notin failed) \in page.containers
    BY DEF PageInv, ContainersAreListed, Listed
  <2>2. ASSUME "mounts" \notin failed, still.devices = Device, NEW d \in Device,
               PointsOf(d) # {}, PointsOf(d) \cap failed = {}
        PROVE  Cardinality(Reported(d)) = 1
    <3>1. Reported(d) # {}
      BY <2>2 DEF PageInv, DisksInv, DevicesAreHandled, Handled
    <3>2. PICK n : n \in Reported(d)
      BY <3>1
    <3>3. Reported(d) = {n}
      BY <2>2, <3>2 DEF PageInv, DisksInv, OncePerDevice, Reported
    <3> QED
      BY <3>3, FS_Singleton
  <2> QED
    BY <2>1, <2>2 DEF FailuresHideNothingElse
<1> QED
  BY <1>1, PageInvariance, PTL

\* A route is one of the interface of that name on the same page
\* (networkstatus.go:120-156, 249-253).
THEOREM RoutesNameTheirLinkAlways == PageSpec => []RoutesNameTheirLink
<1>1. PageInv => RoutesNameTheirLink
  BY DEF PageInv, LinksInv
<1> QED
  BY <1>1, PageInvariance, PTL

\* The CPU use is the share that was not idle, and never more than all
\* (hoststats.go:355-363).
THEOREM CpuNeverOverstatedAlways == PageSpec => []CpuNeverOverstated
<1>1. PageInv => CpuNeverOverstated
  BY DEF PageInv, CpuInv
<1> QED
  BY <1>1, PageInvariance, PTL

\* A page request does to the log what one reader of the ring does, so that what
\* is shown of the ring is true of every page (log.go:49-57, status.go:88-92).
THEOREM PageReadsTheRing == PageSpec => Spec
<1>1. PageInit => Init
  BY DEF PageInit
<1>2. [PageNext]_pageVars => [Next]_vars
  <2> SUFFICES ASSUME [PageNext]_pageVars PROVE [Next]_vars
    OBVIOUS
  <2> USE DEF vars, ring, Quiet
  <2>1. CASE collectHostnameInto \/ loadConfig \/ collectMemoryStatus \/ collectUptimeStatus
             \/ collectInventoryInto
    BY <2>1 DEF collectHostnameInto, loadConfig, collectMemoryStatus, collectUptimeStatus,
                collectInventoryInto, ReadPart
  <2>2. CASE collectOstreeStatus \/ readDiskMounts \/ statMount \/ diskStatusForPath
    BY <2>2 DEF collectOstreeStatus, readDiskMounts, statMount, diskStatusForPath
  <2>3. CASE readCPUTimes \/ linkList \/ addrList \/ routeList
    BY <2>3 DEF readCPUTimes, linkList, addrList, routeList
  <2>4. ASSUME NEW tick \in Ticks, collectCPUStatus(tick) PROVE UNCHANGED vars
    BY <2>4 DEF collectCPUStatus
  <2>5. CASE listContainers \/ collectRunningContainerStatuses
    BY <2>5 DEF listContainers, collectRunningContainerStatuses
  <2>6. ASSUME NEW c \in local.list, buildRunningContainerStatus(c) PROVE UNCHANGED vars
    BY <2>6 DEF buildRunningContainerStatus
  <2>7. ASSUME NEW r \in Reader, snapshotLog(r) PROVE Next
    BY <2>7 DEF snapshotLog, Next
  <2>8. CASE HostChanges
    BY <2>8 DEF HostChanges, Remount, LinkGoes, LinkNamed, ContainerEnds, ContainerStarts, Staged,
                Event
  <2>9. CASE OthersLog
    BY <2>9 DEF OthersLog, Next
  <2>10. CASE UNCHANGED pageVars
    BY <2>10 DEF pageVars
  <2> QED
    BY <2>1, <2>2, <2>3, <2>4, <2>5, <2>6, <2>7, <2>8, <2>9, <2>10 DEF PageNext, Collect
<1> QED
  BY <1>1, <1>2, PTL DEF PageSpec, Spec
=============================================================================
