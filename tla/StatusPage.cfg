SPECIFICATION MCSpec
CONSTANTS
    Writer = {w1, w2}
    Reader = {r1, r2}
    Line = {a, b}
    Size = 2
    MaxLines = 5
    sda = sda
    sdb = sdb
    podA = podA
    podB = podB
    Gone = Gone
    Table <- MCTable
    Root = "/"
    Device = {sda, sdb}
    Index = {1, 2, 3}
    LinkName = {"eth0", "eth1"}
    Container = {podA, podB}
    Width = 16
    Worlds <- MCWorlds
    Ticks <- MCTicks
    MaxFaults = 1
    MaxEvents = 2
CHECK_DEADLOCK FALSE
INVARIANTS RingIsTheTail OkMeansComplete FailuresHideNothingElse RoutesNameTheirLink CpuNeverOverstated
PROPERTIES SnapshotIsCurrent
