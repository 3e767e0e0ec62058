---------------------------- MODULE MCStatusPage ----------------------------
\* Small instances of StatusPage: a root and two more mount points, two links
\* and a third that may come, two containers and one that may come.
EXTENDS StatusPage, TLC

CONSTANTS sda, sdb, podA, podB

World(d, os, stat) ==
    [mounted |-> ("/" :> sda) @@ ("/data" :> sdb) @@ ("/srv" :> d),
     links |-> <<"lo", "eth0">>, routes |-> {2}, running |-> {podA, podB},
     deployments |-> <<[id |-> "os1", booted |-> TRUE]>>, tools |-> os, stat |-> stat]

\* Two mounts of one disk on a host with every tool; a disk mounted once, only
\* the last tool, and counters about to wrap; no tool.
MCWorlds ==
    {World(sdb, {"rpm", "bootc", "ostree"}, [total |-> 1, idle |-> 1]),
     World(Gone, {"ostree"}, [total |-> 14, idle |-> 7]),
     World(Gone, {}, [total |-> 1, idle |-> 1])}

MCTicks == [busy : 0..2, idle : -3..2]

MCTable == <<"/", "/data", "/srv">>

\* Others log while the ring is read, which is when it matters, and the counters
\* move in every way; both only while nothing else disturbs the page.
MCInit == PageInit
Ordinary == [busy |-> 1, idle |-> 1]
Undisturbed == failed = {} /\ errors = {} /\ faults = 0 /\ events = 0
MCNext ==
    /\ PageNext
    /\ journal # journal' => Undisturbed /\ ran = Ordinary /\ step \in {"log", "done"}
    /\ ran # ran' => Undisturbed \/ ran' = Ordinary
MCSpec == MCInit /\ [][MCNext]_pageVars
=============================================================================
