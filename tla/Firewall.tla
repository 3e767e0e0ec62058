------------------------------- MODULE Firewall -------------------------------
(***************************************************************************)
(* configureFirewallPorts (firewall.go): every declared port or rich rule  *)
(* is opened in firewalld's runtime configuration and made permanent, then *)
(* every zone is pruned, first at run time, then permanently: ports and    *)
(* rich rules that are not declared, and all services.  One call over      *)
(* D-Bus is one step, so an administrator's firewall-cmd comes between any *)
(* two, and any call can fail.                                             *)
(*                                                                         *)
(* firewalld merges port ranges of a zone that overlap or touch; the ports *)
(* here are atoms that do neither.                                         *)
(***************************************************************************)
EXTENDS Naturals, Sequences, FiniteSets

CONSTANTS
    Zone,       \* the zones of firewalld
    NoZone,     \* an entry of the config that names no zone
    Port, RichRule, Service,
    Variant,    \* rules in a spelling that is not firewalld's, such as "080"
    Canonical,  \* the rule firewalld makes of each, and lists
    Provides,   \* the port each service opens
    Lists,      \* the firewall_ports lists configs declare: sequences of Entry
    MaxFaults,  \* bound: D-Bus calls that fail
    MaxMeddling \* bound: changes made to firewalld by others

Rule == Port \cup RichRule \cup Service

\* One element of firewall_ports, normalised; its zone need not exist.
Entry == [zone : Zone \cup {NoZone, "unknown"}, rule : Port \cup RichRule \cup Variant]

ASSUME FirewallAssumption ==
    /\ NoZone \notin Zone /\ "unknown" \notin Zone \cup {NoZone}
    /\ (Port \cup RichRule) \cap Service = {}
    /\ Port \cap RichRule = {}
    /\ Variant \cap Rule = {}
    /\ Canonical \in [Variant -> Port \cup RichRule]
    /\ Provides \in [Service -> Port]
    /\ Lists \subseteq Seq(Entry)
    /\ MaxFaults \in Nat
    /\ MaxMeddling \in Nat

\* pruneRuntimeZone and prunePermanentZone take the kinds in this order.
Kinds == <<Port, RichRule, Service>>

VARIABLES
    runtime,    \* per zone, what is open now
    permanent,  \* per zone, what a reload or a reboot of firewalld brings back
    defaultZone,
    ports,      \* the list being applied
    pc,         \* the D-Bus call to be made next
    i,          \* the element of ports being opened
    readZone,   \* the default zone as read when the apply began
    permZone,   \* the zone ensurePermanent resolved for this element
    layer,      \* "none" until the pruning, then the table being pruned
    zones,      \* zones still to prune in this layer
    cur, kind,  \* the zone and the kind being pruned
    list,       \* the listed rules that are still to be removed
    result,     \* how the last apply ended
    start,      \* history: both tables when the apply began
    meddled,    \* history: what others changed since then
    faults, meddlings

tables == <<runtime, permanent>>
place == <<i, readZone, permZone, layer, zones, cur, kind, list>>
history == <<start, meddled>>
vars == <<runtime, permanent, defaultZone, ports, pc, place, result, history,
          faults, meddlings>>

Init ==
    /\ runtime \in [Zone -> SUBSET Rule]
    /\ permanent \in [Zone -> SUBSET Rule]
    /\ defaultZone \in Zone
    /\ ports = <<>>
    /\ pc = "idle"
    /\ i = 1
    /\ readZone = defaultZone
    /\ permZone = defaultZone
    /\ layer = "none"
    /\ zones = {}
    /\ cur = defaultZone
    /\ kind = 1
    /\ list = {}
    /\ result = "none"
    /\ start = [runtime |-> runtime, permanent |-> permanent]
    /\ meddled = {}
    /\ faults \in 0..MaxFaults             \* what is left of the bounds may
    /\ meddlings \in 0..MaxMeddling        \* be less than they allow

-----------------------------------------------------------------------------
(* Helpers. *)

\* firewalld takes an empty zone for the default zone of that moment.
Resolved(zone) == IF zone = NoZone THEN defaultZone ELSE zone

\* firewalld parses the rule of an element; what it lists is its own spelling.
RuleOf(entry) == IF entry.rule \in Variant THEN Canonical[entry.rule] ELSE entry.rule

\* declaredFirewallPorts: the rules as they are spelled; an empty zone stands
\* for the default zone read when the apply began.
Declared(z) ==
    {ports[j].rule : j \in {k \in DOMAIN ports :
        (IF ports[k].zone = NoZone THEN readZone ELSE ports[k].zone) = z}}

Table == IF layer = "permanent" THEN permanent ELSE runtime

Return(outcome) ==
    /\ pc' = "done"
    /\ result' = outcome

GoOn(call) ==
    /\ pc' = call
    /\ UNCHANGED result

\* A call that fails ends the apply with an error.
Fault ==
    /\ faults < MaxFaults
    /\ faults' = faults + 1

-----------------------------------------------------------------------------
(* Bringing firewalld up and reading its default zone. *)

Apply(l) ==
    /\ pc \in {"idle", "done"}
    /\ ports' = l
    /\ pc' = "ensure"
    /\ result' = "none"
    /\ layer' = "none"
    /\ start' = [runtime |-> runtime, permanent |-> permanent]
    /\ meddled' = {}
    /\ UNCHANGED <<tables, defaultZone, i, readZone, permZone, zones, cur, kind,
                   list, faults, meddlings>>

EnsureRunning ==
    /\ pc = "ensure"
    /\ GoOn("getDefaultZone")
    /\ UNCHANGED <<tables, defaultZone, ports, place, history, faults, meddlings>>

\* firewalld is optional: without it an empty list is skipped.
EnsureFails ==
    /\ pc = "ensure"
    /\ Fault
    /\ Return(IF ports = <<>> THEN "skipped" ELSE "error")
    /\ UNCHANGED <<tables, defaultZone, ports, place, history, meddlings>>

\* The call to make once the elements of the list before j are open.
OpenFrom_SkipsLast(j) == GoOn(IF j >= Len(ports) THEN "getZones" ELSE "query")
OpenFrom(j) == GoOn(IF j > Len(ports) THEN "getZones" ELSE "query")

GetDefaultZone ==
    /\ pc = "getDefaultZone"
    /\ readZone' = defaultZone
    /\ i' = 1
    /\ OpenFrom(1)
    /\ UNCHANGED <<tables, defaultZone, ports, permZone, layer, zones, cur, kind,
                   list, history, faults, meddlings>>

-----------------------------------------------------------------------------
(* openDeclaredFirewallPort, for plain ports and rich rules alike. *)

\* queryPort, queryRichRule: an unknown zone is an error.
Query_ServiceCounts ==
    /\ pc = "query"
    /\ LET z == Resolved(ports[i].zone) IN
       IF z \notin Zone THEN Return("error")
       ELSE GoOn(IF \/ RuleOf(ports[i]) \in runtime[z]
                    \/ \E s \in runtime[z] \cap Service : Provides[s] = RuleOf(ports[i])
                 THEN "resolve" ELSE "add")
    /\ UNCHANGED <<tables, defaultZone, ports, place, history, faults, meddlings>>
Query ==
    /\ pc = "query"
    /\ LET z == Resolved(ports[i].zone) IN
       IF z \notin Zone THEN Return("error")
       ELSE GoOn(IF RuleOf(ports[i]) \in runtime[z] THEN "resolve" ELSE "add")
    /\ UNCHANGED <<tables, defaultZone, ports, place, history, faults, meddlings>>

\* addPort, addRichRule: an error if the rule is there by now.
Add ==
    /\ pc = "add"
    /\ LET z == Resolved(ports[i].zone) IN
       IF RuleOf(ports[i]) \in runtime[z]
       THEN Return("error") /\ UNCHANGED runtime
       ELSE /\ runtime' = [runtime EXCEPT ![z] = @ \cup {RuleOf(ports[i])}]
            /\ GoOn("resolve")
    /\ UNCHANGED <<permanent, defaultZone, ports, place, history, faults,
                   meddlings>>

\* ensurePermanentFirewallPort asks for the default zone a second time.
Resolve ==
    /\ pc = "resolve"
    /\ permZone' = Resolved(ports[i].zone)
    /\ GoOn("permQuery")
    /\ UNCHANGED <<tables, defaultZone, ports, i, readZone, layer, zones, cur,
                   kind, list, history, faults, meddlings>>

PermQuery_ReadsRuntime ==
    /\ pc = "permQuery"
    /\ IF RuleOf(ports[i]) \in runtime[permZone]
       THEN i' = i + 1 /\ OpenFrom(i + 1)
       ELSE GoOn("permAdd") /\ UNCHANGED i
    /\ UNCHANGED <<tables, defaultZone, ports, readZone, permZone, layer, zones,
                   cur, kind, list, history, faults, meddlings>>
PermQuery ==
    /\ pc = "permQuery"
    /\ IF RuleOf(ports[i]) \in permanent[permZone]
       THEN i' = i + 1 /\ OpenFrom(i + 1)
       ELSE GoOn("permAdd") /\ UNCHANGED i
    /\ UNCHANGED <<tables, defaultZone, ports, readZone, permZone, layer, zones,
                   cur, kind, list, history, faults, meddlings>>

PermAdd ==
    /\ pc = "permAdd"
    /\ IF RuleOf(ports[i]) \in permanent[permZone]
       THEN Return("error") /\ UNCHANGED <<permanent, i>>
       ELSE /\ permanent' = [permanent EXCEPT ![permZone] = @ \cup {RuleOf(ports[i])}]
            /\ i' = i + 1
            /\ OpenFrom(i + 1)
    /\ UNCHANGED <<runtime, defaultZone, ports, readZone, permZone, layer, zones,
                   cur, kind, list, history, faults, meddlings>>

-----------------------------------------------------------------------------
(* removeUnmanagedFirewallRules. *)

\* getZones, getZoneNames: a layer is pruned zone by zone.
GetZones ==
    /\ pc = "getZones"
    /\ layer' = IF layer = "none" THEN "runtime" ELSE "permanent"
    /\ zones' = Zone
    /\ GoOn("nextZone")
    /\ UNCHANGED <<tables, defaultZone, ports, i, readZone, permZone, cur, kind,
                   list, history, faults, meddlings>>

NextZone ==
    /\ pc = "nextZone"
    /\ IF zones # {}
       THEN /\ \E z \in zones : cur' = z /\ zones' = zones \ {z}
            /\ kind' = 1
            /\ GoOn("list")
       ELSE /\ IF layer = "runtime" THEN GoOn("getZones") ELSE Return("ok")
            /\ UNCHANGED <<cur, zones, kind>>
    /\ UNCHANGED <<tables, defaultZone, ports, i, readZone, permZone, layer,
                   list, history, faults, meddlings>>

\* After the last rule of a kind comes the next kind, then the next zone.
NextKind ==
    IF kind < Len(Kinds) THEN kind' = kind + 1 /\ GoOn("list")
    ELSE UNCHANGED kind /\ GoOn("nextZone")

\* getPorts, getRichRules, getServices: a declared rule stays, a service never
\* is declared.
Unmanaged_KeepsServices == ((Table[cur] \ Service) \cap Kinds[kind]) \ Declared(cur)
Unmanaged_Everything == Table[cur] \cap Kinds[kind]
Unmanaged == (Table[cur] \cap Kinds[kind]) \ Declared(cur)

List ==
    /\ pc = "list"
    /\ list' = Unmanaged
    /\ IF Unmanaged = {} THEN NextKind ELSE GoOn("remove") /\ UNCHANGED kind
    /\ UNCHANGED <<tables, defaultZone, ports, i, readZone, permZone, layer,
                   zones, cur, history, faults, meddlings>>

\* removePort, removeRichRule, removeService: an error if it is gone by now.
Remove ==
    /\ pc = "remove"
    /\ \E r \in list :
          /\ list' = list \ {r}
          /\ IF r \notin Table[cur]
             THEN Return("error") /\ UNCHANGED <<tables, kind>>
             ELSE /\ IF layer = "runtime"
                     THEN /\ runtime' = [runtime EXCEPT ![cur] = @ \ {r}]
                          /\ UNCHANGED permanent
                     ELSE /\ permanent' = [permanent EXCEPT ![cur] = @ \ {r}]
                          /\ UNCHANGED runtime
                  /\ IF list = {r} THEN NextKind
                     ELSE GoOn("remove") /\ UNCHANGED kind
    /\ UNCHANGED <<defaultZone, ports, i, readZone, permZone, layer, zones, cur,
                   history, faults, meddlings>>

\* Any D-Bus call after EnsureRunning returns an error.
CallFails ==
    /\ pc \notin {"idle", "ensure", "done"}
    /\ Fault
    /\ Return("error")
    /\ UNCHANGED <<tables, defaultZone, ports, place, history, meddlings>>

-----------------------------------------------------------------------------
(* Others: firewall-cmd --reload, --set-default-zone, --add-*, --remove-*. *)

Meddle(what) ==
    /\ meddlings < MaxMeddling
    /\ meddlings' = meddlings + 1
    /\ meddled' = meddled \cup {what}
    /\ UNCHANGED <<ports, pc, place, result, start, faults>>

Reload ==
    /\ Meddle("reload")
    /\ runtime' = permanent
    /\ UNCHANGED <<permanent, defaultZone>>

SetDefaultZone ==
    /\ Meddle("zone")
    /\ defaultZone' \in Zone \ {defaultZone}
    /\ UNCHANGED tables

EditRules ==
    /\ Meddle("rules")
    /\ \E z \in Zone, r \in Rule :
          \/ /\ runtime' = [runtime EXCEPT ![z] = (@ \cup {r}) \ (@ \cap {r})]
             /\ UNCHANGED permanent
          \/ /\ permanent' = [permanent EXCEPT ![z] = (@ \cup {r}) \ (@ \cap {r})]
             /\ UNCHANGED runtime
    /\ UNCHANGED defaultZone

-----------------------------------------------------------------------------
Program ==
    \/ EnsureRunning \/ EnsureFails \/ GetDefaultZone
    \/ Query \/ Add \/ Resolve \/ PermQuery \/ PermAdd
    \/ GetZones \/ NextZone \/ List \/ Remove
    \/ CallFails

Next ==
    \/ \E l \in Lists : Apply(l)
    \/ Program
    \/ Reload \/ SetDefaultZone \/ EditRules

Spec == Init /\ [][Next]_vars

-----------------------------------------------------------------------------
(* Properties. *)

TypeOK ==
    /\ runtime \in [Zone -> SUBSET Rule]
    /\ permanent \in [Zone -> SUBSET Rule]
    /\ defaultZone \in Zone
    /\ ports \in Lists \cup {<<>>}
    /\ pc \in {"idle", "ensure", "getDefaultZone", "query", "add", "resolve",
              "permQuery", "permAdd", "getZones", "nextZone", "list", "remove",
              "done"}
    /\ i \in Nat \ {0}
    /\ readZone \in Zone
    /\ permZone \in Zone
    /\ layer \in {"none", "runtime", "permanent"}
    /\ zones \in SUBSET Zone
    /\ cur \in Zone
    /\ kind \in 1..3
    /\ list \in SUBSET Rule
    /\ result \in {"none", "ok", "skipped", "error"}
    /\ start \in [runtime : [Zone -> SUBSET Rule], permanent : [Zone -> SUBSET Rule]]
    /\ meddled \in SUBSET {"reload", "zone", "rules"}
    /\ faults \in 0..MaxFaults
    /\ meddlings \in 0..MaxMeddling

\* What firewalld can keep of the declared rules: those spelled as it spells
\* them.  "080" and "1 - 2" pass validation (config.go:463-488), are opened, and
\* closed again as undeclared.
Wanted(z) == Declared(z) \cap Rule

\* An apply that succeeds leaves exactly the wanted rules, now and after a
\* reload, in every zone (firewall.go:35-42, :245-252).
Enforced ==
    result = "ok" /\ meddled = {} =>
        \A z \in Zone : runtime[z] = Wanted(z) /\ permanent[z] = Wanted(z)

\* A declared port that could be reached when the apply began, as a port or
\* through a service such as ssh, can be reached at every moment of it and
\* after it, whether it succeeds or fails (firewall.go:71-83).
Reachable(rules, p) == p \in rules \/ \E s \in Service \cap rules : Provides[s] = p

NeverCutOff ==
    pc \notin {"idle", "ensure", "getDefaultZone"} /\ meddled = {} =>
        \A z \in Zone : \A p \in Declared(z) \cap Port :
            Reachable(start.runtime[z], p) => Reachable(runtime[z], p)

\* Nothing is closed before everything declared is open and permanent: an
\* apply that fails while it opens has closed nothing (firewall.go:71-83).
OpenBeforeClose ==
    meddled = {} => \A z \in Zone :
        IF layer = "none"
        THEN start.runtime[z] \subseteq runtime[z] /\ start.permanent[z] \subseteq permanent[z]
        ELSE Wanted(z) \subseteq runtime[z] \cap permanent[z]

\* An apply of what is already in force touches nothing: no rule is closed and
\* opened again (firewall.go:131, :465, :295, :377).
InForce(t) == \A z \in Zone : t.runtime[z] = Declared(z) /\ t.permanent[z] = Declared(z)

SteadyIsLeftAlone ==
    pc \notin {"idle", "ensure", "getDefaultZone"} /\ meddled = {} /\ InForce(start)
        => runtime = start.runtime /\ permanent = start.permanent

\* A reload in the middle of an apply can disturb the runtime table, but what
\* the apply made permanent is right, so the next reload is (firewall.go:441-445).
\* A default zone that changes meanwhile misleads it about the entries that
\* name no zone only (it is read twice, firewall.go:67 and :449).
PermanentSurvivesReload ==
    result = "ok" /\ "rules" \notin meddled =>
        /\ \A j \in DOMAIN ports : ports[j].zone # NoZone /\ ports[j].rule \in Rule =>
              ports[j].rule \in permanent[ports[j].zone]
        /\ "zone" \notin meddled => \A z \in Zone : permanent[z] = Wanted(z)
=============================================================================
