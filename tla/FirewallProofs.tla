---------------------------- MODULE FirewallProofs ----------------------------
(***************************************************************************)
(* An apply of the firewall, for every set of zones, ports, rich rules and *)
(* services, every list and any number of failing calls and of changes by  *)
(* others: what is opened, what is pruned, and in which order.             *)
(***************************************************************************)
EXTENDS Firewall, TLAPS

Opening == pc \in {"query", "add", "resolve", "permQuery", "permAdd"}
Pruning == pc \in {"nextZone", "list", "remove"}

\* What the others have left alone since the apply began.
Quiet == meddled = {}
RulesKept == "rules" \notin meddled
ZoneKept == "zone" \notin meddled

\* The zone an element is declared in, and whether it still is the one firewalld
\* takes it for.
ZoneOf(j) == IF ports[j].zone = NoZone THEN readZone ELSE ports[j].zone
Counted(j) == ports[j].zone # NoZone \/ ZoneKept

\* Where an apply is.
OpeningPlace == Opening => layer = "none" /\ i \in DOMAIN ports
PruningPlace == Pruning => layer # "none" /\ (pc # "nextZone" => cur \notin zones)
BeginPlace == pc \in {"ensure", "getDefaultZone"} => layer = "none"
ZoneExists == pc \in {"add", "resolve", "permQuery", "permAdd"} =>
                  ports[i].zone \in Zone \cup {NoZone}
ReadNow == Opening /\ ZoneKept => readZone = defaultZone
PermZoneIs == pc \in {"permQuery", "permAdd"} /\ Counted(i) => permZone = ZoneOf(i)
ResultStands == result = "ok" => pc = "done" /\ layer = "permanent"
ListIsUndeclared == pc = "remove" => list \cap Declared(cur) = {} /\ list # {}

PlaceInv ==
    /\ OpeningPlace /\ PruningPlace /\ BeginPlace /\ ZoneExists /\ ReadNow /\ PermZoneIs
    /\ ResultStands /\ ListIsUndeclared

\* What is open: the elements before i, in the runtime table first, and all of
\* them from the pruning on.
IsOpen(t, j) == ZoneOf(j) \in Zone /\ RuleOf(ports[j]) \in t[ZoneOf(j)]
IsHeld(t, j) == ports[j].rule \in Rule => ZoneOf(j) \in Zone /\ ports[j].rule \in t[ZoneOf(j)]

OpenedAtRuntime(j) ==
    Opening => j < i \/ (j = i /\ pc \in {"resolve", "permQuery", "permAdd"})
OpenedForGood(j) == Opening => j < i

AllOpening == Opening \/ (pc = "getZones" /\ layer = "none")

RunOpened == Quiet /\ AllOpening =>
    \A j \in DOMAIN ports : OpenedAtRuntime(j) => IsOpen(runtime, j)
PermOpened == RulesKept /\ AllOpening =>
    \A j \in DOMAIN ports : OpenedForGood(j) /\ Counted(j) => IsOpen(permanent, j)
RunHeld == Quiet /\ layer # "none" => \A j \in DOMAIN ports : IsHeld(runtime, j)
PermHeld == RulesKept /\ layer # "none" =>
    \A j \in DOMAIN ports : Counted(j) => IsHeld(permanent, j)
Untouched == Quiet /\ layer = "none" => \A z \in Zone :
    start.runtime[z] \subseteq runtime[z] /\ start.permanent[z] \subseteq permanent[z]

OpenInv == RunOpened /\ PermOpened /\ RunHeld /\ PermHeld /\ Untouched

\* What is closed: the zones that are done, and in the one under way the kinds
\* before kind.
Clean(t, z) == t[z] \subseteq Declared(z)
PrunedUpTo(t) ==
    /\ \A z \in Zone \ zones : pc = "nextZone" \/ z # cur => Clean(t, z)
    /\ pc \in {"list", "remove"} =>
          \A k \in 1..(kind - 1) : t[cur] \cap Kinds[k] \subseteq Declared(cur)
    /\ pc = "remove" => (t[cur] \cap Kinds[kind]) \ Declared(cur) = list

RunPruning == Quiet /\ layer = "runtime" /\ Pruning => PrunedUpTo(runtime)
RunPruned == Quiet /\ (layer = "permanent" \/ (layer = "runtime" /\ pc = "getZones")) =>
    \A z \in Zone : Clean(runtime, z)
PermPruning == RulesKept /\ layer = "permanent" /\ Pruning => PrunedUpTo(permanent)
PermPruned == RulesKept /\ result = "ok" => \A z \in Zone : Clean(permanent, z)

PruneInv == RunPruning /\ RunPruned /\ PermPruning /\ PermPruned

\* Nothing is to be done when everything was in force already.
AsAtStart == runtime = start.runtime /\ permanent = start.permanent
Steady ==
    Quiet /\ pc # "idle" /\ (pc \in {"ensure", "getDefaultZone"} \/ InForce(start)) => AsAtStart
NothingToDo == Quiet /\ InForce(start) => pc \notin {"add", "permAdd", "remove"}

SteadyInv == Steady /\ NothingToDo

IInv == TypeOK /\ PlaceInv /\ OpenInv /\ PruneInv /\ SteadyInv

-----------------------------------------------------------------------------
(* Facts about lists, rules and kinds. *)

\* The kinds are what rules there are (firewall.go:275-283).
LEMMA KindFacts ==
    /\ Len(Kinds) = 3 /\ DOMAIN Kinds = 1..3
    /\ Kinds[1] = Port /\ Kinds[2] = RichRule /\ Kinds[3] = Service
    /\ Rule = Kinds[1] \cup Kinds[2] \cup Kinds[3]
<1>1. Len(Kinds) = 3 /\ DOMAIN Kinds = 1..3 /\ Kinds[1] = Port /\ Kinds[2] = RichRule /\ Kinds[3] = Service
  BY DEF Kinds
<1> QED
  BY <1>1 DEF Rule

\* What an element is: a zone, or none, and a rule firewalld lists in its own
\* spelling (firewall.go:201-243).
LEMMA EntryFacts ==
    TypeOK => /\ ports \in Seq(Entry)
              /\ \A j \in DOMAIN ports :
                    /\ ports[j].zone \in Zone \cup {NoZone, "unknown"}
                    /\ RuleOf(ports[j]) \in Rule
                    /\ ports[j].rule \in Rule => RuleOf(ports[j]) = ports[j].rule
<1> SUFFICES ASSUME TypeOK
             PROVE /\ ports \in Seq(Entry)
                   /\ \A j \in DOMAIN ports :
                         /\ ports[j].zone \in Zone \cup {NoZone, "unknown"}
                         /\ RuleOf(ports[j]) \in Rule
                         /\ ports[j].rule \in Rule => RuleOf(ports[j]) = ports[j].rule
  OBVIOUS
<1>1. ports \in Seq(Entry)
  <2>1. Lists \subseteq Seq(Entry)
    BY FirewallAssumption
  <2>2. <<>> \in Seq(Entry)
    OBVIOUS
  <2> QED
    BY <2>1, <2>2 DEF TypeOK
<1>2. ASSUME NEW j \in DOMAIN ports
      PROVE /\ ports[j].zone \in Zone \cup {NoZone, "unknown"}
            /\ RuleOf(ports[j]) \in Rule
            /\ ports[j].rule \in Rule => RuleOf(ports[j]) = ports[j].rule
  <2>1. ports[j] \in Entry
    BY <1>1
  <2> QED
    BY <2>1, FirewallAssumption DEF Entry, RuleOf, Rule
<1> QED
  BY <1>1, <1>2

\* Declared(z) is what the elements of zone z declare.
LEMMA DeclaredFacts ==
    \A z, r : r \in Declared(z) <=> \E j \in DOMAIN ports : ZoneOf(j) = z /\ ports[j].rule = r
  BY DEF Declared, ZoneOf

\* The declared rules are a matter of the list and of the default zone that was read.
LEMMA DeclaredStays ==
    ASSUME UNCHANGED <<ports, readZone>>
    PROVE /\ \A z : Declared(z)' = Declared(z) /\ \A j : ZoneOf(j)' = ZoneOf(j)
          /\ \A j : RuleOf(ports[j])' = RuleOf(ports[j])
          /\ start' = start => InForce(start)' = InForce(start)
  BY DEF Declared, ZoneOf, RuleOf, InForce

-----------------------------------------------------------------------------
(* The steps keep types and places. *)

LEMMA InitIInv == Init => IInv
<1> SUFFICES ASSUME Init PROVE IInv
  OBVIOUS
<1>1. TypeOK
  BY FirewallAssumption, KindFacts DEF Init, TypeOK
<1>2. PlaceInv
  BY DEF Init, PlaceInv, OpeningPlace, PruningPlace, BeginPlace, ZoneExists, ReadNow, PermZoneIs,
         ResultStands, ListIsUndeclared, Opening, Pruning
<1>3. OpenInv
  BY <1>1 DEF Init, OpenInv, RunOpened, PermOpened, RunHeld, PermHeld, Untouched, AllOpening, Opening
<1>4. PruneInv
  BY DEF Init, PruneInv, RunPruning, RunPruned, PermPruning, PermPruned
<1>5. SteadyInv
  BY DEF Init, SteadyInv, Steady, NothingToDo
<1> QED
  BY <1>1, <1>2, <1>3, <1>4, <1>5 DEF IInv

LEMMA TypeStep == TypeOK /\ PlaceInv /\ [Next]_vars => TypeOK'
<1> SUFFICES ASSUME TypeOK, PlaceInv, [Next]_vars PROVE TypeOK'
  OBVIOUS
<1> USE DEF GoOn, Return, Fault, tables, place, history
<1>0. MaxFaults \in Nat /\ MaxMeddling \in Nat
  BY FirewallAssumption
<1>1. ASSUME NEW l \in Lists, Apply(l) PROVE TypeOK'
  BY <1>1 DEF Apply, TypeOK
<1>2. CASE EnsureRunning
  BY <1>2 DEF EnsureRunning, TypeOK
<1>12. CASE EnsureFails
  <2>1. faults' \in 0..MaxFaults
    BY <1>0, <1>12 DEF EnsureFails, TypeOK
  <2> QED
    BY <1>12, <2>1 DEF EnsureFails, TypeOK
<1>13. CASE CallFails
  <2>1. faults' \in 0..MaxFaults
    BY <1>0, <1>13 DEF CallFails, TypeOK
  <2> QED
    BY <1>13, <2>1 DEF CallFails, TypeOK
<1>3. CASE GetDefaultZone
  BY <1>3 DEF GetDefaultZone, OpenFrom, TypeOK
<1>4. ASSUME Query \/ Add \/ Resolve \/ PermQuery \/ PermAdd PROVE TypeOK'
  <2>1. i \in DOMAIN ports /\ RuleOf(ports[i]) \in Rule
    BY <1>4, EntryFacts DEF PlaceInv, OpeningPlace, Opening, Query, Add, Resolve, PermQuery, PermAdd
  <2>2. pc # "query" => Resolved(ports[i].zone) \in Zone
    BY <1>4 DEF PlaceInv, ZoneExists, Query, Add, Resolve, PermQuery, PermAdd, Resolved, TypeOK
  <2>3. CASE Query
    BY <2>3 DEF Query, TypeOK
  <2>4. CASE Add
    BY <2>1, <2>2, <2>4 DEF Add, TypeOK
  <2>5. CASE Resolve
    BY <2>2, <2>5 DEF Resolve, TypeOK
  <2>6. CASE PermQuery
    BY <2>6 DEF PermQuery, OpenFrom, TypeOK
  <2>7. CASE PermAdd
    BY <2>1, <2>7 DEF PermAdd, OpenFrom, TypeOK
  <2> QED
    BY <1>4, <2>3, <2>4, <2>5, <2>6, <2>7
<1>5. CASE GetZones
  BY <1>5 DEF GetZones, TypeOK
<1>6. CASE NextZone
  BY <1>6, KindFacts DEF NextZone, TypeOK
<1>7. CASE List
  <2>1. Unmanaged \in SUBSET Rule
    BY DEF Unmanaged, Table, TypeOK
  <2> QED
    BY <1>7, <2>1, KindFacts DEF List, NextKind, TypeOK
<1>8. CASE Remove
  <2>1. runtime' \in [Zone -> SUBSET Rule] /\ permanent' \in [Zone -> SUBSET Rule]
    BY <1>8 DEF Remove, TypeOK
  <2>2. kind' \in 1..3
    BY <1>8, KindFacts DEF Remove, NextKind, TypeOK
  <2>3. list' \in SUBSET Rule /\ pc' \in {"nextZone", "list", "remove", "done"}
    BY <1>8 DEF Remove, NextKind, TypeOK
  <2>4. result' \in {"none", "ok", "skipped", "error"}
    BY <1>8 DEF Remove, NextKind, TypeOK
  <2> QED
    BY <1>8, <2>1, <2>2, <2>3, <2>4 DEF Remove, TypeOK
<1>9. ASSUME NEW w \in {"reload", "zone", "rules"}, Meddle(w)
      PROVE meddlings' \in 0..MaxMeddling /\ meddled' \in SUBSET {"reload", "zone", "rules"}
  <2>1. meddlings' \in 0..MaxMeddling
    BY <1>0, <1>9 DEF Meddle, TypeOK
  <2>2. meddled' \in SUBSET {"reload", "zone", "rules"}
    BY <1>9 DEF Meddle, TypeOK
  <2> QED
    BY <2>1, <2>2
<1>10. CASE Reload \/ SetDefaultZone \/ EditRules
  <2>1. meddlings' \in 0..MaxMeddling /\ meddled' \in SUBSET {"reload", "zone", "rules"}
    BY <1>9, <1>10 DEF Reload, SetDefaultZone, EditRules
  <2>2. UNCHANGED <<ports, pc, place, result, start, faults>>
    BY <1>10 DEF Reload, SetDefaultZone, EditRules, Meddle
  <2>3. defaultZone' \in Zone
    BY <1>10 DEF Reload, SetDefaultZone, EditRules, TypeOK
  <2>4. runtime' \in [Zone -> SUBSET Rule] /\ permanent' \in [Zone -> SUBSET Rule]
    BY <1>10 DEF Reload, SetDefaultZone, EditRules, TypeOK
  <2> QED
    BY <2>1, <2>2, <2>3, <2>4 DEF TypeOK
<1>11. CASE UNCHANGED vars
  BY <1>11 DEF vars, TypeOK
<1> QED
  BY <1>1, <1>2, <1>3, <1>4, <1>5, <1>6, <1>7, <1>8, <1>10, <1>11, <1>12, <1>13
  DEF Next, Program

LEMMA PlaceStep == TypeOK /\ PlaceInv /\ [Next]_vars => PlaceInv'
<1> SUFFICES ASSUME TypeOK, PlaceInv, [Next]_vars PROVE PlaceInv'
  OBVIOUS
<1> USE DEF PlaceInv, OpeningPlace, PruningPlace, BeginPlace, ZoneExists, ReadNow, PermZoneIs,
            ResultStands, ListIsUndeclared, Opening, Pruning, Counted, ZoneOf, ZoneKept,
            GoOn, Return, Fault, tables, place, history
<1>0. ports \in Seq(Entry) /\ i \in Nat \ {0} /\ (i <= Len(ports) => i \in DOMAIN ports)
  BY EntryFacts DEF TypeOK
<1>1. ASSUME NEW l \in Lists, Apply(l) PROVE PlaceInv'
  BY <1>1 DEF Apply
<1>2. CASE EnsureRunning \/ EnsureFails \/ CallFails
  BY <1>2 DEF EnsureRunning, EnsureFails, CallFails
<1>3. CASE GetDefaultZone
  BY <1>0, <1>3 DEF GetDefaultZone, OpenFrom
<1>4. CASE Query
  BY <1>4 DEF Query, Resolved
<1>5. CASE Add
  BY <1>5 DEF Add, Resolved
<1>6. CASE Resolve
  BY <1>6 DEF Resolve, Resolved
<1>7. CASE PermQuery \/ PermAdd
  <2>1. i + 1 <= Len(ports) => i + 1 \in DOMAIN ports
    BY <1>0
  <2>2. CASE PermQuery
    BY <2>1, <2>2, <1>0 DEF PermQuery, OpenFrom
  <2>3. CASE PermAdd
    BY <2>1, <2>3, <1>0 DEF PermAdd, OpenFrom
  <2> QED
    BY <1>7, <2>2, <2>3
<1>8. CASE GetZones
  BY <1>8 DEF GetZones
<1>9. CASE NextZone
  BY <1>9 DEF NextZone, TypeOK
<1>10. CASE List
  <2>1. Declared(cur)' = Declared(cur)
    BY <1>10 DEF List, Declared
  <2> QED
    BY <1>10, <2>1 DEF List, NextKind, Unmanaged
<1>11. CASE Remove
  <2>1. Declared(cur)' = Declared(cur)
    BY <1>11 DEF Remove, Declared
  <2> QED
    BY <1>11, <2>1 DEF Remove, NextKind
<1>12. CASE Reload \/ SetDefaultZone \/ EditRules \/ UNCHANGED vars
  <2>1. UNCHANGED <<ports, pc, place, result>> /\ Declared(cur)' = Declared(cur)
    BY <1>12 DEF Reload, SetDefaultZone, EditRules, Meddle, vars, Declared
  <2>2. /\ meddled \subseteq meddled'
        /\ UNCHANGED defaultZone \/ "zone" \in meddled'
    BY <1>12 DEF Reload, SetDefaultZone, EditRules, Meddle, vars
  <2> QED
    BY <2>1, <2>2
<1> QED
  BY <1>1, <1>2, <1>3, <1>4, <1>5, <1>6, <1>7, <1>8, <1>9, <1>10, <1>11, <1>12 DEF Next, Program

-----------------------------------------------------------------------------
(* Everything declared is opened, and is held from then on. *)

\* Every step keeps what is open, open.
LEMMA OpenStep == TypeOK /\ PlaceInv /\ OpenInv /\ [Next]_vars => OpenInv'
<1> SUFFICES ASSUME TypeOK, PlaceInv, OpenInv, [Next]_vars PROVE OpenInv'
  OBVIOUS
<1> USE DEF OpenInv, RunOpened, PermOpened, RunHeld, PermHeld, Untouched, AllOpening, Opening,
            OpenedAtRuntime, OpenedForGood, Quiet, RulesKept, ZoneKept, Counted, IsOpen, IsHeld,
            GoOn, Return, Fault, tables, place, history
<1>0. /\ ports \in Seq(Entry) /\ i \in Nat \ {0} /\ Len(ports) \in Nat
      /\ DOMAIN ports = 1..Len(ports)
  BY EntryFacts DEF TypeOK
<1>1. ASSUME NEW l \in Lists, Apply(l) PROVE OpenInv'
  BY <1>1 DEF Apply
<1>2. CASE EnsureRunning \/ EnsureFails
  BY <1>2 DEF EnsureRunning, EnsureFails, PlaceInv, BeginPlace
<1>3. CASE CallFails
  BY <1>3 DEF CallFails, ZoneOf, RuleOf
<1>4. CASE GetDefaultZone
  <2>1. layer = "none" /\ layer' = "none" /\ UNCHANGED <<tables, start, meddled, ports>>
    BY <1>4 DEF GetDefaultZone, PlaceInv, BeginPlace
  <2>2. \A j \in DOMAIN ports : pc' = "query" /\ i' = 1 /\ ~(j < 1)
    BY <1>0, <1>4 DEF GetDefaultZone, OpenFrom
  <2> QED
    BY <1>4, <2>1, <2>2 DEF GetDefaultZone
<1>5. CASE Query
  <2>1. UNCHANGED <<tables, ports, i, readZone, layer, start, meddled>>
    BY <1>5 DEF Query
  <2>2. i \in DOMAIN ports /\ layer = "none"
    BY <1>5 DEF Query, PlaceInv, OpeningPlace
  <2>3. pc' = "resolve" /\ Quiet => IsOpen(runtime, i)
    BY <1>5 DEF Query, PlaceInv, ReadNow, Resolved, ZoneOf
  <2>4. pc' \in {"done", "resolve", "add"}
    BY <1>5 DEF Query
  <2> QED
    BY <1>5, <2>1, <2>2, <2>3, <2>4 DEF Query, ZoneOf, RuleOf
<1>6. CASE Add
  <2>1. UNCHANGED <<permanent, ports, i, readZone, layer, start, meddled>>
    BY <1>6 DEF Add
  <2>2. i \in DOMAIN ports /\ layer = "none" /\ Resolved(ports[i].zone) \in Zone
    BY <1>6 DEF Add, PlaceInv, OpeningPlace, ZoneExists, Resolved, TypeOK
  <2>3. \A z \in Zone : runtime[z] \subseteq runtime'[z]
    BY <1>6, <2>2 DEF Add, TypeOK
  <2>4. pc' = "resolve" => RuleOf(ports[i]) \in runtime'[Resolved(ports[i].zone)]
    BY <1>6, <2>2 DEF Add, TypeOK
  <2>5. Quiet => Resolved(ports[i].zone) = ZoneOf(i)
    BY <1>6 DEF Add, PlaceInv, ReadNow, Resolved, ZoneOf
  <2>6. pc' \in {"done", "resolve"}
    BY <1>6 DEF Add
  <2>7. RunOpened'
    BY <1>6, <2>1, <2>2, <2>3, <2>4, <2>5, <2>6 DEF Add, ZoneOf, RuleOf
  <2>8. PermOpened'
    BY <1>6, <2>1, <2>2, <2>6 DEF Add, ZoneOf, RuleOf
  <2>9. Untouched'
    BY <2>1, <2>2, <2>3
  <2> QED
    BY <2>1, <2>2, <2>7, <2>8, <2>9
<1>7. CASE Resolve
  BY <1>7 DEF Resolve, ZoneOf, RuleOf
<1>8. CASE PermQuery \/ PermAdd
  <2>1. UNCHANGED <<runtime, ports, readZone, layer, start, meddled>>
    BY <1>8 DEF PermQuery, PermAdd
  <2>2. i \in DOMAIN ports /\ layer = "none"
    BY <1>8 DEF PermQuery, PermAdd, PlaceInv, OpeningPlace
  <2>3. \A z \in Zone : permanent[z] \subseteq permanent'[z]
    BY <1>8 DEF PermQuery, PermAdd, TypeOK
  <2>4. pc' \in {"query", "getZones"} => RuleOf(ports[i]) \in permanent'[permZone]
    BY <1>8 DEF PermQuery, PermAdd, OpenFrom, TypeOK
  <2>5. Counted(i) => permZone = ZoneOf(i) /\ ZoneOf(i) \in Zone
    BY <1>8 DEF PermQuery, PermAdd, PlaceInv, PermZoneIs, TypeOK
  <2>6. \/ pc' \in {"done", "permAdd"} /\ i' = i /\ permanent' = permanent
        \/ pc' \in {"query", "getZones"} /\ i' = i + 1 /\ (pc' = "getZones" => i + 1 > Len(ports))
    BY <1>8 DEF PermQuery, PermAdd, OpenFrom
  <2>7. pc \in {"permQuery", "permAdd"}
    BY <1>8 DEF PermQuery, PermAdd
  <2>8. CASE pc' \in {"done", "permAdd"}
    BY <2>1, <2>2, <2>6, <2>7, <2>8 DEF ZoneOf, RuleOf
  <2>9. CASE pc' \in {"query", "getZones"}
    <3>1. \A j \in DOMAIN ports : OpenedForGood(j)' => j < i \/ j = i
      BY <1>0, <2>1, <2>6, <2>9
    <3>2. \A j \in DOMAIN ports : OpenedAtRuntime(j)' => j < i \/ j = i
      BY <1>0, <2>1, <2>6, <2>9
    <3>3. RunOpened'
      BY <2>1, <2>2, <2>7, <3>2 DEF ZoneOf, RuleOf
    <3>4. PermOpened'
      BY <2>1, <2>2, <2>3, <2>4, <2>5, <2>7, <2>9, <3>1 DEF ZoneOf, RuleOf
    <3>5. Untouched'
      BY <2>1, <2>2, <2>3
    <3> QED
      BY <2>1, <2>2, <3>3, <3>4, <3>5
  <2> QED
    BY <2>6, <2>8, <2>9
<1>9. CASE GetZones
  <2>1. UNCHANGED <<tables, ports, readZone, meddled>> /\ pc' = "nextZone" /\ layer' # "none"
    BY <1>9 DEF GetZones
  <2>2. \A j \in DOMAIN ports : ports[j].rule \in Rule => RuleOf(ports[j]) = ports[j].rule
    BY EntryFacts
  <2>3. CASE layer = "none"
    BY <1>9, <2>1, <2>2, <2>3 DEF GetZones, ZoneOf, RuleOf
  <2>4. CASE layer # "none"
    BY <1>9, <2>1, <2>4 DEF GetZones, ZoneOf
  <2> QED
    BY <2>3, <2>4
<1>10. CASE NextZone \/ List
  <2>1. UNCHANGED <<tables, ports, readZone, layer, meddled>> /\ layer # "none"
    BY <1>10 DEF NextZone, List, PlaceInv, PruningPlace, Pruning
  <2>2. pc' \in {"getZones", "nextZone", "list", "remove", "done"}
    BY <1>10 DEF NextZone, List, NextKind
  <2> QED
    BY <2>1, <2>2 DEF ZoneOf
<1>11. CASE Remove
  <2>1. UNCHANGED <<ports, readZone, layer, meddled>> /\ layer # "none"
    BY <1>11 DEF Remove, PlaceInv, PruningPlace, Pruning
  <2>2. ASSUME NEW j \in DOMAIN ports, ZoneOf(j) = cur PROVE ports[j].rule \notin list
    BY <1>11, <2>2, DeclaredFacts DEF Remove, PlaceInv, ListIsUndeclared
  <2>3. \A z \in Zone : /\ runtime'[z] = runtime[z] \/ (z = cur /\ runtime[z] \ list \subseteq runtime'[z])
                        /\ permanent'[z] = permanent[z] \/ (z = cur /\ permanent[z] \ list \subseteq permanent'[z])
    BY <1>11 DEF Remove, TypeOK
  <2>4. pc' \in {"nextZone", "list", "remove", "done"}
    BY <1>11 DEF Remove, NextKind
  <2> QED
    BY <2>1, <2>2, <2>3, <2>4 DEF ZoneOf
<1>12. CASE Reload \/ SetDefaultZone \/ EditRules
  <2>1. UNCHANGED <<ports, pc, place>> /\ meddled \subseteq meddled' /\ meddled' # {}
    BY <1>12 DEF Reload, SetDefaultZone, EditRules, Meddle
  <2>2. RulesKept' => permanent' = permanent
    BY <1>12 DEF Reload, SetDefaultZone, EditRules, Meddle
  <2> QED
    BY <2>1, <2>2 DEF ZoneOf, RuleOf
<1>13. CASE UNCHANGED vars
  BY <1>13 DEF vars, ZoneOf, RuleOf
<1> QED
  BY <1>1, <1>2, <1>3, <1>4, <1>5, <1>6, <1>7, <1>8, <1>9, <1>10, <1>11, <1>12, <1>13
  DEF Next, Program

-----------------------------------------------------------------------------
(* What is not declared is closed, kind by kind and zone by zone. *)

\* Every step keeps what is closed, closed.
LEMMA PruneStep == TypeOK /\ PlaceInv /\ PruneInv /\ [Next]_vars => PruneInv'
<1> SUFFICES ASSUME TypeOK, PlaceInv, PruneInv, [Next]_vars PROVE PruneInv'
  OBVIOUS
<1> USE DEF PruneInv, RunPruning, RunPruned, PermPruning, PermPruned, Pruning, Quiet, RulesKept,
            GoOn, Return, Fault, tables, place, history
<1>0. UNCHANGED <<ports, readZone>> => \A z : Declared(z)' = Declared(z)
  BY DEF Declared
<1>1. ASSUME NEW l \in Lists, Apply(l) PROVE PruneInv'
  BY <1>1 DEF Apply
<1>2. CASE EnsureRunning \/ EnsureFails \/ GetDefaultZone \/ Query \/ Add \/ Resolve \/ PermQuery \/ PermAdd
  <2>1. layer' = "none"
    BY <1>2 DEF EnsureRunning, EnsureFails, GetDefaultZone, Query, Add, Resolve, PermQuery, PermAdd,
                PlaceInv, BeginPlace, OpeningPlace, Opening
  <2>2. result' # "ok"
    BY <1>2 DEF EnsureRunning, EnsureFails, GetDefaultZone, Query, Add, Resolve, PermQuery, PermAdd,
                PlaceInv, ResultStands, OpenFrom
  <2> QED
    BY <2>1, <2>2
<1>3. CASE CallFails
  BY <1>0, <1>3 DEF CallFails, Clean
<1>4. CASE GetZones
  <2>1. UNCHANGED <<tables, ports, readZone, meddled>> /\ zones' = Zone /\ pc' = "nextZone"
    BY <1>4 DEF GetZones
  <2>2. result' # "ok"
    BY <1>4 DEF GetZones, PlaceInv, ResultStands
  <2>3. layer' = "permanent" => layer \in {"runtime", "permanent"} /\ pc = "getZones"
    BY <1>4 DEF GetZones, TypeOK
  <2> QED
    BY <1>0, <2>1, <2>2, <2>3 DEF Clean, PrunedUpTo
<1>5. CASE NextZone
  <2>1. UNCHANGED <<tables, ports, readZone, layer, meddled>> /\ pc = "nextZone"
    BY <1>5 DEF NextZone
  <2>2. CASE zones # {}
    <3>1. cur' \in zones /\ zones' = zones \ {cur'} /\ kind' = 1 /\ pc' = "list" /\ result' = result
      BY <1>5, <2>2 DEF NextZone
    <3>2. result' # "ok"
      BY <2>1, <3>1 DEF PlaceInv, ResultStands
    <3>3. \A z \in Zone \ zones' : z # cur' => z \in Zone \ zones
      BY <3>1
    <3>4. \A k : k \notin 1..(kind' - 1)
      BY <3>1
    <3> QED
      BY <1>0, <2>1, <3>1, <3>2, <3>3, <3>4 DEF Clean, PrunedUpTo
  <2>3. CASE zones = {}
    <3>1. \/ layer = "runtime" /\ pc' = "getZones" /\ result' # "ok"
          \/ layer = "permanent" /\ pc' = "done"
      BY <1>5, <2>3 DEF NextZone, TypeOK, PlaceInv, PruningPlace, ResultStands
    <3> QED
      BY <1>0, <2>1, <2>3, <3>1 DEF Clean, PrunedUpTo
  <2> QED
    BY <2>2, <2>3
<1>6. CASE List
  <2>1. /\ UNCHANGED <<tables, ports, readZone, layer, zones, cur, meddled>> /\ pc = "list"
        /\ list' = Unmanaged /\ cur \in Zone /\ kind \in 1..3 /\ result' # "ok"
    BY <1>6 DEF List, NextKind, TypeOK, PlaceInv, ResultStands
  <2>2. \/ Unmanaged # {} /\ pc' = "remove" /\ kind' = kind
        \/ Unmanaged = {} /\ kind < 3 /\ pc' = "list" /\ kind' = kind + 1
        \/ Unmanaged = {} /\ kind = 3 /\ pc' = "nextZone"
    BY <1>6, <2>1, KindFacts DEF List, NextKind
  <2>3. ASSUME Quiet, layer = "runtime" PROVE PrunedUpTo(runtime)'
    <3>1. PrunedUpTo(runtime) /\ runtime[cur] \in SUBSET Rule /\ Unmanaged = (runtime[cur] \cap Kinds[kind]) \ Declared(cur)
      BY <2>1, <2>3 DEF Unmanaged, Table, TypeOK
    <3>2. ASSUME Unmanaged = {}
          PROVE /\ \A m \in 1..kind : runtime[cur] \cap Kinds[m] \subseteq Declared(cur)
                /\ kind = 3 => runtime[cur] \subseteq Declared(cur)
      <4>1. \A m \in 1..(kind - 1) : runtime[cur] \cap Kinds[m] \subseteq Declared(cur)
        BY <2>1, <3>1 DEF PrunedUpTo
      <4>2. (runtime[cur] \cap Kinds[kind]) \ Declared(cur) = {}
        BY <3>1, <3>2
      <4>3. kind \in 1..3 /\ runtime[cur] \in SUBSET Rule
        BY <2>1, <3>1
      <4>4. \A m \in 1..kind : runtime[cur] \cap Kinds[m] \subseteq Declared(cur)
        BY <4>1, <4>2, <4>3
      <4>5. ASSUME kind = 3 PROVE runtime[cur] \subseteq Declared(cur)
        <5>1. /\ runtime[cur] \cap Kinds[1] \subseteq Declared(cur)
              /\ runtime[cur] \cap Kinds[2] \subseteq Declared(cur)
              /\ runtime[cur] \cap Kinds[3] \subseteq Declared(cur)
          BY <4>4, <4>5
        <5> QED
          BY <4>3, <5>1, KindFacts
      <4> QED
        BY <4>4, <4>5
    <3>3. kind + 1 - 1 = kind
      BY <2>1
    <3> QED
      BY <1>0, <2>1, <2>2, <3>1, <3>2, <3>3 DEF Clean, PrunedUpTo
  <2>4. ASSUME RulesKept, layer = "permanent" PROVE PrunedUpTo(permanent)'
    <3>1. PrunedUpTo(permanent) /\ permanent[cur] \in SUBSET Rule /\ Unmanaged = (permanent[cur] \cap Kinds[kind]) \ Declared(cur)
      BY <2>1, <2>4 DEF Unmanaged, Table, TypeOK
    <3>2. ASSUME Unmanaged = {}
          PROVE /\ \A m \in 1..kind : permanent[cur] \cap Kinds[m] \subseteq Declared(cur)
                /\ kind = 3 => permanent[cur] \subseteq Declared(cur)
      <4>1. \A m \in 1..(kind - 1) : permanent[cur] \cap Kinds[m] \subseteq Declared(cur)
        BY <2>1, <3>1 DEF PrunedUpTo
      <4>2. (permanent[cur] \cap Kinds[kind]) \ Declared(cur) = {}
        BY <3>1, <3>2
      <4>3. kind \in 1..3 /\ permanent[cur] \in SUBSET Rule
        BY <2>1, <3>1
      <4>4. \A m \in 1..kind : permanent[cur] \cap Kinds[m] \subseteq Declared(cur)
        BY <4>1, <4>2, <4>3
      <4>5. ASSUME kind = 3 PROVE permanent[cur] \subseteq Declared(cur)
        <5>1. /\ permanent[cur] \cap Kinds[1] \subseteq Declared(cur)
              /\ permanent[cur] \cap Kinds[2] \subseteq Declared(cur)
              /\ permanent[cur] \cap Kinds[3] \subseteq Declared(cur)
          BY <4>4, <4>5
        <5> QED
          BY <4>3, <5>1, KindFacts
      <4> QED
        BY <4>4, <4>5
    <3>3. kind + 1 - 1 = kind
      BY <2>1
    <3> QED
      BY <1>0, <2>1, <2>2, <3>1, <3>2, <3>3 DEF Clean, PrunedUpTo
  <2>5. pc' # "getZones"
    BY <2>2
  <2> QED
    BY <1>0, <2>1, <2>3, <2>4, <2>5 DEF Clean
<1>7. CASE Remove
  <2>1. PICK r \in list :
          /\ list' = list \ {r}
          /\ IF r \notin Table[cur]
             THEN Return("error") /\ UNCHANGED <<tables, kind>>
             ELSE /\ IF layer = "runtime"
                     THEN /\ runtime' = [runtime EXCEPT ![cur] = @ \ {r}]
                          /\ UNCHANGED permanent
                     ELSE /\ permanent' = [permanent EXCEPT ![cur] = @ \ {r}]
                          /\ UNCHANGED runtime
                  /\ IF list = {r} THEN NextKind
                     ELSE GoOn("remove") /\ UNCHANGED kind
    BY <1>7 DEF Remove
  <2>2. /\ UNCHANGED <<ports, readZone, layer, zones, cur, meddled>> /\ pc = "remove"
        /\ cur \in Zone /\ kind \in 1..3 /\ result' # "ok" /\ pc' # "getZones"
        /\ layer \in {"runtime", "permanent"}
    BY <1>7 DEF Remove, NextKind, TypeOK, PlaceInv, ResultStands, PruningPlace
  <2>3. CASE r \notin Table[cur]
    BY <1>0, <2>1, <2>2, <2>3 DEF Clean
  <2>4. CASE r \in Table[cur]
    <3>1. \/ list' # {} /\ pc' = "remove" /\ kind' = kind
          \/ list' = {} /\ kind < 3 /\ pc' = "list" /\ kind' = kind + 1
          \/ list' = {} /\ kind = 3 /\ pc' = "nextZone"
      BY <2>1, <2>2, <2>4, KindFacts DEF NextKind
    <3>2. kind + 1 - 1 = kind
      BY <2>2
    <3>3. ASSUME Quiet, layer = "runtime" PROVE PrunedUpTo(runtime)'
      <4>1. PrunedUpTo(runtime) /\ runtime' = [runtime EXCEPT ![cur] = @ \ {r}]
        BY <2>1, <2>2, <2>4, <3>3
      <4>2. runtime'[cur] = runtime[cur] \ {r} /\ runtime'[cur] \in SUBSET Rule
        BY <2>2, <4>1 DEF TypeOK
      <4>3. \A z \in Zone : z # cur => runtime'[z] = runtime[z]
        BY <4>1 DEF TypeOK
      <4>4. (runtime'[cur] \cap Kinds[kind]) \ Declared(cur) = list'
        BY <2>1, <2>2, <4>1, <4>2 DEF PrunedUpTo
      <4>5. \A k \in 1..(kind - 1) : runtime'[cur] \cap Kinds[k] \subseteq Declared(cur)
        BY <2>2, <4>1, <4>2 DEF PrunedUpTo
      <4>6. ASSUME list' = {}
            PROVE /\ \A m \in 1..kind : runtime'[cur] \cap Kinds[m] \subseteq Declared(cur)
                  /\ kind = 3 => runtime'[cur] \subseteq Declared(cur)
        <5>1. (runtime'[cur] \cap Kinds[kind]) \ Declared(cur) = {}
          BY <4>4, <4>6
        <5>2. kind \in 1..3 /\ runtime'[cur] \in SUBSET Rule
          BY <2>2, <4>2
        <5>3. \A m \in 1..kind : runtime'[cur] \cap Kinds[m] \subseteq Declared(cur)
          BY <4>5, <5>1, <5>2
        <5>4. ASSUME kind = 3 PROVE runtime'[cur] \subseteq Declared(cur)
          <6>1. /\ runtime'[cur] \cap Kinds[1] \subseteq Declared(cur)
                /\ runtime'[cur] \cap Kinds[2] \subseteq Declared(cur)
                /\ runtime'[cur] \cap Kinds[3] \subseteq Declared(cur)
            BY <5>3, <5>4
          <6> QED
            BY <5>2, <6>1, KindFacts
        <5> QED
          BY <5>3, <5>4
      <4> QED
        BY <1>0, <2>2, <3>1, <3>2, <4>1, <4>3, <4>4, <4>5, <4>6 DEF Clean, PrunedUpTo
    <3>4. ASSUME RulesKept, layer = "permanent" PROVE PrunedUpTo(permanent)'
      <4>1. PrunedUpTo(permanent) /\ permanent' = [permanent EXCEPT ![cur] = @ \ {r}]
        BY <2>1, <2>2, <2>4, <3>4
      <4>2. permanent'[cur] = permanent[cur] \ {r} /\ permanent'[cur] \in SUBSET Rule
        BY <2>2, <4>1 DEF TypeOK
      <4>3. \A z \in Zone : z # cur => permanent'[z] = permanent[z]
        BY <4>1 DEF TypeOK
      <4>4. (permanent'[cur] \cap Kinds[kind]) \ Declared(cur) = list'
        BY <2>1, <2>2, <4>1, <4>2 DEF PrunedUpTo
      <4>5. \A k \in 1..(kind - 1) : permanent'[cur] \cap Kinds[k] \subseteq Declared(cur)
        BY <2>2, <4>1, <4>2 DEF PrunedUpTo
      <4>6. ASSUME list' = {}
            PROVE /\ \A m \in 1..kind : permanent'[cur] \cap Kinds[m] \subseteq Declared(cur)
                  /\ kind = 3 => permanent'[cur] \subseteq Declared(cur)
        <5>1. (permanent'[cur] \cap Kinds[kind]) \ Declared(cur) = {}
          BY <4>4, <4>6
        <5>2. kind \in 1..3 /\ permanent'[cur] \in SUBSET Rule
          BY <2>2, <4>2
        <5>3. \A m \in 1..kind : permanent'[cur] \cap Kinds[m] \subseteq Declared(cur)
          BY <4>5, <5>1, <5>2
        <5>4. ASSUME kind = 3 PROVE permanent'[cur] \subseteq Declared(cur)
          <6>1. /\ permanent'[cur] \cap Kinds[1] \subseteq Declared(cur)
                /\ permanent'[cur] \cap Kinds[2] \subseteq Declared(cur)
                /\ permanent'[cur] \cap Kinds[3] \subseteq Declared(cur)
            BY <5>3, <5>4
          <6> QED
            BY <5>2, <6>1, KindFacts
        <5> QED
          BY <5>3, <5>4
      <4> QED
        BY <1>0, <2>2, <3>1, <3>2, <4>1, <4>3, <4>4, <4>5, <4>6 DEF Clean, PrunedUpTo
    <3>5. layer = "permanent" => runtime' = runtime
      BY <2>1, <2>4
    <3> QED
      BY <1>0, <2>2, <3>3, <3>4, <3>5 DEF Clean
  <2> QED
    BY <2>3, <2>4
<1>8. CASE Reload \/ SetDefaultZone \/ EditRules
  <2>1. UNCHANGED <<ports, pc, place, result>> /\ meddled \subseteq meddled' /\ meddled' # {}
    BY <1>8 DEF Reload, SetDefaultZone, EditRules, Meddle
  <2>2. RulesKept' => permanent' = permanent
    BY <1>8 DEF Reload, SetDefaultZone, EditRules, Meddle
  <2> QED
    BY <1>0, <2>1, <2>2 DEF Clean, PrunedUpTo
<1>9. CASE UNCHANGED vars
  BY <1>0, <1>9 DEF vars, Clean, PrunedUpTo
<1> QED
  BY <1>1, <1>2, <1>3, <1>4, <1>5, <1>6, <1>7, <1>8, <1>9 DEF Next, Program

-----------------------------------------------------------------------------
(* An apply of what is in force has nothing to do. *)

LEMMA SteadyStep == TypeOK /\ PlaceInv /\ SteadyInv /\ [Next]_vars => SteadyInv'
<1> SUFFICES ASSUME TypeOK, PlaceInv, SteadyInv, [Next]_vars PROVE SteadyInv'
  OBVIOUS
<1> USE DEF SteadyInv, Steady, NothingToDo, AsAtStart, Quiet, GoOn, Return, Fault, tables, place, history
<1>0. UNCHANGED <<ports, readZone, start>> => InForce(start)' = InForce(start)
  BY DeclaredStays
<1>1. ASSUME NEW l \in Lists, Apply(l) PROVE SteadyInv'
  BY <1>1 DEF Apply
<1>2. CASE EnsureRunning \/ EnsureFails \/ CallFails
  BY <1>0, <1>2 DEF EnsureRunning, EnsureFails, CallFails
<1>3. CASE GetDefaultZone
  BY <1>3 DEF GetDefaultZone, OpenFrom
<1>4. CASE Query \/ PermQuery
  <2>1. UNCHANGED <<tables, ports, readZone, start, meddled>>
    BY <1>4 DEF Query, PermQuery
  <2>2. pc' \in {"done", "resolve", "add", "query", "getZones", "permAdd"}
    BY <1>4 DEF Query, PermQuery, OpenFrom
  <2>3. ASSUME Quiet, InForce(start) PROVE pc' \notin {"add", "permAdd"}
    <3>1. i \in DOMAIN ports /\ runtime = start.runtime /\ permanent = start.permanent
      BY <1>4, <2>3 DEF Query, PermQuery, PlaceInv, OpeningPlace, Opening
    <3>2. ports[i].rule \in Declared(ZoneOf(i))
      BY <3>1, DeclaredFacts
    <3>3. ASSUME ZoneOf(i) \in Zone
          PROVE RuleOf(ports[i]) \in runtime[ZoneOf(i)] /\ RuleOf(ports[i]) \in permanent[ZoneOf(i)]
      <4>1. ports[i].rule \in runtime[ZoneOf(i)] /\ ports[i].rule \in permanent[ZoneOf(i)]
        BY <2>3, <3>1, <3>2, <3>3 DEF InForce
      <4>2. ports[i].rule \in Rule
        BY <3>3, <4>1 DEF TypeOK
      <4> QED
        BY <3>1, <4>1, <4>2, EntryFacts
    <3>4. CASE Query
      <4>1. Resolved(ports[i].zone) = ZoneOf(i)
        BY <2>3, <3>4 DEF Query, PlaceInv, ReadNow, Opening, ZoneKept, Resolved, ZoneOf
      <4> QED
        BY <3>3, <3>4, <4>1 DEF Query
    <3>5. CASE PermQuery
      <4>1. permZone = ZoneOf(i) /\ permZone \in Zone
        BY <2>3, <3>5 DEF PermQuery, PlaceInv, PermZoneIs, Counted, ZoneKept, TypeOK
      <4> QED
        BY <3>3, <3>5, <4>1 DEF PermQuery, OpenFrom
    <3> QED
      BY <1>4, <3>4, <3>5
  <2> QED
    BY <1>0, <1>4, <2>1, <2>2, <2>3 DEF Query, PermQuery
<1>5. CASE Add \/ PermAdd \/ Remove
  <2>1. UNCHANGED <<ports, readZone, start, meddled>> /\ pc \in {"add", "permAdd", "remove"}
    BY <1>5 DEF Add, PermAdd, Remove
  <2>2. pc' \notin {"ensure", "getDefaultZone"}
    BY <1>5 DEF Add, PermAdd, Remove, OpenFrom, NextKind
  <2> QED
    BY <1>0, <2>1, <2>2
<1>6. CASE Resolve \/ GetZones \/ NextZone
  BY <1>0, <1>6 DEF Resolve, GetZones, NextZone
<1>7. CASE List
  <2>1. UNCHANGED <<tables, ports, readZone, start, meddled>> /\ pc = "list" /\ cur \in Zone
    BY <1>7 DEF List, TypeOK
  <2>2. pc' \in {"list", "nextZone", "remove"} /\ (Unmanaged = {} => pc' # "remove")
    BY <1>7 DEF List, NextKind
  <2>3. Quiet /\ InForce(start) => Unmanaged = {}
    BY <2>1 DEF InForce, Unmanaged, Table
  <2> QED
    BY <1>0, <2>1, <2>2, <2>3
<1>8. CASE Reload \/ SetDefaultZone \/ EditRules
  BY <1>8 DEF Reload, SetDefaultZone, EditRules, Meddle
<1>9. CASE UNCHANGED vars
  BY <1>0, <1>9 DEF vars
<1> QED
  BY <1>1, <1>2, <1>3, <1>4, <1>5, <1>6, <1>7, <1>8, <1>9 DEF Next, Program

-----------------------------------------------------------------------------
(* The theorems. *)

\* The inductive invariant of an apply: where it is, what it has opened, what it
\* has closed (firewall.go:35-417).
THEOREM Invariance == Spec => []IInv
<1>1. IInv /\ [Next]_vars => IInv'
  BY TypeStep, PlaceStep, OpenStep, PruneStep, SteadyStep DEF IInv
<1> QED
  BY <1>1, InitIInv, PTL DEF Spec

\* Every variable keeps its type.
THEOREM TypeCorrect == Spec => []TypeOK
<1>1. IInv => TypeOK
  BY DEF IInv
<1> QED
  BY <1>1, Invariance, PTL

\* What is wanted is held in both tables once the pruning has begun.
LEMMA WantedIsHeld ==
    ASSUME IInv, layer # "none", NEW z \in Zone
    PROVE /\ Quiet => Wanted(z) \subseteq runtime[z]
          /\ RulesKept /\ ZoneKept => Wanted(z) \subseteq permanent[z]
<1> SUFFICES ASSUME NEW r \in Wanted(z)
             PROVE /\ Quiet => r \in runtime[z]
                   /\ RulesKept /\ ZoneKept => r \in permanent[z]
  OBVIOUS
<1>1. PICK j \in DOMAIN ports : ZoneOf(j) = z /\ ports[j].rule = r /\ r \in Rule
  BY DeclaredFacts DEF Wanted
<1> QED
  BY <1>1 DEF IInv, OpenInv, RunHeld, PermHeld, IsHeld, Counted

\* A success enforces the list (firewall.go:35-42, :245-252).
THEOREM EnforcedAlways == Spec => []Enforced
<1>1. ASSUME IInv, result = "ok", meddled = {}, NEW z \in Zone
      PROVE runtime[z] = Wanted(z) /\ permanent[z] = Wanted(z)
  <2>1. layer = "permanent" /\ Quiet /\ RulesKept /\ ZoneKept
    BY <1>1 DEF IInv, PlaceInv, ResultStands, Quiet, RulesKept, ZoneKept
  <2>2. Wanted(z) \subseteq runtime[z] /\ Wanted(z) \subseteq permanent[z]
    BY <1>1, <2>1, WantedIsHeld DEF Quiet, RulesKept, ZoneKept
  <2>3. runtime[z] \subseteq Declared(z) /\ permanent[z] \subseteq Declared(z)
    BY <1>1, <2>1 DEF IInv, PruneInv, RunPruned, PermPruned, Clean
  <2>4. runtime[z] \subseteq Rule /\ permanent[z] \subseteq Rule
    BY <1>1 DEF IInv, TypeOK
  <2> QED
    BY <2>2, <2>3, <2>4 DEF Wanted
<1>2. IInv => Enforced
  BY <1>1 DEF Enforced
<1> QED
  BY <1>2, Invariance, PTL

\* An invariant state has closed nothing before all is open.
LEMMA OpensFirst == IInv => OpenBeforeClose
<1> SUFFICES ASSUME IInv, meddled = {}, NEW z \in Zone
             PROVE IF layer = "none"
                   THEN start.runtime[z] \subseteq runtime[z] /\ start.permanent[z] \subseteq permanent[z]
                   ELSE Wanted(z) \subseteq runtime[z] \cap permanent[z]
  BY DEF OpenBeforeClose
<1>1. Quiet /\ RulesKept /\ ZoneKept
  BY DEF Quiet, RulesKept, ZoneKept
<1>2. CASE layer = "none"
  BY <1>1, <1>2 DEF IInv, OpenInv, Untouched
<1>3. CASE layer # "none"
  BY <1>1, <1>3, WantedIsHeld DEF Quiet, RulesKept, ZoneKept
<1> QED
  BY <1>2, <1>3

\* Nothing is closed before everything declared is open, in any apply
\* (firewall.go:71-83).
THEOREM OpenBeforeCloseAlways == Spec => []OpenBeforeClose
  BY OpensFirst, Invariance, PTL

\* A reachable declared port stays reachable (firewall.go:71-83).
THEOREM NeverCutOffAlways == Spec => []NeverCutOff
<1>1. ASSUME IInv, meddled = {}, NEW z \in Zone, NEW p \in Declared(z) \cap Port,
             Reachable(start.runtime[z], p)
      PROVE Reachable(runtime[z], p)
  <2>1. OpenBeforeClose
    BY <1>1, OpensFirst
  <2>2. CASE layer = "none"
    <3>1. start.runtime[z] \subseteq runtime[z]
      BY <1>1, <2>1, <2>2 DEF OpenBeforeClose
    <3> QED
      BY <1>1, <3>1 DEF Reachable
  <2>3. CASE layer # "none"
    <3>1. p \in Wanted(z)
      BY <1>1 DEF Wanted, Rule
    <3>2. p \in runtime[z]
      BY <1>1, <2>1, <2>3, <3>1 DEF OpenBeforeClose
    <3> QED
      BY <3>2 DEF Reachable
  <2> QED
    BY <2>2, <2>3
<1>2. IInv => NeverCutOff
  BY <1>1 DEF NeverCutOff
<1> QED
  BY <1>2, Invariance, PTL

\* What is in force is left alone (firewall.go:131, :465, :295, :377).
THEOREM SteadyIsLeftAloneAlways == Spec => []SteadyIsLeftAlone
<1>1. IInv => SteadyIsLeftAlone
  BY DEF IInv, SteadyInv, Steady, AsAtStart, Quiet, SteadyIsLeftAlone
<1> QED
  BY <1>1, Invariance, PTL

\* A reload cannot undo what was made permanent, nor can a default zone that
\* changes, for what names its zone (firewall.go:441-445).
THEOREM PermanentSurvivesReloadAlways == Spec => []PermanentSurvivesReload
<1>1. ASSUME IInv, result = "ok", "rules" \notin meddled
      PROVE /\ \A j \in DOMAIN ports : ports[j].zone # NoZone /\ ports[j].rule \in Rule =>
                  ports[j].rule \in permanent[ports[j].zone]
            /\ "zone" \notin meddled => \A z \in Zone : permanent[z] = Wanted(z)
  <2>1. layer = "permanent" /\ RulesKept
    BY <1>1 DEF IInv, PlaceInv, ResultStands, RulesKept
  <2>2. \A j \in DOMAIN ports : ports[j].zone # NoZone /\ ports[j].rule \in Rule =>
            ports[j].rule \in permanent[ports[j].zone]
    BY <1>1, <2>1 DEF IInv, OpenInv, PermHeld, IsHeld, Counted, ZoneOf
  <2>3. ASSUME "zone" \notin meddled, NEW z \in Zone PROVE permanent[z] = Wanted(z)
    <3>1. Wanted(z) \subseteq permanent[z]
      BY <1>1, <2>1, <2>3, WantedIsHeld DEF RulesKept, ZoneKept
    <3>2. permanent[z] \subseteq Declared(z) /\ permanent[z] \subseteq Rule
      BY <1>1, <2>1 DEF IInv, PruneInv, PermPruned, Clean, TypeOK
    <3> QED
      BY <3>1, <3>2 DEF Wanted
  <2> QED
    BY <2>2, <2>3
<1>2. IInv => PermanentSurvivesReload
  BY <1>1 DEF PermanentSurvivesReload
<1> QED
  BY <1>2, Invariance, PTL

-----------------------------------------------------------------------------
\* What is left of an apply: calls for the elements still to open, tables still
\* to prune, zones of the table, kinds of the zone, rules of the kind.
OpeningLeft ==
    CASE pc = "ensure" -> 5 * Len(ports) + 2
      [] pc = "getDefaultZone" -> 5 * Len(ports) + 1
      [] pc = "query" -> 5 * (Len(ports) - i) + 5
      [] pc = "add" -> 5 * (Len(ports) - i) + 4
      [] pc = "resolve" -> 5 * (Len(ports) - i) + 3
      [] pc = "permQuery" -> 5 * (Len(ports) - i) + 2
      [] pc = "permAdd" -> 5 * (Len(ports) - i) + 1
      [] OTHER -> 0
LayersLeft ==
    CASE pc = "getZones" -> IF layer = "none" THEN 4 ELSE 2
      [] pc \in {"nextZone", "list", "remove"} -> IF layer = "runtime" THEN 3 ELSE 1
      [] OTHER -> 0
KindsLeft ==
    CASE pc = "list" -> 2 * (3 - kind) + 2 [] pc = "remove" -> 2 * (3 - kind) + 1 [] OTHER -> 0

Shrunk(S, T) == S \subseteq T /\ S # T

Closer ==
    \/ OpeningLeft' < OpeningLeft
    \/ OpeningLeft' = OpeningLeft /\ LayersLeft' < LayersLeft
    \/ /\ OpeningLeft' = OpeningLeft /\ LayersLeft' = LayersLeft
       /\ \/ Shrunk(zones', zones)
          \/ zones' = zones /\ KindsLeft' < KindsLeft
          \/ zones' = zones /\ KindsLeft' = KindsLeft /\ Shrunk(list', list)

Left == <<OpeningLeft, LayersLeft, KindsLeft, zones, list>>
Running == pc \notin {"idle", "done"}

CallsAreBounded ==
    [][Running => /\ OpeningLeft \in Nat /\ LayersLeft \in Nat /\ KindsLeft \in Nat
                  /\ IF Program THEN Closer ELSE UNCHANGED Left]_vars

LEMMA OpeningLeftIs ==
    /\ pc = "ensure" => OpeningLeft = 5 * Len(ports) + 2
    /\ pc = "getDefaultZone" => OpeningLeft = 5 * Len(ports) + 1
    /\ pc = "query" => OpeningLeft = 5 * (Len(ports) - i) + 5
    /\ pc = "add" => OpeningLeft = 5 * (Len(ports) - i) + 4
    /\ pc = "resolve" => OpeningLeft = 5 * (Len(ports) - i) + 3
    /\ pc = "permQuery" => OpeningLeft = 5 * (Len(ports) - i) + 2
    /\ pc = "permAdd" => OpeningLeft = 5 * (Len(ports) - i) + 1
    /\ pc \in {"getZones", "nextZone", "list", "remove", "done"} => OpeningLeft = 0
BY DEF OpeningLeft

LEMMA OpeningLeftWillBe ==
    /\ pc' = "getDefaultZone" => OpeningLeft' = 5 * Len(ports') + 1
    /\ pc' = "query" => OpeningLeft' = 5 * (Len(ports') - i') + 5
    /\ pc' = "add" => OpeningLeft' = 5 * (Len(ports') - i') + 4
    /\ pc' = "resolve" => OpeningLeft' = 5 * (Len(ports') - i') + 3
    /\ pc' = "permQuery" => OpeningLeft' = 5 * (Len(ports') - i') + 2
    /\ pc' = "permAdd" => OpeningLeft' = 5 * (Len(ports') - i') + 1
    /\ pc' \in {"getZones", "nextZone", "list", "remove", "done"} => OpeningLeft' = 0
BY DEF OpeningLeft

LEMMA LayersLeftIs ==
    /\ pc = "getZones" => LayersLeft = IF layer = "none" THEN 4 ELSE 2
    /\ pc \in {"nextZone", "list", "remove"} => LayersLeft = IF layer = "runtime" THEN 3 ELSE 1
    /\ pc' = "getZones" => LayersLeft' = IF layer' = "none" THEN 4 ELSE 2
    /\ pc' \in {"nextZone", "list", "remove"} => LayersLeft' = IF layer' = "runtime" THEN 3 ELSE 1
    /\ pc' = "done" => LayersLeft' = 0
BY DEF LayersLeft

LEMMA KindsLeftIs ==
    /\ pc = "list" => KindsLeft = 2 * (3 - kind) + 2
    /\ pc = "remove" => KindsLeft = 2 * (3 - kind) + 1
    /\ pc' = "list" => KindsLeft' = 2 * (3 - kind') + 2
    /\ pc' = "remove" => KindsLeft' = 2 * (3 - kind') + 1
    /\ pc' = "nextZone" => KindsLeft' = 0
BY DEF KindsLeft

LEMMA PortsAreAList == TypeOK => ports \in Seq(Entry)
<1>1. Lists \subseteq Seq(Entry)
  BY FirewallAssumption, Zenon DEF FirewallAssumption
<1>2. <<>> \in Seq(Entry)
  OBVIOUS
<1>3. TypeOK => ports \in Lists \cup {<<>>}
  BY Zenon DEF TypeOK
<1> QED
  BY <1>1, <1>2, <1>3, Zenon

LEMMA OpeningGetsCloser ==
    ASSUME IInv, EnsureRunning \/ GetDefaultZone \/ Query \/ Add \/ Resolve \/ PermQuery \/ PermAdd
    PROVE  OpeningLeft' < OpeningLeft
<1> DEFINE L == Len(ports)
<1>0. L \in Nat /\ i \in Nat \ {0} /\ ports' = ports /\ (Opening => i <= L)
  <2>1. ports \in Seq(Entry)
    BY PortsAreAList DEF IInv
  <2>2. ports' = ports
    BY DEF EnsureRunning, GetDefaultZone, Query, Add, Resolve, PermQuery, PermAdd
  <2> QED
    BY <2>1, <2>2 DEF IInv, TypeOK, PlaceInv, OpeningPlace
<1> USE OpeningLeftIs, OpeningLeftWillBe
<1>1. CASE EnsureRunning
  BY <1>0, <1>1 DEF EnsureRunning, GoOn
<1>2. CASE GetDefaultZone
  <2>1. pc = "getDefaultZone" /\ i' = 1 /\ pc' = IF 1 > L THEN "getZones" ELSE "query"
    BY <1>2 DEF GetDefaultZone, OpenFrom, GoOn
  <2> HIDE DEF L
  <2> QED
    BY <1>0, <2>1 DEF L
<1>3. CASE Query
  BY <1>0, <1>3 DEF Query, GoOn, Return, Opening, place
<1>4. CASE Add
  BY <1>0, <1>4 DEF Add, GoOn, Return, Opening, place
<1>5. CASE Resolve
  BY <1>0, <1>5 DEF Resolve, GoOn, Opening
<1>6. CASE PermQuery
  BY <1>0, <1>6 DEF PermQuery, OpenFrom, GoOn, Opening
<1>7. CASE PermAdd
  BY <1>0, <1>7 DEF PermAdd, OpenFrom, GoOn, Return, Opening
<1> QED
  BY <1>1, <1>2, <1>3, <1>4, <1>5, <1>6, <1>7

LEMMA FailingGetsCloser ==
    ASSUME IInv, EnsureFails \/ CallFails
    PROVE  Closer
<1>0. pc' = "done" /\ OpeningLeft' = 0 /\ LayersLeft' = 0
  BY OpeningLeftWillBe, LayersLeftIs DEF EnsureFails, CallFails, Return
<1>1. Len(ports) \in Nat /\ (Opening => i \in 1..Len(ports))
  <2>1. ports \in Seq(Entry)
    BY PortsAreAList DEF IInv
  <2> QED
    BY <2>1 DEF IInv, PlaceInv, OpeningPlace
<1>2. CASE pc \in {"ensure", "getDefaultZone", "query", "add", "resolve", "permQuery", "permAdd"}
  BY <1>0, <1>1, <1>2, OpeningLeftIs DEF Closer, Opening
<1>3. CASE pc \in {"getZones", "nextZone", "list", "remove"}
  BY <1>0, <1>3, OpeningLeftIs, LayersLeftIs DEF Closer
<1> QED
  BY <1>2, <1>3 DEF IInv, TypeOK, EnsureFails, CallFails

LEMMA PruningGetsCloser ==
    ASSUME IInv, GetZones \/ NextZone \/ List \/ Remove
    PROVE  Closer
<1>0. /\ kind \in 1..3 /\ zones \subseteq Zone
      /\ layer \in {"none", "runtime", "permanent"} /\ (Pruning => layer # "none")
  BY DEF IInv, TypeOK, PlaceInv, PruningPlace
<1>1. OpeningLeft = 0 /\ OpeningLeft' = 0
  <2>1. pc \in {"getZones", "nextZone", "list", "remove"}
        /\ pc' \in {"getZones", "nextZone", "list", "remove", "done"}
    BY DEF GetZones, NextZone, List, Remove, GoOn, Return, NextKind
  <2> QED
    BY <2>1, OpeningLeftIs, OpeningLeftWillBe
<1>2. CASE GetZones
  BY <1>0, <1>1, <1>2, LayersLeftIs DEF GetZones, GoOn, Closer
<1>3. CASE NextZone
  <2>1. CASE zones # {}
    BY <1>0, <1>1, <1>3, <2>1, LayersLeftIs DEF NextZone, GoOn, Closer, Shrunk
  <2>2. CASE zones = {}
    BY <1>0, <1>1, <1>3, <2>2, LayersLeftIs DEF NextZone, GoOn, Return, Closer, Pruning
  <2> QED
    BY <2>1, <2>2
<1>4. ASSUME NextKind, pc \in {"list", "remove"}, layer' = layer, zones' = zones PROVE Closer
  BY <1>0, <1>1, <1>4, LayersLeftIs, KindsLeftIs DEF NextKind, Kinds, GoOn, Closer
<1>5. CASE List
  <2>1. CASE Unmanaged = {}
    BY <1>4, <1>5, <2>1 DEF List
  <2>2. CASE Unmanaged # {}
    BY <1>0, <1>1, <1>5, <2>2, LayersLeftIs, KindsLeftIs DEF List, GoOn, Closer
  <2> QED
    BY <2>1, <2>2
<1>6. CASE Remove
  <2>1. PICK r \in list :
            /\ list' = list \ {r}
            /\ \/ pc' = "done" \/ NextKind \/ (pc' = "remove" /\ kind' = kind)
    BY <1>6 DEF Remove, Return, GoOn
  <2>2. pc = "remove" /\ layer' = layer /\ zones' = zones
    BY <1>6 DEF Remove
  <2>3. CASE pc' = "done"
    BY <1>0, <1>1, <2>2, <2>3, LayersLeftIs DEF Closer
  <2>4. CASE pc' = "remove" /\ kind' = kind
    BY <1>0, <1>1, <2>1, <2>2, <2>4, LayersLeftIs, KindsLeftIs DEF Closer, Shrunk
  <2> QED
    BY <1>4, <2>1, <2>2, <2>3, <2>4
<1> QED
  BY <1>2, <1>3, <1>5, <1>6

LEMMA LeftIsCounted ==
    IInv => OpeningLeft \in Nat /\ LayersLeft \in Nat /\ KindsLeft \in Nat
<1> SUFFICES ASSUME IInv
             PROVE  OpeningLeft \in Nat /\ LayersLeft \in Nat /\ KindsLeft \in Nat
  OBVIOUS
<1>1. OpeningLeft \in Nat
  <2>1. ports \in Seq(Entry)
    BY PortsAreAList DEF IInv
  <2>2. Len(ports) \in Nat /\ (Opening => i \in 1..Len(ports))
    BY <2>1 DEF IInv, PlaceInv, OpeningPlace
  <2>3. CASE Opening
    BY <2>2, <2>3, OpeningLeftIs DEF Opening
  <2>4. CASE pc \in {"ensure", "getDefaultZone"}
    BY <2>2, <2>4, OpeningLeftIs
  <2>5. CASE ~Opening /\ pc \notin {"ensure", "getDefaultZone"}
    BY <2>5 DEF OpeningLeft, Opening
  <2> QED
    BY <2>3, <2>4, <2>5
<1>2. LayersLeft \in Nat
  BY DEF LayersLeft
<1>3. KindsLeft \in Nat
  <2>1. kind \in 1..3
    BY DEF IInv, TypeOK
  <2> QED
    BY <2>1 DEF KindsLeft
<1> QED
  BY <1>1, <1>2, <1>3

LEMMA OthersLeaveIt ==
    ASSUME Running, [Next]_vars, ~Program
    PROVE  UNCHANGED Left
<1>1. UNCHANGED <<pc, ports, i, layer, zones, kind, list>>
  BY DEF Running, Next, Apply, Reload, SetDefaultZone, EditRules, Meddle, place, vars
<1> QED
  BY <1>1 DEF Left, OpeningLeft, LayersLeft, KindsLeft

\* An apply ends if its calls do: every call takes it closer to its end, for a
\* list of any length and any finite tables, and what the others do to firewalld
\* meanwhile cannot put the end off; a rule they add to a zone that was listed
\* is left for the next apply (firewall.go:43-155, 253-416, 446-505).
THEOREM CallsAreAlwaysBounded == Spec => CallsAreBounded
<1> DEFINE Step == Running => /\ OpeningLeft \in Nat /\ LayersLeft \in Nat /\ KindsLeft \in Nat
                              /\ IF Program THEN Closer ELSE UNCHANGED Left
<1>1. IInv /\ [Next]_vars => [Step]_vars
  <2> SUFFICES ASSUME IInv, [Next]_vars, Running PROVE Step
    OBVIOUS
  <2>1. CASE Program
    <3>1. EnsureRunning \/ GetDefaultZone \/ Query \/ Add \/ Resolve \/ PermQuery \/ PermAdd
              => Closer
      BY OpeningGetsCloser DEF Closer
    <3>2. Closer
      BY <2>1, <3>1, FailingGetsCloser, PruningGetsCloser, Zenon DEF Program
    <3> QED
      BY <2>1, <3>2, LeftIsCounted
  <2>2. CASE ~Program
    BY <2>2, OthersLeaveIt, LeftIsCounted
  <2> QED
    BY <2>1, <2>2
<1> QED
  BY <1>1, Invariance, PTL DEF Spec, CallsAreBounded
=============================================================================
