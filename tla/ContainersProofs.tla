--------------------------- MODULE ContainersProofs ---------------------------
(***************************************************************************)
(* The container steps of an apply, for every set of names, images, ports  *)
(* and settings, every list, and any number of failing requests and of     *)
(* podman commands of others.                                              *)
(***************************************************************************)
EXTENDS Containers, FiniteSetTheorems, TLAPS

Loop == pc \in {"exists", "inspect", "image", "pull", "remove", "create", "start"}

\* Where an apply is, and what the containers are, whatever goes wrong.
LoopPlace == Loop => i \in DOMAIN config
IdlePlace == pc = "idle" => smooth = 0
StopPlace == pc = "stop" => list # {} /\ \A n \in list \ gone : Exists(n)
StartPlace == pc = "start" /\ c.name \notin gone => Exists(c.name)
FreshStart == pc \in {"list", "stop"} => failed = {}
Unfinished == pc # "done" => result = "none"
PortsMatch == \A n \in Name :
    Exists(n) /\ podman[n].label # Foreign => podman[n].port = podman[n].label.port
NothingGone == Undisturbed => gone = {} /\ touched = {}

PlaceInv ==
    /\ LoopPlace /\ IdlePlace /\ StopPlace /\ StartPlace /\ FreshStart /\ Unfinished
    /\ PortsMatch /\ NothingGone

\* While containers are stopped, the undeclared ones that are up are still on the
\* list, if others left them alone since.
WillStop ==
    pc = "stop" => \A n \in Name \ (DeclaredNames \cup touched) : TakesPort(n) => n \in list

\* What is known of the element under way while nobody meddles.
NotCurrent == pc \in {"image", "pull", "remove", "create", "start"} => ~IsCurrent(c)
ImageIsHere == pc \in {"remove", "create", "start"} => c.image \in images
AnswerHolds ==
    /\ pc \in {"inspect", "image", "pull", "remove"} => exists = Exists(c.name)
    /\ pc \in {"inspect", "remove"} => Exists(c.name)
    /\ pc = "create" => ~Exists(c.name)
WasCreated == pc = "start" => podman[c.name] = [state |-> "created", label |-> c, port |-> c.port]

ElementInv ==
    Undisturbed => NotCurrent /\ ImageIsHere /\ AnswerHolds /\ WasCreated

\* The elements before i are as declared, or reported as failed.
DoneSoFar ==
    Undisturbed /\ DistinctNames /\ Loop =>
        \A j \in DOMAIN config \ failed : j < i => IsCurrent(config[j])

\* Without a flaw even those that failed are there, with their own ports.
Own(j) ==
    /\ Exists(config[j].name)
    /\ podman[config[j].name].label = config[j]
    /\ podman[config[j].name].port = config[j].port
OwnSoFar ==
    flaws = {} /\ DistinctNames /\ Loop => \A j \in DOMAIN config : j < i => Own(j)
OwnAtEnd == smooth > 0 /\ DistinctNames /\ pc = "done" => \A j \in DOMAIN config : Own(j)
OwnPorts ==
    flaws = {} /\ smooth > 0 /\ DistinctNames => \A j \in DOMAIN config :
        TakesPort(config[j].name) => podman[config[j].name].port = config[j].port
NoneFails ==
    flaws = {} /\ smooth > 0 /\ DistinctNames /\ DistinctPorts /\ Loop => failed = {}

SmoothInv == OwnSoFar /\ OwnAtEnd /\ OwnPorts /\ NoneFails /\ SecondApplyConverges

IInv ==
    /\ TypeOK /\ PlaceInv /\ ElementInv /\ WillStop /\ UnmanagedIsDown
    /\ DoneSoFar /\ FailuresAreContained /\ SmoothInv

-----------------------------------------------------------------------------
(* Facts about lists and containers. *)

\* What the elements of a list are (config.go:360-383).
LEMMA ConfigFacts ==
    ASSUME TypeOK
    PROVE /\ config \in Seq(Declared) /\ Len(config) \in Nat /\ DOMAIN config = 1..Len(config)
          /\ \A j \in DOMAIN config :
                /\ config[j] \in Declared /\ config[j] # Foreign
                /\ config[j].name \in Name /\ config[j].image \in Image /\ config[j].port \in HostPort
                /\ config[j].name \in DeclaredNames
<1>1. config \in Seq(Declared)
  <2>1. Lists \subseteq Seq(Declared)
    BY ContainersAssumption
  <2>2. <<>> \in Seq(Declared)
    OBVIOUS
  <2> QED
    BY <2>1, <2>2 DEF TypeOK
<1>2. Len(config) \in Nat /\ DOMAIN config = 1..Len(config)
  BY <1>1
<1>3. ASSUME NEW j \in DOMAIN config
      PROVE /\ config[j] \in Declared /\ config[j] # Foreign
            /\ config[j].name \in Name /\ config[j].image \in Image /\ config[j].port \in HostPort
            /\ config[j].name \in DeclaredNames
  <2>1. config[j] \in Declared
    BY <1>1, <1>2
  <2>2. config[j] # Foreign
    BY <2>1, ContainersAssumption
  <2>3. config[j].name \in Name /\ config[j].image \in Image /\ config[j].port \in HostPort
    BY <2>1 DEF Declared
  <2>4. config[j].name \in DeclaredNames
    BY DEF DeclaredNames
  <2> QED
    BY <2>1, <2>2, <2>3, <2>4
<1> QED
  BY <1>1, <1>2, <1>3

\* A name has a container or it has none.
LEMMA NameFacts ==
    ASSUME TypeOK, NEW n \in Name
    PROVE /\ Exists(n) => /\ podman[n] \in Container /\ podman[n].state \in State
                          /\ podman[n].label \in Declared \cup {Foreign} /\ podman[n].port \in HostPort
          /\ ~Exists(n) => podman[n].state = "none"
          /\ TakesPort(n) => Exists(n)
<1>1. podman[n] \in Container \cup {None}
  BY DEF TypeOK
<1>2. None.state = "none"
  BY DEF None
<1>3. Exists(n) => podman[n] \in Container
  BY <1>1 DEF Exists
<1>4. podman[n] \in Container =>
          podman[n].state \in State /\ podman[n].label \in Declared \cup {Foreign} /\ podman[n].port \in HostPort
  BY DEF Container
<1>5. ~Exists(n) => podman[n].state = "none"
  BY <1>2 DEF Exists
<1> QED
  BY <1>3, <1>4, <1>5 DEF TakesPort

\* A container is not the absence of one.
LEMMA IsNotNone == \A x \in Container : x # None /\ x.state # "none"
<1>1. None.state = "none"
  BY DEF None
<1>2. \A x \in Container : x.state \in State
  BY DEF Container
<1> QED
  BY <1>1, <1>2 DEF State

\* A request changes the container of one name.
LEMMA WithFacts ==
    ASSUME TypeOK, NEW n \in Name, NEW x \in Container \cup {None}
    PROVE /\ With(n, x) \in [Name -> Container \cup {None}]
          /\ With(n, x)[n] = x
          /\ \A m \in Name \ {n} : With(n, x)[m] = podman[m]
  BY DEF With, TypeOK

LEMMA InFacts ==
    ASSUME TypeOK, NEW n \in Name, Exists(n), NEW s \in State
    PROVE /\ In(n, s) \in [Name -> Container \cup {None}]
          /\ In(n, s)[n] = [state |-> s, label |-> podman[n].label, port |-> podman[n].port]
          /\ \A m \in Name \ {n} : In(n, s)[m] = podman[m]
<1> DEFINE x == [state |-> s, label |-> podman[n].label, port |-> podman[n].port]
<1>1. podman[n] \in Container /\ podman \in [Name -> Container \cup {None}]
  BY NameFacts DEF TypeOK
<1>2. [podman[n] EXCEPT !.state = s] = x
  BY <1>1 DEF Container
<1>3. x \in Container
  BY <1>1 DEF Container
<1>4. In(n, s) = [podman EXCEPT ![n] = x]
  BY <1>2 DEF In
<1> QED
  BY <1>1, <1>3, <1>4

\* A stop leaves the container down and the others alone.
LEMMA StoppedFacts ==
    ASSUME TypeOK, NEW n \in Name, Exists(n)
    PROVE Stopped(n)[n].state = "exited" /\ \A m \in Name \ {n} : Stopped(n)[m] = podman[m]
<1>1. "exited" \in State
  BY DEF State
<1>2. /\ Stopped(n)[n] = [state |-> "exited", label |-> podman[n].label, port |-> podman[n].port]
      /\ \A m \in Name \ {n} : Stopped(n)[m] = podman[m]
  BY <1>1, InFacts DEF Stopped
<1> QED
  BY <1>2

-----------------------------------------------------------------------------
(* What the requests of the loop change. *)

LoopStep ==
    \/ CheckExists \/ Inspect \/ CheckImage \/ Pull \/ Remove \/ Create \/ StartC
    \/ ElementFails

Podmans == [Name -> Container \cup {None}]
OthersStay(p) == \A m \in Name \ {c.name} : p[m] = podman[m]

\* What each effect of a request is (podman.go:706-762).
LEMMA EffectFacts ==
    ASSUME TypeOK, PlaceInv, Loop
    PROVE /\ i \in DOMAIN config /\ c \in Declared /\ c # Foreign /\ c.name \in Name /\ c.port \in HostPort
          /\ c.image \in Image
          /\ RemovedC \in Podmans /\ OthersStay(RemovedC) /\ RemovedC[c.name] = None
          /\ TakesPort(c.name) =>
                /\ Stopped(c.name) \in Podmans /\ OthersStay(Stopped(c.name))
                /\ Exists(c.name)
                /\ Stopped(c.name)[c.name] = [state |-> "exited", label |-> podman[c.name].label,
                                             port |-> podman[c.name].port]
          /\ Created \in Podmans /\ OthersStay(Created)
          /\ Exists(c.name) => Created = podman
          /\ ~Exists(c.name) =>
                Created[c.name] = [state |-> "created", label |-> c, port |-> c.port]
          /\ pc = "start" =>
                /\ Started \in Podmans /\ OthersStay(Started)
                /\ ~CanStart => Started = podman
                /\ CanStart => /\ Exists(c.name)
                               /\ Started[c.name] = [state |-> "running", label |-> podman[c.name].label,
                                                     port |-> podman[c.name].port]
<1>1. i \in DOMAIN config
  BY DEF PlaceInv, LoopPlace
<1>2. c \in Declared /\ c # Foreign /\ c.name \in Name /\ c.port \in HostPort /\ c.image \in Image
  BY <1>1, ConfigFacts DEF c
<1>3. None \in Container \cup {None}
  OBVIOUS
<1>4. [state |-> "created", label |-> c, port |-> c.port] \in Container
  BY <1>2 DEF Container, State
<1>5. RemovedC \in Podmans /\ OthersStay(RemovedC) /\ RemovedC[c.name] = None
  BY <1>2, <1>3, WithFacts DEF RemovedC, Podmans, OthersStay
<1>8. ASSUME TakesPort(c.name)
      PROVE /\ Stopped(c.name) \in Podmans /\ OthersStay(Stopped(c.name))
            /\ Exists(c.name)
            /\ Stopped(c.name)[c.name] = [state |-> "exited", label |-> podman[c.name].label,
                                         port |-> podman[c.name].port]
  <2>1. Exists(c.name) /\ "exited" \in State
    BY <1>2, <1>8, NameFacts DEF State
  <2> QED
    BY <1>2, <2>1, InFacts DEF Stopped, Podmans, OthersStay
<1>6. /\ Created \in Podmans /\ OthersStay(Created)
      /\ Exists(c.name) => Created = podman
      /\ ~Exists(c.name) => Created[c.name] = [state |-> "created", label |-> c, port |-> c.port]
  <2>1. CASE Exists(c.name)
    BY <2>1 DEF Created, Podmans, OthersStay, TypeOK
  <2>2. CASE ~Exists(c.name)
    BY <1>2, <1>4, <2>2, WithFacts DEF Created, Podmans, OthersStay
  <2> QED
    BY <2>1, <2>2
<1>7. ASSUME pc = "start"
      PROVE /\ Started \in Podmans /\ OthersStay(Started)
            /\ ~CanStart => Started = podman
            /\ CanStart => /\ Exists(c.name)
                           /\ Started[c.name] = [state |-> "running", label |-> podman[c.name].label,
                                                 port |-> podman[c.name].port]
  <2>1. CASE ~CanStart
    BY <2>1 DEF Started, Podmans, OthersStay, TypeOK
  <2>2. CASE CanStart
    <3>1. Exists(c.name)
      BY <1>7, <2>2 DEF CanStart, PlaceInv, StartPlace
    <3>2. "running" \in State
      BY DEF State
    <3> QED
      BY <1>2, <2>2, <3>1, <3>2, InFacts DEF Started, Podmans, OthersStay
  <2> QED
    BY <2>1, <2>2
<1> QED
  BY <1>1, <1>2, <1>5, <1>6, <1>7, <1>8

\* The effect a request may have had, and where the apply goes from it.
Effect ==
    \/ podman' = podman
    \/ pc = "remove" /\ podman' = RemovedC
    \/ pc = "remove" /\ TakesPort(c.name) /\ podman' = Stopped(c.name)
    \/ pc = "create" /\ podman' = Created
    \/ pc = "start" /\ podman' = Started
Stays == pc' \in {"inspect", "image", "pull", "remove", "create", "start"} /\ UNCHANGED <<i, failed, result, smooth>>

LEMMA LoopStepFacts ==
    ASSUME TypeOK, PlaceInv, LoopStep
    PROVE /\ Loop /\ i \in DOMAIN config
          /\ UNCHANGED <<config, expired, list, touched, meddlings>>
          /\ Effect
          /\ podman' \in Podmans /\ OthersStay(podman')
          /\ images \subseteq images' /\ images' \subseteq Image
          /\ gone' \subseteq gone
          /\ flaws \subseteq flaws' /\ flaws' \subseteq flaws \cup {"fault"}
          /\ exists' \in BOOLEAN
          /\ Stays \/ NextElement(failed) \/ NextElement(failed \cup {i})
<1>1. Loop
  BY DEF LoopStep, CheckExists, Inspect, CheckImage, Pull, Remove, Create, StartC, ElementFails, Loop
<1>2. i \in DOMAIN config /\ c.image \in Image
  BY <1>1, EffectFacts
<1>3. UNCHANGED <<config, expired, list, touched, meddlings>> /\ gone' \subseteq gone /\ exists' \in BOOLEAN
  BY DEF LoopStep, CheckExists, Inspect, CheckImage, Pull, Remove, Create, StartC, ElementFails,
         Answered, Unanswered, TypeOK, Exists
<1>4. Effect
  BY DEF LoopStep, CheckExists, Inspect, CheckImage, Pull, Remove, Create, StartC, ElementFails,
         MayHaveDone, Effect
<1>5. podman' \in Podmans /\ OthersStay(podman')
  <2>1. podman \in Podmans /\ OthersStay(podman)
    BY DEF TypeOK, Podmans, OthersStay
  <2> QED
    BY <1>1, <1>4, <2>1, EffectFacts DEF Effect
<1>6. images \subseteq images' /\ images' \subseteq Image
  BY <1>2 DEF LoopStep, CheckExists, Inspect, CheckImage, Pull, Remove, Create, StartC, ElementFails,
         MayHaveDone, TypeOK
<1>7. flaws \subseteq flaws' /\ flaws' \subseteq flaws \cup {"fault"}
  BY DEF LoopStep, CheckExists, Inspect, CheckImage, Pull, Remove, Create, StartC, ElementFails,
         Answered, Unanswered
<1>8. Stays \/ NextElement(failed) \/ NextElement(failed \cup {i})
  BY DEF LoopStep, CheckExists, Inspect, CheckImage, Pull, Remove, Create, StartC, ElementFails,
         GoOn, Stays, AfterPull
<1> QED
  BY <1>1, <1>2, <1>3, <1>4, <1>5, <1>6, <1>7, <1>8

LEMMA InitIInv == Init => IInv
<1> SUFFICES ASSUME Init PROVE IInv
  OBVIOUS
<1>1. podman \in Podmans
  BY DEF Init, Podmans, Container
<1>2. config = <<>> /\ pc = "idle" /\ DOMAIN config = {}
  BY DEF Init
<1>3. TypeOK
  <2>1. faults \in 0..MaxFaults /\ meddlings \in 0..MaxMeddling /\ smooth \in 0..2
    BY ContainersAssumption DEF Init
  <2>2. images \subseteq Image /\ list = {} /\ gone = {} /\ touched = {} /\ failed = {} /\ flaws = {}
    BY DEF Init
  <2>3. i \in DOMAIN config \cup {1}
    BY DEF Init
  <2> QED
    BY <1>1, <1>2, <2>1, <2>2, <2>3 DEF Init, TypeOK, Podmans
<1>4. \A n \in Name : Exists(n) => podman[n].label = Foreign
  BY DEF Init, Exists
<1>5. PlaceInv
  BY <1>4 DEF Init, PlaceInv, LoopPlace, IdlePlace, StopPlace, StartPlace, FreshStart, Unfinished,
         PortsMatch, NothingGone, Loop
<1>6. ElementInv /\ WillStop /\ UnmanagedIsDown /\ DoneSoFar /\ FailuresAreContained
  BY DEF Init, ElementInv, WillStop, NotCurrent, ImageIsHere, AnswerHolds, WasCreated,
         UnmanagedIsDown, DoneSoFar, FailuresAreContained, Loop
<1>7. SmoothInv
  BY DEF Init, SmoothInv, OwnSoFar, OwnAtEnd, OwnPorts, NoneFails, SecondApplyConverges, Loop
<1> QED
  BY <1>3, <1>5, <1>6, <1>7 DEF IInv

-----------------------------------------------------------------------------
(* The steps keep types and places. *)

\* Where an apply goes after an element.
LEMMA NextElementFacts ==
    ASSUME TypeOK, i \in DOMAIN config, NEW F \in SUBSET DOMAIN config, NextElement(F), config' = config
    PROVE /\ failed' = F
          /\ \/ /\ i < Len(config) /\ i' = i + 1 /\ i' \in DOMAIN config /\ pc' = "exists"
                /\ UNCHANGED <<result, smooth>>
             \/ /\ i = Len(config) /\ i' = i /\ pc' = "done"
                /\ result' = IF F = {} THEN "ok" ELSE "error"
                /\ smooth' = IF flaws' = {} THEN IF smooth = 2 THEN 2 ELSE smooth + 1 ELSE 0
<1>1. i \in 1..Len(config) /\ Len(config) \in Nat /\ DOMAIN config = 1..Len(config)
  BY ConfigFacts
<1>2. CASE i < Len(config)
  BY <1>1, <1>2 DEF NextElement, GoOn
<1>3. CASE ~(i < Len(config))
  <2>1. i = Len(config)
    BY <1>1, <1>3
  <2> QED
    BY <1>1, <1>3, <2>1 DEF NextElement, Return
<1> QED
  BY <1>2, <1>3

\* How the loop begins.
LEMMA StartLoopFacts ==
    ASSUME TypeOK, StartLoop
    PROVE /\ i' = 1
          /\ \/ /\ config # <<>> /\ 1 \in DOMAIN config /\ pc' = "exists"
                /\ UNCHANGED <<result, smooth>>
             \/ /\ config = <<>> /\ DOMAIN config = {} /\ pc' = "done" /\ result' = "ok"
                /\ smooth' = IF flaws' = {} THEN IF smooth = 2 THEN 2 ELSE smooth + 1 ELSE 0
<1>1. config \in Seq(Declared)
  BY ConfigFacts
<1>2. CASE config = <<>>
  BY <1>2 DEF StartLoop, Return
<1>3. CASE config # <<>>
  <2>1. 1 \in DOMAIN config
    BY <1>1, <1>3
  <2> QED
    BY <1>3, <2>1 DEF StartLoop, GoOn
<1> QED
  BY <1>2, <1>3

\* What the others do to the containers.
LEMMA OthersFacts ==
    ASSUME TypeOK, NEW n \in Name, OthersChange(n)
    PROVE /\ podman' \in Podmans /\ \A m \in Name \ {n} : podman'[m] = podman[m]
          /\ \/ podman'[n] = None /\ gone' = gone \cup {n}
             \/ /\ podman'[n] \in Container /\ UNCHANGED gone
                /\ podman'[n].label = Foreign \/ (Exists(n) /\ podman'[n].label = podman[n].label
                                                           /\ podman'[n].port = podman[n].port)
          /\ images' = images
<1>1. CASE Exists(n) /\ podman' = With(n, None) /\ gone' = gone \cup {n}
  <2>1. None \in Container \cup {None}
    OBVIOUS
  <2> QED
    BY <1>1, <2>1, WithFacts DEF OthersChange, Podmans
<1>2. ASSUME NEW s \in State, Exists(n), podman' = In(n, s), UNCHANGED gone
      PROVE /\ podman' \in Podmans /\ \A m \in Name \ {n} : podman'[m] = podman[m]
            /\ podman'[n] \in Container
            /\ podman'[n].label = podman[n].label /\ podman'[n].port = podman[n].port
  <2>1. podman[n].label \in Declared \cup {Foreign} /\ podman[n].port \in HostPort
    BY <1>2, NameFacts
  <2> DEFINE x == [state |-> s, label |-> podman[n].label, port |-> podman[n].port]
  <2>2. x \in Container /\ x.label = podman[n].label /\ x.port = podman[n].port
    BY <2>1 DEF Container
  <2>3. podman' \in Podmans /\ podman'[n] = x /\ \A m \in Name \ {n} : podman'[m] = podman[m]
    BY <1>2, InFacts DEF Podmans
  <2> HIDE DEF x
  <2> QED
    BY <2>2, <2>3
<1>3. ASSUME NEW p \in HostPort, podman' = With(n, [state |-> "running", label |-> Foreign, port |-> p])
      PROVE /\ podman' \in Podmans /\ \A m \in Name \ {n} : podman'[m] = podman[m]
            /\ podman'[n] \in Container /\ podman'[n].label = Foreign
  <2> DEFINE x == [state |-> "running", label |-> Foreign, port |-> p]
  <2>1. x \in Container
    BY DEF Container, State
  <2>2. podman' = With(n, x)
    BY <1>3
  <2> HIDE DEF x
  <2>3. podman'[n] = x /\ podman' \in Podmans /\ \A m \in Name \ {n} : podman'[m] = podman[m]
    BY <2>1, <2>2, WithFacts DEF Podmans
  <2>4. x.label = Foreign
    BY DEF x
  <2> QED
    BY <2>1, <2>3, <2>4
<1>4. \A s \in State : podman[n].state = s => Exists(n)
  BY NameFacts DEF State
<1>5. {"exited", "paused", "running", "created"} \subseteq State
  BY DEF State
<1>6. \/ Exists(n) /\ podman' = With(n, None) /\ gone' = gone \cup {n}
      \/ \E s \in State : Exists(n) /\ podman' = In(n, s) /\ UNCHANGED gone
      \/ /\ \E p \in HostPort : podman' = With(n, [state |-> "running", label |-> Foreign, port |-> p])
         /\ UNCHANGED gone
  BY <1>4, <1>5, NameFacts DEF OthersChange, TakesPort
<1> QED
  BY <1>1, <1>2, <1>3, <1>6 DEF OthersChange

LEMMA TypeStep == TypeOK /\ PlaceInv /\ [Next]_vars => TypeOK'
<1> SUFFICES ASSUME TypeOK, PlaceInv, [Next]_vars PROVE TypeOK'
  OBVIOUS
<1>0. MaxFaults \in Nat /\ MaxMeddling \in Nat
  BY ContainersAssumption
<1>1. ASSUME NEW l \in Lists, Apply(l) PROVE TypeOK'
  <2>1. smooth' \in 0..2 /\ i' \in DOMAIN config' \cup {1}
    BY <1>1 DEF Apply, TypeOK
  <2>2. config' \in Lists \cup {<<>>} /\ UNCHANGED <<podman, images, faults, meddlings>>
    BY <1>1 DEF Apply
  <2>3. list' = {} /\ gone' = {} /\ touched' = {} /\ failed' = {} /\ flaws' = {} /\ pc' = "list" /\ result' = "none"
    BY <1>1 DEF Apply
  <2>4. exists' \in BOOLEAN /\ expired' \in BOOLEAN
    BY <1>1 DEF Apply
  <2> QED
    BY <2>1, <2>2, <2>3, <2>4 DEF TypeOK
<1>2. Unanswered => faults' \in 0..MaxFaults
  BY <1>0 DEF Unanswered, TypeOK
<1>3. Answered => faults' \in 0..MaxFaults
  BY DEF Answered, TypeOK
<1>4. CASE LoopStep
  <2>1. /\ i \in DOMAIN config /\ UNCHANGED <<config, expired, list, touched, meddlings>>
        /\ podman' \in Podmans /\ images' \subseteq Image /\ gone' \subseteq gone
        /\ flaws' \subseteq flaws \cup {"fault"} /\ exists' \in BOOLEAN
        /\ Stays \/ NextElement(failed) \/ NextElement(failed \cup {i})
    BY <1>4, LoopStepFacts
  <2>2. faults' \in 0..MaxFaults
    BY <1>2, <1>3, <1>4 DEF LoopStep, CheckExists, Inspect, CheckImage, Pull, Remove, Create, StartC, ElementFails
  <2>3. /\ failed' \subseteq DOMAIN config /\ i' \in DOMAIN config /\ smooth' \in 0..2
        /\ pc' \in {"exists", "inspect", "image", "pull", "remove", "create", "start", "done"}
        /\ result' \in {"none", "ok", "error", "stop_error"}
    <3>1. failed \in SUBSET DOMAIN config /\ failed \cup {i} \in SUBSET DOMAIN config
      BY <2>1 DEF TypeOK
    <3>2. CASE Stays
      BY <2>1, <3>2 DEF Stays, TypeOK
    <3>3. ASSUME NEW F \in SUBSET DOMAIN config, NextElement(F)
          PROVE /\ failed' \subseteq DOMAIN config /\ i' \in DOMAIN config /\ smooth' \in 0..2
                /\ pc' \in {"exists", "done"} /\ result' \in {"none", "ok", "error", "stop_error"}
      BY <2>1, <3>3, NextElementFacts DEF TypeOK
    <3> QED
      BY <2>1, <3>1, <3>2, <3>3
  <2>4. list' \subseteq Name \ DeclaredNames'
    BY <2>1 DEF TypeOK, DeclaredNames
  <2> QED
    BY <2>1, <2>2, <2>3, <2>4 DEF TypeOK, Podmans
<1>5. CASE List \/ Stop \/ StopFails
  <2>1. UNCHANGED <<config, images, exists, failed, expired, meddlings>> /\ DeclaredNames' = DeclaredNames
    BY <1>5 DEF List, Stop, StopFails, Answered, Unanswered, DeclaredNames
  <2>2. faults' \in 0..MaxFaults /\ flaws' \subseteq {"fault", "meddling"}
    BY <1>2, <1>3, <1>5 DEF List, Stop, StopFails, Answered, Unanswered, TypeOK
  <2>3. podman' \in Podmans
    <3>1. podman \in Podmans
      BY DEF TypeOK, Podmans
    <3>2. ASSUME NEW n \in list \ gone, pc = "stop" PROVE Stopped(n) \in Podmans
      <4>1. n \in Name /\ Exists(n) /\ "exited" \in State
        BY <3>2 DEF TypeOK, PlaceInv, StopPlace, State
      <4> QED
        BY <4>1, InFacts DEF Stopped, Podmans
    <3> QED
      BY <1>5, <3>1, <3>2 DEF List, Stop, StopFails
  <2>4. list' \subseteq Name \ DeclaredNames /\ gone' \subseteq Name /\ touched' \subseteq Name
    BY <1>5 DEF List, Stop, StopFails, TypeOK
  <2>5. \/ StartLoop
        \/ GoOn("stop") /\ UNCHANGED i
        \/ Return("stop_error") /\ UNCHANGED i
    BY <1>5 DEF List, Stop, StopFails
  <2>6. /\ i' \in DOMAIN config \cup {1} /\ smooth' \in 0..2 /\ pc' \in {"stop", "exists", "done"}
        /\ result' \in {"none", "ok", "error", "stop_error"}
    <3>1. CASE StartLoop
      BY <3>1, StartLoopFacts DEF TypeOK
    <3>2. CASE ~StartLoop
      BY <2>5, <3>2 DEF GoOn, Return, TypeOK
    <3> QED
      BY <3>1, <3>2
  <2> QED
    BY <2>1, <2>2, <2>3, <2>4, <2>6 DEF TypeOK, Podmans
<1>6. CASE Expire
  <2>1. faults' \in 0..MaxFaults
    BY <1>0, <1>6 DEF Expire, TypeOK
  <2> QED
    BY <1>6, <2>1 DEF Expire, TypeOK, DeclaredNames
<1>7. ASSUME Meddle, podman' \in Podmans, images' \subseteq Image, gone' \subseteq Name,
             touched' \subseteq Name
      PROVE TypeOK'
  <2>1. meddlings' \in 0..MaxMeddling
    BY <1>0, <1>7 DEF Meddle, TypeOK
  <2> QED
    BY <1>7, <2>1 DEF Meddle, TypeOK, Podmans, DeclaredNames
<1>8. ASSUME NEW n \in Name, OthersChange(n) PROVE TypeOK'
  <2>1. podman' \in Podmans /\ images' = images /\ (gone' = gone \/ gone' = gone \cup {n})
        /\ touched' = touched \cup {n}
    BY <1>8, OthersFacts DEF OthersChange
  <2> QED
    BY <1>7, <1>8, <2>1 DEF OthersChange, TypeOK
<1>9. CASE PruneImages
  BY <1>7, <1>9 DEF PruneImages, TypeOK, Podmans
<1>10. CASE UNCHANGED vars
  BY <1>10 DEF vars, TypeOK, DeclaredNames
<1> QED
  BY <1>1, <1>4, <1>5, <1>6, <1>8, <1>9, <1>10 DEF Next, Program, LoopStep

LEMMA PlaceStep == TypeOK /\ PlaceInv /\ [Next]_vars => PlaceInv'
<1> SUFFICES ASSUME TypeOK, PlaceInv, [Next]_vars PROVE PlaceInv'
  OBVIOUS
<1> USE DEF PlaceInv, LoopPlace, IdlePlace, StopPlace, StartPlace, FreshStart, Unfinished, NothingGone
<1>1. ASSUME NEW l \in Lists, Apply(l) PROVE PlaceInv'
  BY <1>1 DEF Apply, Loop, PortsMatch, Exists
<1>2. CASE LoopStep
  <2>1. /\ Loop /\ i \in DOMAIN config /\ UNCHANGED <<config, list, touched>> /\ Effect /\ OthersStay(podman')
        /\ gone' \subseteq gone /\ flaws \subseteq flaws'
        /\ Stays \/ NextElement(failed) \/ NextElement(failed \cup {i})
    BY <1>2, LoopStepFacts
  <2>2. /\ i' \in DOMAIN config' /\ pc' \notin {"idle", "list", "stop"}
        /\ pc' # "done" => result' = "none"
    <3>1. failed \in SUBSET DOMAIN config /\ failed \cup {i} \in SUBSET DOMAIN config
      BY <2>1 DEF TypeOK
    <3>2. CASE Stays
      BY <2>1, <3>2 DEF Stays, Loop
    <3>3. ASSUME NEW F \in SUBSET DOMAIN config, NextElement(F)
          PROVE i' \in DOMAIN config /\ pc' \in {"exists", "done"} /\ (pc' # "done" => result' = result)
      BY <2>1, <3>3, NextElementFacts
    <3> QED
      BY <2>1, <3>1, <3>2, <3>3 DEF Loop
  <2>3. PortsMatch'
    <3>1. \A n \in Name \ {c.name} : podman'[n] = podman[n]
      BY <2>1 DEF OthersStay
    <3>2. podman'[c.name] # None /\ podman'[c.name].label # Foreign => podman'[c.name].port = podman'[c.name].label.port
      <4>1. CASE podman' = podman
        BY <2>1, <4>1, EffectFacts DEF PortsMatch, Exists
      <4>2. CASE pc = "remove" /\ podman' = RemovedC
        BY <2>1, <4>2, EffectFacts
      <4>3. CASE pc = "create" /\ podman' = Created
        BY <2>1, <4>3, EffectFacts DEF PortsMatch, Exists
      <4>4. CASE pc = "start" /\ podman' = Started
        BY <2>1, <4>4, EffectFacts DEF PortsMatch, Exists
      <4>5. CASE TakesPort(c.name) /\ podman' = Stopped(c.name)
        BY <2>1, <4>5, EffectFacts DEF PortsMatch
      <4> QED
        BY <2>1, <4>1, <4>2, <4>3, <4>4, <4>5 DEF Effect
    <3> QED
      BY <3>1, <3>2 DEF PortsMatch, Exists
  <2>4. StartPlace'
    <3>1. SUFFICES ASSUME pc' = "start" PROVE Exists(c.name)'
      OBVIOUS
    <3>2. Stays
      BY <2>1, <3>1 DEF Stays, NextElement, GoOn, Return
    <3>3. c' = c
      BY <2>1, <3>2 DEF c, Stays
    <3>4. Create /\ ~Exists(c.name) /\ podman' = Created
      BY <1>2, <2>1, <3>1 DEF LoopStep, CheckExists, Inspect, CheckImage, Pull, Remove, Create, StartC,
                    ElementFails, NextElement, AfterPull, GoOn, Return
    <3>5. podman'[c.name] \in Container
      BY <2>1, <3>4, EffectFacts DEF Container, State
    <3> QED
      BY <3>3, <3>5, IsNotNone DEF Exists
  <2>5. NothingGone'
    BY <2>1 DEF Undisturbed
  <2> QED
    BY <2>1, <2>2, <2>3, <2>4, <2>5 DEF Loop
<1>3. CASE List
  <2>1. \A n \in list' : Exists(n)'
    <3>1. \A n \in list' : n \in Name /\ podman[n].state # "none" /\ podman' = podman
      BY <1>3 DEF List, NeedsStop
    <3> QED
      BY <3>1, NameFacts DEF Exists, None
  <2>2. PortsMatch' /\ UNCHANGED <<podman, config, failed, flaws>> /\ gone' = {} /\ touched' = {}
    BY <1>3 DEF List, PortsMatch, Exists, Answered
  <2>3. CASE list' # {} /\ pc' = "stop" /\ result' = result
    BY <1>3, <2>1, <2>2, <2>3 DEF List, Loop
  <2>4. CASE StartLoop
    BY <1>3, <2>1, <2>2, <2>4, StartLoopFacts DEF List, Loop
  <2> QED
    BY <1>3, <2>3, <2>4 DEF List, GoOn
<1>4. CASE Stop
  <2>1. UNCHANGED <<config, failed, gone, flaws>> /\ touched' \subseteq touched /\ pc = "stop"
    BY <1>4 DEF Stop, Answered
  <2>2. CASE Return("stop_error") /\ UNCHANGED podman
    BY <2>1, <2>2 DEF Return, Loop, PortsMatch, Exists, Undisturbed
  <2>3. ASSUME NEW n \in list, n \notin gone, podman' = Stopped(n), list' = list \ {n},
               IF list = {n} THEN StartLoop ELSE GoOn("stop") /\ UNCHANGED i
        PROVE PlaceInv'
    <3>1. /\ n \in Name /\ Exists(n) /\ podman[n].label \in Declared \cup {Foreign}
          /\ podman'[n] = [state |-> "exited", label |-> podman[n].label, port |-> podman[n].port]
          /\ \A m \in Name \ {n} : podman'[m] = podman[m]
      <4>1. n \in Name /\ Exists(n) /\ "exited" \in State
        BY <2>1, <2>3 DEF TypeOK, State
      <4> QED
        BY <4>1, <2>3, InFacts, NameFacts DEF Stopped
    <3>2. PortsMatch'
      BY <3>1 DEF PortsMatch, Exists
    <3>3. CASE list = {n}
      BY <2>1, <2>3, <3>2, <3>3, StartLoopFacts DEF Loop, Undisturbed
    <3>4. CASE list # {n}
      <4>1. list' # {} /\ list' \subseteq Name \ {n}
        BY <2>3, <3>4 DEF TypeOK
      <4>2. \A m \in list' \ gone' : Exists(m)'
        BY <2>1, <2>3, <3>1, <4>1 DEF Exists
      <4> QED
        BY <2>1, <2>3, <3>2, <3>4, <4>1, <4>2 DEF Loop, GoOn, Undisturbed
    <3> QED
      BY <3>3, <3>4
  <2> QED
    BY <1>4, <2>2, <2>3 DEF Stop
<1>5. CASE StopFails
  <2>1. /\ pc' = "done" /\ UNCHANGED <<config, gone, touched>> /\ flaws \subseteq flaws'
        /\ \/ podman' = podman
           \/ \E n \in list \ gone : pc = "stop" /\ podman' = Stopped(n)
    BY <1>5 DEF StopFails, Return, Unanswered
  <2>2. ASSUME NEW n \in list \ gone, pc = "stop", podman' = Stopped(n) PROVE PortsMatch'
    <3>1. n \in Name /\ Exists(n) /\ "exited" \in State
      BY <2>2 DEF TypeOK, State
    <3>2. /\ podman'[n] = [state |-> "exited", label |-> podman[n].label, port |-> podman[n].port]
          /\ \A m \in Name \ {n} : podman'[m] = podman[m]
      BY <2>2, <3>1, InFacts DEF Stopped
    <3> QED
      BY <3>1, <3>2 DEF PortsMatch, Exists
  <2>3. PortsMatch'
    BY <2>1, <2>2 DEF PortsMatch, Exists
  <2> QED
    BY <2>1, <2>3 DEF Loop, Undisturbed
<1>6. CASE Expire
  BY <1>6 DEF Expire, Loop, PortsMatch, Exists, Undisturbed, c
<1>7. ASSUME NEW n \in Name, OthersChange(n) PROVE PlaceInv'
  <2>1. /\ UNCHANGED <<config, pc, i, list, failed, result>> /\ smooth' = 0 /\ ~Undisturbed'
    BY <1>7 DEF OthersChange, Meddle, Undisturbed
  <2>2. /\ \A m \in Name \ {n} : podman'[m] = podman[m]
        /\ \/ podman'[n] = None /\ gone' = gone \cup {n}
           \/ /\ podman'[n] \in Container /\ UNCHANGED gone
              /\ podman'[n].label = Foreign \/ (Exists(n) /\ podman'[n].label = podman[n].label
                                                         /\ podman'[n].port = podman[n].port)
    BY <1>7, OthersFacts
  <2>3. \A m \in Name \ gone' : Exists(m) => Exists(m)'
    BY <2>2, IsNotNone DEF Exists
  <2>4. PortsMatch'
    BY <2>2 DEF PortsMatch, Exists
  <2>6. \A m \in list \ gone' : m \in list \ gone
    BY <2>2
  <2>7. StopPlace'
    <3>1. CASE pc = "stop"
      <4>1. \A m \in list' \ gone' : Exists(m)'
        <5>1. \A m \in list \ gone' : m \in Name /\ m \notin gone /\ Exists(m)
          BY <2>6, <3>1 DEF TypeOK
        <5> QED
          BY <2>1, <2>3, <5>1
      <4> QED
        BY <2>1, <3>1, <4>1
    <3> QED
      BY <2>1, <3>1
  <2>8. StartPlace'
    <3>1. c' = c
      BY <2>1 DEF c
    <3>2. pc = "start" => c.name \in Name
      BY EffectFacts DEF Loop
    <3>3. gone \subseteq gone'
      BY <2>2
    <3> QED
      BY <2>1, <2>3, <3>1, <3>2, <3>3
  <2> QED
    BY <2>1, <2>4, <2>7, <2>8 DEF Loop
<1>8. CASE PruneImages
  BY <1>8 DEF PruneImages, Meddle, Loop, PortsMatch, Exists, Undisturbed, c
<1>9. CASE UNCHANGED vars
  BY <1>9 DEF vars, Loop, PortsMatch, Exists, Undisturbed, c
<1> QED
  BY <1>1, <1>2, <1>3, <1>4, <1>5, <1>6, <1>7, <1>8, <1>9 DEF Next, Program, LoopStep

-----------------------------------------------------------------------------
(* What is known of an element while nobody meddles. *)

\* A meddler ends what is promised for an apply.
LEMMA MeddlingFacts ==
    ASSUME NEW n \in Name, OthersChange(n) \/ PruneImages
    PROVE /\ flaws' # {} /\ ~Undisturbed' /\ smooth' = 0
          /\ UNCHANGED <<config, pc, i, list, failed, result>> /\ DOMAIN config' = DOMAIN config
  BY DEF OthersChange, PruneImages, Meddle, Undisturbed

LEMMA ElementStep == TypeOK /\ PlaceInv /\ ElementInv /\ [Next]_vars => ElementInv'
<1> SUFFICES ASSUME TypeOK, PlaceInv, ElementInv, [Next]_vars, Undisturbed'
             PROVE (NotCurrent /\ ImageIsHere /\ AnswerHolds /\ WasCreated)'
  BY DEF ElementInv
<1> DEFINE Goal == (NotCurrent /\ ImageIsHere /\ AnswerHolds /\ WasCreated)'
<1>a. pc' \in {"list", "exists", "done"} => Goal
  BY DEF NotCurrent, ImageIsHere, AnswerHolds, WasCreated
<1>1. ASSUME NEW l \in Lists, Apply(l) PROVE Goal
  BY <1>1, <1>a DEF Apply
<1>2. CASE LoopStep
  <2>1. /\ Loop /\ i \in DOMAIN config /\ config' = config /\ flaws \subseteq flaws'
        /\ Stays \/ NextElement(failed) \/ NextElement(failed \cup {i})
    BY <1>2, LoopStepFacts
  <2>2. Undisturbed
    BY <2>1 DEF Undisturbed
  <2>3. CASE ~Stays
    <3>1. pc' \in {"exists", "done"}
      BY <2>1, <2>3 DEF NextElement, GoOn, Return
    <3> QED
      BY <3>1, <1>a
  <2>4. CASE Stays
    <3>1. c' = c /\ pc' \in {"inspect", "image", "pull", "remove", "create", "start"}
      BY <2>1, <2>4 DEF c, Stays
    <3>2. c \in Declared /\ c.name \in Name
      BY <2>1, EffectFacts
    <3>3. ~Exists(c.name) => podman[c.name].state = "none"
      BY <3>2, NameFacts
    <3>4. pc' \notin {"exists", "done"}
      BY <3>1
    <3>5. NotCurrent /\ ImageIsHere /\ AnswerHolds /\ WasCreated
      BY <2>2 DEF ElementInv
    <3>6. CASE CheckExists
      <4>1. pc' = (IF Exists(c.name) THEN "inspect" ELSE "image") /\ exists' = Exists(c.name) /\ podman' = podman
        BY <3>6 DEF CheckExists, GoOn
      <4>2. ~Exists(c.name) => ~IsCurrent(c)
        BY <3>3 DEF IsCurrent
      <4> QED
        BY <3>1, <4>1, <4>2
           DEF NotCurrent, ImageIsHere, AnswerHolds, WasCreated, IsCurrent, Exists
    <3>7. CASE Inspect
      <4>1. pc = "inspect" /\ pc' = "image" /\ ~UpToDate /\ podman' = podman /\ exists' = exists
        BY <3>4, <3>7 DEF Inspect, NextElement, GoOn, Return
      <4>2. ~IsCurrent(c)
        BY <4>1 DEF UpToDate, IsCurrent
      <4> QED
        BY <3>1, <3>5, <4>1, <4>2
           DEF NotCurrent, ImageIsHere, AnswerHolds, WasCreated, IsCurrent, Exists
    <3>8. CASE CheckImage
      <4>1. /\ pc = "image" /\ podman' = podman /\ exists' = exists /\ images' = images
            /\ pc' = IF c.image \in images THEN AfterPull ELSE "pull"
        BY <3>8 DEF CheckImage, GoOn
      <4> QED
        BY <3>1, <3>5, <4>1
           DEF NotCurrent, ImageIsHere, AnswerHolds, WasCreated, IsCurrent, Exists, AfterPull
    <3>9. CASE Pull
      <4>1. /\ pc = "pull" /\ podman' = podman /\ exists' = exists /\ images' = images \cup {c.image}
            /\ pc' = AfterPull
        BY <3>9 DEF Pull, GoOn
      <4> QED
        BY <3>1, <3>5, <4>1
           DEF NotCurrent, ImageIsHere, AnswerHolds, WasCreated, IsCurrent, Exists, AfterPull
    <3>10. CASE Remove
      <4>1. pc = "remove" /\ pc' = "create" /\ podman' = RemovedC /\ images' = images
        BY <3>4, <3>10 DEF Remove, NextElement, GoOn, Return
      <4>2. podman'[c.name] = None
        BY <2>1, <4>1, EffectFacts
      <4>3. ~(podman'[c.name] = [state |-> "running", label |-> c, port |-> c.port])
        BY <4>2 DEF None
      <4> QED
        BY <3>1, <3>5, <4>1, <4>2, <4>3
           DEF NotCurrent, ImageIsHere, AnswerHolds, WasCreated, IsCurrent, Exists
    <3>11. CASE Create
      <4>1. pc = "create" /\ pc' = "start" /\ podman' = Created /\ ~Exists(c.name) /\ images' = images
        BY <3>4, <3>11 DEF Create, NextElement, GoOn, Return
      <4>2. podman'[c.name] = [state |-> "created", label |-> c, port |-> c.port]
        BY <2>1, <4>1, EffectFacts
      <4>3. ~(podman'[c.name] = [state |-> "running", label |-> c, port |-> c.port])
        BY <4>2
      <4> QED
        BY <3>1, <3>5, <4>1, <4>2, <4>3
           DEF NotCurrent, ImageIsHere, AnswerHolds, WasCreated, IsCurrent
    <3>12. CASE StartC \/ ElementFails
      BY <3>4, <3>12 DEF StartC, ElementFails, NextElement, GoOn, Return
    <3> QED
      BY <1>2, <3>6, <3>7, <3>8, <3>9, <3>10, <3>11, <3>12 DEF LoopStep
  <2> QED
    BY <2>3, <2>4
<1>3. CASE List
  <2>1. pc' \in {"stop", "exists", "done"}
    BY <1>3 DEF List, GoOn, StartLoop, Return
  <2> QED
    BY <2>1, <1>a DEF NotCurrent, ImageIsHere, AnswerHolds, WasCreated
<1>4. CASE Stop
  <2>1. pc' \in {"stop", "exists", "done"}
    BY <1>4 DEF Stop, GoOn, StartLoop, Return
  <2> QED
    BY <2>1, <1>a DEF NotCurrent, ImageIsHere, AnswerHolds, WasCreated
<1>5. CASE StopFails
  BY <1>5, <1>a DEF StopFails, Return
<1>6. CASE Expire \/ UNCHANGED vars
  <2>1. Undisturbed /\ UNCHANGED <<podman, config, pc, i, exists, list, images>>
    BY <1>6 DEF Expire, vars, Undisturbed
  <2>2. NotCurrent /\ ImageIsHere /\ AnswerHolds /\ WasCreated
    BY <2>1 DEF ElementInv
  <2>3. c' = c
    BY <2>1 DEF c
  <2> QED
    BY <2>1, <2>2, <2>3
       DEF NotCurrent, ImageIsHere, AnswerHolds, WasCreated, IsCurrent, Exists, TakesPort
<1>7. (\E n \in Name : OthersChange(n)) \/ PruneImages => FALSE
  BY DEF OthersChange, PruneImages, Meddle, Undisturbed
<1> QED
  BY <1>1, <1>2, <1>3, <1>4, <1>5, <1>6, <1>7 DEF Next, Program, LoopStep

LEMMA WillStopStep == TypeOK /\ PlaceInv /\ WillStop /\ [Next]_vars => WillStop'
<1> SUFFICES ASSUME TypeOK, PlaceInv, WillStop, [Next]_vars, pc' = "stop"
             PROVE (\A n \in Name \ (DeclaredNames \cup touched) : TakesPort(n) => n \in list)'
  BY DEF WillStop
<1>1. ASSUME NEW l \in Lists, Apply(l) PROVE FALSE
  BY <1>1 DEF Apply
<1>2. CASE LoopStep
  <2>1. Stays \/ NextElement(failed) \/ NextElement(failed \cup {i})
    BY <1>2, LoopStepFacts
  <2> QED
    BY <2>1 DEF Stays, NextElement, GoOn, Return
<1>3. CASE List
  <2>1. list' = {n \in Name \ DeclaredNames : NeedsStop(podman[n].state)}
    BY <1>3 DEF List
  <2>2. podman' = podman /\ DeclaredNames' = DeclaredNames
    BY <1>3 DEF List, DeclaredNames
  <2> QED
    BY <2>1, <2>2 DEF NeedsStop, TakesPort
<1>4. CASE Stop
  <2>1. pc = "stop" /\ DeclaredNames' = DeclaredNames
    BY <1>4 DEF Stop, DeclaredNames
  <2>2. PICK n \in list : /\ list' = list \ {n} /\ touched' = touched \ {n}
                          /\ podman' = Stopped(n) /\ n \notin gone
    BY <1>4 DEF Stop, Return
  <2>3. n \in Name /\ Exists(n) /\ "exited" \in State
    BY <2>1, <2>2 DEF TypeOK, PlaceInv, StopPlace, State
  <2>4. podman'[n].state = "exited" /\ \A m \in Name \ {n} : podman'[m] = podman[m]
    BY <2>2, <2>3, StoppedFacts
  <2> QED
    BY <2>1, <2>2, <2>4 DEF WillStop, TakesPort
<1>5. CASE StopFails
  BY <1>5 DEF StopFails, Return
<1>6. CASE Expire \/ UNCHANGED vars
  BY <1>6 DEF Expire, vars, WillStop, DeclaredNames, TakesPort
<1>7. ASSUME NEW n \in Name, OthersChange(n)
      PROVE (\A m \in Name \ (DeclaredNames \cup touched) : TakesPort(m) => m \in list)'
  <2>1. UNCHANGED <<config, pc, list>> /\ touched' = touched \cup {n} /\ DeclaredNames' = DeclaredNames
    BY <1>7 DEF OthersChange, Meddle, DeclaredNames
  <2>2. \A m \in Name \ {n} : podman'[m] = podman[m]
    BY <1>7, OthersFacts
  <2> QED
    BY <2>1, <2>2 DEF WillStop, TakesPort
<1>8. CASE PruneImages
  BY <1>8 DEF PruneImages, Meddle, WillStop, DeclaredNames, TakesPort
<1> QED
  BY <1>1, <1>2, <1>3, <1>4, <1>5, <1>6, <1>7, <1>8 DEF Next, Program, LoopStep

LEMMA UnmanagedStep ==
    TypeOK /\ PlaceInv /\ WillStop /\ UnmanagedIsDown /\ [Next]_vars => UnmanagedIsDown'
<1> SUFFICES ASSUME TypeOK, PlaceInv, WillStop, UnmanagedIsDown, [Next]_vars,
                    pc' \notin {"idle", "list", "stop"}, result' # "stop_error"
             PROVE (\A n \in Name \ (DeclaredNames \cup touched) : ~TakesPort(n))'
  BY DEF UnmanagedIsDown
<1>1. ASSUME NEW l \in Lists, Apply(l) PROVE FALSE
  BY <1>1 DEF Apply
<1>2. CASE LoopStep
  <2>1. /\ Loop /\ i \in DOMAIN config /\ UNCHANGED <<config, touched>> /\ OthersStay(podman')
    BY <1>2, LoopStepFacts
  <2>2. result = "none"
    BY <2>1 DEF PlaceInv, Unfinished, Loop
  <2>3. \A n \in Name \ (DeclaredNames \cup touched) : ~TakesPort(n)
    BY <2>1, <2>2 DEF UnmanagedIsDown, Loop
  <2>4. c.name \in DeclaredNames /\ DeclaredNames' = DeclaredNames
    BY <2>1 DEF DeclaredNames, c
  <2> QED
    BY <2>1, <2>3, <2>4 DEF OthersStay, TakesPort
<1>3. CASE List
  <2>1. DeclaredNames' = DeclaredNames /\ podman' = podman
    BY <1>3 DEF List, DeclaredNames
  <2>2. {n \in Name \ DeclaredNames : NeedsStop(podman[n].state)} = {}
    BY <1>3 DEF List, GoOn
  <2> QED
    BY <2>1, <2>2 DEF NeedsStop, TakesPort
<1>4. CASE Stop
  <2>1. pc = "stop" /\ DeclaredNames' = DeclaredNames
    BY <1>4 DEF Stop, DeclaredNames
  <2>2. PICK n \in list : list = {n} /\ touched' = touched \ {n} /\ podman' = Stopped(n) /\ n \notin gone
    BY <1>4 DEF Stop, Return, GoOn
  <2>3. n \in Name /\ Exists(n) /\ "exited" \in State
    BY <2>1, <2>2 DEF TypeOK, PlaceInv, StopPlace, State
  <2>4. podman'[n].state = "exited" /\ \A m \in Name \ {n} : podman'[m] = podman[m]
    BY <2>2, <2>3, StoppedFacts
  <2> QED
    BY <2>1, <2>2, <2>4 DEF WillStop, TakesPort
<1>5. CASE StopFails
  BY <1>5 DEF StopFails, Return
<1>6. CASE Expire \/ UNCHANGED vars
  BY <1>6 DEF Expire, vars, UnmanagedIsDown, DeclaredNames, TakesPort
<1>7. ASSUME NEW n \in Name, OthersChange(n)
      PROVE (\A m \in Name \ (DeclaredNames \cup touched) : ~TakesPort(m))'
  <2>1. UNCHANGED <<config, pc, result>> /\ touched' = touched \cup {n} /\ DeclaredNames' = DeclaredNames
    BY <1>7 DEF OthersChange, Meddle, DeclaredNames
  <2>2. \A m \in Name \ {n} : podman'[m] = podman[m]
    BY <1>7, OthersFacts
  <2> QED
    BY <2>1, <2>2 DEF UnmanagedIsDown, TakesPort
<1>8. CASE PruneImages
  BY <1>8 DEF PruneImages, Meddle, UnmanagedIsDown, DeclaredNames, TakesPort
<1> QED
  BY <1>1, <1>2, <1>3, <1>4, <1>5, <1>6, <1>7, <1>8 DEF Next, Program, LoopStep

-----------------------------------------------------------------------------
(* A failure stays with its element. *)

Runs(j) == podman'[config[j].name] = [state |-> "running", label |-> config[j], port |-> config[j].port]

\* Another element's container is another container.
LEMMA OthersOfList ==
    ASSUME TypeOK, i \in DOMAIN config, DistinctNames, OthersStay(podman'),
           NEW j \in DOMAIN config, j # i
    PROVE podman'[config[j].name] = podman[config[j].name]
<1>1. config[j].name # c.name
  BY DEF DistinctNames, c
<1>2. config[j].name \in Name
  BY ConfigFacts
<1> QED
  BY <1>1, <1>2 DEF OthersStay

\* A container as containerUpToDate and the start of a new one leave it
\* (podman.go:135-139, :195-199).
LEMMA ElementEnds ==
    ASSUME TypeOK, PlaceInv, ElementInv, LoopStep, Undisturbed'
    PROVE Stays \/ NextElement(failed \cup {i}) \/ (NextElement(failed) /\ Runs(i))
<1>1. Loop /\ i \in DOMAIN config /\ Undisturbed
  BY LoopStepFacts DEF Undisturbed
<1>2. c \in Declared /\ c # Foreign /\ c.name \in Name /\ c = config[i]
  BY <1>1, EffectFacts DEF c
<1>3. CASE Inspect /\ Exists(c.name) /\ UpToDate
  <2>1. podman[c.name] \in Container
    BY <1>2, <1>3, NameFacts
  <2>2. podman[c.name].port = c.port
    BY <1>2, <1>3 DEF PlaceInv, PortsMatch, UpToDate
  <2>3. podman[c.name] = [state |-> "running", label |-> c, port |-> c.port]
    BY <1>3, <2>1, <2>2 DEF Container, UpToDate
  <2>4. NextElement(failed) /\ podman' = podman
    BY <1>3 DEF Inspect
  <2> QED
    BY <1>2, <2>3, <2>4 DEF Runs
<1>4. CASE StartC /\ CanStart
  <2>1. pc = "start" /\ podman' = Started /\ NextElement(failed)
    BY <1>4 DEF StartC
  <2>2. podman[c.name] = [state |-> "created", label |-> c, port |-> c.port]
    BY <1>1, <2>1 DEF ElementInv, WasCreated
  <2>3. podman[c.name].label = c /\ podman[c.name].port = c.port
    BY <2>2
  <2>4. Started[c.name] = [state |-> "running", label |-> podman[c.name].label, port |-> podman[c.name].port]
    BY <1>1, <1>4, <2>1, EffectFacts
  <2> QED
    BY <1>2, <2>1, <2>3, <2>4 DEF Runs
<1>5. CASE ~(Inspect /\ Exists(c.name) /\ UpToDate) /\ ~(StartC /\ CanStart)
  BY <1>5 DEF LoopStep, CheckExists, Inspect, CheckImage, Pull, Remove, Create, StartC, ElementFails,
         GoOn, Stays, AfterPull
<1> QED
  BY <1>3, <1>4, <1>5

LEMMA ContainStep ==
    TypeOK /\ PlaceInv /\ ElementInv /\ DoneSoFar /\ FailuresAreContained /\ [Next]_vars
        => DoneSoFar' /\ FailuresAreContained'
<1> SUFFICES ASSUME TypeOK, PlaceInv, ElementInv, DoneSoFar, FailuresAreContained, [Next]_vars,
                    Undisturbed', DistinctNames'
             PROVE DoneSoFar' /\ FailuresAreContained'
  BY DEF DoneSoFar, FailuresAreContained
<1>1. ASSUME NEW l \in Lists, Apply(l) PROVE DoneSoFar' /\ FailuresAreContained'
  BY <1>1 DEF Apply, DoneSoFar, FailuresAreContained, Loop
<1>2. CASE LoopStep
  <2>1. /\ Loop /\ i \in DOMAIN config /\ config' = config /\ flaws \subseteq flaws' /\ OthersStay(podman')
        /\ Stays \/ NextElement(failed \cup {i}) \/ (NextElement(failed) /\ Runs(i))
    BY <1>2, LoopStepFacts, ElementEnds
  <2>2. Undisturbed /\ DistinctNames
    BY <2>1 DEF Undisturbed, DistinctNames
  <2>3. \A j \in DOMAIN config \ failed : j < i => Runs(j)
    <3>1. \A j \in DOMAIN config \ failed : j < i => IsCurrent(config[j])
      BY <2>1, <2>2 DEF DoneSoFar
    <3>2. \A j \in DOMAIN config : j < i => j # i
      BY <2>1, ConfigFacts
    <3> QED
      BY <2>1, <2>2, <3>1, <3>2, OthersOfList DEF IsCurrent, Runs
  <2>4. \A j \in DOMAIN config : Runs(j) => IsCurrent(config[j])'
    BY <2>1 DEF Runs, IsCurrent
  <2>5. CASE Stays
    BY <2>1, <2>3, <2>4, <2>5 DEF Stays, DoneSoFar, FailuresAreContained
  <2>6. ASSUME NEW F \in SUBSET DOMAIN config, NextElement(F), failed \subseteq F, i \notin F => Runs(i)
        PROVE DoneSoFar' /\ FailuresAreContained'
    <3>1. failed' = F /\ DOMAIN config = 1..Len(config) /\ Len(config) \in Nat
      BY <2>1, <2>6, NextElementFacts, ConfigFacts
    <3>2. \A j \in DOMAIN config \ F : j <= i => Runs(j)
      <4>1. \A j \in DOMAIN config : j <= i => j < i \/ j = i
        BY <2>1, <3>1
      <4> QED
        BY <2>3, <2>6, <4>1
    <3>3. CASE i < Len(config) /\ i' = i + 1 /\ pc' = "exists"
      <4>1. \A j \in DOMAIN config : j < i' => j <= i
        BY <2>1, <3>1, <3>3
      <4> QED
        BY <2>1, <2>4, <3>1, <3>2, <3>3, <4>1 DEF DoneSoFar, FailuresAreContained
    <3>4. CASE i = Len(config) /\ pc' = "done"
      <4>1. \A j \in DOMAIN config : j <= i
        BY <3>1, <3>4
      <4> QED
        BY <2>1, <2>4, <3>1, <3>2, <3>4, <4>1 DEF DoneSoFar, FailuresAreContained, Loop
    <3> QED
      BY <2>1, <2>6, <3>3, <3>4, NextElementFacts
  <2>7. failed \in SUBSET DOMAIN config /\ failed \cup {i} \in SUBSET DOMAIN config
    BY <2>1 DEF TypeOK
  <2> QED
    BY <2>1, <2>5, <2>6, <2>7
<1>3. CASE List \/ Stop \/ StopFails
  <2>1. config' = config
    BY <1>3 DEF List, Stop, StopFails
  <2>2. CASE StartLoop
    <3>1. \A j \in DOMAIN config : ~(j < i')
      BY <2>2, StartLoopFacts, ConfigFacts
    <3> QED
      BY <2>1, <2>2, <3>1, StartLoopFacts DEF DoneSoFar, FailuresAreContained
  <2>3. CASE GoOn("stop") \/ Return("stop_error")
    BY <2>3 DEF GoOn, Return, DoneSoFar, FailuresAreContained, Loop
  <2> QED
    BY <1>3, <2>2, <2>3 DEF List, Stop, StopFails
<1>4. CASE Expire \/ UNCHANGED vars
  <2>1. Undisturbed /\ UNCHANGED <<podman, config, pc, i, failed, result>>
    BY <1>4 DEF Expire, vars, Undisturbed
  <2>2. DistinctNames
    BY <2>1 DEF DistinctNames
  <2> QED
    BY <2>1, <2>2 DEF DoneSoFar, FailuresAreContained, IsCurrent, Loop
<1>5. (\E n \in Name : OthersChange(n)) \/ PruneImages => FALSE
  BY DEF OthersChange, PruneImages, Meddle, Undisturbed
<1> QED
  BY <1>1, <1>2, <1>3, <1>4, <1>5 DEF Next, Program, LoopStep

-----------------------------------------------------------------------------
(* Two applies without a flaw. *)

WillOwn(j) ==
    /\ podman'[config[j].name].label = config[j] /\ podman'[config[j].name].port = config[j].port
    /\ podman'[config[j].name] # None

\* Without a flaw an element ends as declared, or because its port is taken.
LEMMA FlawlessElement ==
    ASSUME TypeOK, PlaceInv, ElementInv, LoopStep, flaws' = {}
    PROVE \/ Stays /\ (podman'[c.name] = podman[c.name] \/ ~(podman'[c.name].state \in {"running", "paused"}))
          \/ NextElement(failed) /\ WillOwn(i)
          \/ NextElement(failed \cup {i}) /\ WillOwn(i) /\ pc = "start" /\ ~CanStart
<1>1. Loop /\ i \in DOMAIN config /\ flaws = {} /\ Undisturbed /\ Undisturbed'
  BY LoopStepFacts DEF Undisturbed
<1>2. c \in Declared /\ c # Foreign /\ c.name \in Name /\ c = config[i]
  BY <1>1, EffectFacts DEF c
<1>3. NotCurrent /\ ImageIsHere /\ AnswerHolds /\ WasCreated
  BY <1>1 DEF ElementInv
<1>4. ~ElementFails
  BY DEF ElementFails, Unanswered
<1>5. CASE CheckExists \/ CheckImage \/ Pull
  BY <1>5 DEF CheckExists, CheckImage, Pull, GoOn, Stays, AfterPull
<1>6. CASE Inspect
  <2>1. Exists(c.name) /\ podman' = podman
    BY <1>3, <1>6 DEF Inspect, AnswerHolds
  <2>2. CASE UpToDate
    <3>1. NextElement(failed) /\ podman[c.name].label = c
      BY <1>6, <2>1, <2>2 DEF Inspect, UpToDate
    <3>2. podman[c.name].port = c.port
      BY <1>2, <2>1, <3>1 DEF PlaceInv, PortsMatch
    <3> QED
      BY <1>2, <2>1, <3>1, <3>2 DEF WillOwn, Exists
  <2>3. CASE ~UpToDate
    BY <1>6, <2>1, <2>3 DEF Inspect, GoOn, Stays
  <2> QED
    BY <2>2, <2>3
<1>7. CASE Remove
  <2>1. Exists(c.name) /\ podman' = RemovedC /\ Stays
    BY <1>3, <1>7 DEF Remove, AnswerHolds, GoOn, Stays
  <2>2. podman'[c.name] = None
    BY <1>1, <2>1, EffectFacts
  <2> QED
    BY <2>1, <2>2 DEF None
<1>8. CASE Create
  <2>1. ~Exists(c.name) /\ c.image \in images
    BY <1>3, <1>8 DEF Create, AnswerHolds, ImageIsHere
  <2>2. podman' = Created /\ Stays
    BY <1>8, <2>1 DEF Create, GoOn, Stays
  <2>3. podman'[c.name] = [state |-> "created", label |-> c, port |-> c.port]
    BY <1>1, <2>1, <2>2, EffectFacts
  <2>4. podman'[c.name].state = "created"
    BY <2>3
  <2> QED
    BY <2>2, <2>4
<1>9. CASE StartC
  <2>1. pc = "start" /\ podman' = Started /\ NextElement(IF CanStart THEN failed ELSE failed \cup {i})
    BY <1>9 DEF StartC
  <2>2. podman[c.name] = [state |-> "created", label |-> c, port |-> c.port]
    BY <1>3, <2>1 DEF WasCreated
  <2>3. podman[c.name].label = c /\ podman[c.name].port = c.port /\ podman[c.name].state = "created"
    BY <2>2
  <2>4. WillOwn(i)
    <3>1. CASE CanStart
      <4>1. Started[c.name] = [state |-> "running", label |-> c, port |-> c.port]
        BY <1>1, <2>1, <2>3, <3>1, EffectFacts
      <4>2. podman'[c.name].label = c /\ podman'[c.name].port = c.port /\ podman'[c.name].state = "running"
        BY <2>1, <4>1
      <4> QED
        BY <1>2, <4>2 DEF WillOwn, None
    <3>2. CASE ~CanStart
      BY <1>1, <1>2, <2>1, <2>3, <3>2, EffectFacts DEF WillOwn, None
    <3> QED
      BY <3>1, <3>2
  <2> QED
    BY <2>1, <2>4
<1> QED
  BY <1>4, <1>5, <1>6, <1>7, <1>8, <1>9 DEF LoopStep

\* In a second apply every container already has the port of its own element,
\* so the port of a new one is free.
LEMMA SecondCanStart ==
    ASSUME TypeOK, PlaceInv, ElementInv, UnmanagedIsDown, OwnPorts,
           flaws = {}, smooth > 0, DistinctNames, DistinctPorts, pc = "start"
    PROVE CanStart
<1>1. Loop /\ Undisturbed
  BY DEF Loop, Undisturbed
<1>2. i \in DOMAIN config /\ c = config[i] /\ c.name \in Name
  BY <1>1, EffectFacts DEF c
<1>3. podman[c.name] = [state |-> "created", label |-> c, port |-> c.port]
  BY <1>1 DEF ElementInv, WasCreated
<1>4. podman[c.name].port = c.port
  BY <1>3
<1>5. c.name \notin gone
  BY <1>1 DEF PlaceInv, NothingGone
<1>6. ASSUME NEW m \in Name \ {c.name}, TakesPort(m) PROVE podman[m].port # c.port
  <2>1. result = "none"
    BY DEF PlaceInv, Unfinished
  <2>2. m \in DeclaredNames
    BY <1>1, <1>6, <2>1 DEF UnmanagedIsDown, PlaceInv, NothingGone, Loop
  <2>3. PICK j \in DOMAIN config : config[j].name = m
    BY <2>2 DEF DeclaredNames
  <2>4. podman[m].port = config[j].port
    BY <1>6, <2>3 DEF OwnPorts
  <2>5. config[j].port # c.port
    BY <1>2, <1>6, <2>3 DEF DistinctPorts
  <2> QED
    BY <2>4, <2>5
<1> QED
  BY <1>4, <1>5, <1>6 DEF CanStart, PortIsFree

LEMMA SmoothStep ==
    TypeOK /\ PlaceInv /\ ElementInv /\ UnmanagedIsDown /\ SmoothInv /\ [Next]_vars => SmoothInv'
<1> SUFFICES ASSUME TypeOK, PlaceInv, ElementInv, UnmanagedIsDown, SmoothInv, [Next]_vars
             PROVE SmoothInv'
  OBVIOUS
<1>0. OwnSoFar /\ OwnAtEnd /\ OwnPorts /\ NoneFails /\ SecondApplyConverges /\ smooth \in 0..2
  BY DEF SmoothInv, TypeOK
<1>1. ASSUME NEW l \in Lists, Apply(l) PROVE SmoothInv'
  <2>1. pc' = "list" /\ podman' = podman
    BY <1>1 DEF Apply
  <2>2. OwnPorts'
    <3>1. SUFFICES ASSUME smooth' > 0, DistinctNames' PROVE OwnPorts'
      BY DEF OwnPorts
    <3>2. config' = config /\ smooth > 0 /\ pc = "done" /\ DistinctNames
      BY <1>1, <3>1 DEF Apply, PlaceInv, IdlePlace, DistinctNames
    <3>3. \A j \in DOMAIN config : Own(j)
      BY <1>0, <3>2 DEF OwnAtEnd
    <3> QED
      BY <2>1, <3>2, <3>3 DEF OwnPorts, Own
  <2> QED
    BY <2>1, <2>2 DEF SmoothInv, OwnSoFar, OwnAtEnd, NoneFails, SecondApplyConverges, Loop
<1>2. ASSUME flaws' # {}, smooth' = 0 \/ (pc' # "done" /\ smooth' = smooth) PROVE SmoothInv'
  BY <1>2 DEF SmoothInv, OwnSoFar, OwnAtEnd, OwnPorts, NoneFails, SecondApplyConverges
<1>3. CASE LoopStep /\ flaws' # {}
  <2>1. Stays \/ NextElement(failed) \/ NextElement(failed \cup {i})
    BY <1>3, LoopStepFacts
  <2> QED
    BY <1>2, <1>3, <2>1 DEF Stays, NextElement, GoOn, Return
<1>4. CASE LoopStep /\ flaws' = {}
  <2>1. /\ Loop /\ i \in DOMAIN config /\ config' = config /\ flaws = {} /\ OthersStay(podman')
        /\ DOMAIN config = 1..Len(config) /\ Len(config) \in Nat
    BY <1>4, LoopStepFacts, ConfigFacts
  <2>2. ASSUME DistinctNames, NEW j \in DOMAIN config, j < i PROVE WillOwn(j)
    <3>1. Own(j) /\ j # i
      BY <1>0, <2>1, <2>2 DEF OwnSoFar
    <3> QED
      BY <2>1, <2>2, <3>1, OthersOfList DEF Own, WillOwn, Exists
  <2>3. \A j \in DOMAIN config : WillOwn(j) => Own(j)'
    BY <2>1 DEF WillOwn, Own, Exists
  <2>4. CASE Stays /\ (podman'[c.name] = podman[c.name] \/ ~(podman'[c.name].state \in {"running", "paused"}))
    <3>1. i' = i /\ failed' = failed /\ smooth' = smooth /\ pc' # "done"
      BY <2>4 DEF Stays
    <3>2. OwnSoFar'
      BY <2>1, <2>2, <2>3, <3>1 DEF OwnSoFar, DistinctNames
    <3>3. OwnPorts'
      <4>1. SUFFICES ASSUME smooth > 0, DistinctNames, NEW j \in DOMAIN config, TakesPort(config[j].name)'
                     PROVE podman'[config[j].name].port = config[j].port
        BY <2>1, <3>1 DEF OwnPorts, DistinctNames
      <4>2. podman'[config[j].name] = podman[config[j].name]
        <5>1. CASE j = i
          BY <2>1, <2>4, <4>1, <5>1 DEF TakesPort, c
        <5>2. CASE j # i
          BY <2>1, <4>1, <5>2, OthersOfList
        <5> QED
          BY <5>1, <5>2
      <4> QED
        BY <1>0, <2>1, <4>1, <4>2 DEF OwnPorts, TakesPort
    <3> QED
      BY <1>0, <2>1, <3>1, <3>2, <3>3
         DEF SmoothInv, OwnAtEnd, NoneFails, SecondApplyConverges, DistinctNames, DistinctPorts
  <2>5. ASSUME NEW F \in SUBSET DOMAIN config, NextElement(F), WillOwn(i),
               F = failed \/ (pc = "start" /\ ~CanStart)
        PROVE SmoothInv'
    <3>1. /\ failed' = F
          /\ \/ i' = i + 1 /\ pc' = "exists" /\ smooth' = smooth
             \/ /\ i = Len(config) /\ pc' = "done" /\ result' = (IF F = {} THEN "ok" ELSE "error")
                /\ smooth' = IF smooth = 2 THEN 2 ELSE smooth + 1
      BY <1>4, <2>1, <2>5, NextElementFacts
    <3>2. ASSUME DistinctNames, NEW j \in DOMAIN config, j <= i PROVE Own(j)'
      <4>1. j < i \/ j = i
        BY <2>1, <3>2
      <4> QED
        BY <2>2, <2>3, <2>5, <3>2, <4>1
    <3>3. ASSUME DistinctNames, DistinctPorts, smooth > 0 PROVE F = {}
      <4>1. failed = {}
        BY <1>0, <2>1, <3>3 DEF NoneFails
      <4>2. pc = "start" => CanStart
        BY <1>0, <2>1, <3>3, SecondCanStart
      <4> QED
        BY <2>5, <4>1, <4>2
    <3>4. CASE i' = i + 1 /\ pc' = "exists" /\ smooth' = smooth
      <4>1. OwnSoFar'
        <5>1. \A j \in DOMAIN config : j < i' => j <= i
          BY <2>1, <3>4
        <5> QED
          BY <2>1, <3>2, <5>1 DEF OwnSoFar, DistinctNames
      <4>2. OwnPorts'
        <5>1. SUFFICES ASSUME smooth > 0, DistinctNames, NEW j \in DOMAIN config, TakesPort(config[j].name)'
                       PROVE podman'[config[j].name].port = config[j].port
          BY <2>1, <3>4 DEF OwnPorts, DistinctNames
        <5>2. CASE j = i
          BY <2>5, <5>2 DEF WillOwn
        <5>3. CASE j # i
          BY <1>0, <2>1, <5>1, <5>3, OthersOfList DEF OwnPorts, TakesPort
        <5> QED
          BY <5>2, <5>3
      <4> QED
        BY <2>1, <3>1, <3>3, <3>4, <4>1, <4>2
           DEF SmoothInv, OwnAtEnd, NoneFails, SecondApplyConverges, DistinctNames, DistinctPorts
    <3>5. CASE /\ i = Len(config) /\ pc' = "done" /\ result' = (IF F = {} THEN "ok" ELSE "error")
               /\ smooth' = IF smooth = 2 THEN 2 ELSE smooth + 1
      <4>1. DistinctNames => \A j \in DOMAIN config : Own(j)'
        <5>1. \A j \in DOMAIN config : j <= i
          BY <2>1, <3>5
        <5> QED
          BY <3>2, <5>1
      <4>2. OwnAtEnd' /\ OwnPorts'
        BY <2>1, <4>1 DEF OwnAtEnd, OwnPorts, Own, DistinctNames
      <4>3. smooth' = 2 => smooth > 0
        BY <1>0, <3>5
      <4>4. SecondApplyConverges'
        BY <2>1, <3>3, <3>5, <4>3 DEF SecondApplyConverges, DistinctNames, DistinctPorts
      <4> QED
        BY <3>5, <4>2, <4>4 DEF SmoothInv, OwnSoFar, NoneFails, Loop
    <3> QED
      BY <3>1, <3>4, <3>5
  <2>6. failed \in SUBSET DOMAIN config /\ failed \cup {i} \in SUBSET DOMAIN config
    BY <2>1 DEF TypeOK
  <2> QED
    BY <1>4, <2>4, <2>5, <2>6, FlawlessElement
<1>5. CASE StopFails
  BY <1>2, <1>5 DEF StopFails, Unanswered, Return
<1>6. CASE List \/ Stop
  <2>1. config' = config /\ flaws' = flaws /\ failed' = failed /\ failed = {} /\ pc \in {"list", "stop"}
    BY <1>6 DEF List, Stop, Answered, PlaceInv, FreshStart
  <2>2. \A n \in DeclaredNames \cap Name : podman'[n] = podman[n]
    <3>1. CASE podman' = podman
      BY <3>1
    <3>2. ASSUME NEW n \in list, n \notin gone, podman' = Stopped(n), pc = "stop"
          PROVE \A m \in DeclaredNames \cap Name : podman'[m] = podman[m]
      <4>1. n \in Name /\ n \notin DeclaredNames /\ Exists(n) /\ "exited" \in State
        BY <3>2 DEF TypeOK, PlaceInv, StopPlace, State
      <4>2. \A m \in Name \ {n} : podman'[m] = podman[m]
        BY <3>2, <4>1, InFacts DEF Stopped
      <4> QED
        BY <4>1, <4>2
    <3> QED
      BY <1>6, <3>1, <3>2 DEF List, Stop
  <2>3. \A j \in DOMAIN config : podman'[config[j].name] = podman[config[j].name]
    BY <2>2, ConfigFacts
  <2>4. CASE Return("stop_error")
    <3>1. flaws # {}
      <4>1. gone # {}
        BY <1>6, <2>4 DEF List, Stop, Return, StartLoop, GoOn
      <4> QED
        BY <4>1 DEF PlaceInv, NothingGone, Undisturbed
    <3> QED
      BY <1>2, <2>1, <2>4, <3>1 DEF Return
  <2>5. CASE smooth' = smooth /\ pc' # "done" /\ (pc' = "exists" => i' = 1)
    <3>1. OwnPorts'
      BY <1>0, <2>1, <2>3, <2>5 DEF OwnPorts, TakesPort, DistinctNames
    <3>2. OwnSoFar'
      <4>1. pc' \in {"stop", "exists"} /\ ~(pc' = "stop" /\ Loop')
        BY <1>6, <2>5 DEF List, Stop, GoOn, StartLoop, Return, Loop
      <4>2. \A j \in DOMAIN config : ~(j < 1)
        BY ConfigFacts
      <4> QED
        BY <2>1, <2>5, <4>1, <4>2 DEF OwnSoFar
    <3> QED
      BY <2>1, <2>5, <3>1, <3>2 DEF SmoothInv, OwnAtEnd, NoneFails, SecondApplyConverges
  <2>6. CASE StartLoop
    <3>1. CASE config # <<>>
      BY <2>5, <2>6, <3>1 DEF StartLoop, GoOn
    <3>2. CASE config = <<>>
      BY <2>1, <2>6, <3>2, StartLoopFacts
         DEF SmoothInv, OwnSoFar, OwnAtEnd, OwnPorts, NoneFails, SecondApplyConverges
    <3> QED
      BY <3>1, <3>2
  <2>7. CASE GoOn("stop")
    BY <2>5, <2>7 DEF GoOn
  <2> QED
    BY <1>6, <2>4, <2>6, <2>7 DEF List, Stop
<1>7. CASE Expire
  BY <1>2, <1>7 DEF Expire
<1>8. ASSUME NEW n \in Name, OthersChange(n) PROVE SmoothInv'
  BY <1>2, <1>8, MeddlingFacts
<1>9. CASE PruneImages
  BY <1>2, <1>9 DEF PruneImages, Meddle
<1>10. CASE UNCHANGED vars
  BY <1>0, <1>10
     DEF vars, SmoothInv, OwnSoFar, OwnAtEnd, OwnPorts, NoneFails, SecondApplyConverges, Own, Exists,
         TakesPort, DistinctNames, DistinctPorts, Loop
<1> QED
  BY <1>1, <1>3, <1>4, <1>5, <1>6, <1>7, <1>8, <1>9, <1>10 DEF Next, Program, LoopStep

-----------------------------------------------------------------------------
(* Theorems. *)

\* Where an apply of the containers is, what is known of the element under way
\* and of those before it, and what two applies without a flaw leave, at every
\* request (podman.go:71-200, :366-394).
THEOREM Invariance == Spec => []IInv
<1>1. Init => IInv
  BY InitIInv
<1>2. IInv /\ [Next]_vars => IInv'
  BY TypeStep, PlaceStep, ElementStep, WillStopStep, UnmanagedStep, ContainStep, SmoothStep DEF IInv
<1> QED
  BY <1>1, <1>2, PTL DEF Spec

\* Every variable keeps its type.
THEOREM TypeCorrect == Spec => []TypeOK
<1>1. IInv => TypeOK
  BY DEF IInv
<1> QED
  BY <1>1, Invariance, PTL

\* What is not declared is down from the first look at a declared container on
\* (orchestration.go:131-149, podman.go:366-394).
THEOREM UnmanagedIsDownAlways == Spec => []UnmanagedIsDown
<1>1. IInv => UnmanagedIsDown
  BY DEF IInv
<1> QED
  BY <1>1, Invariance, PTL

\* Every element that an apply does not report as failed runs as declared,
\* whatever the others did (orchestration.go:139-149).
THEOREM FailuresAreContainedAlways == Spec => []FailuresAreContained
<1>1. IInv => FailuresAreContained
  BY DEF IInv
<1> QED
  BY <1>1, Invariance, PTL

\* The second of two applies without a flaw succeeds, whatever was before: by
\* OwnAtEnd the first leaves every element with its own port, so by
\* SecondCanStart the port of each is free in the second (podman.go:118-200).
THEOREM SecondApplyConvergesAlways == Spec => []SecondApplyConverges
<1>1. IInv => SecondApplyConverges
  BY DEF IInv, SmoothInv
<1> QED
  BY <1>1, Invariance, PTL

\* What the program does to containers while nobody meddles: a step of the loop
\* touches its element's alone, any other one stops what is not declared.
LEMMA WhatIsTouched ==
    ASSUME IInv, Next, meddlings' = meddlings, pc # "idle"
    PROVE \/ podman' = podman
          \/ LoopStep
          \/ \E n \in list \ gone : pc = "stop" /\ podman' = Stopped(n)
<1>1. meddlings \in Nat
  BY ContainersAssumption DEF IInv, TypeOK
<1>2. ~((\E n \in Name : OthersChange(n)) \/ PruneImages)
  BY <1>1 DEF OthersChange, PruneImages, Meddle
<1> QED
  BY <1>2 DEF Next, Program, Apply, List, Stop, StopFails, Expire, LoopStep

LEMMA CurrentStays ==
    ASSUME IInv, [Next]_vars, Undisturbed, DistinctNames, pc # "idle", config' = config,
           meddlings' = meddlings, NEW j \in DOMAIN config, IsCurrent(config[j])
    PROVE podman'[config[j].name] = podman[config[j].name]
<1>1. TypeOK /\ PlaceInv /\ ElementInv
  BY DEF IInv
<1>2. config[j].name \in Name /\ config[j].name \in DeclaredNames
  BY <1>1, ConfigFacts
<1>3. CASE LoopStep
  <2>1. i \in DOMAIN config /\ Effect /\ OthersStay(podman')
    BY <1>1, <1>3, LoopStepFacts
  <2>2. CASE j # i
    BY <1>1, <2>1, <2>2, OthersOfList
  <2>3. CASE j = i
    <3>1. IsCurrent(c)
      BY <2>3 DEF c
    <3>2. pc \notin {"remove", "create", "start"}
      BY <1>1, <3>1 DEF ElementInv, NotCurrent
    <3> QED
      BY <2>1, <3>2 DEF Effect
  <2> QED
    BY <2>2, <2>3
<1>4. ASSUME NEW n \in list \ gone, pc = "stop", podman' = Stopped(n)
      PROVE podman'[config[j].name] = podman[config[j].name]
  <2>1. n \in Name /\ n \notin DeclaredNames /\ Exists(n) /\ "exited" \in State
    BY <1>1, <1>4 DEF TypeOK, PlaceInv, StopPlace, State
  <2>2. \A m \in Name \ {n} : podman'[m] = podman[m]
    BY <1>1, <1>4, <2>1, InFacts DEF Stopped
  <2> QED
    BY <1>2, <2>1, <2>2
<1> QED
  BY <1>3, <1>4, WhatIsTouched DEF vars

\* A container that runs as declared is never stopped, removed or changed
\* (podman.go:135-139).
THEOREM NeverRestartsCurrentAlways == Spec => NeverRestartsCurrent
<1> DEFINE Spared == Undisturbed /\ DistinctNames /\ pc # "idle" /\ UNCHANGED <<config, meddlings>> =>
                        \A j \in DOMAIN config : IsCurrent(config[j]) =>
                            podman'[config[j].name] = podman[config[j].name]
<1>1. IInv /\ [Next]_vars => [Spared]_vars
  BY CurrentStays
<1> QED
  BY <1>1, Invariance, PTL DEF Spec, NeverRestartsCurrent

LEMMA RemovalStep ==
    ASSUME IInv, [Next]_vars, Undisturbed, meddlings' = meddlings,
           NEW n \in Name, Exists(n), podman'[n] = None
    PROVE \E j \in DOMAIN config : config[j].name = n /\ config[j].image \in images
<1>1. TypeOK /\ PlaceInv /\ ElementInv
  BY DEF IInv
<1>2. podman' # podman
  BY DEF Exists
<1>3. CASE LoopStep
  <2>1. Loop /\ i \in DOMAIN config /\ Effect /\ OthersStay(podman')
    BY <1>1, <1>3, LoopStepFacts
  <2>2. n = c.name
    BY <2>1 DEF OthersStay, Exists
  <2>3. CASE pc = "remove"
    BY <1>1, <2>1, <2>2, <2>3 DEF ElementInv, ImageIsHere, c
  <2>4. CASE pc = "create" /\ podman' = Created
    BY <1>1, <1>2, <2>1, <2>2, <2>4, EffectFacts
  <2>5. CASE pc = "start" /\ podman' = Started
    <3>1. CanStart
      BY <1>1, <1>2, <2>1, <2>5, EffectFacts
    <3>2. podman'[n] = [state |-> "running", label |-> podman[n].label, port |-> podman[n].port]
      BY <1>1, <2>1, <2>2, <2>5, <3>1, EffectFacts
    <3> QED
      BY <3>2 DEF None
  <2> QED
    BY <1>2, <2>1, <2>3, <2>4, <2>5 DEF Effect
<1>4. ASSUME NEW m \in list \ gone, pc = "stop", podman' = Stopped(m) PROVE FALSE
  <2>1. m \in Name /\ Exists(m) /\ "exited" \in State
    BY <1>1, <1>4 DEF TypeOK, PlaceInv, StopPlace, State
  <2>2. /\ podman'[m] = [state |-> "exited", label |-> podman[m].label, port |-> podman[m].port]
        /\ \A k \in Name \ {m} : podman'[k] = podman[k]
    BY <1>1, <1>4, <2>1, InFacts DEF Stopped
  <2>3. podman'[m] # None
    BY <2>2 DEF None
  <2> QED
    BY <2>2, <2>3 DEF Exists
<1>5. CASE pc = "idle"
  <2>1. meddlings \in Nat
    BY <1>1, ContainersAssumption DEF TypeOK
  <2> QED
    BY <1>2, <1>5, <2>1 DEF vars, Next, Program, Apply, List, Stop, StopFails, Expire, CheckExists,
       Inspect, CheckImage, Pull, Remove, Create, StartC, ElementFails, OthersChange, PruneImages, Meddle
<1> QED
  BY <1>2, <1>3, <1>4, <1>5, WhatIsTouched DEF vars

\* Only a declared container is removed, and only once the image of its
\* successor is here (podman.go:163-177).
THEOREM RemovedOnlyWithImageAlways == Spec => RemovedOnlyWithImage
<1> DEFINE Kept == Undisturbed /\ UNCHANGED meddlings =>
                      \A n \in Name : Exists(n) /\ podman'[n] = None =>
                          \E j \in DOMAIN config : config[j].name = n /\ config[j].image \in images
<1>1. IInv /\ [Next]_vars => [Kept]_vars
  BY RemovalStep
<1> QED
  BY <1>1, Invariance, PTL DEF Spec, RemovedOnlyWithImage

-----------------------------------------------------------------------------
(* An apply ends. *)

\* The order of the requests of one element.
LEMMA PerElementFacts ==
    /\ DOMAIN PerElement = {"exists", "inspect", "image", "pull", "remove", "create", "start"}
    /\ PerElement["exists"] = 7 /\ PerElement["inspect"] = 6 /\ PerElement["image"] = 5
    /\ PerElement["pull"] = 4 /\ PerElement["remove"] = 3 /\ PerElement["create"] = 2
    /\ PerElement["start"] = 1
  BY DEF PerElement

LEMMA NamesAreFinite ==
    ASSUME TypeOK, NEW S \in SUBSET Name
    PROVE /\ IsFiniteSet(S) /\ Cardinality(S) \in Nat /\ Cardinality(S) <= Cardinality(Name)
          /\ Cardinality(Name) \in Nat
          /\ \A n \in S : Cardinality(S \ {n}) = Cardinality(S) - 1 /\ Cardinality(S) >= 1
<1>1. IsFiniteSet(Name)
  BY ContainersAssumption
<1>2. IsFiniteSet(S) /\ Cardinality(S) <= Cardinality(Name)
  BY <1>1, FS_Subset
<1>3. Cardinality(S) \in Nat /\ Cardinality(Name) \in Nat
  BY <1>1, <1>2, FS_CardinalityType
<1>4. ASSUME NEW n \in S PROVE Cardinality(S \ {n}) = Cardinality(S) - 1 /\ Cardinality(S) >= 1
  <2>1. Cardinality(S \ {n}) = Cardinality(S) - 1 /\ IsFiniteSet(S \ {n})
    BY <1>2, FS_RemoveElement
  <2>2. Cardinality(S \ {n}) \in Nat
    BY <2>1, FS_CardinalityType
  <2> QED
    BY <1>3, <2>1, <2>2
<1> QED
  BY <1>2, <1>3, <1>4

\* Whether it is answered or not, a request is followed by a later one of its
\* element or by the next element (podman.go:71-200).
LEMMA RequestOrder ==
    ASSUME TypeOK, PlaceInv, LoopStep, Stays
    PROVE PerElement[pc'] < PerElement[pc]
  BY PerElementFacts
     DEF LoopStep, CheckExists, Inspect, CheckImage, Pull, Remove, Create, StartC, ElementFails,
         NextElement, GoOn, Return, Stays, AfterPull

LEMMA ElementArithmetic ==
    ASSUME NEW l \in Nat, NEW j \in 1..l, NEW a \in 1..7
    PROVE /\ a + 7 * (l - j) > 7 * (l - j) /\ a + 7 * (l - j) > 0
          /\ 7 + 7 * (l - (j + 1)) = 7 * (l - j)
          /\ \A b \in 1..7 : b < a => b + 7 * (l - j) < a + 7 * (l - j)
  OBVIOUS

LEMMA FewerRequests ==
    ASSUME TypeOK, PlaceInv, [Next]_vars, pc \notin {"idle", "done"}, expired' = expired,
           meddlings' = meddlings, ~(UNCHANGED vars)
    PROVE RequestsLeft' < RequestsLeft
<1> DEFINE L == Len(config)
<1>1. L \in Nat /\ DOMAIN config = 1..L
  BY ConfigFacts
<1>2. CASE LoopStep
  <2>1. /\ Loop /\ i \in DOMAIN config /\ config' = config
        /\ Stays \/ NextElement(failed) \/ NextElement(failed \cup {i})
    BY <1>2, LoopStepFacts
  <2>2. /\ RequestsLeft = PerElement[pc] + 7 * (L - i) /\ PerElement[pc] \in 1..7
    BY <2>1, PerElementFacts DEF RequestsLeft, Loop
  <2>3. CASE Stays
    <3>1. PerElement[pc'] < PerElement[pc] /\ PerElement[pc'] \in 1..7
      BY <1>2, <2>3, RequestOrder, PerElementFacts DEF Stays
    <3>2. RequestsLeft' = PerElement[pc'] + 7 * (L - i)
      BY <2>1, <2>3, PerElementFacts DEF RequestsLeft, Stays, PerElement
    <3> QED
      BY <1>1, <2>1, <2>2, <3>1, <3>2, ElementArithmetic
  <2>4. ASSUME NEW F \in SUBSET DOMAIN config, NextElement(F) PROVE RequestsLeft' < RequestsLeft
    <3>1. CASE i < L /\ i' = i + 1 /\ pc' = "exists"
      <4>1. RequestsLeft' = 7 + 7 * (L - (i + 1))
        BY <2>1, <3>1 DEF RequestsLeft, PerElement
      <4> QED
        BY <1>1, <2>1, <2>2, <3>1, <4>1, ElementArithmetic
    <3>2. CASE pc' = "done" /\ i = L
      <4>1. RequestsLeft' = 0
        BY <3>2 DEF RequestsLeft, PerElement
      <4> QED
        BY <1>1, <2>1, <2>2, <3>2, <4>1, ElementArithmetic
    <3> QED
      BY <2>1, <2>4, <3>1, <3>2, NextElementFacts
  <2>5. failed \in SUBSET DOMAIN config /\ failed \cup {i} \in SUBSET DOMAIN config
    BY <2>1 DEF TypeOK
  <2> QED
    BY <2>1, <2>3, <2>4, <2>5
<1>3. CASE List \/ Stop \/ StopFails
  <2>1. config' = config /\ pc \in {"list", "stop"}
    BY <1>3 DEF List, Stop, StopFails
  <2>2. /\ pc = "list" => RequestsLeft = 1 + Cardinality(Name) + 7 * L
        /\ pc = "stop" => RequestsLeft = Cardinality(list) + 7 * L
    BY PerElementFacts DEF RequestsLeft
  <2>3. list \in SUBSET Name /\ list' \in SUBSET Name
    BY <1>3 DEF TypeOK, List, Stop, StopFails
  <2>4. Cardinality(Name) \in Nat /\ Cardinality(list) \in Nat /\ Cardinality(list') <= Cardinality(Name)
        /\ Cardinality(list') \in Nat
    BY <2>3, NamesAreFinite
  <2>5. pc = "stop" => Cardinality(list) >= 1
    BY <2>3, NamesAreFinite DEF PlaceInv, StopPlace
  <2>6. RequestsLeft > 7 * L /\ RequestsLeft \in Nat
    BY <1>1, <2>1, <2>2, <2>4, <2>5
  <2>7. CASE StartLoop
    <3>1. CASE pc' = "done"
      <4>1. RequestsLeft' = 0
        BY <3>1 DEF RequestsLeft, PerElement
      <4> QED
        BY <1>1, <2>6, <4>1
    <3>2. CASE pc' = "exists" /\ i' = 1
      <4>1. RequestsLeft' = 7 + 7 * (L - 1)
        BY <2>1, <3>2 DEF RequestsLeft, PerElement
      <4> QED
        BY <1>1, <2>6, <4>1
    <3> QED
      BY <2>7, <3>1, <3>2, StartLoopFacts
  <2>8. CASE Return("stop_error")
    <3>1. RequestsLeft' = 0
      BY <2>8 DEF Return, RequestsLeft, PerElement
    <3> QED
      BY <1>1, <2>6, <3>1
  <2>9. CASE GoOn("stop")
    <3>1. RequestsLeft' = Cardinality(list') + 7 * L
      BY <2>1, <2>9, PerElementFacts DEF GoOn, RequestsLeft
    <3>2. CASE List
      BY <1>1, <2>2, <2>4, <3>1, <3>2 DEF List
    <3>3. CASE Stop
      <4>1. pc = "stop" /\ \E n \in list : list' = list \ {n}
        BY <2>9, <3>3 DEF Stop, GoOn, Return
      <4>2. Cardinality(list') = Cardinality(list) - 1
        BY <2>3, <4>1, NamesAreFinite
      <4> QED
        BY <1>1, <2>2, <2>4, <3>1, <4>1, <4>2
    <3>4. CASE StopFails
      BY <2>9, <3>4 DEF StopFails, Return, GoOn
    <3> QED
      BY <1>3, <3>2, <3>3, <3>4
  <2> QED
    BY <1>3, <2>7, <2>8, <2>9 DEF List, Stop, StopFails
<1>4. ~Expire
  BY DEF Expire, TypeOK
<1>5. ~((\E n \in Name : OthersChange(n)) \/ PruneImages)
  <2>1. meddlings \in Nat
    BY ContainersAssumption DEF TypeOK
  <2> QED
    BY <2>1 DEF OthersChange, PruneImages, Meddle
<1>6. ASSUME NEW l \in Lists, Apply(l) PROVE FALSE
  BY <1>6 DEF Apply
<1> QED
  BY <1>2, <1>3, <1>4, <1>5, <1>6 DEF Next, Program, LoopStep

\* Every apply ends, for every number of names and every list
\* (orchestration.go:127-149).
THEOREM RequestsAreBoundedAlways == Spec => RequestsAreBounded
<1> DEFINE Nearer == pc \notin {"idle", "done"} /\ UNCHANGED <<expired, meddlings>> =>
                         RequestsLeft' < RequestsLeft
<1>1. IInv /\ [Next]_vars => [Nearer]_vars
  BY FewerRequests DEF IInv
<1> QED
  BY <1>1, Invariance, PTL DEF Spec, RequestsAreBounded
=============================================================================
