------------------------------ MODULE Containers ------------------------------
(***************************************************************************)
(* The container steps of applyConfig: stopUnmanagedContainers, then       *)
(* reconcileContainer for every declared container (podman.go and          *)
(* orchestration.go:135-149).  One request to the libpod API is one step,  *)
(* so podman commands of others come between any two; any request can      *)
(* fail, with or without having had its effect, and once the ten minutes   *)
(* of the context are over every one does.                                 *)
(*                                                                         *)
(* A declared container is a record of its name, its image, the host port  *)
(* it publishes and the rest of its settings; the config hash is the       *)
(* record itself (configHash tells two different records apart).           *)
(***************************************************************************)
EXTENDS Naturals, Sequences, FiniteSets

CONSTANTS
    Name, Image, HostPort, Setting,
    Foreign,    \* the hash label of a container edgecommander did not create
    Lists,      \* the containers lists of the configs: sequences of Declared
    MaxFaults,  \* bound: requests that fail, deadlines that pass
    MaxMeddling \* bound: podman commands of others

Declared == [name : Name, image : Image, port : HostPort, setting : Setting]

ASSUME ContainersAssumption ==
    /\ IsFiniteSet(Name)
    /\ Foreign \notin Declared
    /\ Lists \subseteq Seq(Declared)
    /\ MaxFaults \in Nat
    /\ MaxMeddling \in Nat

\* One container of Podman: its state, its hash label, the port it publishes.
State == {"created", "running", "paused", "exited"}
Container == [state : State, label : Declared \cup {Foreign}, port : HostPort]
None == [state |-> "none"]

VARIABLES
    podman,     \* per name, the container that has it, or None
    images,     \* the images in local storage
    config,     \* the list being applied
    pc,         \* the next request
    i,          \* the element of config being reconciled
    exists,     \* what containerExists answered for it
    list,       \* names of the listed containers still to be stopped
    gone,       \* names whose container, known by its id, others removed since
    expired,    \* the context's deadline has passed
    failed,     \* the elements of config that failed to reconcile
    result,     \* how the last apply ended
    flaws,      \* history: what went wrong since the apply began
    touched,    \* history: names others changed since the list, or the stop, was answered
    smooth,     \* history: applies of config in a row without a flaw, up to 2
    faults, meddlings

vars == <<podman, images, config, pc, i, exists, list, gone, expired, failed, result,
          flaws, touched, smooth, faults, meddlings>>

\* The container takes its host port.
TakesPort(n) == podman[n].state \in {"running", "paused"}

PortIsFree(n, p) == \A m \in Name \ {n} : TakesPort(m) => podman[m].port # p

\* Whatever the host was running before.
Init ==
    /\ podman \in [Name -> {None} \cup
          {[state |-> s, label |-> Foreign, port |-> p] : s \in State, p \in HostPort}]
    /\ \A n \in Name : TakesPort(n) => PortIsFree(n, podman[n].port)
    /\ images \in SUBSET Image
    /\ config = <<>>
    /\ pc = "idle"
    /\ i = 1
    /\ exists = FALSE
    /\ list = {}
    /\ gone = {}
    /\ expired = FALSE
    /\ failed = {}
    /\ result = "none"
    /\ flaws = {}
    /\ touched = {}
    /\ smooth = 0
    /\ faults = 0
    /\ meddlings = 0

-----------------------------------------------------------------------------
(* Podman. *)

c == config[i]

Exists(n) == podman[n] # None

With(n, container) == [podman EXCEPT ![n] = container]
In(n, state) == [podman EXCEPT ![n].state = state]

\* The effects of the requests; a request with none of them leaves podman as it is.
Stopped(n) == In(n, "exited")
RemovedC == With(c.name, None)
Created == IF Exists(c.name) THEN podman
           ELSE With(c.name, [state |-> "created", label |-> c, port |-> c.port])
CanStart == c.name \notin gone /\ PortIsFree(c.name, podman[c.name].port)
Started == IF CanStart THEN In(c.name, "running") ELSE podman

-----------------------------------------------------------------------------
(* The flow of an apply. *)

Return(outcome) ==
    /\ pc' = "done"
    /\ result' = outcome
    /\ smooth' = IF flaws' = {} THEN IF smooth = 2 THEN 2 ELSE smooth + 1 ELSE 0

GoOn(request) ==
    /\ pc' = request
    /\ UNCHANGED <<result, smooth>>

\* The loop over cfg.Containers goes on after a failure and reports it at the
\* end.
NextElement(nowFailed) ==
    /\ failed' = nowFailed
    /\ IF i < Len(config)
       THEN i' = i + 1 /\ GoOn("exists")
       ELSE UNCHANGED i /\ Return(IF nowFailed = {} THEN "ok" ELSE "error")

StartLoop ==
    /\ i' = 1
    /\ IF config = <<>> THEN Return("ok") ELSE GoOn("exists")

Answered == ~expired /\ UNCHANGED <<expired, flaws, faults, meddlings>>

\* A request fails, or the deadline passed before it.
Unanswered ==
    /\ \/ expired /\ UNCHANGED faults
       \/ faults < MaxFaults /\ faults' = faults + 1
    /\ flaws' = flaws \cup {"fault"}
    /\ UNCHANGED <<expired, meddlings>>

Apply(l) ==
    /\ pc \in {"idle", "done"}
    /\ config' = l
    /\ pc' = "list"
    /\ i' = 1
    /\ exists' = FALSE
    /\ list' = {}
    /\ gone' = {}
    /\ expired' = FALSE
    /\ failed' = {}
    /\ result' = "none"
    /\ flaws' = {}
    /\ touched' = {}
    /\ smooth' = IF l = config THEN smooth ELSE 0
    /\ UNCHANGED <<podman, images, faults, meddlings>>

\* context.WithTimeout: ten minutes after the apply began.
Expire ==
    /\ pc \notin {"idle", "done"}
    /\ ~expired
    /\ faults < MaxFaults
    /\ faults' = faults + 1
    /\ expired' = TRUE
    /\ flaws' = flaws \cup {"fault"}
    /\ UNCHANGED <<podman, images, config, pc, i, exists, list, gone, failed,
                   result, touched, smooth, meddlings>>

-----------------------------------------------------------------------------
(* stopUnmanagedContainers. *)

DeclaredNames == {config[j].name : j \in DOMAIN config}

NeedsStop_RunningOnly(state) == state = "running"
NeedsStop(state) == state \notin {"none", "created", "exited"}

List ==
    /\ pc = "list"
    /\ Answered
    /\ LET unmanaged == {n \in Name \ DeclaredNames : NeedsStop(podman[n].state)} IN
          /\ list' = unmanaged
          /\ gone' = {}
          /\ touched' = {}
          /\ IF unmanaged = {} THEN StartLoop ELSE GoOn("stop") /\ UNCHANGED i
    /\ UNCHANGED <<podman, images, config, exists, failed>>

\* The request names the id that was listed: a container that is gone by now
\* is an error, even if its name is taken again; one that is down is not.
Stop ==
    /\ pc = "stop"
    /\ Answered
    /\ \E n \in list :
          IF n \notin gone
          THEN /\ podman' = Stopped(n)
               /\ list' = list \ {n}
               /\ touched' = touched \ {n}
               /\ IF list = {n} THEN StartLoop ELSE GoOn("stop") /\ UNCHANGED i
          ELSE /\ Return("stop_error")
               /\ UNCHANGED <<podman, list, touched, i>>
    /\ UNCHANGED <<images, config, exists, gone, failed>>

\* Podman may also refuse (a paused container, a container without an id).
\* One failure ends the apply before any declared container is looked at.
StopFails ==
    /\ pc \in {"list", "stop"}
    /\ Unanswered
    /\ \/ UNCHANGED podman
       \/ \E n \in list \ gone : pc = "stop" /\ podman' = Stopped(n)
    /\ Return("stop_error")
    /\ UNCHANGED <<images, config, i, exists, list, gone, touched, failed>>

-----------------------------------------------------------------------------
(* reconcileContainer. *)

CheckExists ==
    /\ pc = "exists"
    /\ Answered
    /\ exists' = Exists(c.name)
    /\ GoOn(IF Exists(c.name) THEN "inspect" ELSE "image")
    /\ UNCHANGED <<podman, images, config, i, list, gone, touched, failed>>

\* containerUpToDate: running, with the hash of this very configuration.
UpToDate_Inverted == podman[c.name].state # "running" /\ podman[c.name].label = c
UpToDate == podman[c.name].state = "running" /\ podman[c.name].label = c

Inspect ==
    /\ pc = "inspect"
    /\ Answered
    /\ IF ~Exists(c.name) THEN NextElement(failed \cup {i})
       ELSE IF UpToDate THEN NextElement(failed)
       ELSE GoOn("image") /\ UNCHANGED <<i, failed>>
    /\ UNCHANGED <<podman, images, config, exists, list, gone, touched>>

\* The old container is removed only when its image is here.
AfterPull_KeepsOld == "create"
AfterPull == IF exists THEN "remove" ELSE "create"

CheckImage_RemoveFirst ==
    /\ pc = "image"
    /\ Answered
    /\ GoOn(IF exists THEN "remove" ELSE IF c.image \in images THEN "create" ELSE "pull")
    /\ UNCHANGED <<podman, images, config, i, exists, list, gone, touched, failed>>
CheckImage ==
    /\ pc = "image"
    /\ Answered
    /\ GoOn(IF c.image \in images THEN AfterPull ELSE "pull")
    /\ UNCHANGED <<podman, images, config, i, exists, list, gone, touched, failed>>

Pull ==
    /\ pc = "pull"
    /\ Answered
    /\ images' = images \cup {c.image}
    /\ GoOn(AfterPull)
    /\ UNCHANGED <<podman, config, i, exists, list, gone, touched, failed>>

\* DELETE with force; a container that is gone by now is an error.
Remove ==
    /\ pc = "remove"
    /\ Answered
    /\ IF Exists(c.name)
       THEN podman' = RemovedC /\ GoOn("create") /\ UNCHANGED <<i, failed>>
       ELSE NextElement(failed \cup {i}) /\ UNCHANGED podman
    /\ UNCHANGED <<images, config, exists, list, gone, touched>>

\* The name must be free and the image present.
Create ==
    /\ pc = "create"
    /\ Answered
    /\ IF ~Exists(c.name) /\ c.image \in images
       THEN /\ podman' = Created
            /\ gone' = gone \ {c.name}
            /\ GoOn("start")
            /\ UNCHANGED <<i, failed>>
       ELSE NextElement(failed \cup {i}) /\ UNCHANGED <<podman, gone>>
    /\ UNCHANGED <<images, config, exists, list, touched>>

\* The request names the id that was created; the host port must be free.
StartC ==
    /\ pc = "start"
    /\ Answered
    /\ podman' = Started
    /\ NextElement(IF CanStart THEN failed ELSE failed \cup {i})
    /\ UNCHANGED <<images, config, exists, list, gone, touched>>

\* What a request that got no answer may have done all the same: a forced
\* removal stops the container before it takes it away.
MayHaveDone ==
    \/ UNCHANGED <<podman, images>>
    \/ pc = "pull" /\ images' = images \cup {c.image} /\ UNCHANGED podman
    \/ /\ \/ pc = "remove" /\ podman' = RemovedC
          \/ pc = "remove" /\ TakesPort(c.name) /\ podman' = Stopped(c.name)
          \/ pc = "create" /\ c.image \in images /\ podman' = Created
          \/ pc = "start" /\ podman' = Started
       /\ UNCHANGED images

ElementFails_EndsLoop ==
    /\ pc \in {"exists", "inspect", "image", "pull", "remove", "create", "start"}
    /\ Unanswered
    /\ MayHaveDone
    /\ failed' = failed \cup {i}
    /\ Return("error")
    /\ UNCHANGED <<config, i, exists, list, gone, touched>>
ElementFails_Retries ==
    /\ pc \in {"exists", "inspect", "image", "pull", "remove", "create", "start"}
    /\ Unanswered
    /\ MayHaveDone
    /\ GoOn("exists")
    /\ UNCHANGED <<config, i, exists, list, gone, touched, failed>>
ElementFails ==
    /\ pc \in {"exists", "inspect", "image", "pull", "remove", "create", "start"}
    /\ Unanswered
    /\ MayHaveDone
    /\ NextElement(failed \cup {i})
    /\ UNCHANGED <<config, exists, list, gone, touched>>

-----------------------------------------------------------------------------
(* podman commands of others, and containers that end by themselves. *)

Meddle ==
    /\ meddlings < MaxMeddling
    /\ meddlings' = meddlings + 1
    /\ flaws' = flaws \cup {"meddling"}
    /\ smooth' = 0
    /\ UNCHANGED <<config, pc, i, exists, list, expired, failed, result, faults>>

OthersChange(n) ==
    /\ Meddle
    /\ \/ Exists(n) /\ podman' = With(n, None) /\ gone' = gone \cup {n}
       \/ /\ \/ TakesPort(n) /\ podman' = In(n, "exited")
             \/ podman[n].state = "running" /\ podman' = In(n, "paused")
             \/ /\ podman[n].state \in {"created", "exited"}
                /\ PortIsFree(n, podman[n].port)
                /\ podman' = In(n, "running")
             \/ /\ ~Exists(n)
                /\ \E p \in HostPort :
                      /\ PortIsFree(n, p)
                      /\ podman' = With(n, [state |-> "running", label |-> Foreign,
                                           port |-> p])
          /\ UNCHANGED gone
    /\ touched' = touched \cup {n}
    /\ UNCHANGED images

PruneImages ==
    /\ Meddle
    /\ images' = {}
    /\ UNCHANGED <<podman, gone, touched>>

-----------------------------------------------------------------------------
Program ==
    \/ List \/ Stop \/ StopFails
    \/ CheckExists \/ Inspect \/ CheckImage \/ Pull \/ Remove \/ Create \/ StartC
    \/ ElementFails

Next ==
    \/ \E l \in Lists : Apply(l)
    \/ Program
    \/ Expire
    \/ (\E n \in Name : OthersChange(n)) \/ PruneImages

Spec == Init /\ [][Next]_vars

-----------------------------------------------------------------------------
(* Properties. *)

TypeOK ==
    /\ podman \in [Name -> Container \cup {None}]
    /\ images \subseteq Image
    /\ config \in Lists \cup {<<>>}
    /\ pc \in {"idle", "list", "stop", "exists", "inspect", "image", "pull",
               "remove", "create", "start", "done"}
    /\ i \in DOMAIN config \cup {1}
    /\ exists \in BOOLEAN
    /\ list \subseteq Name \ DeclaredNames
    /\ gone \subseteq Name
    /\ expired \in BOOLEAN
    /\ failed \subseteq DOMAIN config
    /\ result \in {"none", "ok", "error", "stop_error"}
    /\ flaws \subseteq {"fault", "meddling"}
    /\ touched \subseteq Name
    /\ smooth \in 0..2
    /\ faults \in 0..MaxFaults
    /\ meddlings \in 0..MaxMeddling

Undisturbed == "meddling" \notin flaws

DistinctNames == \A j, k \in DOMAIN config : config[j].name = config[k].name => j = k
DistinctPorts == \A j, k \in DOMAIN config : config[j].port = config[k].port => j = k

IsCurrent(d) == podman[d.name] = [state |-> "running", label |-> d, port |-> d.port]

\* An apply that got past stopping what is not declared leaves every element
\* it does not report as failed running with its declared configuration: one
\* container that fails neither stops the loop nor disturbs another one
\* (orchestration.go:139-149).
FailuresAreContained ==
    pc = "done" /\ result \in {"ok", "error"} /\ DistinctNames /\ Undisturbed =>
        \A j \in DOMAIN config \ failed : IsCurrent(config[j])

\* From the first look at a declared container on, nothing that is not
\* declared is up: nothing undeclared can hold a port or a mount a declared
\* container needs (stopUnmanagedContainers runs first and aborts the apply).
\* Only what others started after the list, or after the stop of that very
\* container, escapes (podman.go:372-391 works from the list it has read).
UnmanagedIsDown ==
    pc \notin {"idle", "list", "stop"} /\ result # "stop_error" =>
        \A n \in Name \ (DeclaredNames \cup touched) : ~TakesPort(n)

\* Two applies of a list in a row in which nothing fails and nobody meddles
\* converge, whatever the host looked like before, a failed apply and a
\* half-recreated container included.  One is not always enough: containers
\* that exchange host ports need the second.
SecondApplyConverges ==
    pc = "done" /\ smooth = 2 /\ DistinctNames /\ DistinctPorts => result = "ok"

\* A container running with its declared configuration is never stopped,
\* removed or changed by an apply (podman.go:135-139, README.md:493), if its
\* name is declared once.
NeverRestartsCurrent ==
    [][Undisturbed /\ DistinctNames /\ pc # "idle" /\ UNCHANGED <<config, meddlings>> =>
          \A j \in DOMAIN config : IsCurrent(config[j]) =>
              podman'[config[j].name] = podman[config[j].name]]_vars

\* Only a declared container is taken away, and only once the image of its
\* successor is in local storage: a pull that fails leaves the old one, and what
\* nobody declares is stopped but stays (podman.go:163-177, :366-394).
RemovedOnlyWithImage ==
    [][Undisturbed /\ UNCHANGED meddlings =>
          \A n \in Name : Exists(n) /\ podman'[n] = None =>
              \E j \in DOMAIN config : config[j].name = n /\ config[j].image \in images]_vars

\* The requests an apply may still make, at most.
PerElement == [request \in {"exists", "inspect", "image", "pull", "remove", "create", "start"} |->
                  CASE request = "exists" -> 7 [] request = "inspect" -> 6
                    [] request = "image" -> 5 [] request = "pull" -> 4
                    [] request = "remove" -> 3 [] request = "create" -> 2
                    [] request = "start" -> 1]

RequestsLeft ==
    CASE pc = "list" -> 1 + Cardinality(Name) + 7 * Len(config)
      [] pc = "stop" -> Cardinality(list) + 7 * Len(config)
      [] pc \in DOMAIN PerElement -> PerElement[pc] + 7 * (Len(config) - i)
      [] OTHER -> 0

\* Every apply ends after a number of requests that the list and the host
\* bound, whatever fails and whatever others do meanwhile; each of them ends
\* at the latest when the context expires (orchestration.go:127-149).
RequestsAreBounded ==
    [][pc \notin {"idle", "done"} /\ UNCHANGED <<expired, meddlings>>
          => RequestsLeft' < RequestsLeft]_vars
=============================================================================
