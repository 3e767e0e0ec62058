----------------------------- MODULE HostNetwork -----------------------------
(***************************************************************************)
(* configureHostInterfaces (network.go:122-225): the nmstate document of a *)
(* config is written beside /etc/nmstate/edgecommander.yml, applied with   *)
(* nmstatectl, renamed into place only when nmstatectl took it, and made   *)
(* durable; then the transmit queue lengths are set.  At boot              *)
(* nmstate.service applies the file of that name once more, before         *)
(* edgecommander starts.                                                   *)
(*                                                                         *)
(* One system call or command is one step.  Any of them can fail, the      *)
(* process can be killed between two, and power can be lost.               *)
(***************************************************************************)
EXTENDS Naturals, FiniteSets

CONSTANTS
    Doc,        \* nmstate documents, as buildNMState makes them
    Iface,      \* interfaces
    TxLen,      \* transmit queue lengths
    Unset,      \* no txqueuelen declared
    Default,    \* the kernel's own queue length
    Configs,    \* the network parts of the configs
    MaxFaults,  \* bound: steps that fail, kills
    MaxBoots    \* bound: power losses

NoDoc == "absent"           \* nothing at that name; nothing declared
Torn == "torn"              \* a file whose data never reached the disk

NetConfig == [doc : Doc \cup {NoDoc}, tx : [Iface -> TxLen \cup {Unset}]]

ASSUME HostNetworkAssumption ==
    /\ NoDoc \notin Doc /\ Torn \notin Doc
    /\ Configs \subseteq NetConfig
    /\ MaxFaults \in Nat /\ MaxBoots \in Nat

VARIABLES
    config,     \* the configuration being applied
    pc,         \* the next step
    result,     \* how the last apply ended
    live,       \* the document the running network was last made from
    accepted,   \* history: the documents nmstatectl has accepted
    file,       \* what nmstateStatePath names
    durable,    \* what it may name after a power loss
    synced,     \* the temporary document is on disk
    txq,        \* the interfaces' queue lengths
    todo,       \* interfaces whose queue length is still to be set
    faults, boots

vars == <<config, pc, result, live, accepted, file, durable, synced, txq, todo,
          faults, boots>>

NothingDeclared == [doc |-> NoDoc, tx |-> [f \in Iface |-> Unset]]

Init ==
    /\ config = NothingDeclared
    /\ pc = "idle"
    /\ result = "none"
    /\ live = NoDoc
    /\ accepted = {}
    /\ file = NoDoc
    /\ durable = {NoDoc}
    /\ synced = FALSE
    /\ txq = [f \in Iface |-> Default]
    /\ todo = {}
    /\ faults = 0
    /\ boots = 0

-----------------------------------------------------------------------------
Goto(l) == pc' = l /\ UNCHANGED result
Return(outcome) == pc' = "idle" /\ result' = outcome
Fault == faults < MaxFaults /\ faults' = faults + 1

Apply(c) ==
    /\ pc = "idle"
    /\ config' = c
    /\ result' = "none"
    /\ pc' = IF c.doc = NoDoc THEN "remove" ELSE "write"
    /\ UNCHANGED <<live, accepted, file, durable, synced, txq, todo, faults, boots>>

\* The directory change is durable only some time later.
Names(content) ==
    /\ file' = content
    /\ durable' = durable \cup {content}

\* removeNMStateDocument: nothing is declared, so nothing may be applied at
\* boot.  The directory is not synced.
RemoveDocument ==
    /\ pc = "remove"
    /\ Names(NoDoc)
    /\ Return("ok")
    /\ UNCHANGED <<config, live, accepted, synced, txq, todo, faults, boots>>

WriteTemp ==
    /\ pc = "write"
    /\ synced' = FALSE
    /\ Goto("fsync")
    /\ UNCHANGED <<config, live, accepted, file, durable, txq, todo, faults, boots>>

SyncTemp ==
    /\ pc = "fsync"
    /\ synced' = TRUE
    /\ Goto("nmstatectl")
    /\ UNCHANGED <<config, live, accepted, file, durable, txq, todo, faults, boots>>

Nmstatectl ==
    /\ pc = "nmstatectl"
    /\ live' = config.doc
    /\ accepted' = accepted \cup {config.doc}
    /\ Goto("rename")
    /\ UNCHANGED <<config, file, durable, synced, txq, todo, faults, boots>>

\* nmstatectl rolls back what it cannot apply; killed at the deadline it may
\* have applied the document all the same.  Only its success lets the document
\* take the name.
NmstatectlFails_Commits ==
    /\ pc = "nmstatectl"
    /\ Fault
    /\ live' \in {live, config.doc}
    /\ Names(IF synced THEN config.doc ELSE Torn)
    /\ Return("error")
    /\ UNCHANGED <<config, accepted, synced, txq, todo, boots>>
NmstatectlFails ==
    /\ pc = "nmstatectl"
    /\ Fault
    /\ live' \in {live, config.doc}
    /\ Return("error")
    /\ UNCHANGED <<config, accepted, file, durable, synced, txq, todo, boots>>

Rename ==
    /\ pc = "rename"
    /\ file' = config.doc
    /\ durable' = durable \cup {IF synced THEN config.doc ELSE Torn}
    /\ Goto("syncdir")
    /\ UNCHANGED <<config, live, accepted, synced, txq, todo, faults, boots>>

SyncDir_Omitted ==
    /\ pc = "syncdir"
    /\ todo' = {f \in Iface : config.tx[f] # Unset}
    /\ Goto("tx")
    /\ UNCHANGED <<config, live, accepted, file, durable, synced, txq, faults, boots>>
SyncDir ==
    /\ pc = "syncdir"
    /\ durable' = {IF synced THEN file ELSE Torn}
    /\ todo' = {f \in Iface : config.tx[f] # Unset}
    /\ Goto("tx")
    /\ UNCHANGED <<config, live, accepted, file, synced, txq, faults, boots>>

\* applyTxQueueLengths, one interface at a time.
SetTxQLen ==
    /\ pc = "tx"
    /\ \E f \in todo :
          /\ txq' = [txq EXCEPT ![f] = config.tx[f]]
          /\ todo' = todo \ {f}
    /\ UNCHANGED <<config, pc, result, live, accepted, file, durable, synced, faults,
                   boots>>

TxDone ==
    /\ pc = "tx"
    /\ todo = {}
    /\ Return("ok")
    /\ UNCHANGED <<config, live, accepted, file, durable, synced, txq, todo, faults,
                   boots>>

\* Any other call fails and has had no effect; an interface may be missing.
CallFails ==
    /\ pc \in {"remove", "write", "fsync", "rename", "syncdir", "tx"}
    /\ pc = "tx" => todo # {}
    /\ Fault
    /\ Return("error")
    /\ UNCHANGED <<config, live, accepted, file, durable, synced, txq, todo, boots>>

\* The process is killed; systemd starts it again.  Its temporary file stays
\* behind under a name nmstate.service does not read.
Killed ==
    /\ pc \notin {"idle", "boot"}
    /\ Fault
    /\ Return("none")
    /\ UNCHANGED <<config, live, accepted, file, durable, synced, txq, todo, boots>>

-----------------------------------------------------------------------------
(* The host. *)

\* Some time later what was written is on the disk.
WriteBack ==
    /\ durable' = {file}
    /\ durable # {file}
    /\ pc # "boot"
    /\ UNCHANGED <<config, pc, result, live, accepted, file, synced, txq, todo, faults,
                   boots>>

\* NetworkManager keeps the profiles of the live network; the queue lengths
\* are the kernel's again.
PowerLoss ==
    /\ pc # "boot"
    /\ boots < MaxBoots
    /\ boots' = boots + 1
    /\ file' \in durable
    /\ durable' = {file'}
    /\ txq' = [f \in Iface |-> Default]
    /\ pc' = "boot"
    /\ result' = IF pc = "idle" THEN result ELSE "none"
    /\ UNCHANGED <<config, live, accepted, synced, todo, faults>>

NmstateService ==
    /\ pc = "boot"
    /\ live' = IF file \in {NoDoc, Torn} THEN live ELSE file
    /\ Goto("idle")
    /\ UNCHANGED <<config, accepted, file, durable, synced, txq, todo, faults, boots>>

-----------------------------------------------------------------------------
Next ==
    \/ \E c \in Configs : Apply(c)
    \/ RemoveDocument \/ WriteTemp \/ SyncTemp \/ Nmstatectl \/ NmstatectlFails
    \/ Rename \/ SyncDir \/ SetTxQLen \/ TxDone \/ CallFails \/ Killed
    \/ WriteBack \/ PowerLoss \/ NmstateService

Spec == Init /\ [][Next]_vars

-----------------------------------------------------------------------------
(* Properties. *)

TypeOK ==
    /\ config \in NetConfig
    /\ pc \in {"idle", "remove", "write", "fsync", "nmstatectl", "rename", "syncdir",
               "tx", "boot"}
    /\ result \in {"none", "ok", "error"}
    /\ live \in Doc \cup {NoDoc}
    /\ accepted \subseteq Doc
    /\ file \in Doc \cup {NoDoc, Torn}
    /\ durable \subseteq Doc \cup {NoDoc, Torn}
    /\ synced \in BOOLEAN
    /\ txq \in [Iface -> TxLen \cup {Default}]
    /\ todo \subseteq Iface
    /\ faults \in 0..MaxFaults
    /\ boots \in 0..MaxBoots

\* Whenever power is lost, what nmstate.service finds at boot is a whole
\* document that nmstatectl has accepted, or nothing: "a failed apply never
\* leaves a document that nmstate.service would reapply at boot" (network.go:
\* 154-157), "zero-length" ones included (network.go:175-176).
OnlyAcceptedAtBoot == durable \subseteq accepted \cup {NoDoc}

\* A network whose apply succeeded is still there after a power loss and
\* nmstate.service, before edgecommander has even started: the document is
\* durable before success is reported (network.go:197-201).
RebootKeepsNetwork ==
    result = "ok" /\ config.doc # NoDoc => live = config.doc /\ durable = {config.doc}

\* After a success of a config that declares no network, nmstate.service finds
\* no document, "so nmstate.service does not reapply a stale network config at
\* the next boot" (network.go:122-124).
NoStaleDocumentAtBoot == result = "ok" /\ config.doc = NoDoc => durable = {NoDoc}
=============================================================================
