----------------------------- MODULE NodeService -----------------------------
(***************************************************************************)
(* The edgecommander process: the startup reconcile of runService, the     *)
(* concurrent handlers of /edgecommander/config, the handler of            *)
(* /edgecommander/restart, the lock applyMu they share, the active config  *)
(* file and the steps of applyConfig (orchestration.go, server.go,         *)
(* main.go), with the process dying, the host rebooting and the power      *)
(* failing at any point.                                                   *)
(*                                                                         *)
(* The host is abstracted to one value per step of applyConfig: the        *)
(* configuration that step last established, or Drift when a step failed   *)
(* or was cut short, or nothing is known.  The components behind the steps *)
(* have modules of their own (Firewall, Containers); AtomicFile details    *)
(* the file writes that Rename and SyncDir take in two steps here.         *)
(***************************************************************************)
EXTENDS Naturals, Sequences, FiniteSets

CONSTANTS
    Config,     \* config documents that parse and validate
    BadConfig,  \* a config file that is missing, malformed or invalid
    Drift,      \* a part of the host that matches no known configuration
    Upload,     \* requests to /edgecommander/config, one goroutine each
    Startup,    \* the goroutine of runService
    NoOne,      \* applyMu is not held
    MaxFaults,  \* bound: operations of the host that fail
    MaxOutages  \* bound: crashes, reboots and power losses

ASSUME NodeServiceAssumption ==
    /\ BadConfig \notin Config
    /\ Drift \notin Config \cup {BadConfig}
    /\ Startup \notin Upload
    /\ NoOne \notin Upload \cup {Startup}
    /\ MaxFaults \in Nat
    /\ MaxOutages \in Nat

Op == Upload \cup {Startup}

(***************************************************************************)
(* The steps of applyConfig, in its order.  "socket" is startPodmanSocket, *)
(* waitForUnixSocket and the connection; "containers" is the loop over     *)
(* cfg.Containers, which goes on after a container that fails and reports  *)
(* the errors at its end.  Validation comes before them all and cannot     *)
(* fail for a member of Config.                                            *)
(***************************************************************************)
ApplySteps ==
    <<"hostname", "folders", "files", "interfaces", "firewall", "socket",
      "stopUnmanaged", "containers">>

Last == Len(ApplySteps)
Step == 1..Last

VARIABLES
    proc,       \* "up" or "down"
    lock,       \* the holder of applyMu
    pc,         \* where each goroutine is
    cfg,        \* the configuration each goroutine parsed
    step,       \* the step of applyConfig each goroutine is at
    host,       \* per step, the configuration it last established
    disk,       \* the active config file as the running system sees it
    survivors,  \* what the file may be after a power loss
    resp,       \* the status each upload was answered with
    outcome,    \* how the last save-and-apply ended since the process started
    rebooting,  \* a goroutine of scheduleReboot is pending
    saved,      \* history: the uploads in the order of their renames
    faults, outages

vars == <<proc, lock, pc, cfg, step, host, disk, survivors, resp, outcome,
          rebooting, saved, faults, outages>>

Init ==
    /\ proc = "down"
    /\ lock = NoOne
    /\ pc = [op \in Op |-> "idle"]
    /\ cfg = [op \in Op |-> BadConfig]
    /\ step = [op \in Op |-> 1]
    /\ host = [s \in Step |-> Drift]
    /\ disk \in Config \cup {BadConfig}
    /\ survivors = {disk}
    /\ resp = [u \in Upload |-> "none"]
    /\ outcome = "none"
    /\ rebooting = FALSE
    /\ saved = <<>>
    /\ faults = 0
    /\ outages = 0

-----------------------------------------------------------------------------
(* Helpers. *)

\* sync.Mutex: Lock returns only when nobody holds it.
LockIsFree_Ignored == TRUE
LockIsFree == lock = NoOne

\* An operation of the host fails: the model bounds how often.
Fault ==
    /\ faults < MaxFaults
    /\ faults' = faults + 1

\* What a step that failed or was cut short leaves of its part of the host:
\* it had not changed anything yet, or it had.
Disturbed(s, h) == [h EXCEPT ![s] = Drift]
MaybeDisturbed(s) == host' \in {host, Disturbed(s, host)}

\* The deferred Unlock, the response and the end of the goroutine's work.
Release(op, status, result) ==
    /\ lock' = NoOne
    /\ pc' = [pc EXCEPT ![op] = "done"]
    /\ resp' = IF op \in Upload THEN [resp EXCEPT ![op] = status] ELSE resp
    /\ outcome' = result

-----------------------------------------------------------------------------
(* The process and its goroutines. *)

\* main and runService: the web server starts first, so uploads are accepted
\* from here on, then the startup reconcile goes for the lock.
Boot_NoReconcile ==
    /\ proc = "down"
    /\ proc' = "up"
    /\ UNCHANGED <<lock, pc, cfg, step, host, disk, survivors, resp, outcome,
                   rebooting, saved, faults, outages>>
Boot ==
    /\ proc = "down"
    /\ proc' = "up"
    /\ pc' = [pc EXCEPT ![Startup] = "lock"]
    /\ UNCHANGED <<lock, cfg, step, host, disk, survivors, resp, outcome,
                   rebooting, saved, faults, outages>>

\* handleConfigUpload reads, parses and validates the body outside the lock.
Receive(u, c) ==
    /\ proc = "up"
    /\ pc[u] = "idle"
    /\ cfg' = [cfg EXCEPT ![u] = c]
    /\ pc' = [pc EXCEPT ![u] = "lock"]
    /\ UNCHANGED <<proc, lock, step, host, disk, survivors, resp, outcome,
                   rebooting, saved, faults, outages>>

\* A body that is too long, malformed or invalid is answered 400.
Reject(u) ==
    /\ proc = "up"
    /\ pc[u] = "idle"
    /\ pc' = [pc EXCEPT ![u] = "done"]
    /\ resp' = [resp EXCEPT ![u] = "400"]
    /\ UNCHANGED <<proc, lock, cfg, step, host, disk, survivors, outcome,
                   rebooting, saved, faults, outages>>

\* applyMu.Lock() of runService and of handleConfigUpload.
Acquire(op) ==
    /\ pc[op] = "lock"
    /\ LockIsFree
    /\ lock' = op
    /\ pc' = [pc EXCEPT ![op] = IF op = Startup THEN "load" ELSE "save"]
    /\ UNCHANGED <<proc, cfg, step, host, disk, survivors, resp, outcome,
                   rebooting, saved, faults, outages>>

\* run reads the file under the lock; an unreadable or invalid one ends the
\* reconcile before it changes the host.
Load ==
    /\ pc[Startup] = "load"
    /\ \/ /\ disk \in Config
          /\ cfg' = [cfg EXCEPT ![Startup] = disk]
          /\ step' = [step EXCEPT ![Startup] = 1]
          /\ pc' = [pc EXCEPT ![Startup] = "apply"]
          /\ UNCHANGED <<lock, resp, outcome>>
       \/ /\ disk \notin Config
          /\ Release(Startup, "500", "error")
          /\ UNCHANGED <<cfg, step>>
    /\ UNCHANGED <<proc, host, disk, survivors, rebooting, saved, faults, outages>>

\* writeConfigFile up to its rename: the file is replaced in one step.
Rename(u) ==
    /\ pc[u] = "save"
    /\ disk' = cfg[u]
    /\ survivors' = survivors \cup {cfg[u]}
    /\ saved' = Append(saved, u)
    /\ pc' = [pc EXCEPT ![u] = "sync"]
    /\ UNCHANGED <<proc, lock, cfg, step, host, resp, outcome, rebooting,
                   faults, outages>>

\* writeConfigFile fails before the rename: the file is as it was.
SaveFails(u) ==
    /\ pc[u] = "save"
    /\ Fault
    /\ Release(u, "500", outcome)
    /\ UNCHANGED <<proc, cfg, step, host, disk, survivors, rebooting, saved,
                   outages>>

\* writeConfigFile's syncDir makes the rename durable, then the apply begins.
Durable_NoSync(c) == survivors
Durable(c) == {c}
SyncDir(u) ==
    /\ pc[u] = "sync"
    /\ survivors' = Durable(disk)
    /\ step' = [step EXCEPT ![u] = 1]
    /\ pc' = [pc EXCEPT ![u] = "apply"]
    /\ UNCHANGED <<proc, lock, cfg, host, disk, resp, outcome, rebooting,
                   saved, faults, outages>>

\* syncDir fails after the rename: the new file is in place, the handler
\* answers 500 and does not apply it.
SyncFails(u) ==
    /\ pc[u] = "sync"
    /\ Fault
    /\ Release(u, "500", "error")
    /\ UNCHANGED <<proc, cfg, step, host, disk, survivors, rebooting, saved,
                   outages>>

\* One step of applyConfig succeeds; after the last one the goroutine
\* answers 200 and releases the lock.
StepOk(op) ==
    /\ pc[op] = "apply"
    /\ host' = [host EXCEPT ![step[op]] = cfg[op]]
    /\ IF step[op] < Last
       THEN /\ step' = [step EXCEPT ![op] = @ + 1]
            /\ UNCHANGED <<lock, pc, resp, outcome>>
       ELSE /\ Release(op, "200", "ok")
            /\ UNCHANGED step
    /\ UNCHANGED <<proc, cfg, disk, survivors, rebooting, saved, faults, outages>>

\* One step of applyConfig fails: applyConfig returns the error at once.
StepFails_KeepsLock(op) ==
    /\ pc[op] = "apply"
    /\ Fault
    /\ MaybeDisturbed(step[op])
    /\ pc' = [pc EXCEPT ![op] = "done"]
    /\ UNCHANGED <<proc, lock, cfg, step, disk, survivors, resp, outcome,
                   rebooting, saved, outages>>
StepFails_NoReturn(op) ==
    /\ pc[op] = "apply"
    /\ step[op] < Last
    /\ Fault
    /\ MaybeDisturbed(step[op])
    /\ step' = [step EXCEPT ![op] = @ + 1]
    /\ UNCHANGED <<proc, lock, pc, cfg, disk, survivors, resp, outcome,
                   rebooting, saved, outages>>
StepFails(op) ==
    /\ pc[op] = "apply"
    /\ Fault
    /\ MaybeDisturbed(step[op])
    /\ Release(op, "500", "error")
    /\ UNCHANGED <<proc, cfg, step, disk, survivors, rebooting, saved, outages>>

\* handleRestart answers, then starts a goroutine that reboots a moment later;
\* it does not take applyMu.
Restart ==
    /\ proc = "up"
    /\ ~rebooting
    /\ rebooting' = TRUE
    /\ UNCHANGED <<proc, lock, pc, cfg, step, host, disk, survivors, resp,
                   outcome, saved, faults, outages>>

\* scheduleReboot: systemctl reboot fails, which is only logged.
RebootFails ==
    /\ rebooting
    /\ Fault
    /\ rebooting' = FALSE
    /\ UNCHANGED <<proc, lock, pc, cfg, step, host, disk, survivors, resp,
                   outcome, saved, outages>>

-----------------------------------------------------------------------------
(* Outages.  The process ends with every goroutine in it: uploads under    *)
(* way get no answer, the lock is gone.  Restart=always starts it again.   *)

ProcessEnds ==
    /\ outages < MaxOutages
    /\ outages' = outages + 1
    /\ proc' = "down"
    /\ lock' = NoOne
    /\ pc' = [op \in Op |-> IF op \in Upload /\ pc[op] # "idle"
                            THEN "done" ELSE "idle"]
    /\ resp' = [u \in Upload |->
                  IF pc[u] \notin {"idle", "done"} THEN "lost" ELSE resp[u]]
    /\ outcome' = "none"
    /\ rebooting' = FALSE
    /\ UNCHANGED <<cfg, step, saved, faults>>

\* The process is killed: the step under way is cut short.
Crash ==
    /\ proc = "up"
    /\ ProcessEnds
    /\ \/ UNCHANGED host
       \/ \E op \in Op : pc[op] = "apply" /\ host' = Disturbed(step[op], host)
    /\ UNCHANGED <<disk, survivors>>

\* systemctl reboot: file systems are unmounted cleanly.
Reboot ==
    /\ rebooting
    /\ ProcessEnds
    /\ host' = [s \in Step |-> Drift]
    /\ survivors' = {disk}
    /\ UNCHANGED disk

\* The power fails: a rename that was not made durable may be undone.
PowerLoss ==
    /\ ProcessEnds
    /\ host' = [s \in Step |-> Drift]
    /\ \E c \in survivors :
          /\ disk' = c
          /\ survivors' = {c}

-----------------------------------------------------------------------------
\* What a goroutine that holds the lock does on its own.
Work(op) ==
    \/ op = Startup /\ Load
    \/ op \in Upload /\ (Rename(op) \/ SaveFails(op) \/ SyncDir(op) \/ SyncFails(op))
    \/ StepOk(op)
    \/ StepFails(op)

Next ==
    \/ Boot
    \/ \E u \in Upload : Reject(u) \/ \E c \in Config : Receive(u, c)
    \/ \E op \in Op : Acquire(op) \/ Work(op)
    \/ Restart \/ RebootFails
    \/ Crash \/ Reboot \/ PowerLoss

Spec == Init /\ [][Next]_vars

(***************************************************************************)
(* Fairness.  Restart=always restarts the process; sync.Mutex is           *)
(* starvation free, so a goroutine that waits for it gets it if it is      *)
(* released again and again; every step of applyConfig is bounded by a     *)
(* timeout (hostCommandTimeout, nmstateApplyTimeout, systemdJobTimeout,    *)
(* the deadline of waitForUnixSocket, the ten minutes of the Podman        *)
(* context) except the D-Bus calls of configureFirewallPorts, which carry  *)
(* none: nothing is assumed of the firewall step.                          *)
(***************************************************************************)
InFirewall(op) == pc[op] = "apply" /\ ApplySteps[step[op]] = "firewall"

Fairness ==
    /\ WF_vars(Boot)
    /\ \A op \in Op :
          /\ SF_vars(Acquire(op))
          /\ WF_vars(~InFirewall(op) /\ Work(op))

FairSpec == Spec /\ Fairness

-----------------------------------------------------------------------------
(* Properties. *)

TypeOK ==
    /\ proc \in {"up", "down"}
    /\ lock \in Op \cup {NoOne}
    /\ pc \in [Op -> {"idle", "lock", "load", "save", "sync", "apply", "done"}]
    /\ cfg \in [Op -> Config \cup {BadConfig}]
    /\ step \in [Op -> Step]
    /\ host \in [Step -> Config \cup {Drift}]
    /\ disk \in Config \cup {BadConfig}
    /\ survivors \in SUBSET (Config \cup {BadConfig})
    /\ resp \in [Upload -> {"none", "200", "400", "500", "lost"}]
    /\ outcome \in {"none", "ok", "error"}
    /\ rebooting \in BOOLEAN
    /\ saved \in Seq(Upload)
    /\ faults \in 0..MaxFaults
    /\ outages \in 0..MaxOutages

\* The configuration being applied is the one in the config file, during the
\* whole apply: neither an upload that saves another file nor a startup
\* reconcile that read the file earlier gets in between (applyMu is held
\* across the read or the write and the apply, orchestration.go:66-68,
\* server.go:227-242).
ApplyUsesDisk ==
    \A op \in Op : pc[op] = "apply" => cfg[op] = disk

\* During an apply every step already done holds the configuration being
\* applied: no other apply, and no step after a failed one, has changed the
\* host in between (orchestration.go:89-94 and the early returns).
AppliedPrefix ==
    \A op \in Op : pc[op] = "apply" =>
        \A s \in Step : s < step[op] => host[s] = cfg[op]

\* When no apply is under way and the last one was called a success, the whole
\* host is what the config file says: a failing step never ends in an answer 200
\* or in a log line of success (server.go:237-245).
DriftIsReported ==
    lock = NoOne /\ outcome = "ok" => \A s \in Step : host[s] = disk

\* An upload answered 200 is never undone by a crash, a reboot or a power
\* loss: the file, now and after a power loss, is that upload's or that of an
\* upload saved after it (fileio.go:72-78, :113).
SavedSince(u) ==
    {cfg[saved[k]] : k \in {i \in DOMAIN saved : \E j \in 1..i : saved[j] = u}}

AckedUploadSurvives ==
    \A u \in Upload : resp[u] = "200" =>
        {disk} \cup survivors \subseteq SavedSince(u)

\* The process keeps the promise of DesiredState: the host comes to match a
\* configuration as a whole only when the config file holds that one.
Whole(h) ==
    IF \E c \in Config : \A s \in Step : h[s] = c THEN h[1] ELSE Drift

Promise == INSTANCE DesiredState WITH desired <- disk, actual <- Whole(host)

PromiseKept == Promise!Spec

\* Unless firewalld stops answering for good, an upload that waits for
\* applyMu is answered or its connection is lost: no path through the apply
\* keeps the lock (exec.go:18-22, network.go:19-25, systemd.go:14-17).  A command
\* that leaves a child behind with its output open is not modelled: runCommand
\* sets no WaitDelay (exec.go:29-30), so its deadline would not end that wait.
StuckInFirewall == \E op \in Op : InFirewall(op)

EveryUploadAnswered ==
    \/ <>[]StuckInFirewall
    \/ \A u \in Upload : pc[u] = "lock" ~> pc[u] = "done"

\* After a crash, a reboot or a power loss the restarted service brings the
\* host to its config file, unless the file is bad, something fails again, or
\* firewalld never answers (orchestration.go:61-68, edgecommander.service).
Converged == \A s \in Step : host[s] = disk

OutageIsRepaired ==
    \/ <>[]StuckInFirewall
    \/ (proc = "down" /\ faults = MaxFaults) ~> (disk \notin Config \/ Converged)
=============================================================================
