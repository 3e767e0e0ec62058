------------------------------ MODULE OsUpdate ------------------------------
(***************************************************************************)
(* The OS update endpoints: uploads that stage an image, upgrades that     *)
(* deploy the staged one and reboot, /restart, and the config uploads that *)
(* move the staging path under them (server.go:253-336, ostree.go:46-65).  *)
(* None of these handlers takes applyMu; any number of them run at once.   *)
(*                                                                         *)
(* Staging a file is AtomicFile's: here the temporary file is written for  *)
(* a while and then takes the name in one step.  The apply command is the  *)
(* default one, a switch onto the image at the staging path.               *)
(***************************************************************************)
EXTENDS Naturals, FiniteSets

CONSTANTS
    Uploader, Upgrader,     \* handlers
    Image,                  \* the images clients send
    Path,                   \* the staging paths configs declare
    BootImage,              \* what the host runs at first
    MaxUploads, MaxUpgrades, MaxReboots, MaxConfigs     \* bounds

ByRestart == 0      \* who asked for a reboot: /restart, or the upgrade of a number
Whole(img) == [image |-> img, whole |-> TRUE]
CutOff(img) == [image |-> img, whole |-> FALSE]
Nothing == [image |-> "none", whole |-> FALSE]
File == [image : Image \cup {BootImage}, whole : BOOLEAN] \cup {Nothing}

VARIABLES
    path,       \* ostree.upload_path of the config on disk
    staged,     \* per path, the file of that name
    booting,    \* the deployment the next boot starts
    running,    \* the deployment that runs
    up,         \* per uploader: pc, path, image
    ug,         \* per upgrader: pc, call, path, file, reboot; calls are numbered
    timers,     \* reboot goroutines that sleep, and who asked
    answered,   \* history: the calls answered with success
    deployed,   \* history: the files deployed in full, and by which call
    uploads, upgrades, reboots, configs

updateVars == <<path, staged, booting, running, up, ug, timers, answered, deployed,
          uploads, upgrades, reboots, configs>>

IdleUp == [pc |-> "idle", path |-> "none", image |-> "none"]
IdleUg == [pc |-> "idle", call |-> 0, path |-> "none", file |-> Nothing, reboot |-> FALSE]

UpdateInit ==
    /\ path \in Path
    /\ staged = [p \in Path |-> Nothing]
    /\ booting = Whole(BootImage)
    /\ running = Whole(BootImage)
    /\ up = [u \in Uploader |-> IdleUp]
    /\ ug = [g \in Upgrader |-> IdleUg]
    /\ timers = {}
    /\ answered = {}
    /\ deployed = {}
    /\ uploads = 0
    /\ upgrades = 0
    /\ reboots = 0
    /\ configs = 0

counters == <<uploads, upgrades, reboots, configs>>
host == <<booting, running, deployed>>

-----------------------------------------------------------------------------
(* handleOstreeUpload. *)

\* It reads the config once, without applyMu.  A config that cannot be read is
\* answered with an error, here and in handleOstreeUpgrade, and changes nothing.
BeginUpload_InPlace(u, img) ==
    /\ up[u].pc = "idle"
    /\ uploads < MaxUploads
    /\ uploads' = uploads + 1
    /\ up' = [up EXCEPT ![u] = [pc |-> "stream", path |-> path, image |-> img]]
    /\ staged' = [staged EXCEPT ![path] = CutOff(img)]
    /\ UNCHANGED <<path, host, ug, timers, answered, upgrades, reboots, configs>>
BeginUpload(u, img) ==
    /\ up[u].pc = "idle"
    /\ uploads < MaxUploads
    /\ uploads' = uploads + 1
    /\ up' = [up EXCEPT ![u] = [pc |-> "stream", path |-> path, image |-> img]]
    /\ UNCHANGED <<path, staged, host, ug, timers, answered, upgrades, reboots, configs>>

FinishUpload(u) ==
    /\ up[u].pc = "stream"
    /\ staged' = [staged EXCEPT ![up[u].path] = Whole(up[u].image)]
    /\ up' = [up EXCEPT ![u] = IdleUp]
    /\ UNCHANGED <<path, host, ug, timers, answered, counters>>

\* The client goes away or the disk is full: the temporary file is removed.
BreakUpload(u) ==
    /\ up[u].pc = "stream"
    /\ up' = [up EXCEPT ![u] = IdleUp]
    /\ UNCHANGED <<path, staged, host, ug, timers, answered, counters>>

-----------------------------------------------------------------------------
(* handleOstreeUpgrade. *)

To(g, pc, file) == ug' = [ug EXCEPT ![g] = [@ EXCEPT !.pc = pc, !.file = file]]
Leave(g) == ug' = [ug EXCEPT ![g] = IdleUg]
Switch(g) ==
    /\ booting' = ug[g].file
    /\ deployed' = deployed \cup {[call |-> ug[g].call, file |-> ug[g].file]}
    /\ UNCHANGED running

BeginUpgrade(g, reboot) ==
    /\ ug[g].pc = "idle"
    /\ upgrades < MaxUpgrades
    /\ upgrades' = upgrades + 1
    /\ ug' = [ug EXCEPT ![g] = [pc |-> "command", call |-> upgrades', path |-> path,
                                file |-> Nothing, reboot |-> reboot]]
    /\ UNCHANGED <<path, staged, host, up, timers, answered, uploads, reboots, configs>>

\* The command opens the image; a rename after that does not reach it.
OpenImage(g) ==
    /\ ug[g].pc = "command"
    /\ staged[ug[g].path] # Nothing
    /\ To(g, "deploy", staged[ug[g].path])
    /\ UNCHANGED <<path, staged, host, up, timers, answered, counters>>

Deploy(g) ==
    /\ ug[g].pc = "deploy"
    /\ Switch(g)
    /\ To(g, "answer", ug[g].file)
    /\ UNCHANGED <<path, staged, up, timers, answered, counters>>

\* No image, a failing command, or one killed after thirty minutes, which may
\* have just deployed it.
CommandFails_Answers(g) ==
    /\ ug[g].pc \in {"command", "deploy"}
    /\ To(g, "answer", staged[ug[g].path])
    /\ UNCHANGED <<path, staged, host, up, timers, answered, counters>>
CommandFails(g) ==
    /\ ug[g].pc \in {"command", "deploy"}
    /\ \/ UNCHANGED host
       \/ ug[g].pc = "deploy" /\ Switch(g)
    /\ Leave(g)
    /\ UNCHANGED <<path, staged, up, timers, answered, counters>>

\* The reboot goroutine starts after the answer, unless ?reboot=false.
Timers(g) == IF ug[g].reboot THEN timers \cup {ug[g].call} ELSE timers

Answer(g) ==
    /\ ug[g].pc = "answer"
    /\ answered' = answered \cup {[call |-> ug[g].call, file |-> ug[g].file,
                                   reboot |-> ug[g].reboot]}
    /\ timers' = Timers(g)
    /\ Leave(g)
    /\ UNCHANGED <<path, staged, host, up, counters>>

-----------------------------------------------------------------------------
(* /restart, reboots, config uploads. *)

Restart ==
    /\ reboots < MaxReboots
    /\ timers' = timers \cup {ByRestart}
    /\ UNCHANGED <<path, staged, host, up, ug, answered, counters>>

\* scheduleReboot: systemctl reboot takes every handler down with the host.
Reboot ==
    /\ timers # {}
    /\ reboots < MaxReboots
    /\ reboots' = reboots + 1
    /\ running' = booting
    /\ timers' = {}
    /\ up' = [u \in Uploader |-> IdleUp]
    /\ ug' = [g \in Upgrader |-> IdleUg]
    /\ UNCHANGED <<path, staged, booting, deployed, answered, uploads, upgrades, configs>>

\* systemctl fails: logged, and that is all.
RebootFails ==
    /\ \E t \in timers : timers' = timers \ {t}
    /\ UNCHANGED <<path, staged, host, up, ug, answered, counters>>

Configure(p) ==
    /\ configs < MaxConfigs
    /\ configs' = configs + 1
    /\ path' = p
    /\ UNCHANGED <<staged, host, up, ug, timers, answered, uploads, upgrades, reboots>>

-----------------------------------------------------------------------------
UpdateNext ==
    \/ \E u \in Uploader :
          (\E img \in Image : BeginUpload(u, img)) \/ FinishUpload(u) \/ BreakUpload(u)
    \/ \E g \in Upgrader :
          \/ \E reboot \in BOOLEAN : BeginUpgrade(g, reboot)
          \/ OpenImage(g) \/ Deploy(g) \/ CommandFails(g) \/ Answer(g)
    \/ Restart \/ Reboot \/ RebootFails
    \/ \E p \in Path : Configure(p)

UpdateSpec == UpdateInit /\ [][UpdateNext]_updateVars

-----------------------------------------------------------------------------
(* Properties. *)

\* "a partial upload can never be applied" (server.go:263-264), however an
\* upload, an upgrade and a reboot that cuts both off interleave.
PartialIsNeverApplied == booting.whole /\ running.whole

\* A reboot is scheduled only by /restart or by an upgrade that asked for it
\* and has itself deployed its image by then: not after a failed command, not
\* with ?reboot=false (server.go:287-292), whatever other upgrades do meanwhile
\* and whatever earlier ones of the same handler did.
RebootFollowsSuccess ==
    \A c \in timers \ {ByRestart} :
        \E a \in answered : a.call = c /\ a.reboot /\ [call |-> c, file |-> a.file] \in deployed
=============================================================================
