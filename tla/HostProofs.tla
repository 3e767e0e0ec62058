----------------------------- MODULE HostProofs -----------------------------
(***************************************************************************)
(* The three components that hand their work to another part of the host:  *)
(* what nmstate.service finds at boot, whose job's result a call to        *)
(* systemd goes on after, and what the host boots after an OS update; for  *)
(* any number of calls, handlers, failures, kills and power losses.        *)
(*                                                                         *)
(* The components share no variable; each part of the module is about the  *)
(* specification of one of them.                                           *)
(***************************************************************************)
EXTENDS HostNetwork, SystemdUnit, OsUpdate, TLAPS

-----------------------------------------------------------------------------
(* The host network (HostNetwork). *)

\* The document of the apply under way: declared, accepted once nmstatectl has
\* returned, on disk before it is renamed, in place after.
Withdraws == pc = "remove" => config.doc = NoDoc
Declares ==
    pc \in {"write", "fsync", "nmstatectl", "rename", "syncdir", "tx"} => config.doc \in Doc
OnDisk == pc \in {"nmstatectl", "rename", "syncdir"} => synced
IsAccepted == pc \in {"rename", "syncdir", "tx"} => config.doc \in accepted /\ live = config.doc
InPlace == pc \in {"syncdir", "tx"} => file = config.doc
IsDurable == pc = "tx" => durable = {config.doc}
LengthsDeclared == pc = "tx" => \A f \in todo : config.tx[f] # Unset

\* A result stands until the next apply, power losses included.
ResultStands == result = "ok" => pc \in {"idle", "boot"}
OkInPlace == result = "ok" /\ config.doc # NoDoc => file = config.doc

OnlyAcceptedNow == file \in accepted \cup {NoDoc}

NetworkInv ==
    /\ TypeOK
    /\ Withdraws /\ Declares /\ OnDisk /\ IsAccepted /\ InPlace /\ IsDurable /\ LengthsDeclared
    /\ ResultStands /\ OkInPlace /\ OnlyAcceptedNow
    /\ OnlyAcceptedAtBoot /\ RebootKeepsNetwork

\* Before the first apply nothing is declared and nothing has the name.
LEMMA NetworkInit == Init => NetworkInv
<1> SUFFICES ASSUME Init PROVE NetworkInv
  OBVIOUS
<1> USE HostNetworkAssumption
<1>1. config \in NetConfig /\ config.doc = NoDoc
  BY DEF Init, NothingDeclared, NetConfig
<1>2. accepted = {} /\ todo = {} /\ durable = {NoDoc} /\ faults \in 0..MaxFaults /\ boots \in 0..MaxBoots
  BY DEF Init
<1>3. txq \in [Iface -> TxLen \cup {Default}]
  BY DEF Init
<1>4. TypeOK
  BY <1>1, <1>2, <1>3 DEF Init, TypeOK
<1> QED
  BY <1>1, <1>4 DEF Init, NetworkInv, Withdraws, Declares, OnDisk, IsAccepted, InPlace, IsDurable, LengthsDeclared,
     ResultStands, OkInPlace, OnlyAcceptedNow, OnlyAcceptedAtBoot, RebootKeepsNetwork

\* Every call of the apply, every failure and everything the host does keeps
\* the invariant.
LEMMA NetworkStep == NetworkInv /\ [Next]_vars => NetworkInv'
<1> SUFFICES ASSUME NetworkInv, [Next]_vars PROVE NetworkInv'
  OBVIOUS
<1> USE HostNetworkAssumption
<1> USE DEF NetworkInv, TypeOK, Withdraws, Declares, OnDisk, IsAccepted, InPlace, IsDurable, LengthsDeclared,
            ResultStands, OkInPlace, OnlyAcceptedNow, OnlyAcceptedAtBoot, RebootKeepsNetwork,
            Goto, Return, Fault, Names
<1>0. config.doc \in Doc \cup {NoDoc}
  BY DEF NetConfig
<1>1. ASSUME NEW c \in Configs, Apply(c) PROVE NetworkInv'
  <2>1. c \in NetConfig /\ c.doc \in Doc \cup {NoDoc}
    BY DEF NetConfig
  <2> QED
    BY <1>1, <2>1 DEF Apply
<1>2. CASE RemoveDocument
  BY <1>2 DEF RemoveDocument
<1>3. CASE WriteTemp
  BY <1>3 DEF WriteTemp
<1>4. CASE SyncTemp
  BY <1>4 DEF SyncTemp
<1>5. CASE Nmstatectl
  BY <1>5 DEF Nmstatectl
<1>6. CASE NmstatectlFails
  BY <1>6, <1>0 DEF NmstatectlFails
<1>7. CASE Rename
  BY <1>7 DEF Rename
<1>8. CASE SyncDir
  BY <1>8 DEF SyncDir
<1>9. CASE SetTxQLen
  <2>1. PICK f \in todo : txq' = [txq EXCEPT ![f] = config.tx[f]] /\ todo' = todo \ {f}
    BY <1>9 DEF SetTxQLen
  <2>2. UNCHANGED <<config, pc, result, live, accepted, file, durable, synced, faults, boots>>
    BY <1>9 DEF SetTxQLen
  <2>3. config.tx[f] \in TxLen
    BY <2>1, <1>9 DEF SetTxQLen, NetConfig
  <2>4. txq' \in [Iface -> TxLen \cup {Default}] /\ todo' \subseteq todo
    BY <2>1, <2>3
  <2> QED
    BY <2>2, <2>4
<1>10. CASE TxDone
  BY <1>10 DEF TxDone
<1>11. CASE CallFails
  BY <1>11 DEF CallFails
<1>12. CASE Killed
  BY <1>12 DEF Killed
<1>13. CASE WriteBack
  BY <1>13 DEF WriteBack
<1>14. CASE PowerLoss
  BY <1>14 DEF PowerLoss
<1>15. CASE NmstateService
  BY <1>15 DEF NmstateService
<1>16. CASE UNCHANGED vars
  BY <1>16 DEF vars
<1> QED
  BY <1>1, <1>2, <1>3, <1>4, <1>5, <1>6, <1>7, <1>8, <1>9, <1>10, <1>11, <1>12, <1>13,
     <1>14, <1>15, <1>16 DEF Next

\* The inductive invariant of an apply of the host network (network.go:122-225).
THEOREM NetworkInvariance == Spec => []NetworkInv
  BY NetworkInit, NetworkStep, PTL DEF Spec

\* Every variable keeps its type.
THEOREM NetworkTypeCorrect == Spec => []TypeOK
<1>1. NetworkInv => TypeOK
  BY DEF NetworkInv
<1> QED
  BY <1>1, NetworkInvariance, PTL

\* nmstate.service never finds a document nmstatectl has not accepted, nor one
\* that was cut off (network.go:154-157, 175-176).
THEOREM OnlyAcceptedAtBootAlways == Spec => []OnlyAcceptedAtBoot
<1>1. NetworkInv => OnlyAcceptedAtBoot
  BY DEF NetworkInv
<1> QED
  BY <1>1, NetworkInvariance, PTL

\* A network that was applied with success is there after any power loss
\* (network.go:197-201).
THEOREM RebootKeepsNetworkAlways == Spec => []RebootKeepsNetwork
<1>1. NetworkInv => RebootKeepsNetwork
  BY DEF NetworkInv
<1> QED
  BY <1>1, NetworkInvariance, PTL

\* The file nmstate.service reads as a register of whole documents.
BootDocument == INSTANCE DurableRegister
                    WITH Value <- Doc \cup {NoDoc}, value <- file, possible <- durable

LEMMA BootDocumentStep ==
    ASSUME NetworkInv, [Next]_vars
    PROVE  [BootDocument!Next]_(BootDocument!vars)
<1> USE DEF BootDocument!Next, BootDocument!vars
<1>0. config.doc \in Doc \cup {NoDoc}
  BY DEF NetworkInv, TypeOK, NetConfig
<1>1. CASE RemoveDocument
  BY <1>1 DEF RemoveDocument, Names, BootDocument!Replace
<1>2. CASE Rename
  <2>1. synced
    BY <1>2 DEF Rename, NetworkInv, OnDisk
  <2> QED
    BY <1>0, <1>2, <2>1 DEF Rename, BootDocument!Replace
<1>3. CASE SyncDir
  <2>1. synced
    BY <1>3 DEF SyncDir, NetworkInv, OnDisk
  <2> QED
    BY <1>3, <2>1 DEF SyncDir, BootDocument!Settle
<1>4. CASE WriteBack
  BY <1>4 DEF WriteBack, BootDocument!Settle
<1>5. CASE PowerLoss
  BY <1>5 DEF PowerLoss, BootDocument!PowerLoss
<1>6. ASSUME \/ (\E c \in Configs : Apply(c)) \/ WriteTemp \/ SyncTemp \/ Nmstatectl
             \/ NmstatectlFails \/ SetTxQLen \/ TxDone \/ CallFails \/ Killed
             \/ NmstateService \/ UNCHANGED vars
      PROVE  UNCHANGED <<file, durable>>
  BY <1>6 DEF Apply, WriteTemp, SyncTemp, Nmstatectl, NmstatectlFails, SetTxQLen, TxDone,
              CallFails, Killed, NmstateService, vars
<1> QED
  BY <1>1, <1>2, <1>3, <1>4, <1>5, <1>6 DEF Next

\* The document is replaced as fileio.go replaces files, though nmstatectl runs
\* between the two halves: its name is always that of a whole document or of none,
\* and goes back to an earlier one only until the directory is synced
\* (network.go:146-201).
THEOREM BootDocumentIsRegister == Spec => BootDocument!Spec
<1>1. Init => BootDocument!Init
  BY DEF Init, BootDocument!Init
<1> QED
  BY <1>1, NetworkInvariance, BootDocumentStep, PTL DEF Spec, BootDocument!Spec

-----------------------------------------------------------------------------
(* Calls to systemd (SystemdUnit). *)

UnitTypeOK ==
    /\ n \in 0..MaxCalls
    /\ at \in {"returned", "ok", "connect", "start", "wait", "dial"}
    /\ at # "returned" => n \in Call
    /\ waiting \subseteq Call
    /\ chan \in [Call -> Seq(Outcome)]
    /\ sending \in [Call -> Outcome \cup {NoResult}]
    /\ startedAt \in Nat
    /\ jobsDone \in Nat

\* A channel holds one result at most.
OneResult == \A c \in Call : Len(chan[c]) <= 1

\* Only a call that has asked for a job can have a result on its way.
Untouched(c) == chan[c] = <<>> /\ sending[c] = NoResult /\ c \notin waiting

NotAskedYet ==
    \A c \in Call : c > n \/ (c = n /\ at \in {"connect", "start"}) => Untouched(c)

\* Only the call that waits is registered.
OneWaits == \A c \in waiting : c = n /\ at = "wait"

\* A "done" on its way to the call that waits is of a job later than its request.
OnItsWay ==
    at = "wait" =>
        /\ jobsDone >= startedAt
        /\ sending[n] = "done" => jobsDone > startedAt
        /\ chan[n] # <<>> /\ chan[n][1] = "done" => jobsDone > startedAt

UnitInv == UnitTypeOK /\ OneResult /\ NotAskedYet /\ OneWaits /\ OnItsWay /\ ResultIsOwn

\* The call being started and the jobs of systemd.
LEMMA CallFacts == Call \subseteq Nat \ {0} /\ "done" # NoResult /\ "failed" # NoResult
  BY SystemdUnitAssumption DEF Call, NoResult

\* A send into an empty channel of capacity one, and the receive that empties it.
LEMMA ChannelFacts ==
    ASSUME NEW s \in Seq(Outcome), NEW o \in Outcome
    PROVE  /\ Len(s) < 1 => s = <<>> /\ Append(s, o) = <<o>>
           /\ <<o>> \in Seq(Outcome) /\ Len(<<o>>) = 1 /\ <<o>>[1] = o /\ <<o>> # <<>>
           /\ s # <<>> /\ Len(s) <= 1 => Tail(s) = <<>> /\ Head(s) = s[1]
<1>1. /\ <<o>> \in Seq(Outcome) /\ Len(<<o>>) = 1 /\ <<o>>[1] = o /\ <<o>> # <<>>
  OBVIOUS
<1>2. Len(s) < 1 => s = <<>>
  OBVIOUS
<1>3. Append(<<>>, o) = <<o>>
  OBVIOUS
<1>4. s # <<>> /\ Len(s) <= 1 => Tail(s) = <<>> /\ Head(s) = s[1]
  <2>1. s # <<>> => Len(s) # 0
    OBVIOUS
  <2>2. s # <<>> => Head(s) = s[1] /\ Len(Tail(s)) = Len(s) - 1 /\ Tail(s) \in Seq(Outcome)
    OBVIOUS
  <2>3. Len(s) \in Nat /\ \A t \in Seq(Outcome) : Len(t) = 0 => t = <<>>
    OBVIOUS
  <2> QED
    BY <2>1, <2>2, <2>3
<1> QED
  BY <1>1, <1>2, <1>3, <1>4

\* A service that has just started has made no call.
LEMMA UnitInitInv == UnitInit => UnitInv
  BY SystemdUnitAssumption, CallFacts
  DEF UnitInit, UnitInv, UnitTypeOK, OneResult, NotAskedYet, Untouched, OneWaits, OnItsWay,
      ResultIsOwn, Call

\* Every step of a call, of systemd and of the library keeps the invariant.
LEMMA UnitStepInv == UnitInv /\ [UnitNext]_unitVars => UnitInv'
<1> SUFFICES ASSUME UnitInv, [UnitNext]_unitVars PROVE UnitInv'
  OBVIOUS
<1> USE CallFacts, SystemdUnitAssumption
<1> USE DEF UnitInv, UnitTypeOK, OneResult, NotAskedYet, Untouched, OneWaits, OnItsWay,
            ResultIsOwn
<1>1. CASE Begin
  <2>1. n + 1 \in Call /\ n' = n + 1 /\ n + 1 > n
    BY <1>1 DEF Begin, Call
  <2>2. \A c \in Call : c > n' \/ c = n' => c > n
    BY <2>1
  <2>3. waiting = {}
    BY <1>1 DEF Begin, Running
  <2> QED
    BY <1>1, <2>1, <2>2, <2>3 DEF Begin, Call
<1>2. CASE Connect
  BY <1>2 DEF Connect, Finish
<1>3. CASE StartUnit
  BY <1>3 DEF StartUnit
<1>4. CASE StartUnitFails
  BY <1>4 DEF StartUnitFails, Finish
<1>5. CASE ReceiveResult
  <2>1. n \in Call /\ chan[n] # <<>> /\ chan[n] \in Seq(Outcome) /\ Len(chan[n]) <= 1
    BY <1>5 DEF ReceiveResult, Channel
  <2>2. Tail(chan[n]) = <<>> /\ Head(chan[n]) = chan[n][1]
    BY <2>1, ChannelFacts
  <2>3. chan' = [chan EXCEPT ![n] = <<>>] /\ Received(chan[n][1]) /\ waiting' = waiting \ {n}
    BY <1>5, <2>2 DEF ReceiveResult, Channel
  <2>4. at' \in {"dial", "returned"} /\ (at' = "dial" => jobsDone > startedAt)
    BY <1>5, <2>1, <2>3 DEF ReceiveResult, Received
  <2> QED
    BY <1>5, <2>1, <2>3, <2>4 DEF ReceiveResult
<1>6. CASE TimeOut
  BY <1>6 DEF TimeOut, Finish
<1>7. CASE Dial
  BY <1>7 DEF Dial
<1>8. CASE Expire
  BY <1>8 DEF Expire, Running
<1>9. ASSUME NEW outcome \in Outcome, JobEnds(outcome) PROVE UnitInv'
  BY <1>9 DEF JobEnds, Outcome
<1>10. ASSUME NEW c \in Call, Send(c) PROVE UnitInv'
  <2>1. /\ Len(chan[c]) < 1 /\ chan[c] \in Seq(Outcome) /\ sending[c] \in Outcome
        /\ chan' = [chan EXCEPT ![c] = Append(chan[c], sending[c])]
        /\ sending' = [sending EXCEPT ![c] = NoResult]
        /\ UNCHANGED <<active, job, n, waiting, startedAt, jobsDone, stops, at, expired>>
    BY <1>10 DEF Send, Channel, Capacity
  <2>2. chan' = [chan EXCEPT ![c] = <<sending[c]>>]
    BY <2>1, ChannelFacts
  <2>3. /\ <<sending[c]>> \in Seq(Outcome) /\ Len(<<sending[c]>>) = 1
        /\ <<sending[c]>>[1] = sending[c]
    BY <2>1, ChannelFacts
  <2>4. ~(c > n \/ (c = n /\ at \in {"connect", "start"}))
    BY <1>10 DEF Send
  <2> QED
    BY <2>1, <2>2, <2>3, <2>4
<1>11. CASE SomebodyStops
  BY <1>11 DEF SomebodyStops
<1>12. CASE UNCHANGED unitVars
  BY <1>12 DEF unitVars
<1> QED
  BY <1>1, <1>2, <1>3, <1>4, <1>5, <1>6, <1>7, <1>8, <1>9, <1>10, <1>11, <1>12
  DEF UnitNext, CallStep

\* The inductive invariant of the calls, their channels and the jobs
\* (systemd.go:20-57).
THEOREM UnitInvariance == UnitSpec => []UnitInv
  BY UnitInitInv, UnitStepInv, PTL DEF UnitSpec

\* A call goes on only after a job that was done after it had asked for one
\* (systemd.go:41-57).
THEOREM ResultIsOwnAlways == UnitSpec => []ResultIsOwn
<1>1. UnitInv => ResultIsOwn
  BY DEF UnitInv
<1> QED
  BY <1>1, UnitInvariance, PTL

\* A call that waits has no result yet, and gets no second one.
OneJobPerCall ==
    \A c \in Call :
        /\ c \in waiting => chan[c] = <<>> /\ sending[c] = NoResult
        /\ sending[c] # NoResult => chan[c] = <<>>

LEMMA OneJobPerCallStep ==
    ASSUME UnitInv, OneJobPerCall, [UnitNext]_unitVars
    PROVE  OneJobPerCall'
<1> USE CallFacts, SystemdUnitAssumption
<1> USE DEF UnitInv, UnitTypeOK, OneWaits, OneJobPerCall
<1>1. CASE Begin \/ Connect \/ StartUnitFails \/ TimeOut \/ Dial \/ Expire \/ SomebodyStops
  BY <1>1 DEF Begin, Connect, StartUnitFails, TimeOut, Dial, Expire, SomebodyStops, Finish
<1>2. CASE StartUnit
  <2>1. chan[n] = <<>> /\ sending[n] = NoResult
    BY <1>2 DEF StartUnit, NotAskedYet, Untouched
  <2> QED
    BY <1>2, <2>1 DEF StartUnit
<1>3. CASE ReceiveResult
  <2>1. n \in Call /\ chan[n] # <<>> /\ chan[n] \in Seq(Outcome)
    BY <1>3 DEF ReceiveResult, Channel
  <2>2. chan' = [chan EXCEPT ![n] = Tail(chan[n])] /\ waiting' = waiting \ {n} /\ sending' = sending
    BY <1>3 DEF ReceiveResult, Channel
  <2> QED
    BY <2>1, <2>2
<1>4. ASSUME NEW outcome \in Outcome, JobEnds(outcome) PROVE OneJobPerCall'
  BY <1>4 DEF JobEnds
<1>5. ASSUME NEW c \in Call, Send(c) PROVE OneJobPerCall'
  <2>1. /\ chan' = [chan EXCEPT ![c] = Append(chan[c], sending[c])]
        /\ sending' = [sending EXCEPT ![c] = NoResult] /\ waiting' = waiting
    BY <1>5 DEF Send, Channel, Capacity, OneResult
  <2>2. c \notin waiting
    BY <1>5 DEF Send
  <2> QED
    BY <2>1, <2>2
<1>6. CASE UNCHANGED unitVars
  BY <1>6 DEF unitVars
<1> QED
  BY <1>1, <1>2, <1>3, <1>4, <1>5, <1>6 DEF UnitNext, CallStep

\* What ResultsAreTaken comes down to, but for the fairness: a goroutine of the
\* library that has a result finds room in the channel, also when the call that
\* asked has long given up, and however many calls came after (systemd.go:41).
THEOREM SenderIsNeverBlocked ==
    UnitSpec => [](\A c \in Call : sending[c] # NoResult => Len(chan[Channel(c)]) < Capacity)
<1>1. UnitInit => OneJobPerCall
  BY DEF UnitInit, OneJobPerCall
<1>2. OneJobPerCall => \A c \in Call : sending[c] # NoResult => Len(chan[Channel(c)]) < Capacity
  BY DEF OneJobPerCall, Channel, Capacity
<1> QED
  BY <1>1, <1>2, UnitInvariance, OneJobPerCallStep, PTL DEF UnitSpec

-----------------------------------------------------------------------------
(* OS updates (OsUpdate). *)

UpState == [pc : {"idle", "stream"}, path : Path \cup {"none"}, image : Image \cup {"none"}]
UgState == [pc : {"idle", "command", "deploy", "answer"}, call : Nat, path : Path \cup {"none"},
            file : File, reboot : BOOLEAN]

UpdateTypeOK ==
    /\ path \in Path
    /\ staged \in [Path -> File]
    /\ booting \in File
    /\ running \in File
    /\ up \in [Uploader -> UpState]
    /\ ug \in [Upgrader -> UgState]
    /\ timers \subseteq Nat
    /\ upgrades \in Nat

\* A file that has the name of a staging path is whole: it took the name at
\* the end of its upload (server.go:262-264).
StagedIsWhole == \A p \in Path : staged[p] = Nothing \/ staged[p].whole

\* Only whole files are opened, and only what is deployed is answered for.
OpenedIsWhole == \A g \in Upgrader : ug[g].pc = "deploy" => ug[g].file.whole
AnsweredIsDeployed ==
    \A g \in Upgrader :
        ug[g].pc = "answer" => [call |-> ug[g].call, file |-> ug[g].file] \in deployed

\* A handler that runs has the image, or the path, its request began with.
Begun ==
    /\ \A u \in Uploader : up[u].pc = "stream" => up[u].path \in Path /\ up[u].image \in Image
    /\ \A g \in Upgrader : ug[g].pc = "command" => ug[g].path \in Path

UpdateInv == /\ UpdateTypeOK /\ StagedIsWhole /\ OpenedIsWhole /\ AnsweredIsDeployed /\ Begun
        /\ PartialIsNeverApplied /\ RebootFollowsSuccess

\* The files handlers deal with.
LEMMA FileFacts ==
    /\ \A img \in Image \cup {BootImage} : Whole(img) \in File /\ Whole(img).whole
    /\ Nothing \in File
    /\ \A f \in File : f.whole \in BOOLEAN
<1>1. \A img \in Image \cup {BootImage} : Whole(img) \in File /\ Whole(img).whole
  BY DEF Whole, File
<1>2. Nothing \in File
  BY DEF File
<1>3. Nothing.whole \in BOOLEAN
  BY DEF Nothing
<1>4. \A f \in [image : Image \cup {BootImage}, whole : BOOLEAN] : f.whole \in BOOLEAN
  OBVIOUS
<1>5. \A f \in File : f.whole \in BOOLEAN
  BY <1>3, <1>4 DEF File
<1> QED
  BY <1>1, <1>2, <1>5

\* A step of one upgrade leaves the others alone.
LEMMA ToFacts ==
    ASSUME UpdateTypeOK, NEW g \in Upgrader, NEW l \in {"deploy", "answer"}, NEW f \in File,
           To(g, l, f)
    PROVE  /\ ug' \in [Upgrader -> UgState]
           /\ ug'[g].pc = l /\ ug'[g].file = f /\ ug'[g].call = ug[g].call
           /\ \A h \in Upgrader \ {g} : ug'[h] = ug[h]
<1> DEFINE r == [ug[g] EXCEPT !.pc = l, !.file = f]
<1>1. ug \in [Upgrader -> UgState] /\ ug' = [ug EXCEPT ![g] = r]
  BY DEF To, UpdateTypeOK
<1>2. r \in UgState /\ r.pc = l /\ r.file = f /\ r.call = ug[g].call
  BY <1>1 DEF UgState
<1> HIDE DEF r
<1> QED
  BY <1>1, <1>2

\* At first nothing is staged and the host runs its boot image.
LEMMA UpdateInitInv == UpdateInit => UpdateInv
<1> SUFFICES ASSUME UpdateInit PROVE UpdateInv
  OBVIOUS
<1> USE FileFacts DEF UpdateInit
<1>1. IdleUp \in UpState /\ IdleUg \in UgState /\ IdleUp.pc = "idle" /\ IdleUg.pc = "idle"
  BY DEF IdleUp, IdleUg, UpState, UgState
<1>2. UpdateTypeOK
  BY <1>1 DEF UpdateTypeOK
<1>3. StagedIsWhole /\ OpenedIsWhole /\ AnsweredIsDeployed /\ Begun
  BY <1>1 DEF StagedIsWhole, OpenedIsWhole, AnsweredIsDeployed, Begun
<1>4. PartialIsNeverApplied /\ RebootFollowsSuccess
  BY DEF PartialIsNeverApplied, RebootFollowsSuccess
<1> QED
  BY <1>2, <1>3, <1>4 DEF UpdateInv

\* Uploads change what is staged, and only whole.
LEMMA UploadStep ==
    ASSUME UpdateInv, NEW u \in Uploader,
           (\E img \in Image : BeginUpload(u, img)) \/ FinishUpload(u) \/ BreakUpload(u)
    PROVE  UpdateInv'
<1> USE FileFacts DEF UpdateInv, UpdateTypeOK, StagedIsWhole, OpenedIsWhole, AnsweredIsDeployed,
                      Begun, PartialIsNeverApplied, RebootFollowsSuccess, host, counters
<1>1. ASSUME NEW img \in Image, BeginUpload(u, img) PROVE UpdateInv'
  BY <1>1 DEF BeginUpload, UpState
<1>2. CASE FinishUpload(u)
  <2>1. up[u].path \in Path /\ up[u].image \in Image
    BY <1>2 DEF FinishUpload
  <2>2. Whole(up[u].image) \in File /\ Whole(up[u].image).whole
    BY <2>1
  <2>3. staged' \in [Path -> File] /\ StagedIsWhole'
    BY <1>2, <2>1, <2>2 DEF FinishUpload
  <2>4. up' \in [Uploader -> UpState] /\ \A v \in Uploader : up'[v].pc = "stream" => up'[v] = up[v]
    BY <1>2 DEF FinishUpload, IdleUp, UpState
  <2> QED
    BY <1>2, <2>3, <2>4 DEF FinishUpload
<1>3. CASE BreakUpload(u)
  BY <1>3 DEF BreakUpload, IdleUp, UpState
<1> QED
  BY <1>1, <1>2, <1>3

\* An upgrade opens what is staged, deploys what it opened and answers for
\* what it deployed.
LEMMA UpgradeStep ==
    ASSUME UpdateInv, NEW g \in Upgrader,
           \/ \E reboot \in BOOLEAN : BeginUpgrade(g, reboot)
           \/ OpenImage(g) \/ Deploy(g) \/ CommandFails(g) \/ Answer(g)
    PROVE  UpdateInv'
<1> USE FileFacts DEF UpdateInv, UpdateTypeOK, StagedIsWhole, OpenedIsWhole, AnsweredIsDeployed,
                      Begun, PartialIsNeverApplied, RebootFollowsSuccess, host, counters
<1>0. IdleUg \in UgState /\ IdleUg.pc = "idle"
  BY DEF IdleUg, UgState
<1>1. ASSUME NEW reboot \in BOOLEAN, BeginUpgrade(g, reboot) PROVE UpdateInv'
  BY <1>1 DEF BeginUpgrade, UgState
<1>2. CASE OpenImage(g)
  <2>1. ug[g].path \in Path /\ staged[ug[g].path] \in File /\ staged[ug[g].path].whole
    BY <1>2 DEF OpenImage
  <2>2. /\ ug' \in [Upgrader -> UgState]
        /\ ug'[g].pc = "deploy" /\ ug'[g].file = staged[ug[g].path]
        /\ \A h \in Upgrader \ {g} : ug'[h] = ug[h]
    BY <1>2, <2>1, ToFacts DEF OpenImage
  <2> QED
    BY <1>2, <2>1, <2>2 DEF OpenImage
<1>3. CASE Deploy(g)
  <2>1. ug[g].file \in File /\ ug[g].file.whole
    BY <1>3 DEF Deploy, UgState
  <2>2. /\ ug' \in [Upgrader -> UgState]
        /\ ug'[g].pc = "answer" /\ ug'[g].file = ug[g].file /\ ug'[g].call = ug[g].call
        /\ \A h \in Upgrader \ {g} : ug'[h] = ug[h]
    BY <1>3, <2>1, ToFacts DEF Deploy
  <2> QED
    BY <1>3, <2>1, <2>2 DEF Deploy, Switch
<1>4. CASE CommandFails(g)
  <2>1. ug' = [ug EXCEPT ![g] = IdleUg]
    BY <1>4 DEF CommandFails, Leave
  <2>2. booting' \in File /\ booting'.whole /\ deployed \subseteq deployed' /\ running' = running
    BY <1>4 DEF CommandFails, Switch, UgState
  <2> QED
    BY <1>0, <1>4, <2>1, <2>2 DEF CommandFails
<1>5. CASE Answer(g)
  <2> DEFINE a == [call |-> ug[g].call, file |-> ug[g].file, reboot |-> ug[g].reboot]
  <2>1. /\ ug' = [ug EXCEPT ![g] = IdleUg] /\ answered' = answered \cup {a}
        /\ timers' = Timers(g) /\ deployed' = deployed
        /\ [call |-> a.call, file |-> a.file] \in deployed
    BY <1>5 DEF Answer, Leave
  <2>2. timers' \subseteq Nat
    BY <2>1 DEF Timers, UgState
  <2>3. ASSUME NEW c \in timers' \ {ByRestart}
        PROVE  \E b \in answered' : /\ b.call = c /\ b.reboot
                                      /\ [call |-> c, file |-> b.file] \in deployed'
    <3>1. CASE c \in timers
      BY <2>1, <3>1
    <3>2. CASE c \notin timers
      BY <2>1, <3>2 DEF Timers
    <3> QED
      BY <3>1, <3>2
  <2> QED
    BY <1>0, <1>5, <2>1, <2>2, <2>3 DEF Answer
<1> QED
  BY <1>1, <1>2, <1>3, <1>4, <1>5

\* Reboots take every handler down and boot what is deployed; a config moves
\* the path of later requests only.
LEMMA HostStep ==
    ASSUME UpdateInv, Restart \/ Reboot \/ RebootFails \/ \E p \in Path : Configure(p)
    PROVE  UpdateInv'
<1> USE FileFacts DEF UpdateInv, UpdateTypeOK, StagedIsWhole, OpenedIsWhole, AnsweredIsDeployed,
                      Begun, PartialIsNeverApplied, RebootFollowsSuccess, host, counters
<1>0. IdleUp \in UpState /\ IdleUg \in UgState /\ IdleUp.pc = "idle" /\ IdleUg.pc = "idle"
  BY DEF IdleUp, IdleUg, UpState, UgState
<1>1. CASE Restart
  BY <1>1 DEF Restart, ByRestart
<1>2. CASE Reboot
  BY <1>0, <1>2 DEF Reboot
<1>3. CASE RebootFails
  BY <1>3 DEF RebootFails
<1>4. ASSUME NEW p \in Path, Configure(p) PROVE UpdateInv'
  BY <1>4 DEF Configure
<1> QED
  BY <1>1, <1>2, <1>3, <1>4

\* The inductive invariant of the update endpoints: what is staged, opened,
\* deployed and answered for (server.go:253-336).
THEOREM UpdateInvariance == UpdateSpec => []UpdateInv
<1>1. UpdateInv /\ UNCHANGED updateVars => UpdateInv'
  BY DEF UpdateInv, UpdateTypeOK, StagedIsWhole, OpenedIsWhole, AnsweredIsDeployed, Begun,
         PartialIsNeverApplied, RebootFollowsSuccess, updateVars
<1>2. UpdateInv /\ [UpdateNext]_updateVars => UpdateInv'
  BY <1>1, UploadStep, UpgradeStep, HostStep DEF UpdateNext
<1> QED
  BY <1>2, UpdateInitInv, PTL DEF UpdateSpec

\* What the host runs, and what it boots next, is never a partial upload
\* (server.go:262-264).
THEOREM PartialIsNeverAppliedAlways == UpdateSpec => []PartialIsNeverApplied
<1>1. UpdateInv => PartialIsNeverApplied
  BY DEF UpdateInv
<1> QED
  BY <1>1, UpdateInvariance, PTL

\* A pending reboot is that of /restart, or of an upgrade that asked for it
\* and whose image is deployed (server.go:287-292).
THEOREM RebootFollowsSuccessAlways == UpdateSpec => []RebootFollowsSuccess
<1>1. UpdateInv => RebootFollowsSuccess
  BY DEF UpdateInv
<1> QED
  BY <1>1, UpdateInvariance, PTL
=============================================================================
