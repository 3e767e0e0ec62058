-------------------------- MODULE NodeServiceProofs --------------------------
(***************************************************************************)
(* Proofs about NodeService, for every set of configurations and uploads   *)
(* and every bound.  The inductive invariant IInv says what applyMu is     *)
(* for: whoever is between the read or the write of the config file and    *)
(* the end of the apply is the holder of the lock, and therefore alone.    *)
(***************************************************************************)
EXTENDS NodeService, TLAPS

\* The program points between Lock and Unlock.
Holding == {"load", "save", "sync", "apply"}

Mutex == \A op \in Op : pc[op] \in Holding => lock = op

\* An upload past its validation carries a configuration that validates, and
\* so does whoever applies.
Parsed ==
    \A op \in Op :
        \/ pc[op] = "apply"
        \/ pc[op] \in {"lock", "save", "sync"} /\ op \in Upload
        => cfg[op] \in Config

\* From the rename to the end of the apply the file is the goroutine's own.
OwnsDisk == \A op \in Op : pc[op] \in {"sync", "apply"} => cfg[op] = disk

\* Outside the stretch from the rename to the end of the apply, an apply that
\* ended well is still in force.
OkHolds ==
    outcome = "ok" /\ (\A op \in Op : pc[op] \notin {"sync", "apply"})
        => \A s \in Step : host[s] = disk

\* Nothing runs while the process is down.
DownIsIdle == proc = "down" => \A op \in Op : pc[op] \in {"idle", "done"}

LockInv == Mutex /\ Parsed /\ OwnsDisk /\ DownIsIdle

HostInv == AppliedPrefix /\ OkHolds

IInv == TypeOK /\ LockInv /\ HostInv

\* The proofs use of the list of steps only that it is not empty.
LEMMA StepFacts == Last \in Nat /\ Last >= 1 /\ Step = 1..Last /\ 1 \in Step
  <1>1. Last = 8
    BY DEF Last, ApplySteps
  <1> QED
    BY <1>1 DEF Step

\* A process that starts (orchestration.go:55-66) satisfies the invariant.
LEMMA InitIInv == Init => IInv
  <1> USE NodeServiceAssumption, StepFacts DEF NodeServiceAssumption
  <1> SUFFICES ASSUME Init PROVE IInv
    OBVIOUS
  <1>1. TypeOK
    <2>1. rebooting \in BOOLEAN
      BY DEF Init
    <2> QED
      BY <2>1 DEF Init, TypeOK, Op
  <1>2. LockInv /\ HostInv
    BY DEF Init, LockInv, Mutex, Holding, Parsed, OwnsDisk, DownIsIdle, HostInv,
           AppliedPrefix, OkHolds, Op
  <1> QED
    BY <1>1, <1>2 DEF IInv

\* Every handler, reconcile and outage keeps the types; a step of an apply needs
\* that its configuration was read by then (Parsed).
LEMMA NextTypeOK == ASSUME TypeOK, Parsed, [Next]_vars PROVE TypeOK'
  <1> USE NodeServiceAssumption, StepFacts DEF NodeServiceAssumption, TypeOK
  <1>1. CASE Boot
    BY <1>1 DEF Boot, Op
  <1>2. ASSUME NEW u \in Upload, NEW c \in Config, Receive(u, c) PROVE TypeOK'
    BY <1>2 DEF Receive, Op
  <1>3. ASSUME NEW u \in Upload, Reject(u) PROVE TypeOK'
    BY <1>3 DEF Reject, Op
  <1>4. ASSUME NEW op \in Op, Acquire(op) PROVE TypeOK'
    BY <1>4 DEF Acquire
  <1>5. CASE Load
    BY <1>5 DEF Load, Release, Op
  <1>6. ASSUME NEW u \in Upload, Rename(u) PROVE TypeOK'
    BY <1>6 DEF Rename, Op
  <1>7. ASSUME NEW u \in Upload, SaveFails(u) PROVE TypeOK'
    BY <1>7 DEF SaveFails, Fault, Release, Op
  <1>8. ASSUME NEW u \in Upload, SyncDir(u) PROVE TypeOK'
    BY <1>8 DEF SyncDir, Durable, Op
  <1>9. ASSUME NEW u \in Upload, SyncFails(u) PROVE TypeOK'
    BY <1>9 DEF SyncFails, Fault, Release, Op
  <1>10. ASSUME NEW op \in Op, StepOk(op) PROVE TypeOK'
    <2>1. cfg[op] \in Config /\ step[op] \in 1..Last
      BY <1>10 DEF StepOk, Parsed
    <2>2. host' \in [Step -> Config \cup {Drift}]
      BY <1>10, <2>1 DEF StepOk
    <2>3. CASE step[op] < Last
      BY <1>10, <2>1, <2>2, <2>3 DEF StepOk
    <2>4. CASE ~(step[op] < Last)
      <3>1. Release(op, "200", "ok") /\ step' = step
        BY <1>10, <2>4 DEF StepOk
      <3>2. resp' \in [Upload -> {"none", "200", "400", "500", "lost"}]
        BY <3>1 DEF Release
      <3> QED
        BY <1>10, <2>2, <3>1, <3>2 DEF StepOk, Release
    <2> QED
      BY <2>3, <2>4
  <1>11. ASSUME NEW op \in Op, StepFails(op) PROVE TypeOK'
    BY <1>11 DEF StepFails, Fault, MaybeDisturbed, Disturbed, Release
  <1>12. CASE Restart
    BY <1>12 DEF Restart
  <1>13. CASE RebootFails
    <2>1. rebooting' \in BOOLEAN
      BY <1>13 DEF RebootFails
    <2>2. faults' \in 0..MaxFaults
      BY <1>13 DEF RebootFails, Fault
    <2> QED
      BY <1>13, <2>1, <2>2 DEF RebootFails
  <1>14. ASSUME ProcessEnds, host' \in [Step -> Config \cup {Drift}],
                disk' \in Config \cup {BadConfig},
                survivors' \in SUBSET (Config \cup {BadConfig})
         PROVE  TypeOK'
    <2>1. rebooting' \in BOOLEAN
      BY <1>14 DEF ProcessEnds
    <2>2. outages' \in 0..MaxOutages
      BY <1>14 DEF ProcessEnds
    <2>3. /\ pc' \in [Op -> {"idle", "lock", "load", "save", "sync", "apply", "done"}]
          /\ resp' \in [Upload -> {"none", "200", "400", "500", "lost"}]
      BY <1>14 DEF ProcessEnds
    <2> QED
      BY <1>14, <2>1, <2>2, <2>3 DEF ProcessEnds
  <1>15. CASE Crash
    BY <1>14, <1>15 DEF Crash, Disturbed
  <1>16. CASE Reboot
    BY <1>14, <1>16 DEF Reboot
  <1>17. CASE PowerLoss
    BY <1>14, <1>17 DEF PowerLoss
  <1>18. CASE UNCHANGED vars
    BY <1>18 DEF vars
  <1> QED
    BY <1>1, <1>2, <1>3, <1>4, <1>5, <1>6, <1>7, <1>8, <1>9, <1>10, <1>11,
       <1>12, <1>13, <1>15, <1>16, <1>17, <1>18 DEF Next, Work

\* Only the holder of the lock moves to or within the protected stretch, and
\* it is alone there: its writes to the file disturb nobody else.
LEMMA NextLockInv == ASSUME TypeOK, LockInv, [Next]_vars PROVE LockInv'
  <1> USE NodeServiceAssumption
      DEF NodeServiceAssumption, TypeOK, LockInv, Mutex, Parsed, OwnsDisk,
          DownIsIdle, Holding
  <1>1. CASE Boot
    BY <1>1 DEF Boot, Op
  <1>2. ASSUME NEW u \in Upload, NEW c \in Config, Receive(u, c) PROVE LockInv'
    BY <1>2 DEF Receive, Op
  <1>3. ASSUME NEW u \in Upload, Reject(u) PROVE LockInv'
    BY <1>3 DEF Reject, Op
  <1>4. ASSUME NEW op \in Op, Acquire(op) PROVE LockInv'
    BY <1>4 DEF Acquire, LockIsFree, Op
  <1>5. CASE Load
    BY <1>5 DEF Load, Release, Op
  <1>6. ASSUME NEW u \in Upload, Rename(u) PROVE LockInv'
    BY <1>6 DEF Rename, Op
  <1>7. ASSUME NEW u \in Upload, SaveFails(u) PROVE LockInv'
    BY <1>7 DEF SaveFails, Release, Op
  <1>8. ASSUME NEW u \in Upload, SyncDir(u) PROVE LockInv'
    BY <1>8 DEF SyncDir, Op
  <1>9. ASSUME NEW u \in Upload, SyncFails(u) PROVE LockInv'
    BY <1>9 DEF SyncFails, Release, Op
  <1>10. ASSUME NEW op \in Op, StepOk(op) PROVE LockInv'
    <2>1. CASE step[op] < Last
      BY <1>10, <2>1 DEF StepOk
    <2>2. CASE ~(step[op] < Last)
      BY <1>10, <2>2 DEF StepOk, Release
    <2> QED
      BY <2>1, <2>2
  <1>11. ASSUME NEW op \in Op, StepFails(op) PROVE LockInv'
    BY <1>11 DEF StepFails, Release
  <1>12. CASE Restart \/ RebootFails
    BY <1>12 DEF Restart, RebootFails
  <1>13. ASSUME ProcessEnds PROVE LockInv'
    BY <1>13 DEF ProcessEnds
  <1>14. CASE Crash \/ Reboot \/ PowerLoss
    BY <1>13, <1>14 DEF Crash, Reboot, PowerLoss
  <1>15. CASE UNCHANGED vars
    BY <1>15 DEF vars
  <1> QED
    BY <1>1, <1>2, <1>3, <1>4, <1>5, <1>6, <1>7, <1>8, <1>9, <1>10, <1>11,
       <1>12, <1>14, <1>15 DEF Next, Work

\* The host changes only in a step of the one apply under way.
LEMMA NextHostInv ==
    ASSUME TypeOK, LockInv, HostInv, [Next]_vars PROVE HostInv'
  <1> USE NodeServiceAssumption, StepFacts
      DEF NodeServiceAssumption, TypeOK, LockInv, Mutex, OwnsDisk, DownIsIdle,
          Holding, HostInv, AppliedPrefix, OkHolds
  <1>1. CASE Boot
    BY <1>1 DEF Boot, Op
  <1>2. ASSUME NEW u \in Upload, NEW c \in Config, Receive(u, c) PROVE HostInv'
    BY <1>2 DEF Receive, Op
  <1>3. ASSUME NEW u \in Upload, Reject(u) PROVE HostInv'
    BY <1>3 DEF Reject, Op
  <1>4. ASSUME NEW op \in Op, Acquire(op) PROVE HostInv'
    BY <1>4 DEF Acquire, LockIsFree, Op
  <1>5. CASE Load
    BY <1>5 DEF Load, Release, Op
  <1>6. ASSUME NEW u \in Upload, Rename(u) PROVE HostInv'
    BY <1>6 DEF Rename, Op
  <1>7. ASSUME NEW u \in Upload, SaveFails(u) PROVE HostInv'
    BY <1>7 DEF SaveFails, Release, Op
  <1>8. ASSUME NEW u \in Upload, SyncDir(u) PROVE HostInv'
    BY <1>8 DEF SyncDir, Op
  <1>9. ASSUME NEW u \in Upload, SyncFails(u) PROVE HostInv'
    BY <1>9 DEF SyncFails, Release, Op
  <1>10. ASSUME NEW op \in Op, StepOk(op) PROVE HostInv'
    <2>1. /\ pc[op] = "apply" /\ cfg[op] = disk /\ step[op] \in 1..Last
          /\ \A other \in Op : other # op => pc[other] \notin Holding
      BY <1>10 DEF StepOk
    <2>2. \A s \in Step : s <= step[op] => host'[s] = disk
      BY <1>10, <2>1 DEF StepOk
    <2>3. CASE step[op] < Last
      BY <1>10, <2>1, <2>2, <2>3 DEF StepOk
    <2>4. CASE ~(step[op] < Last)
      BY <1>10, <2>1, <2>2, <2>4 DEF StepOk, Release
    <2> QED
      BY <2>3, <2>4
  <1>11. ASSUME NEW op \in Op, StepFails(op) PROVE HostInv'
    BY <1>11 DEF StepFails, MaybeDisturbed, Disturbed, Release
  <1>12. CASE Restart \/ RebootFails
    BY <1>12 DEF Restart, RebootFails
  <1>13. ASSUME ProcessEnds PROVE HostInv'
    BY <1>13 DEF ProcessEnds
  <1>14. CASE Crash \/ Reboot \/ PowerLoss
    BY <1>13, <1>14 DEF Crash, Reboot, PowerLoss
  <1>15. CASE UNCHANGED vars
    BY <1>15 DEF vars
  <1> QED
    BY <1>1, <1>2, <1>3, <1>4, <1>5, <1>6, <1>7, <1>8, <1>9, <1>10, <1>11,
       <1>12, <1>14, <1>15 DEF Next, Work

\* The inductive invariant holds of every behaviour: one goroutine at a time is
\* between taking and releasing applyMu (server.go:227, orchestration.go:61-66),
\* the file holds what it applies, and the host matches the steps it has done.
THEOREM Invariance == Spec => []IInv
  <1>1. ASSUME IInv, [Next]_vars PROVE IInv'
    BY <1>1, NextTypeOK, NextLockInv, NextHostInv DEF IInv, LockInv
  <1> QED
    BY InitIInv, <1>1, PTL DEF Spec

\* Every variable of the process, its config file and its host keeps its type,
\* whatever the configurations, the uploads and the bounds.
THEOREM TypeCorrect == Spec => []TypeOK
  BY Invariance, PTL DEF IInv

\* No upload and no startup reconcile replaces the config file while another
\* goroutine is applying it (applyMu, orchestration.go:14-19).
THEOREM ApplyUsesDiskAlways == Spec => []ApplyUsesDisk
  <1>1. IInv => ApplyUsesDisk
    BY DEF IInv, LockInv, OwnsDisk, ApplyUsesDisk
  <1> QED
    BY Invariance, <1>1, PTL

\* The steps of two applies (orchestration.go:94-149) never interleave on the host.
THEOREM AppliedPrefixAlways == Spec => []AppliedPrefix
  BY Invariance, PTL DEF IInv, HostInv

\* A host that differs from the config file, with nothing under way, is not one
\* the last apply called a success (server.go:237-245, orchestration.go:69-71).
THEOREM DriftIsReportedAlways == Spec => []DriftIsReported
  <1>1. IInv => DriftIsReported
    BY NodeServiceAssumption
       DEF NodeServiceAssumption, IInv, LockInv, Mutex, Holding, HostInv,
           OkHolds, DriftIsReported, Op
  <1> QED
    BY Invariance, <1>1, PTL

-----------------------------------------------------------------------------
(***************************************************************************)
(* Acknowledged uploads.  When an upload is answered 200 its rename is the *)
(* last one and syncDir has made it the only content a power loss can      *)
(* leave; later renames only add later uploads.                            *)
(***************************************************************************)
LastSaved == \A u \in Upload : pc[u] \in {"sync", "apply"} =>
                saved # <<>> /\ saved[Len(saved)] = u

OnlyDiskSurvives == \A u \in Upload : pc[u] = "apply" => survivors = {disk}

\* A saved upload is past the point where its configuration is set.
SavedIsFrozen == \A i \in DOMAIN saved : pc[saved[i]] \in {"sync", "apply", "done"}

AckInv == LastSaved /\ OnlyDiskSurvives /\ SavedIsFrozen /\ AckedUploadSurvives

\* The length and the elements of a sequence of saved uploads after one more.
LEMMA AppendFacts ==
    ASSUME NEW S, NEW s \in Seq(S), NEW x \in S, NEW t, t = Append(s, x)
    PROVE  /\ Len(s) \in Nat /\ Len(t) = Len(s) + 1 /\ t # <<>>
           /\ DOMAIN s = 1..Len(s) /\ DOMAIN t = 1..(Len(s) + 1)
           /\ t[Len(s) + 1] = x /\ \A i \in 1..Len(s) : t[i] = s[i]
  <1>1. Len(s) \in Nat /\ DOMAIN s = 1..Len(s) /\ DOMAIN t = 1..(Len(s) + 1)
    OBVIOUS
  <1> QED
    BY <1>1

\* SavedSince(u) is kept as long as the saved uploads keep their configurations.
LEMMA SavedSinceKept ==
    ASSUME saved' = saved, \A i \in DOMAIN saved : cfg'[saved[i]] = cfg[saved[i]],
           NEW u \in Upload
    PROVE  SavedSince(u)' = SavedSince(u)
  BY DEF SavedSince

\* An upload that is saved joins what was saved since any earlier one.
LEMMA SavedSinceGrows ==
    ASSUME saved \in Seq(Upload), NEW w \in Upload, saved' = Append(saved, w),
           cfg' = cfg, NEW u \in Upload, SavedSince(u) # {}
    PROVE  SavedSince(u) \cup {cfg[w]} \subseteq SavedSince(u)'
  <1>1. /\ Len(saved') = Len(saved) + 1 /\ saved'[Len(saved) + 1] = w
        /\ \A i \in 1..Len(saved) : saved'[i] = saved[i]
        /\ DOMAIN saved = 1..Len(saved) /\ DOMAIN saved' = 1..(Len(saved) + 1)
        /\ Len(saved) \in Nat
    BY AppendFacts
  <1>2. ASSUME NEW k \in DOMAIN saved, NEW j \in 1..k, saved[j] = u
        PROVE  cfg[saved[k]] \in SavedSince(u)' /\ cfg[w] \in SavedSince(u)'
    <2>1. j \in 1..k /\ saved'[j] = u /\ k \in DOMAIN saved'
          /\ saved'[k] = saved[k]
      BY <1>1, <1>2
    <2>2. j \in 1..(Len(saved) + 1) /\ Len(saved) + 1 \in DOMAIN saved'
      BY <1>1, <1>2
    <2> QED
      BY <1>1, <2>1, <2>2 DEF SavedSince
  <1> QED
    BY <1>2 DEF SavedSince

\* The last upload saved is among those saved since itself.
LEMMA LastIsSaved ==
    ASSUME saved \in Seq(Upload), NEW u \in Upload, saved # <<>>,
           saved[Len(saved)] = u
    PROVE  cfg[u] \in SavedSince(u)
  <1>1. Len(saved) \in DOMAIN saved /\ Len(saved) \in 1..Len(saved)
    OBVIOUS
  <1> QED
    BY <1>1 DEF SavedSince

\* Before the first upload nothing is acknowledged.
LEMMA InitAckInv == Init => AckInv
  <1>1. Init => LastSaved /\ OnlyDiskSurvives /\ AckedUploadSurvives
    BY DEF Init, LastSaved, OnlyDiskSurvives, AckedUploadSurvives, Op
  <1>2. Init => SavedIsFrozen
    BY DEF Init, SavedIsFrozen
  <1> QED
    BY <1>1, <1>2 DEF AckInv

\* An acknowledged upload stays in the file or is replaced by a later one: in a
\* save (fileio.go:109-114), an answer (server.go:248-250), a crash or a power loss.
LEMMA NextAckInv == ASSUME IInv, AckInv, [Next]_vars PROVE AckInv'
  <1> USE NodeServiceAssumption
      DEF NodeServiceAssumption, IInv, LockInv, TypeOK, AckInv, LastSaved,
          OnlyDiskSurvives, SavedIsFrozen
  <1>0. \A i \in DOMAIN saved : saved[i] \in Upload
    OBVIOUS
  \* What does not touch the files: the answers given so far stay good.
  <1>1. ASSUME saved' = saved,
               \A i \in DOMAIN saved : cfg'[saved[i]] = cfg[saved[i]],
               {disk'} \cup survivors' \subseteq {disk} \cup survivors,
               \A u \in Upload : resp'[u] = "200" => resp[u] = "200"
        PROVE  AckedUploadSurvives'
    BY <1>1, SavedSinceKept DEF AckedUploadSurvives
  <1>2. CASE Boot
    BY <1>0, <1>1, <1>2 DEF Boot, Op
  <1>3. ASSUME NEW u \in Upload, NEW c \in Config, Receive(u, c) PROVE AckInv'
    <2>1. \A i \in DOMAIN saved : saved[i] # u
      BY <1>3 DEF Receive
    <2> QED
      BY <1>0, <1>1, <1>3, <2>1 DEF Receive, Op
  <1>4. ASSUME NEW u \in Upload, Reject(u) PROVE AckInv'
    <2>1. \A v \in Upload : resp'[v] = "200" => resp[v] = "200"
      BY <1>4 DEF Reject
    <2> QED
      BY <1>0, <1>1, <1>4, <2>1 DEF Reject, Op
  <1>5. ASSUME NEW op \in Op, Acquire(op) PROVE AckInv'
    BY <1>0, <1>1, <1>5 DEF Acquire, Op
  <1>6. CASE Load
    BY <1>0, <1>1, <1>6 DEF Load, Release, Op
  <1>7. ASSUME NEW u \in Upload, Rename(u) PROVE AckInv'
    <2>1. \A v \in Op : v # u => pc[v] \notin {"sync", "apply"}
      BY <1>7 DEF Rename, Mutex, Holding, Op
    <2>2. /\ saved' = Append(saved, u) /\ saved' # <<>> /\ saved'[Len(saved')] = u
          /\ \A i \in DOMAIN saved' :
                saved'[i] = u \/ (i \in DOMAIN saved /\ saved'[i] = saved[i])
      <3>1. saved \in Seq(Upload) /\ saved' = Append(saved, u)
        BY <1>7 DEF Rename
      <3> HIDE DEF TypeOK
      <3>2. /\ Len(saved) \in Nat /\ Len(saved') = Len(saved) + 1 /\ saved' # <<>>
            /\ DOMAIN saved = 1..Len(saved) /\ DOMAIN saved' = 1..(Len(saved) + 1)
            /\ saved'[Len(saved) + 1] = u
            /\ \A i \in 1..Len(saved) : saved'[i] = saved[i]
        BY <3>1, AppendFacts
      <3>3. \A i \in 1..(Len(saved) + 1) : i = Len(saved) + 1 \/ i \in 1..Len(saved)
        BY <3>2
      <3> QED
        BY <3>1, <3>2, <3>3, Zenon
    <2>3. LastSaved' /\ OnlyDiskSurvives' /\ SavedIsFrozen'
      BY <1>0, <1>7, <2>1, <2>2 DEF Rename, Op
    <2>4. ASSUME NEW v \in Upload, resp[v] = "200"
          PROVE  {disk'} \cup survivors' \subseteq SavedSince(v)'
      <3>1. {disk} \cup survivors \subseteq SavedSince(v) /\ SavedSince(v) # {}
        BY <2>4 DEF AckedUploadSurvives
      <3>2. SavedSince(v) \cup {cfg[u]} \subseteq SavedSince(v)'
        BY <1>7, <2>2, <3>1, SavedSinceGrows DEF Rename
      <3> QED
        BY <1>7, <3>1, <3>2 DEF Rename
    <2>5. AckedUploadSurvives'
      BY <1>7, <2>4 DEF Rename, AckedUploadSurvives
    <2> QED
      BY <2>3, <2>5
  <1>8. ASSUME NEW u \in Upload, SaveFails(u) \/ SyncFails(u) PROVE AckInv'
    <2>1. \A v \in Upload : resp'[v] = "200" => resp[v] = "200"
      BY <1>8 DEF SaveFails, SyncFails, Release, Op
    <2> QED
      BY <1>0, <1>1, <1>8, <2>1 DEF SaveFails, SyncFails, Release, Op
  <1>9. ASSUME NEW u \in Upload, SyncDir(u) PROVE AckInv'
    <2>1. \A v \in Op : v # u => pc[v] # "apply"
      BY <1>9 DEF SyncDir, Mutex, Holding, Op
    <2> QED
      BY <1>0, <1>1, <1>9, <2>1 DEF SyncDir, Durable, Op
  <1>10. ASSUME NEW op \in Op, StepOk(op), step[op] < Last PROVE AckInv'
    BY <1>1, <1>10 DEF StepOk
  <1>11. ASSUME NEW op \in Op, StepOk(op), ~(step[op] < Last) PROVE AckInv'
    <2>1. /\ Release(op, "200", "ok") /\ pc[op] = "apply"
          /\ UNCHANGED <<cfg, disk, survivors, saved>>
      BY <1>11 DEF StepOk
    <2>2. LastSaved' /\ OnlyDiskSurvives' /\ SavedIsFrozen'
      BY <1>0, <2>1 DEF Release
    <2>3. ASSUME NEW v \in Upload, resp'[v] = "200"
          PROVE  {disk} \cup survivors \subseteq SavedSince(v)
      <3>1. CASE v = op
        <4>1. survivors = {disk} /\ cfg[v] = disk
          BY <2>1, <3>1 DEF OwnsDisk
        <4> QED
          BY <2>1, <3>1, <4>1, LastIsSaved
      <3>2. CASE v # op
        BY <2>1, <2>3, <3>2 DEF Release, AckedUploadSurvives
      <3> QED
        BY <3>1, <3>2
    <2>4. AckedUploadSurvives'
      BY <2>1, <2>3, SavedSinceKept DEF AckedUploadSurvives
    <2> QED
      BY <2>2, <2>4
  <1>12. ASSUME NEW op \in Op, StepFails(op) PROVE AckInv'
    <2>1. \A v \in Upload : resp'[v] = "200" => resp[v] = "200"
      BY <1>12 DEF StepFails, Release
    <2> QED
      BY <1>0, <1>1, <1>12, <2>1 DEF StepFails, Release
  <1>13. CASE Restart \/ RebootFails
    BY <1>1, <1>13 DEF Restart, RebootFails
  <1>14. ASSUME ProcessEnds,
                {disk'} \cup survivors' \subseteq {disk} \cup survivors
         PROVE  AckInv'
    <2>1. \A v \in Upload : resp'[v] = "200" => resp[v] = "200"
      BY <1>14 DEF ProcessEnds
    <2>2. AckedUploadSurvives'
      BY <1>1, <1>14, <2>1 DEF ProcessEnds
    <2>3. LastSaved' /\ OnlyDiskSurvives' /\ SavedIsFrozen'
      BY <1>0, <1>14 DEF ProcessEnds, Op
    <2> QED
      BY <2>2, <2>3
  <1>15. CASE Crash \/ Reboot \/ PowerLoss
    BY <1>14, <1>15 DEF Crash, Reboot, PowerLoss
  <1>16. CASE UNCHANGED vars
    BY <1>1, <1>16 DEF vars
  <1> QED
    BY <1>2, <1>3, <1>4, <1>5, <1>6, <1>7, <1>8, <1>9, <1>10, <1>11, <1>12,
       <1>13, <1>15, <1>16 DEF Next, Work

\* An upload answered 200 is in the config file, or a later upload is, after
\* any sequence of crashes, reboots and power losses.
THEOREM AckedUploadAlwaysSurvives == Spec => []AckedUploadSurvives
  <1>1. IInv /\ AckInv /\ [Next]_vars => AckInv'
    BY NextAckInv
  <1> QED
    BY InitAckInv, Invariance, <1>1, PTL DEF Spec, AckInv

-----------------------------------------------------------------------------
(***************************************************************************)
(* The process implements DesiredState.  A step that leaves the host alone *)
(* maps to Declare, one that leaves a part of it adrift to Diverge, and a  *)
(* step of an apply to Converge when it makes the whole host match, which  *)
(* can only be the configuration in the file.                              *)
(***************************************************************************)
LEMMA WholeFacts ==
    ASSUME NEW h
    PROVE  /\ (\E s \in Step : h[s] = Drift) => Whole(h) = Drift
           /\ \A c \in Config, s \in Step : h[s] = c => Whole(h) \in {c, Drift}
  BY NodeServiceAssumption, StepFacts DEF NodeServiceAssumption, Whole

\* Every step of the process is a step of DesiredState or leaves it unchanged.
LEMMA PromiseStep ==
    ASSUME IInv, IInv', [Next]_vars
    PROVE  [Promise!Next]_(Promise!vars)
  <1> USE NodeServiceAssumption DEF NodeServiceAssumption
  <1>0. disk \in Config \cup {BadConfig} /\ disk' \in Config \cup {BadConfig}
    BY DEF IInv, TypeOK
  <1>1. ASSUME host' = host PROVE Promise!Next
    BY <1>0, <1>1 DEF Promise!Next, Promise!Declare
  <1>2. ASSUME NEW s \in Step, host'[s] = Drift PROVE Promise!Next
    <2>1. Whole(host') = Drift
      BY <1>2, WholeFacts
    <2> QED
      BY <1>0, <2>1 DEF Promise!Next, Promise!Diverge
  <1>3. ASSUME NEW op \in Op, StepOk(op) PROVE Promise!Next
    <2>1. cfg[op] \in Config /\ cfg[op] = disk /\ step[op] \in Step
      BY <1>3 DEF StepOk, IInv, TypeOK, LockInv, Parsed, OwnsDisk
    <2>2. host'[step[op]] = disk /\ disk' = disk
      BY <1>3, <2>1 DEF StepOk, IInv, TypeOK
    <2>3. Whole(host') \in {disk, Drift}
      BY <2>1, <2>2, WholeFacts
    <2> QED
      BY <1>0, <2>1, <2>2, <2>3
         DEF Promise!Next, Promise!Diverge, Promise!Converge
  <1>4. ASSUME NEW op \in Op, StepFails(op) PROVE Promise!Next
    <2>1. step[op] \in Step /\ host \in [Step -> Config \cup {Drift}]
      BY <1>4 DEF IInv, TypeOK
    <2>2. host' = host \/ host'[step[op]] = Drift
      BY <1>4, <2>1 DEF StepFails, MaybeDisturbed, Disturbed
    <2> QED
      BY <1>1, <1>2, <2>1, <2>2
  <1>5. CASE Crash
    <2>1. PICK op \in Op : host' = host \/ host' = Disturbed(step[op], host)
      BY <1>5 DEF Crash, Op
    <2>2. step[op] \in Step /\ host \in [Step -> Config \cup {Drift}]
      BY DEF IInv, TypeOK
    <2>3. host' = host \/ host'[step[op]] = Drift
      BY <2>1, <2>2 DEF Disturbed
    <2> QED
      BY <1>1, <1>2, <2>2, <2>3
  <1>6. CASE Reboot \/ PowerLoss
    <2>1. host'[1] = Drift /\ 1 \in Step
      BY <1>6, StepFacts DEF Reboot, PowerLoss
    <2> QED
      BY <1>2, <2>1
  <1>7. ASSUME NEW op \in Op, Acquire(op) \/ Load PROVE Promise!Next
    BY <1>1, <1>7 DEF Acquire, Load
  <1>8. ASSUME NEW u \in Upload, Rename(u) \/ SaveFails(u) \/ SyncDir(u) \/ SyncFails(u)
        PROVE  Promise!Next
    BY <1>1, <1>8 DEF Rename, SaveFails, SyncDir, SyncFails
  <1>9. ASSUME NEW u \in Upload, Reject(u) \/ \E c \in Config : Receive(u, c)
        PROVE  Promise!Next
    BY <1>1, <1>9 DEF Reject, Receive
  <1>10. CASE Boot \/ Restart \/ RebootFails
    BY <1>1, <1>10 DEF Boot, Restart, RebootFails
  <1>11. CASE UNCHANGED vars
    BY <1>11 DEF vars, Promise!vars
  <1> QED
    BY <1>3, <1>4, <1>5, <1>6, <1>7, <1>8, <1>9, <1>10, <1>11 DEF Next, Work

\* However uploads, reconciles, failures and outages interleave, the host comes
\* to match a configuration as a whole only when the config file holds it.
THEOREM KeepsPromise == Spec => PromiseKept
  <1>1. Init => Promise!Init
    <2> SUFFICES ASSUME Init PROVE Promise!Init
      OBVIOUS
    <2>1. host[1] = Drift /\ 1 \in Step
      BY StepFacts DEF Init
    <2> QED
      BY <2>1, WholeFacts DEF Init, Promise!Init
  <1> QED
    BY <1>1, Invariance, PromiseStep, PTL DEF Spec, PromiseKept, Promise!Spec

-----------------------------------------------------------------------------
\* The other half of Mutex: whoever has the lock is at work.
HolderWorks == lock # NoOne => proc = "up" /\ pc[lock] \in Holding

\* How much the holder has left to do.
WorkLeft(op) ==
    CASE pc[op] \in {"load", "save"} -> Last + 2
      [] pc[op] = "sync" -> Last + 1
      [] pc[op] = "apply" -> Last + 1 - step[op]
      [] OTHER -> 0

LEMMA WorkLeftIs ==
    ASSUME NEW op \in Op
    PROVE  /\ pc[op] \in {"load", "save"} => WorkLeft(op) = Last + 2
           /\ pc[op] = "sync" => WorkLeft(op) = Last + 1
           /\ pc[op] = "apply" => WorkLeft(op) = Last + 1 - step[op]
           /\ pc[op] \notin Holding => WorkLeft(op) = 0
  BY DEF WorkLeft, Holding

LEMMA NextHolderWorks ==
    ASSUME IInv, HolderWorks, [Next]_vars PROVE HolderWorks'
  <1> USE NodeServiceAssumption
      DEF NodeServiceAssumption, IInv, TypeOK, LockInv, Mutex, DownIsIdle, Holding,
          HolderWorks
  <1>1. CASE Boot
    BY <1>1 DEF Boot, Op
  <1>2. ASSUME NEW u \in Upload, Reject(u) \/ \E c \in Config : Receive(u, c)
        PROVE  HolderWorks'
    BY <1>2 DEF Reject, Receive, Op
  <1>3. ASSUME NEW op \in Op, Acquire(op) PROVE HolderWorks'
    BY <1>3 DEF Acquire, LockIsFree, Op
  <1>4. CASE Load
    BY <1>4 DEF Load, Release, Op
  <1>5. ASSUME NEW u \in Upload, Rename(u) \/ SyncDir(u) PROVE HolderWorks'
    BY <1>5 DEF Rename, SyncDir, Op
  <1>6. ASSUME NEW u \in Upload, SaveFails(u) \/ SyncFails(u) PROVE HolderWorks'
    BY <1>6 DEF SaveFails, SyncFails, Release
  <1>7. ASSUME NEW op \in Op, StepOk(op) \/ StepFails(op) PROVE HolderWorks'
    BY <1>7 DEF StepOk, StepFails, Release
  <1>8. CASE Restart \/ RebootFails
    BY <1>8 DEF Restart, RebootFails
  <1>9. CASE Crash \/ Reboot \/ PowerLoss
    BY <1>9 DEF Crash, Reboot, PowerLoss, ProcessEnds
  <1>10. CASE UNCHANGED vars
    BY <1>10 DEF vars
  <1> QED
    BY <1>1, <1>2, <1>3, <1>4, <1>5, <1>6, <1>7, <1>8, <1>9, <1>10 DEF Next, Work

\* applyMu is never leaked: on every path through a save and an apply, the ones
\* that fail and the ones cut short by an outage included, a lock that is held is
\* held by a goroutine of the running process that is on its way to the Unlock
\* (server.go:227, orchestration.go:61-68).
THEOREM LockIsNeverLeaked == Spec => []HolderWorks
  <1>1. Init => HolderWorks
    BY DEF Init, HolderWorks
  <1> QED
    BY <1>1, Invariance, NextHolderWorks, PTL DEF Spec

\* A hold ends by the holder's own work or with the process; every step of the
\* holder brings the end closer, and nobody else's puts it off.
Shrinks(op) ==
    \/ /\ lock' = op
       /\ IF Work(op) THEN WorkLeft(op)' < WorkLeft(op) ELSE WorkLeft(op)' = WorkLeft(op)
    \/ lock' = NoOne /\ (Work(op) \/ ProcessEnds)

HoldIsBounded ==
    [][\A op \in Op : lock = op => WorkLeft(op) \in 1..(Last + 2) /\ Shrinks(op)]_vars

LEMMA WorkShrinks ==
    ASSUME IInv, NEW op \in Op, lock = op, Work(op)
    PROVE  \/ lock' = op /\ WorkLeft(op)' < WorkLeft(op)
           \/ lock' = NoOne
  <1> USE NodeServiceAssumption, StepFacts DEF NodeServiceAssumption, IInv, TypeOK
  <1>0. /\ pc'[op] \in {"load", "save"} => WorkLeft(op)' = Last + 2
        /\ pc'[op] = "sync" => WorkLeft(op)' = Last + 1
        /\ pc'[op] = "apply" => WorkLeft(op)' = Last + 1 - step'[op]
    BY DEF WorkLeft
  <1>1. CASE op = Startup /\ Load
    BY <1>0, <1>1, WorkLeftIs DEF Load, Release
  <1>2. CASE op \in Upload /\ (Rename(op) \/ SyncDir(op))
    BY <1>0, <1>2, WorkLeftIs DEF Rename, SyncDir
  <1>3. CASE op \in Upload /\ (SaveFails(op) \/ SyncFails(op))
    BY <1>3 DEF SaveFails, SyncFails, Release
  <1>4. CASE StepOk(op)
    <2>1. CASE step[op] < Last
      BY <1>0, <1>4, <2>1, WorkLeftIs DEF StepOk
    <2>2. CASE ~(step[op] < Last)
      BY <1>4, <2>2 DEF StepOk, Release
    <2> QED
      BY <2>1, <2>2
  <1>5. CASE StepFails(op)
    BY <1>5 DEF StepFails, Release
  <1> QED
    BY <1>1, <1>2, <1>3, <1>4, <1>5 DEF Work

LEMMA OthersDoNotProlong ==
    ASSUME IInv, [Next]_vars, NEW op \in Op, lock = op, pc[op] \in Holding, ~Work(op)
    PROVE  \/ lock' = op /\ pc'[op] = pc[op] /\ step'[op] = step[op]
           \/ lock' = NoOne /\ ProcessEnds
  <1> USE NodeServiceAssumption
      DEF NodeServiceAssumption, IInv, TypeOK, LockInv, Mutex, DownIsIdle, Holding
  <1>1. CASE Boot
    BY <1>1 DEF Boot, Op
  <1>2. ASSUME NEW u \in Upload, Reject(u) \/ \E c \in Config : Receive(u, c)
        PROVE  lock' = op /\ pc'[op] = pc[op] /\ step'[op] = step[op]
    BY <1>2 DEF Reject, Receive, Op
  <1>3. ASSUME NEW other \in Op, Acquire(other) PROVE FALSE
    BY <1>3 DEF Acquire, LockIsFree, Op
  <1>4. ASSUME NEW other \in Op, Work(other) PROVE FALSE
    <2>1. pc[other] \in Holding
      BY <1>4 DEF Work, Load, Rename, SaveFails, SyncDir, SyncFails, StepOk, StepFails
    <2> QED
      BY <1>4, <2>1
  <1>5. CASE Restart \/ RebootFails
    BY <1>5 DEF Restart, RebootFails
  <1>6. CASE Crash \/ Reboot \/ PowerLoss
    BY <1>6 DEF Crash, Reboot, PowerLoss, ProcessEnds
  <1>7. CASE UNCHANGED vars
    BY <1>7 DEF vars
  <1> QED
    BY <1>1, <1>2, <1>3, <1>4, <1>5, <1>6, <1>7 DEF Next

\* What EveryUploadAnswered comes down to, but for the fairness: a goroutine that
\* has applyMu gives it back after at most as many steps of its own as there are
\* steps in applyConfig and two more, or is gone with the process, however the
\* others interleave (server.go:227-242, orchestration.go:80-153).
THEOREM HoldIsAlwaysBounded == Spec => HoldIsBounded
  <1>1. ASSUME IInv, HolderWorks, [Next]_vars, NEW op \in Op, lock = op
        PROVE  WorkLeft(op) \in 1..(Last + 2) /\ Shrinks(op)
    <2>1. pc[op] \in Holding /\ step[op] \in 1..Last /\ Last \in Nat
      BY <1>1, StepFacts, NodeServiceAssumption
         DEF HolderWorks, IInv, TypeOK, NodeServiceAssumption, Op
    <2>2. WorkLeft(op) \in 1..(Last + 2)
      BY <2>1, WorkLeftIs DEF Holding
    <2>3. CASE Work(op)
      BY <1>1, <2>2, <2>3, WorkShrinks, Zenon DEF Shrinks
    <2>4. CASE ~Work(op)
      <3>1. pc'[op] = pc[op] /\ step'[op] = step[op] => WorkLeft(op)' = WorkLeft(op)
        BY DEF WorkLeft
      <3>2. \/ lock' = op /\ pc'[op] = pc[op] /\ step'[op] = step[op]
            \/ lock' = NoOne /\ ProcessEnds
        BY <1>1, <2>1, <2>4, OthersDoNotProlong
      <3> QED
        BY <2>2, <2>4, <3>1, <3>2, Zenon DEF Shrinks
    <2> QED
      BY <2>2, <2>3, <2>4
  <1>2. IInv /\ HolderWorks /\ [Next]_vars
        => [\A op \in Op : lock = op => WorkLeft(op) \in 1..(Last + 2) /\ Shrinks(op)]_vars
    BY <1>1
  <1> QED
    BY <1>2, Invariance, LockIsNeverLeaked, PTL DEF Spec, HoldIsBounded

-----------------------------------------------------------------------------
\* The config file is the register AtomicFile implements: what Rename, SyncDir
\* and the outages do to it, and all that the other steps may assume of it.
ConfigFile == INSTANCE DurableRegister
                  WITH Value <- Config \cup {BadConfig}, value <- disk, possible <- survivors

LEMMA ConfigFileStep ==
    ASSUME IInv, [Next]_vars
    PROVE  [ConfigFile!Next]_(ConfigFile!vars)
  <1> DEFINE Kept == disk' = disk /\ survivors' = survivors
  <1>1. ASSUME NEW u \in Upload, Rename(u) PROVE ConfigFile!Replace
    <2>1. cfg[u] \in Config \cup {BadConfig}
      BY DEF IInv, TypeOK, Op
    <2> QED
      BY <1>1, <2>1 DEF Rename, ConfigFile!Replace
  <1>2. ASSUME NEW u \in Upload, SyncDir(u) PROVE ConfigFile!Settle
    BY <1>2 DEF SyncDir, Durable, ConfigFile!Settle
  <1>3. CASE Reboot
    BY <1>3 DEF Reboot, ConfigFile!Settle, ConfigFile!Next
  <1>4. CASE PowerLoss
    BY <1>4 DEF PowerLoss, ConfigFile!PowerLoss, ConfigFile!Next
  <1>5. ASSUME NEW op \in Op,
               \/ Acquire(op) \/ Load \/ StepOk(op) \/ StepFails(op)
               \/ SaveFails(op) \/ SyncFails(op)
        PROVE  Kept
    BY <1>5 DEF Acquire, Load, StepOk, StepFails, SaveFails, SyncFails
  <1>6. ASSUME NEW u \in Upload, Reject(u) \/ \E c \in Config : Receive(u, c)
        PROVE  Kept
    BY <1>6 DEF Reject, Receive
  <1>7. CASE Boot \/ Restart \/ RebootFails \/ Crash \/ UNCHANGED vars
    BY <1>7 DEF Boot, Restart, RebootFails, Crash, vars, ConfigFile!vars
  <1> QED
    BY <1>1, <1>2, <1>3, <1>4, <1>5, <1>6, <1>7
       DEF Next, Work, ConfigFile!Next, ConfigFile!vars

\* The config file is always one of the configurations written to it, whole, and
\* can go back to an earlier one only until it is synced: NodeService asks no more
\* of writeConfigFile than ImplementsRegister shows of fileio.go (fileio.go:28-113).
THEOREM ConfigFileIsRegister == Spec => ConfigFile!Spec
  <1>1. Init => ConfigFile!Init
    BY DEF Init, ConfigFile!Init
  <1> QED
    BY <1>1, Invariance, ConfigFileStep, PTL DEF Spec, ConfigFile!Spec
=============================================================================
