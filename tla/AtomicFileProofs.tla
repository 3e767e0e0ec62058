--------------------------- MODULE AtomicFileProofs ---------------------------
(***************************************************************************)
(* The file a call of fileio.go replaces is always whole, an acknowledged  *)
(* one is not lost, and the system calls implement DurableRegister: for    *)
(* any number of calls, readers, failures and outages.                     *)
(***************************************************************************)
EXTENDS AtomicFile, TLAPS

\* What a name or a descriptor may safely refer to: nothing, or a file whose
\* data has reached the disk.
Safe(f) == f = NoFile \/ (f \in synced /\ content[f] = "whole")

SafeNames == dest \in survivors /\ \A f \in survivors : Safe(f)
SafeReads == \A r \in Reader : Safe(fd[r])

\* The file of a call is nobody else's until its rename, and on disk by then.
Private(w) == w \notin survivors /\ \A r \in Reader : fd[r] # w

CallInv ==
    \A w \in Call :
        /\ pc[w] \in {"idle", "created", "writing", "written", "ready", "synced", "closed"}
              => Private(w)
        /\ pc[w] \in {"written", "ready", "synced", "closed"} => content[w] = "whole"
        /\ pc[w] \in {"synced", "closed"} => w \in synced

\* A call that has renamed its file is in the list of renames, and what the
\* destination names is its file or a later one.
Renamed(w) == \E j \in DOMAIN renames : renames[j] = w

RenameInv ==
    \A w \in Call :
        /\ pc[w] = "renamed" => Renamed(w) /\ dest \in RenamedSince(w)
        /\ answer[w] = "ok" => Renamed(w)

FreshInv == ~dirDurable => fresh

IInv ==
    TypeOK /\ SafeNames /\ SafeReads /\ CallInv /\ RenameInv /\ FreshInv /\ AckedSurvives

-----------------------------------------------------------------------------
\* A rename adds its file to what was renamed since any earlier call.
LEMMA RenamedSinceAppend ==
    ASSUME NEW s \in Seq(Call), renames = s, NEW v \in Call, renames' = Append(s, v)
    PROVE  /\ Renamed(v)' /\ v \in RenamedSince(v)'
           /\ \A w \in Call : Renamed(w) =>
                 /\ Renamed(w)' /\ v \in RenamedSince(w)'
                 /\ RenamedSince(w) \subseteq RenamedSince(w)'
<1> DEFINE t == Append(s, v)
<1>1. /\ t \in Seq(Call) /\ Len(t) = Len(s) + 1 /\ t[Len(s) + 1] = v /\ Len(s) \in Nat
      /\ \A k \in 1..Len(s) : t[k] = s[k]
  OBVIOUS
<1> HIDE DEF t
<1>2. DOMAIN t = 1..(Len(s) + 1) /\ DOMAIN s = 1..Len(s) /\ renames' = t
  BY <1>1 DEF t
<1>3. Renamed(v)' /\ v \in RenamedSince(v)'
  BY <1>1, <1>2 DEF Renamed, RenamedSince
<1>4. ASSUME NEW w \in Call, Renamed(w)
      PROVE  Renamed(w)' /\ v \in RenamedSince(w)' /\ RenamedSince(w) \subseteq RenamedSince(w)'
  <2>1. PICK j \in 1..Len(s) : s[j] = w
    BY <1>2, <1>4 DEF Renamed
  <2>2. j \in 1..(Len(s) + 1) /\ t[j] = w
    BY <1>1, <2>1
  <2>3. Renamed(w)' /\ v \in RenamedSince(w)'
    BY <1>1, <1>2, <2>2 DEF Renamed, RenamedSince
  <2>4. ASSUME NEW x \in RenamedSince(w) PROVE x \in RenamedSince(w)'
    <3>1. PICK k \in 1..Len(s) : s[k] = x /\ \E m \in 1..k : s[m] = w
      BY <1>2 DEF RenamedSince
    <3>2. PICK m \in 1..k : s[m] = w
      BY <3>1
    <3>3. m \in 1..Len(s)
      BY <1>1
    <3>4. k \in 1..(Len(s) + 1) /\ t[k] = x /\ t[m] = w
      BY <1>1, <3>1, <3>2, <3>3
    <3> QED
      BY <1>2, <3>4 DEF RenamedSince
  <2> QED
    BY <2>3, <2>4
<1> QED
  BY <1>3, <1>4

\* Before any call the destination is missing or the original, whole.
LEMMA InitIInv == Init => IInv
<1> SUFFICES ASSUME Init PROVE IInv
  OBVIOUS
<1> USE AtomicFileAssumption DEF Init, Inode
<1>1. TypeOK
  BY DEF TypeOK
<1>2. SafeNames /\ SafeReads /\ CallInv
  BY DEF SafeNames, SafeReads, Safe, CallInv, Private
<1>3. RenameInv /\ FreshInv /\ AckedSurvives
  BY DEF RenameInv, FreshInv, AckedSurvives
<1> QED
  BY <1>1, <1>2, <1>3 DEF IInv

\* The steps of a call before its rename touch only its own file.
LEMMA WriteStep ==
    ASSUME IInv, NEW w \in Call,
           \/ CreateTemp(w) \/ WriteSome(w) \/ WriteRest(w) \/ Chmod(w)
           \/ Sync(w) \/ Close(w) \/ Fails(w) \/ SyncDirFails(w)
    PROVE  IInv'
<1> USE AtomicFileAssumption
    DEF IInv, TypeOK, SafeNames, SafeReads, Safe, CallInv, Private, RenameInv, FreshInv,
        Renamed, RenamedSince, AckedSurvives, Inode, setting
<1>1. CASE CreateTemp(w)
  BY <1>1 DEF CreateTemp
<1>2. CASE WriteSome(w)
  BY <1>2 DEF WriteSome
<1>3. CASE WriteRest(w)
  BY <1>3 DEF WriteRest
<1>4. CASE Chmod(w)
  BY <1>4 DEF Chmod
<1>5. CASE Sync(w)
  BY <1>5 DEF Sync, FlushedBy
<1>6. CASE Close(w)
  BY <1>6 DEF Close
<1>7. CASE Fails(w)
  BY <1>7 DEF Fails, Fault, Return
<1>8. CASE SyncDirFails(w)
  BY <1>8 DEF SyncDirFails, Fault, Return
<1> QED
  BY <1>1, <1>2, <1>3, <1>4, <1>5, <1>6, <1>7, <1>8

\* The rename shows a file that is on disk.
LEMMA RenameStep == ASSUME IInv, NEW w \in Call, Rename(w) PROVE IInv'
<1> USE AtomicFileAssumption DEF Inode, setting
<1>1. /\ renames \in Seq(Call) /\ renames' = Append(renames, w)
      /\ dest' = w /\ survivors' = survivors \cup {w} /\ pc' = [pc EXCEPT ![w] = "renamed"]
      /\ UNCHANGED <<function, fresh, content, synced, dirDurable, fd, answer, faults, outages>>
      /\ temps' = temps \ {w}
  BY DEF IInv, TypeOK, Rename
<1>2. TypeOK'
  BY <1>1 DEF IInv, TypeOK
<1>3. SafeNames' /\ SafeReads' /\ FreshInv'
  BY <1>1 DEF Rename, IInv, TypeOK, SafeNames, SafeReads, Safe, CallInv, FreshInv
<1>4. CallInv'
  BY <1>1 DEF Rename, IInv, TypeOK, CallInv, Private
<1>5. /\ Renamed(w)' /\ w \in RenamedSince(w)'
      /\ \A v \in Call : Renamed(v) =>
            /\ Renamed(v)' /\ w \in RenamedSince(v)'
            /\ RenamedSince(v) \subseteq RenamedSince(v)'
  BY <1>1, RenamedSinceAppend
<1>6. RenameInv'
  BY <1>1, <1>5 DEF IInv, TypeOK, RenameInv
<1>7. AckedSurvives'
  BY <1>1, <1>5 DEF IInv, TypeOK, RenameInv, AckedSurvives
<1> QED
  BY <1>2, <1>3, <1>4, <1>6, <1>7 DEF IInv

\* What syncDir settles is the file of this call or a later one.
LEMMA SyncDirStep == ASSUME IInv, NEW w \in Call, SyncDir(w) PROVE IInv'
  BY AtomicFileAssumption
  DEF SyncDir, Return, IInv, TypeOK, SafeNames, SafeReads, Safe, CallInv, Private, RenameInv,
      FreshInv, Renamed, RenamedSince, AckedSurvives, Inode, setting

\* Readers open what the destination names.
LEMMA ReadStep == ASSUME IInv, NEW r \in Reader, Open(r) \/ CloseRead(r) PROVE IInv'
<1> USE AtomicFileAssumption
    DEF IInv, TypeOK, SafeNames, SafeReads, Safe, CallInv, Private, RenameInv, FreshInv,
        Renamed, RenamedSince, AckedSurvives, Inode, setting
<1>1. CASE Open(r)
  BY <1>1 DEF Open
<1>2. CASE CloseRead(r)
  BY <1>2 DEF CloseRead
<1> QED
  BY <1>1, <1>2

\* An outage ends every call and brings back one of the survivors.
LEMMA OutageStep == ASSUME IInv, Crash \/ PowerLoss PROVE IInv'
<1> USE AtomicFileAssumption DEF Inode, setting
<1>1. /\ pc' \in [Call -> {"idle", "returned"}] /\ \A w \in Call : pc'[w] = "idle" => pc[w] = "idle"
      /\ fd' = [r \in Reader |-> NoFile] /\ outages' \in 0..MaxOutages
      /\ UNCHANGED <<function, fresh, answer, renames, faults, synced>>
  BY DEF Crash, PowerLoss, ProcessEnds, InFlight, IInv, TypeOK
<1>2. /\ dest' \in survivors \cup (IF fresh THEN {NoFile} ELSE {})
      /\ dest' \in survivors' /\ survivors' \subseteq survivors \cup {dest'}
      /\ temps' \subseteq temps /\ dirDurable' \in BOOLEAN /\ (~dirDurable' => fresh)
  BY DEF Crash, PowerLoss, IInv, TypeOK, SafeNames, FreshInv
<1>3. /\ content' \in [Inode -> {"none", "cut", "whole"}]
      /\ \A f \in synced : content'[f] = content[f]
  <2>1. CASE Crash
    BY <2>1 DEF Crash, IInv, TypeOK
  <2>2. CASE PowerLoss
    <3>1. PICK lost \in SUBSET (Inode \ synced) :
             content' = [i \in Inode |-> IF i \in lost THEN "none" ELSE content[i]]
      BY <2>2 DEF PowerLoss
    <3> QED
      BY <3>1 DEF IInv, TypeOK
  <2> QED
    BY <2>1, <2>2
<1>4. TypeOK'
  BY <1>1, <1>2, <1>3 DEF IInv, TypeOK
<1>5. SafeNames' /\ SafeReads' /\ FreshInv'
  BY <1>1, <1>2, <1>3 DEF IInv, TypeOK, SafeNames, SafeReads, Safe, FreshInv
<1>6. CallInv'
  BY <1>1, <1>2 DEF IInv, TypeOK, CallInv, Private
<1>7. RenameInv' /\ AckedSurvives'
  BY <1>1, <1>2 DEF IInv, TypeOK, RenameInv, Renamed, RenamedSince, AckedSurvives, SafeNames
<1> QED
  BY <1>4, <1>5, <1>6, <1>7 DEF IInv

\* No step, of any call, reader or outage, breaks the invariant.
LEMMA StepIInv == IInv /\ [Next]_vars => IInv'
<1>1. IInv /\ UNCHANGED vars => IInv'
  BY DEF IInv, TypeOK, SafeNames, SafeReads, Safe, CallInv, Private, RenameInv, FreshInv,
         Renamed, RenamedSince, AckedSurvives, vars, setting
<1> QED
  BY <1>1, WriteStep, RenameStep, SyncDirStep, ReadStep, OutageStep DEF Next

\* The inductive invariant of the replacement (fileio.go:31-114).
THEOREM Invariance == Spec => []IInv
  BY InitIInv, StepIInv, PTL DEF Spec

\* Every variable keeps its type.
THEOREM TypeCorrect == Spec => []TypeOK
<1>1. IInv => TypeOK
  BY DEF IInv
<1> QED
  BY <1>1, Invariance, PTL

\* Nobody reads a file that was cut off (fileio.go:49-50, 72-76).
THEOREM NeverPartialAlways == Spec => []NeverPartial
<1>1. IInv => NeverPartial
  BY DEF IInv, SafeNames, SafeReads, Safe, NeverPartial, Readable
<1> QED
  BY <1>1, Invariance, PTL

\* An acknowledged file, or a later one, outlasts every outage (fileio.go:31-34).
THEOREM AckedSurvivesAlways == Spec => []AckedSurvives
<1>1. IInv => AckedSurvives
  BY DEF IInv
<1> QED
  BY <1>1, Invariance, PTL

-----------------------------------------------------------------------------
\* What the register shows of a file on disk is that file.
LEMMA ShownFacts ==
    ASSUME IInv
    PROVE  /\ fresh => \A f \in Inode \cup {NoFile} : Shown(f) = NoFile
           /\ ~fresh => \A f \in survivors : Shown(f) = f
           /\ dest \in survivors /\ survivors \subseteq Inode \cup {NoFile}
  BY DEF IInv, TypeOK, SafeNames, Safe, Shown, Readable

\* Every system call is a step of the register or none: the rename replaces the
\* value, the sync of the directory settles it, a power loss brings one back.
LEMMA RegisterStep ==
    ASSUME IInv, IInv', [Next]_vars
    PROVE  [Register!Next]_(Register!vars)
<1> DEFINE value == Shown(dest)
           possible == {Shown(f) : f \in survivors}
<1>1. fresh' = fresh
  BY DEF Next, vars, setting, CreateTemp, WriteSome, WriteRest, Chmod, Sync, Close, Rename,
         SyncDir, Fails, SyncDirFails, Open, CloseRead, Crash, PowerLoss, ProcessEnds
<1>2. CASE fresh
  <2>1. value = NoFile /\ value' = NoFile /\ possible = {NoFile} /\ possible' = {NoFile}
    BY <1>1, <1>2, ShownFacts DEF IInv, TypeOK, Shown, SafeNames
  <2> QED
    BY <2>1 DEF Register!vars
<1>3. CASE ~fresh
  <2>1. value = dest /\ possible = survivors
    BY <1>3, ShownFacts
  <2>2. value' = dest' /\ possible' = survivors'
    <3>1. ~fresh'
      BY <1>1, <1>3
    <3>2. \A f \in survivors' : Shown(f)' = f
      BY <3>1 DEF IInv, TypeOK, SafeNames, Safe, Shown, Readable
    <3> QED
      BY <3>2 DEF IInv, SafeNames
  <2> HIDE DEF value, possible
  <2>3. ASSUME NEW w \in Call, Rename(w) PROVE Register!Replace
    <3>1. value' = w /\ possible' = possible \cup {w} /\ w \in Inode \cup {NoFile}
      BY <2>1, <2>2, <2>3 DEF Rename, Inode
    <3> QED
      BY <3>1 DEF Register!Replace, value, possible
  <2>4. ASSUME NEW w \in Call, SyncDir(w) PROVE Register!Settle
    <3>1. value' = value /\ possible' = {value}
      BY <2>1, <2>2, <2>4 DEF SyncDir
    <3> QED
      BY <3>1 DEF Register!Settle, value, possible
  <2>5. CASE PowerLoss
    <3>1. dirDurable
      BY <1>3 DEF IInv, FreshInv, TypeOK
    <3>2. value' \in possible /\ possible' = {value'}
      BY <2>1, <2>2, <2>5, <3>1 DEF PowerLoss
    <3>3. Register!PowerLoss
      BY <3>2 DEF Register!PowerLoss, value, possible
    <3> QED
      BY <3>3 DEF Register!Next
  <2>6. CASE UNCHANGED <<dest, survivors>>
    BY <2>1, <2>2, <2>6 DEF Register!vars, value, possible
  <2>7. \/ \E w \in Call : Rename(w) \/ SyncDir(w)
        \/ PowerLoss
        \/ UNCHANGED <<dest, survivors>>
    BY DEF Next, vars, CreateTemp, WriteSome, WriteRest, Chmod, Sync, Close, Fails,
           SyncDirFails, Open, CloseRead, Crash
  <2> QED
    BY <2>3, <2>4, <2>5, <2>6, <2>7 DEF Register!Next
<1> QED
  BY <1>2, <1>3

\* The system calls implement the durable register NodeService takes the config
\* file to be (fileio.go:31-114).
THEOREM ImplementsRegister == Spec => IsRegister
<1>1. Init => Register!Init
  BY ShownFacts, InitIInv DEF Init, Register!Init, IInv, TypeOK
<1>2. IInv /\ IInv' /\ [Next]_vars => [Register!Next]_(Register!vars)
  BY RegisterStep
<1> QED
  BY <1>1, <1>2, Invariance, PTL DEF Spec, IsRegister, Register!Spec
=============================================================================
