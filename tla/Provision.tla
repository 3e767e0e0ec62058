------------------------------ MODULE Provision ------------------------------
(***************************************************************************)
(* The provisioning steps of applyConfig: ensureHostname, ensureFolders,   *)
(* ensureFiles (provision.go:19-204), one system call a step.  Any call    *)
(* can fail, the process can be killed between two and is started again    *)
(* with the config it had, and power can be lost: nothing here is synced.  *)
(*                                                                         *)
(* Paths are values with a Parent; a declared folder or file is a record,  *)
(* where Undeclared stands for an attribute left out: of an owner, the     *)
(* group of a numeric user is.  A mode is a number of 12 bits, as chmod(2) *)
(* takes it.  No directory passes its group on (setgid).                   *)
(***************************************************************************)
EXTENDS Naturals, Sequences, FiniteSets

CONSTANTS
    Path, Root,         \* the paths, and the directory above all of them
    Parent,             \* [Path -> Path \cup {Root}]
    Content, Hostname,
    Id,                 \* the ids of users and groups
    DefaultOwner,       \* who creates: root
    Undeclared,
    Configs,            \* the provisioning parts of the configs
    InitialFS,          \* the file systems the service may find
    MaxFaults           \* bound: calls that fail, kills, power losses

Empty == "empty"        \* a file just truncated
Torn == "torn"          \* a file whose data did not reach the disk
Absent == [kind |-> "absent"]
Dir(mode, owner) == [kind |-> "dir", mode |-> mode, owner |-> owner]
File(content, mode, owner) ==
    [kind |-> "file", content |-> content, mode |-> mode, owner |-> owner]

VARIABLES
    fs,         \* [Path -> what is there]
    hostname,   \* the running hostname
    unsynced,   \* the paths written since they were last on disk
    config,     \* the configuration being applied
    pc,         \* the next call
    i,          \* the folder or file it is about
    result,     \* how the last apply ended
    faults

vars == <<fs, hostname, unsynced, config, pc, i, result, faults>>

Init ==
    /\ fs \in InitialFS
    /\ hostname \in Hostname
    /\ unsynced = {}
    /\ config = [hostname |-> Undeclared, folders |-> <<>>, files |-> <<>>]
    /\ pc = "idle"
    /\ i = 1
    /\ result = "none"
    /\ faults = 0

-----------------------------------------------------------------------------
(* Modes. *)

\* parseFileMode takes up to 07777; os.FileMode keeps setuid, setgid and sticky
\* elsewhere than in those bits, so os.Chmod and os.WriteFile use the last nine.
Perm(mode) == mode % 512

\* validateFolders, validateFiles.
Mode == 0..4095
ValidMode == Mode \cup {Undeclared}

\* parseOwner: a numeric user has no group, and -1 is no id.
Owner == [user : Id, group : Id]
ValidOwner == [user : Id \cup {Undeclared}, group : Id \cup {Undeclared}]

FolderEntry == [path : Path, mode : ValidMode, owner : ValidOwner]
FileEntry == [path : Path, content : Content, mode : ValidMode, owner : ValidOwner]

\* What validateConfig demands of folders and files.
Valid(c) == c.folders \in Seq(FolderEntry) /\ c.files \in Seq(FileEntry)

Node == {Absent} \cup [kind : {"dir"}, mode : Mode, owner : Owner]
                 \cup [kind : {"file"}, content : Content, mode : Mode, owner : Owner]

ASSUME ProvisionAssumption ==
    /\ Root \notin Path /\ Parent \in [Path -> Path \cup {Root}]
    /\ DefaultOwner \in Owner
    /\ \A c \in Configs : Valid(c)
    /\ InitialFS \subseteq [Path -> Node]

Attribute(declared, otherwise) == IF declared = Undeclared THEN otherwise ELSE declared

\* uid # -1 || gid # -1, and what chown(2) does: -1 leaves an id as it is.
HasOwner(d) == d.owner.user # Undeclared \/ d.owner.group # Undeclared
Chowned(declared, actual) ==
    [user |-> Attribute(declared.user, actual.user),
     group |-> Attribute(declared.group, actual.group)]

-----------------------------------------------------------------------------
(* The flow of an apply. *)

Goto(l) == pc' = l /\ UNCHANGED <<i, result>>
Return(outcome) == pc' = "idle" /\ result' = outcome /\ UNCHANGED i

Folder == config.folders[i]
DeclaredFile == config.files[i]

StartFiles ==
    IF config.files = <<>> THEN Return("ok")
    ELSE pc' = "parent" /\ i' = 1 /\ UNCHANGED result

StartFolders ==
    IF config.folders = <<>> THEN StartFiles
    ELSE pc' = "mkdir" /\ i' = 1 /\ UNCHANGED result

NextFolder ==
    IF i < Len(config.folders) THEN pc' = "mkdir" /\ i' = i + 1 /\ UNCHANGED result
    ELSE StartFiles

NextFile ==
    IF i < Len(config.files) THEN pc' = "parent" /\ i' = i + 1 /\ UNCHANGED result
    ELSE Return("ok")

Apply(c) ==
    /\ pc = "idle"
    /\ config' = c
    /\ pc' = "hostname"
    /\ i' = 1
    /\ result' = "none"
    /\ UNCHANGED <<fs, hostname, unsynced, faults>>

EnsureHostname ==
    /\ pc = "hostname"
    /\ hostname' = Attribute(config.hostname, hostname)
    /\ StartFolders
    /\ UNCHANGED <<fs, unsynced, config, faults>>

\* p and the directories above it, the least set that has with a path its parent.
Above(p) ==
    {q \in Path : \A S \in SUBSET Path :
        p \in S /\ (\A r \in S : Parent[r] \in S \cup {Root}) => q \in S}

\* os.MkdirAll(p, 0755) makes what is missing above p too, from the top, with a
\* mkdir(2) each; what is there stays as it is, and a file in the way is an error.
CanMkdirAll(p) == \A q \in Above(p) : fs[q].kind # "file"
Missing(p) == {q \in Above(p) : fs[q] = Absent}
LastMkdir(p) == \A q \in Missing(p) : Missing(p) = {q}

MkdirAll_Resets(p) ==
    fs' = [q \in Path |-> IF q \in Above(p) THEN Dir(493, DefaultOwner) ELSE fs[q]]
MkdirAll(p) ==
    \/ Missing(p) = {} /\ UNCHANGED fs
    \/ \E q \in Missing(p) :
          /\ Parent[q] \notin Missing(p)
          /\ fs' = [fs EXCEPT ![q] = Dir(493, DefaultOwner)]

AfterMkdir ==
    IF HasOwner(Folder) THEN Goto("chownFolder")
    ELSE IF Folder.mode # Undeclared THEN Goto("chmodFolder")
    ELSE NextFolder

MkdirFolder ==
    /\ pc = "mkdir"
    /\ IF CanMkdirAll(Folder.path)
       THEN /\ MkdirAll(Folder.path)
            /\ IF LastMkdir(Folder.path) THEN AfterMkdir ELSE Goto("mkdir")
       ELSE Return("error") /\ UNCHANGED fs
    /\ UNCHANGED <<hostname, unsynced, config, faults>>

ChownFolder ==
    /\ pc = "chownFolder"
    /\ fs' = [fs EXCEPT ![Folder.path].owner = Chowned(Folder.owner, @)]
    /\ IF Folder.mode # Undeclared THEN Goto("chmodFolder") ELSE NextFolder
    /\ UNCHANGED <<hostname, unsynced, config, faults>>

ChmodFolder ==
    /\ pc = "chmodFolder"
    /\ fs' = [fs EXCEPT ![Folder.path].mode = Perm(Folder.mode)]
    /\ NextFolder
    /\ UNCHANGED <<hostname, unsynced, config, faults>>

MkdirParent ==
    /\ pc = "parent"
    /\ LET dir == Parent[DeclaredFile.path] IN
          IF dir = Root THEN Goto("open") /\ UNCHANGED fs
          ELSE IF CanMkdirAll(dir)
          THEN MkdirAll(dir) /\ Goto(IF LastMkdir(dir) THEN "open" ELSE "parent")
          ELSE Return("error") /\ UNCHANGED fs
    /\ UNCHANGED <<hostname, unsynced, config, faults>>

FileModeOf(d) == Perm(Attribute(d.mode, 420))
FileMode == FileModeOf(DeclaredFile)

\* os.WriteFile opens with O_TRUNC: an existing file keeps mode and owner and
\* loses its content; a new one has the mode without the umask 022.
WithoutUmask(mode) ==
    mode - (IF (mode \div 16) % 2 = 1 THEN 16 ELSE 0)
         - (IF (mode \div 2) % 2 = 1 THEN 2 ELSE 0)

OpenFile ==
    /\ pc = "open"
    /\ LET p == DeclaredFile.path IN
          IF fs[p].kind = "dir" THEN Return("error") /\ UNCHANGED <<fs, unsynced>>
          ELSE /\ fs' = [fs EXCEPT ![p] =
                     IF @ = Absent
                     THEN File(Empty, WithoutUmask(FileMode), DefaultOwner)
                     ELSE [@ EXCEPT !.content = Empty]]
               /\ unsynced' = unsynced \cup {p}
               /\ Goto("write")
    /\ UNCHANGED <<hostname, config, faults>>

WriteFile ==
    /\ pc = "write"
    /\ fs' = [fs EXCEPT ![DeclaredFile.path].content = DeclaredFile.content]
    /\ Goto("chmod")
    /\ UNCHANGED <<hostname, unsynced, config, faults>>

AfterChmod == IF HasOwner(DeclaredFile) THEN Goto("chown") ELSE NextFile

ChmodFile_OnlyDeclared ==
    /\ pc = "chmod"
    /\ fs' = IF DeclaredFile.mode = Undeclared THEN fs
             ELSE [fs EXCEPT ![DeclaredFile.path].mode = FileMode]
    /\ AfterChmod
    /\ UNCHANGED <<hostname, unsynced, config, faults>>
ChmodFile ==
    /\ pc = "chmod"
    /\ fs' = [fs EXCEPT ![DeclaredFile.path].mode = FileMode]
    /\ AfterChmod
    /\ UNCHANGED <<hostname, unsynced, config, faults>>

ChownFile ==
    /\ pc = "chown"
    /\ fs' = [fs EXCEPT ![DeclaredFile.path].owner = Chowned(DeclaredFile.owner, @)]
    /\ NextFile
    /\ UNCHANGED <<hostname, unsynced, config, faults>>

-----------------------------------------------------------------------------
(* What can go wrong. *)

Fault == faults < MaxFaults /\ faults' = faults + 1

\* A call fails, a mkdir of a missing parent or any other; a write may have
\* written some of it, hostnamectl may have been killed after its work was done.
CallFails ==
    /\ pc # "idle"
    /\ Fault
    /\ Return("error")
    /\ \/ UNCHANGED <<fs, hostname>>
       \/ /\ pc = "write"
          /\ fs' = [fs EXCEPT ![DeclaredFile.path].content = Torn]
          /\ UNCHANGED hostname
       \/ /\ pc = "hostname"
          /\ hostname' = Attribute(config.hostname, hostname)
          /\ UNCHANGED fs
    /\ UNCHANGED <<unsynced, config>>

\* Killed, and started again: the startup reconcile applies the same config.
Killed ==
    /\ Fault
    /\ pc' = "hostname"
    /\ i' = 1
    /\ result' = "none"
    /\ UNCHANGED <<fs, hostname, unsynced, config>>

\* A file that was written a moment ago may have lost its data.
PowerLoss ==
    /\ Fault
    /\ \E lost \in SUBSET unsynced :
          fs' = [p \in Path |-> IF p \in lost THEN [fs[p] EXCEPT !.content = Torn]
                                ELSE fs[p]]
    /\ unsynced' = {}
    /\ pc' = "hostname"
    /\ i' = 1
    /\ result' = "none"
    /\ UNCHANGED <<hostname, config>>

WriteBack ==
    /\ unsynced # {}
    /\ unsynced' = {}
    /\ UNCHANGED <<fs, hostname, config, pc, i, result, faults>>

-----------------------------------------------------------------------------
Step ==
    \/ EnsureHostname
    \/ MkdirFolder \/ ChownFolder \/ ChmodFolder
    \/ MkdirParent \/ OpenFile \/ WriteFile \/ ChmodFile \/ ChownFile

Next ==
    \/ \E c \in Configs : Apply(c)
    \/ Step
    \/ CallFails \/ Killed \/ PowerLoss \/ WriteBack

Spec == Init /\ [][Next]_vars

-----------------------------------------------------------------------------
(* Properties. *)

FolderCalls == {"mkdir", "chownFolder", "chmodFolder"}
FileCalls == {"parent", "open", "write", "chmod", "chown"}

Agrees(declared, actual) == declared \in {Undeclared, actual}
OwnerAgrees(declared, actual) ==
    Agrees(declared.user, actual.user) /\ Agrees(declared.group, actual.group)

\* The declared mode, but for the setuid, setgid and sticky bits (see Perm).
FolderIsThere(d) ==
    /\ fs[d.path].kind = "dir"
    /\ d.mode # Undeclared => fs[d.path].mode = Perm(d.mode)
    /\ OwnerAgrees(d.owner, fs[d.path].owner)

FileIsThere(d) ==
    /\ fs[d.path].kind = "file"
    /\ fs[d.path].content = d.content
    /\ fs[d.path].mode = FileModeOf(d)
    /\ OwnerAgrees(d.owner, fs[d.path].owner)

\* A later entry for the same path takes the place of an earlier one, from the
\* moment it is handled.
Current(entries, calls) ==
    LET begun == IF pc \in calls THEN i ELSE Len(entries) IN
    {j \in DOMAIN entries :
        \A n \in DOMAIN entries : j < n /\ n <= begun => entries[n].path # entries[j].path}

FoldersDone ==
    IF result = "ok" \/ pc \in FileCalls THEN DOMAIN config.folders
    ELSE IF pc \in FolderCalls THEN 1..(i - 1) ELSE {}
FilesDone ==
    IF result = "ok" THEN DOMAIN config.files
    ELSE IF pc \in FileCalls THEN 1..(i - 1) ELSE {}

\* What an apply has been through is as declared, and stays so until it ends:
\* later folders and files, their parents among them, do not undo it, and a
\* success means all of it, whatever an earlier failure, kill or power loss
\* left (provision.go:43-50, 112-124: idempotent, in order, first error ends).
\* Where a list names a path twice the last entry counts (config.go:314 takes
\* such lists), and of a mode its lower nine bits: os.FileMode keeps the others
\* elsewhere, so that "exactly the requested permissions" (provision.go:155-156)
\* is not what a declared 1777 gets.
ProvidedSoFar ==
    /\ \A j \in FoldersDone \cap Current(config.folders, FolderCalls) :
          FolderIsThere(config.folders[j])
    /\ \A j \in FilesDone \cap Current(config.files, FileCalls) : FileIsThere(config.files[j])
    /\ result = "ok" \/ pc \in FolderCalls \cup FileCalls =>
          Agrees(config.hostname, hostname)

\* The folders and files a config declares at a path.
DeclaredAt(p) ==
    {d \in {config.folders[j] : j \in DOMAIN config.folders}
           \cup {config.files[j] : j \in DOMAIN config.files} : d.path = p}

\* An apply changes of what exists only what the config declares: a folder
\* keeps a mode that is left out, folder and file keep a user or a group that
\* is, a file that is not declared is not touched, and nothing changes its kind.
KeepsTheUndeclared ==
    [][Step => \A p \in Path : fs[p] # Absent =>
          /\ fs'[p].kind = fs[p].kind
          /\ fs[p].kind = "file" =>
                fs'[p] = fs[p] \/ \E j \in DOMAIN config.files : config.files[j].path = p
          /\ fs[p].kind = "dir" => fs'[p].mode = fs[p].mode \/
                \E j \in DOMAIN config.folders :
                    config.folders[j].path = p /\ config.folders[j].mode # Undeclared
          /\ fs'[p].owner.user = fs[p].owner.user \/
                \E d \in DeclaredAt(p) : d.owner.user # Undeclared
          /\ fs'[p].owner.group = fs[p].owner.group \/
                \E d \in DeclaredAt(p) : d.owner.group # Undeclared
      ]_vars
=============================================================================
