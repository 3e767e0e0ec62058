--------------------------- MODULE ProvisionProofs ---------------------------
(***************************************************************************)
(* What an apply of Provision has been through is as its config declares,  *)
(* for any tree of paths, any configs and file systems and any failures.   *)
(***************************************************************************)
EXTENDS Provision, TLAPS

\* What is at a path is nothing, a directory or a file.
Formed(n) ==
    \/ n = Absent
    \/ n.kind = "dir" /\ DOMAIN n = {"kind", "mode", "owner"}
    \/ n.kind = "file" /\ DOMAIN n = {"kind", "content", "mode", "owner"}

TypeOK ==
    /\ DOMAIN fs = Path /\ \A p \in Path : Formed(fs[p])
    /\ unsynced \subseteq {p \in Path : fs[p].kind = "file"}
    /\ Valid(config)
    /\ pc \in {"idle", "hostname"} \cup FolderCalls \cup FileCalls
    /\ result \in {"none", "ok", "error"}
    /\ result = "ok" => pc = "idle"

\* What the calls before pc have done for the folder or file at hand.
InProgress ==
    /\ pc \in FolderCalls => i \in DOMAIN config.folders
    /\ pc \in {"chownFolder", "chmodFolder"} => fs[Folder.path].kind = "dir"
    /\ pc = "chmodFolder" => Folder.mode # Undeclared /\ OwnerAgrees(Folder.owner, fs[Folder.path].owner)
    /\ pc \in FileCalls => i \in DOMAIN config.files
    /\ pc \in {"write", "chmod", "chown"} => fs[DeclaredFile.path].kind = "file"
    /\ pc \in {"chmod", "chown"} => fs[DeclaredFile.path].content = DeclaredFile.content
    /\ pc = "chown" => fs[DeclaredFile.path].mode = FileMode

\* The parts of ProvidedSoFar.
FoldersProvided ==
    \A j \in FoldersDone \cap Current(config.folders, FolderCalls) : FolderIsThere(config.folders[j])
FilesProvided ==
    \A j \in FilesDone \cap Current(config.files, FileCalls) : FileIsThere(config.files[j])
HostnameProvided ==
    result = "ok" \/ pc \in FolderCalls \cup FileCalls => Agrees(config.hostname, hostname)

IInv == TypeOK /\ InProgress /\ FoldersProvided /\ FilesProvided /\ HostnameProvided

\* What the folders and files of a valid config are, and whose turn it is.
LEMMA Entries ==
    ASSUME TypeOK
    PROVE  /\ config.folders \in Seq(FolderEntry) /\ config.files \in Seq(FileEntry)
           /\ Len(config.folders) \in Nat /\ DOMAIN config.folders = 1..Len(config.folders)
           /\ Len(config.files) \in Nat /\ DOMAIN config.files = 1..Len(config.files)
           /\ config.folders # <<>> => Len(config.folders) # 0
           /\ config.files # <<>> => Len(config.files) # 0
           /\ \A j \in DOMAIN config.folders : config.folders[j].path \in Path
           /\ \A j \in DOMAIN config.files : config.files[j].path \in Path
<1>1. config.folders \in Seq(FolderEntry) /\ config.files \in Seq(FileEntry)
  BY DEF TypeOK, Valid
<1>2. /\ \A j \in DOMAIN config.folders : config.folders[j] \in FolderEntry
      /\ \A j \in DOMAIN config.files : config.files[j] \in FileEntry
  BY <1>1
<1>3. /\ \A j \in DOMAIN config.folders : config.folders[j].path \in Path
      /\ \A j \in DOMAIN config.files : config.files[j].path \in Path
  BY <1>2 DEF FolderEntry, FileEntry
<1>4. /\ Len(config.folders) \in Nat /\ DOMAIN config.folders = 1..Len(config.folders)
      /\ Len(config.files) \in Nat /\ DOMAIN config.files = 1..Len(config.files)
  BY <1>1
<1>5. /\ config.folders # <<>> => Len(config.folders) # 0
      /\ config.files # <<>> => Len(config.files) # 0
  BY <1>1
<1> QED
  BY <1>1, <1>3, <1>4, <1>5

\* A call that ends in an error leaves nothing to be told of the apply
\* (every early return of ensureFolder and ensureFile).
LEMMA AnErrorTellsNothing ==
    ASSUME Return("error")
    PROVE  InProgress' /\ FoldersProvided' /\ FilesProvided' /\ HostnameProvided'
  BY DEF Return, InProgress, FoldersProvided, FilesProvided, HostnameProvided, FoldersDone,
         FilesDone, FolderCalls, FileCalls

\* What has been done stays done: the parts of the invariant after a call that
\* is not the last for its entry.
LEMMA SameEntry ==
    ASSUME TypeOK, HostnameProvided, UNCHANGED <<i, result, hostname, config>>,
           \/ pc \in FolderCalls /\ pc' \in FolderCalls
           \/ pc \in FileCalls /\ pc' \in FileCalls,
           \A j \in FoldersDone \cap Current(config.folders, FolderCalls) :
               (FolderIsThere(config.folders[j]))',
           \A j \in FilesDone \cap Current(config.files, FileCalls) :
               (FileIsThere(config.files[j]))'
    PROVE  FoldersProvided' /\ FilesProvided' /\ HostnameProvided'
<1>1. /\ FoldersDone' = FoldersDone /\ FilesDone' = FilesDone
      /\ Current(config.folders, FolderCalls)' = Current(config.folders, FolderCalls)
      /\ Current(config.files, FileCalls)' = Current(config.files, FileCalls)
  BY DEF FoldersDone, FilesDone, Current, FolderCalls, FileCalls, TypeOK
<1> QED
  BY <1>1 DEF FoldersProvided, FilesProvided, HostnameProvided

\* The files begin, or there are none: the folders are all done by then.
LEMMA FilesStart ==
    ASSUME TypeOK, pc # "idle", StartFiles, config' = config
    PROVE  /\ InProgress'
           /\ FilesProvided'
           /\ FoldersDone' = DOMAIN config.folders
           /\ pc' \notin FolderCalls
<1>0. Len(config.files) \in Nat /\ DOMAIN config.files = 1..Len(config.files)
      /\ (config.files # <<>> => Len(config.files) # 0)
  BY Entries
<1> USE DEF FolderCalls, FileCalls
<1>1. CASE config.files = <<>>
  <2>1. pc' = "idle" /\ result' = "ok"
    BY <1>1 DEF StartFiles, Return
  <2>2. DOMAIN config'.files = {}
    BY <1>1
  <2> QED
    BY <2>1, <2>2 DEF InProgress, FilesProvided, FilesDone, FoldersDone
<1>2. CASE config.files # <<>>
  <2>1. pc' = "parent" /\ i' = 1 /\ 1 \in DOMAIN config'.files
    BY <1>0, <1>2 DEF StartFiles
  <2>2. result' # "ok" => FilesDone' = {}
    BY <2>1 DEF FilesDone
  <2>3. result' # "ok"
    BY <1>2 DEF StartFiles, TypeOK
  <2> QED
    BY <2>1, <2>2, <2>3 DEF InProgress, FilesProvided, FoldersDone
<1> QED
  BY <1>1, <1>2

\* The next folder's turn, or the files'.
LEMMA FoldersGoOn ==
    ASSUME TypeOK, InProgress, HostnameProvided, pc \in FolderCalls, NextFolder,
           UNCHANGED <<hostname, config>>,
           \A j \in FoldersDone \cap Current(config.folders, FolderCalls) :
               (FolderIsThere(config.folders[j]))',
           NEW d, d = Folder, (FolderIsThere(d))'
    PROVE  InProgress' /\ FoldersProvided' /\ FilesProvided' /\ HostnameProvided'
<1> DEFINE n == Len(config.folders)
<1>0. n \in Nat /\ DOMAIN config.folders = 1..n /\ i \in 1..n /\ d = config.folders[i]
  BY Entries DEF InProgress, Folder
<1>1. FoldersDone = 1..(i - 1)
  BY DEF FoldersDone, TypeOK, FolderCalls, FileCalls
<1>2. Current(config.folders, FolderCalls) =
          {j \in 1..n : \A k \in 1..n : j < k /\ k <= i => config.folders[k].path # config.folders[j].path}
  BY <1>0 DEF Current
<1>3. ASSUME NEW j \in 1..i, j = i \/ j \in Current(config.folders, FolderCalls)
      PROVE  (FolderIsThere(config.folders[j]))'
  <2>1. CASE j = i
    BY <1>0, <2>1
  <2>2. CASE j # i
    BY <1>0, <1>1, <1>3, <2>2
  <2> QED
    BY <2>1, <2>2
<1>4. CASE i < n
  <2>1. pc' = "mkdir" /\ i' = i + 1 /\ result' = result /\ i + 1 \in 1..n
    BY <1>0, <1>4 DEF NextFolder
  <2>2. result' # "ok"
    BY <2>1 DEF TypeOK, FolderCalls
  <2>3. FoldersDone' = 1..i /\ FilesDone' = {}
    BY <1>0, <2>1, <2>2 DEF FoldersDone, FilesDone, FolderCalls, FileCalls
  <2>4. Current(config.folders, FolderCalls)' =
            {j \in 1..n : \A k \in 1..n : j < k /\ k <= i + 1 => config.folders[k].path # config.folders[j].path}
    BY <1>0, <2>1 DEF Current, FolderCalls
  <2>5. Current(config.folders, FolderCalls)' \subseteq Current(config.folders, FolderCalls)
    BY <1>0, <1>2, <2>4
  <2>6. FoldersProvided'
    BY <1>3, <2>3, <2>5 DEF FoldersProvided
  <2> QED
    BY <1>0, <2>1, <2>2, <2>3, <2>6 DEF InProgress, FilesProvided, HostnameProvided, FolderCalls, FileCalls
<1>5. CASE ~(i < n)
  <2>1. StartFiles /\ i = n
    BY <1>0, <1>5 DEF NextFolder
  <2>2. InProgress' /\ FilesProvided' /\ FoldersDone' = 1..n /\ pc' \notin FolderCalls
    BY <1>0, <2>1, FilesStart DEF FolderCalls
  <2>3. Current(config.folders, FolderCalls)' = Current(config.folders, FolderCalls)
    BY <1>0, <1>2, <2>1, <2>2 DEF Current
  <2>4. FoldersProvided'
    BY <1>3, <2>1, <2>2, <2>3 DEF FoldersProvided
  <2> QED
    BY <2>2, <2>4 DEF HostnameProvided, FolderCalls
<1> QED
  BY <1>4, <1>5

\* The next file's turn, or success.
LEMMA FilesGoOn ==
    ASSUME TypeOK, InProgress, HostnameProvided, pc \in FileCalls, NextFile,
           UNCHANGED <<hostname, config>>,
           \A j \in FoldersDone \cap Current(config.folders, FolderCalls) :
               (FolderIsThere(config.folders[j]))',
           \A j \in FilesDone \cap Current(config.files, FileCalls) :
               (FileIsThere(config.files[j]))',
           NEW d, d = DeclaredFile, (FileIsThere(d))'
    PROVE  InProgress' /\ FoldersProvided' /\ FilesProvided' /\ HostnameProvided'
<1> DEFINE n == Len(config.files)
<1>0. n \in Nat /\ DOMAIN config.files = 1..n /\ i \in 1..n /\ d = config.files[i]
  BY Entries DEF InProgress, DeclaredFile
<1>1. FilesDone = 1..(i - 1) /\ FoldersDone = DOMAIN config.folders
  BY DEF FoldersDone, FilesDone, TypeOK, FolderCalls, FileCalls
<1>2. Current(config.files, FileCalls) =
          {j \in 1..n : \A k \in 1..n : j < k /\ k <= i => config.files[k].path # config.files[j].path}
  BY <1>0 DEF Current
<1>3. ASSUME NEW j \in 1..i, j = i \/ j \in Current(config.files, FileCalls)
      PROVE  (FileIsThere(config.files[j]))'
  <2>1. CASE j = i
    BY <1>0, <2>1
  <2>2. CASE j # i
    BY <1>0, <1>1, <1>3, <2>2
  <2> QED
    BY <2>1, <2>2
<1>4. pc' \notin FolderCalls /\ (result' = "ok" \/ pc' \in FileCalls)
  BY DEF NextFile, Return, FolderCalls, FileCalls
<1>5. FoldersDone' = FoldersDone
  BY <1>1, <1>4 DEF FoldersDone
<1>6. Current(config.folders, FolderCalls)' = Current(config.folders, FolderCalls)
  <2>1. pc \notin FolderCalls
    BY DEF FolderCalls, FileCalls
  <2> QED
    BY <1>4, <2>1 DEF Current
<1>7. FoldersProvided' /\ HostnameProvided'
  BY <1>5, <1>6 DEF FoldersProvided, HostnameProvided
<1>8. CASE i < n
  <2>1. pc' = "parent" /\ i' = i + 1 /\ result' = result /\ i + 1 \in 1..n
    BY <1>0, <1>8 DEF NextFile
  <2>2. result' # "ok"
    BY <2>1 DEF TypeOK, FileCalls
  <2>3. FilesDone' = 1..i
    BY <1>0, <2>1, <2>2 DEF FilesDone, FileCalls
  <2>4. Current(config.files, FileCalls)' =
            {j \in 1..n : \A k \in 1..n : j < k /\ k <= i + 1 => config.files[k].path # config.files[j].path}
    BY <1>0, <2>1 DEF Current, FileCalls
  <2>5. Current(config.files, FileCalls)' \subseteq Current(config.files, FileCalls)
    BY <1>0, <1>2, <2>4
  <2>6. FilesProvided'
    BY <1>3, <2>3, <2>5 DEF FilesProvided
  <2> QED
    BY <1>0, <1>7, <2>1, <2>6 DEF InProgress, FolderCalls, FileCalls
<1>9. CASE ~(i < n)
  <2>1. pc' = "idle" /\ result' = "ok" /\ i = n
    BY <1>0, <1>9 DEF NextFile, Return
  <2>2. FilesDone' = 1..n
    BY <1>0, <2>1 DEF FilesDone
  <2>3. Current(config.files, FileCalls)' = Current(config.files, FileCalls)
    BY <1>0, <1>2, <2>1 DEF Current, FileCalls
  <2>4. FilesProvided'
    BY <1>3, <2>1, <2>2, <2>3 DEF FilesProvided
  <2> QED
    BY <1>7, <2>1, <2>4 DEF InProgress, FolderCalls, FileCalls
<1> QED
  BY <1>8, <1>9

\* What is at a path is as declared as long as it stays.
LEMMA ThereStands ==
    ASSUME NEW d, fs'[d.path] = fs[d.path]
    PROVE  /\ FolderIsThere(d) => (FolderIsThere(d))'
           /\ FileIsThere(d) => (FileIsThere(d))'
  BY DEF FolderIsThere, FileIsThere

\* What chown leaves agrees with what is declared, and so does anything if
\* nothing is declared (provision.go:71-75, 164-168).
LEMMA ChownedAgrees ==
    ASSUME NEW d, NEW actual
    PROVE  /\ OwnerAgrees(d.owner, Chowned(d.owner, actual))
           /\ ~HasOwner(d) => OwnerAgrees(d.owner, actual)
           /\ Chowned(d.owner, actual).user # actual.user => d.owner.user # Undeclared
           /\ Chowned(d.owner, actual).group # actual.group => d.owner.group # Undeclared
<1>1. /\ Chowned(d.owner, actual).user = Attribute(d.owner.user, actual.user)
      /\ Chowned(d.owner, actual).group = Attribute(d.owner.group, actual.group)
  BY DEF Chowned
<1> QED
  BY <1>1 DEF OwnerAgrees, Agrees, HasOwner, Attribute

\* os.MkdirAll touches nothing that is there, and its last mkdir leaves a folder
\* at its path (provision.go:67-69, 149-153).
LEMMA MkdirAllLeaves ==
    ASSUME TypeOK, NEW p \in Path, CanMkdirAll(p), MkdirAll(p)
    PROVE  /\ DOMAIN fs' = Path /\ \A q \in Path : Formed(fs'[q])
           /\ \A q \in Path : fs[q].kind # "absent" => fs'[q] = fs[q]
           /\ LastMkdir(p) => fs'[p].kind = "dir"
<1>0. /\ \A q \in Path : Formed(fs[q]) /\ Absent.kind = "absent"
      /\ \A m, o : /\ Dir(m, o).kind = "dir"
                   /\ DOMAIN Dir(m, o) = {"kind", "mode", "owner"}
  BY DEF TypeOK, Dir, Absent
<1>1. p \in Above(p) /\ DOMAIN fs = Path
  BY DEF Above, TypeOK
<1>2. fs[p].kind = "dir" \/ p \in Missing(p)
  BY <1>0, <1>1 DEF CanMkdirAll, Formed, Missing
<1>3. CASE Missing(p) = {} /\ UNCHANGED fs
  BY <1>0, <1>1, <1>2, <1>3
<1>4. ASSUME NEW q \in Missing(p), fs' = [fs EXCEPT ![q] = Dir(493, DefaultOwner)]
      PROVE  /\ DOMAIN fs' = Path /\ \A r \in Path : Formed(fs'[r])
             /\ \A r \in Path : fs[r].kind # "absent" => fs'[r] = fs[r]
             /\ LastMkdir(p) => fs'[p].kind = "dir"
  <2>1. q \in Path /\ fs[q] = Absent
    BY DEF Missing, Above
  <2>2. PICK n : n = Dir(493, DefaultOwner)
    OBVIOUS
  <2>3. fs'[q] = n /\ (\A r \in Path \ {q} : fs'[r] = fs[r]) /\ DOMAIN fs' = Path
    BY <1>1, <1>4, <2>1, <2>2
  <2>4. n.kind = "dir" /\ Formed(n)
    BY <1>0, <2>2 DEF Formed
  <2>5. LastMkdir(p) => p = q \/ p \notin Missing(p)
    BY DEF LastMkdir
  <2>6. LastMkdir(p) => fs'[p].kind = "dir"
    BY <1>2, <2>3, <2>4, <2>5
  <2>7. \A r \in Path : Formed(fs'[r])
    BY <1>0, <2>3, <2>4
  <2>8. \A r \in Path : fs[r].kind # "absent" => fs'[r] = fs[r]
    BY <1>0, <2>1, <2>3
  <2> QED
    BY <2>3, <2>6, <2>7, <2>8
<1> QED
  BY <1>3, <1>4 DEF MkdirAll

\* While a folder is at hand, a call that touches of what is there its path only
\* undoes none of the folders done before: those named again are not Current.
LEMMA FolderCallKeeps ==
    ASSUME TypeOK, InProgress, FoldersProvided, pc \in FolderCalls, config' = config,
           \A q \in Path : q = Folder.path \/ fs[q].kind # "dir" \/ fs'[q] = fs[q]
    PROVE  \A j \in FoldersDone \cap Current(config.folders, FolderCalls) :
               (FolderIsThere(config.folders[j]))'
<1>1. SUFFICES ASSUME NEW j \in FoldersDone \cap Current(config.folders, FolderCalls)
               PROVE  (FolderIsThere(config.folders[j]))'
  OBVIOUS
<1>2. FoldersDone = 1..(i - 1) /\ i \in DOMAIN config.folders /\ i \in Nat
  BY Entries DEF InProgress, FoldersDone, TypeOK, FolderCalls, FileCalls
<1>3. PICK d : d = config.folders[j]
  OBVIOUS
<1>4. d.path # Folder.path /\ d.path \in Path
  BY <1>2, <1>3, Entries DEF Current, Folder
<1>5. FolderIsThere(d)
  BY <1>3 DEF FoldersProvided
<1>6. fs'[d.path] = fs[d.path]
  BY <1>4, <1>5 DEF FolderIsThere
<1>7. (FolderIsThere(d))'
  BY <1>5, <1>6, ThereStands
<1> QED
  BY <1>3, <1>7 DEF FolderIsThere

\* The same of the files; the folders are not touched at all.
LEMMA FileCallKeeps ==
    ASSUME TypeOK, InProgress, FoldersProvided, FilesProvided, pc \in FileCalls, config' = config,
           \A q \in Path : fs[q].kind = "dir" => fs'[q] = fs[q],
           \A q \in Path : q = DeclaredFile.path \/ fs[q].kind # "file" \/ fs'[q] = fs[q]
    PROVE  /\ \A j \in FoldersDone \cap Current(config.folders, FolderCalls) :
                  (FolderIsThere(config.folders[j]))'
           /\ \A j \in FilesDone \cap Current(config.files, FileCalls) :
                  (FileIsThere(config.files[j]))'
<1>0. /\ FoldersDone = DOMAIN config.folders /\ FilesDone = 1..(i - 1)
      /\ i \in DOMAIN config.files /\ i \in Nat
  BY Entries DEF InProgress, FoldersDone, FilesDone, TypeOK, FolderCalls, FileCalls
<1>1. ASSUME NEW j \in FoldersDone \cap Current(config.folders, FolderCalls)
      PROVE  (FolderIsThere(config.folders[j]))'
  <2>1. PICK d : d = config.folders[j]
    OBVIOUS
  <2>2. FolderIsThere(d) /\ d.path \in Path
    BY <1>0, <2>1, Entries DEF FoldersProvided
  <2>3. fs'[d.path] = fs[d.path]
    BY <2>2 DEF FolderIsThere
  <2> QED
    BY <2>1, <2>2, <2>3 DEF FolderIsThere
<1>2. ASSUME NEW j \in FilesDone \cap Current(config.files, FileCalls)
      PROVE  (FileIsThere(config.files[j]))'
  <2>1. PICK d : d = config.files[j]
    OBVIOUS
  <2>2. d.path # DeclaredFile.path /\ d.path \in Path
    BY <1>0, <2>1, Entries DEF Current, DeclaredFile
  <2>3. FileIsThere(d)
    BY <2>1 DEF FilesProvided
  <2>4. fs'[d.path] = fs[d.path]
    BY <2>2, <2>3 DEF FileIsThere
  <2>5. (FileIsThere(d))'
    BY <2>3, <2>4, ThereStands
  <2> QED
    BY <2>1, <2>5 DEF FileIsThere
<1> QED
  BY <1>1, <1>2

\* The typing of a step: what is at the paths, and where the step leads.
LEMMA StepTypeOK ==
    ASSUME TypeOK, config' = config,
           DOMAIN fs' = Path, \A q \in Path : Formed(fs'[q]),
           unsynced' \subseteq {q \in Path : fs'[q].kind = "file"},
           \/ Return("error") \/ NextFolder \/ NextFile \/ StartFolders
           \/ \E l \in FolderCalls \cup FileCalls : Goto(l),
           pc # "idle"
    PROVE  TypeOK'
<1>1. /\ pc' \in {"idle", "hostname"} \cup FolderCalls \cup FileCalls
      /\ result' \in {"none", "ok", "error"}
      /\ result' = "ok" => pc' = "idle"
  BY DEF TypeOK, Return, NextFolder, NextFile, StartFolders, StartFiles, Goto, FolderCalls, FileCalls
<1> QED
  BY <1>1 DEF TypeOK

\* The hostname, first of all (provision.go:15-41).
LEMMA HostnameStep ==
    ASSUME IInv, EnsureHostname
    PROVE  IInv'
<1>1. /\ TypeOK /\ pc = "hostname" /\ UNCHANGED <<fs, unsynced, config>> /\ StartFolders
      /\ hostname' = Attribute(config.hostname, hostname)
  BY DEF IInv, EnsureHostname
<1>2. TypeOK'
  BY <1>1, StepTypeOK DEF TypeOK
<1>3. HostnameProvided'
  BY <1>1 DEF HostnameProvided, Attribute, Agrees
<1>4. CASE config.folders = <<>>
  <2>1. StartFiles /\ pc # "idle"
    BY <1>1, <1>4 DEF StartFolders
  <2>2. InProgress' /\ FilesProvided' /\ FoldersDone' = DOMAIN config.folders
    BY <1>1, <2>1, FilesStart
  <2>3. FoldersProvided'
    BY <1>4, <2>2 DEF FoldersProvided
  <2> QED
    BY <1>2, <1>3, <2>2, <2>3 DEF IInv
<1>5. CASE config.folders # <<>>
  <2>1. pc' = "mkdir" /\ i' = 1 /\ result' = result /\ result # "ok"
    BY <1>1, <1>5 DEF StartFolders, TypeOK
  <2>2. 1 \in DOMAIN config.folders
    BY <1>1, <1>5, Entries
  <2>3. InProgress' /\ FoldersProvided' /\ FilesProvided'
    BY <1>1, <2>1, <2>2 DEF InProgress, FoldersProvided, FilesProvided, FoldersDone, FilesDone,
                            FolderCalls, FileCalls
  <2> QED
    BY <1>2, <1>3, <2>3 DEF IInv
<1> QED
  BY <1>4, <1>5

\* A folder call on a folder that is there, or that it has just made.
LEMMA FolderStep ==
    ASSUME IInv, pc \in FolderCalls, UNCHANGED <<hostname, unsynced, config>>,
           DOMAIN fs' = Path, \A q \in Path : Formed(fs'[q]),
           unsynced' \subseteq {q \in Path : fs'[q].kind = "file"},
           \A q \in Path : q = Folder.path \/ fs[q].kind # "dir" \/ fs'[q] = fs[q],
           NEW d, d = Folder,
           \/ Goto("mkdir")
           \/ Goto("chownFolder") /\ fs'[d.path].kind = "dir"
           \/ /\ Goto("chmodFolder") /\ fs'[d.path].kind = "dir"
              /\ d.mode # Undeclared /\ OwnerAgrees(d.owner, fs'[d.path].owner)
           \/ /\ NextFolder /\ fs'[d.path].kind = "dir"
              /\ d.mode # Undeclared => fs'[d.path].mode = Perm(d.mode)
              /\ OwnerAgrees(d.owner, fs'[d.path].owner)
    PROVE  IInv'
<1>0. /\ TypeOK /\ InProgress /\ FoldersProvided /\ FilesProvided /\ HostnameProvided
      /\ pc # "idle" /\ {"mkdir", "chownFolder", "chmodFolder"} \subseteq FolderCalls
  BY DEF IInv, FolderCalls
<1>1. TypeOK'
  BY <1>0, StepTypeOK
<1>2. \A j \in FoldersDone \cap Current(config.folders, FolderCalls) :
          (FolderIsThere(config.folders[j]))'
  BY <1>0, FolderCallKeeps
<1>3. CASE /\ NextFolder /\ fs'[d.path].kind = "dir"
           /\ d.mode # Undeclared => fs'[d.path].mode = Perm(d.mode)
           /\ OwnerAgrees(d.owner, fs'[d.path].owner)
  <2>1. (FolderIsThere(d))'
    BY <1>3 DEF FolderIsThere, OwnerAgrees, Agrees
  <2> QED
    BY <1>0, <1>1, <1>2, <1>3, <2>1, FoldersGoOn DEF IInv
<1>4. CASE \/ Goto("mkdir")
           \/ Goto("chownFolder") /\ fs'[d.path].kind = "dir"
           \/ /\ Goto("chmodFolder") /\ fs'[d.path].kind = "dir"
              /\ d.mode # Undeclared /\ OwnerAgrees(d.owner, fs'[d.path].owner)
  <2>1. UNCHANGED <<i, result>> /\ pc' \in {"mkdir", "chownFolder", "chmodFolder"}
    BY <1>4 DEF Goto
  <2>2. FilesDone = {}
    BY <1>0 DEF FilesDone, TypeOK, FolderCalls, FileCalls
  <2>3. FoldersProvided' /\ FilesProvided' /\ HostnameProvided'
    BY <1>0, <1>2, <2>1, <2>2, SameEntry
  <2>4. Folder' = d
    BY <2>1 DEF Folder
  <2>5. InProgress'
    BY <1>0, <1>4, <2>1, <2>4 DEF InProgress, Goto, OwnerAgrees, Agrees, FolderCalls, FileCalls
  <2> QED
    BY <1>1, <2>3, <2>5 DEF IInv
<1> QED
  BY <1>3, <1>4

\* Making a folder and giving it its owner and its mode (provision.go:52-83).
LEMMA FolderSteps ==
    ASSUME IInv, MkdirFolder \/ ChownFolder \/ ChmodFolder
    PROVE  IInv'
<1> DEFINE p == Folder.path
<1>0. /\ TypeOK /\ InProgress /\ pc \in FolderCalls /\ UNCHANGED <<hostname, unsynced, config>>
      /\ pc # "idle"
  BY DEF IInv, MkdirFolder, ChownFolder, ChmodFolder, FolderCalls
<1>1. p \in Path
  BY <1>0, Entries DEF InProgress, Folder
<1>2. \A q \in Path : Formed(fs[q])
  BY <1>0 DEF TypeOK
<1>3. PICK d : d = Folder
  OBVIOUS
<1>4. CASE MkdirFolder
  <2>1. CASE /\ CanMkdirAll(p) /\ MkdirAll(p)
             /\ IF LastMkdir(p) THEN AfterMkdir ELSE Goto("mkdir")
    <3>1. /\ DOMAIN fs' = Path /\ \A q \in Path : Formed(fs'[q])
          /\ \A q \in Path : fs[q].kind # "absent" => fs'[q] = fs[q]
          /\ LastMkdir(p) => fs'[p].kind = "dir"
      BY <1>0, <1>1, <2>1, MkdirAllLeaves
    <3>2. unsynced' \subseteq {q \in Path : fs'[q].kind = "file"}
      BY <1>0, <3>1 DEF TypeOK
    <3>3. \/ Goto("mkdir") /\ ~LastMkdir(p)
          \/ LastMkdir(p) /\ Goto("chownFolder")
          \/ LastMkdir(p) /\ Goto("chmodFolder") /\ d.mode # Undeclared /\ ~HasOwner(d)
          \/ LastMkdir(p) /\ NextFolder /\ d.mode = Undeclared /\ ~HasOwner(d)
      BY <1>3, <2>1 DEF AfterMkdir
    <3>4. \A q \in Path : fs[q].kind # "dir" \/ fs'[q] = fs[q]
      BY <3>1
    <3>5. ~HasOwner(d) => OwnerAgrees(d.owner, fs'[p].owner)
      BY ChownedAgrees
    <3>6. p = d.path
      BY <1>3
    <3> HIDE DEF p
    <3> QED
      BY <1>0, <1>3, <3>1, <3>2, <3>3, <3>4, <3>5, <3>6, FolderStep
  <2>2. CASE Return("error") /\ UNCHANGED fs
    <3>1. TypeOK'
      BY <1>0, <2>2, StepTypeOK DEF TypeOK
    <3> QED
      BY <2>2, <3>1, AnErrorTellsNothing DEF IInv
  <2> QED
    BY <1>4, <2>1, <2>2 DEF MkdirFolder
<1>5. CASE ChownFolder
  <2>0. PICK o : o = Chowned(d.owner, fs[p].owner)
    OBVIOUS
  <2>1. fs[p].kind = "dir" /\ fs' = [fs EXCEPT ![p] = [fs[p] EXCEPT !.owner = o]]
    BY <1>0, <1>1, <1>3, <1>5, <2>0 DEF ChownFolder, InProgress
  <2>2. PICK n : n = [fs[p] EXCEPT !.owner = o]
    OBVIOUS
  <2>3. Formed(n) /\ n.kind = "dir" /\ n.owner = o
    BY <1>1, <1>2, <2>1, <2>2 DEF Formed, Absent
  <2>4. \/ Goto("chmodFolder") /\ d.mode # Undeclared
        \/ NextFolder /\ d.mode = Undeclared
    BY <1>3, <1>5 DEF ChownFolder
  <2>5. p = d.path
    BY <1>3
  <2> HIDE DEF p
  <2>6. /\ fs'[p] = n /\ \A q \in Path : q # p => fs'[q] = fs[q]
        /\ DOMAIN fs' = Path /\ \A q \in Path : Formed(fs'[q])
        /\ unsynced' \subseteq {q \in Path : fs'[q].kind = "file"}
    BY <1>0, <1>1, <2>1, <2>2, <2>3 DEF TypeOK
  <2>7. OwnerAgrees(d.owner, o)
    BY <2>0, ChownedAgrees
  <2> QED
    BY <1>0, <1>3, <2>3, <2>4, <2>5, <2>6, <2>7, FolderStep
<1>6. CASE ChmodFolder
  <2>1. /\ fs[p].kind = "dir" /\ OwnerAgrees(d.owner, fs[p].owner)
        /\ fs' = [fs EXCEPT ![p] = [fs[p] EXCEPT !.mode = Perm(d.mode)]]
    BY <1>0, <1>1, <1>3, <1>6 DEF ChmodFolder, InProgress
  <2>2. PICK n : n = [fs[p] EXCEPT !.mode = Perm(d.mode)]
    OBVIOUS
  <2>3. Formed(n) /\ n.kind = "dir" /\ n.owner = fs[p].owner /\ n.mode = Perm(d.mode)
    BY <1>1, <1>2, <2>1, <2>2 DEF Formed, Absent
  <2>4. NextFolder
    BY <1>6 DEF ChmodFolder
  <2>5. p = d.path
    BY <1>3
  <2> HIDE DEF p
  <2>6. /\ fs'[p] = n /\ \A q \in Path : q # p => fs'[q] = fs[q]
        /\ DOMAIN fs' = Path /\ \A q \in Path : Formed(fs'[q])
        /\ unsynced' \subseteq {q \in Path : fs'[q].kind = "file"}
    BY <1>0, <1>1, <2>1, <2>2, <2>3 DEF TypeOK
  <2> QED
    BY <1>0, <1>3, <2>1, <2>3, <2>4, <2>5, <2>6, FolderStep
<1> QED
  BY <1>4, <1>5, <1>6

\* A file call on a file that is there, or that it has just made.
LEMMA FileStep ==
    ASSUME IInv, pc \in FileCalls, UNCHANGED <<hostname, config>>,
           DOMAIN fs' = Path, \A q \in Path : Formed(fs'[q]),
           unsynced' \subseteq {q \in Path : fs'[q].kind = "file"},
           \A q \in Path : fs[q].kind = "dir" => fs'[q] = fs[q],
           NEW d, d = DeclaredFile,
           \A q \in Path : q = d.path \/ fs[q].kind # "file" \/ fs'[q] = fs[q],
           \/ Goto("parent") \/ Goto("open")
           \/ Goto("write") /\ fs'[d.path].kind = "file"
           \/ /\ Goto("chmod")
              /\ fs'[d.path].kind = "file" /\ fs'[d.path].content = d.content
           \/ /\ Goto("chown")
              /\ fs'[d.path].kind = "file" /\ fs'[d.path].content = d.content
              /\ fs'[d.path].mode = FileModeOf(d)
           \/ /\ NextFile
              /\ fs'[d.path].kind = "file" /\ fs'[d.path].content = d.content
              /\ fs'[d.path].mode = FileModeOf(d) /\ OwnerAgrees(d.owner, fs'[d.path].owner)
    PROVE  IInv'
<1>0. /\ TypeOK /\ InProgress /\ FoldersProvided /\ FilesProvided /\ HostnameProvided
      /\ pc # "idle" /\ {"parent", "open", "write", "chmod", "chown"} \subseteq FileCalls
  BY DEF IInv, FileCalls
<1>1. TypeOK'
  BY <1>0, StepTypeOK
<1>2. /\ \A j \in FoldersDone \cap Current(config.folders, FolderCalls) :
             (FolderIsThere(config.folders[j]))'
      /\ \A j \in FilesDone \cap Current(config.files, FileCalls) :
             (FileIsThere(config.files[j]))'
  BY <1>0, FileCallKeeps
<1>3. CASE /\ NextFile
           /\ fs'[d.path].kind = "file" /\ fs'[d.path].content = d.content
           /\ fs'[d.path].mode = FileModeOf(d) /\ OwnerAgrees(d.owner, fs'[d.path].owner)
  <2>1. (FileIsThere(d))'
    BY <1>3 DEF FileIsThere, OwnerAgrees, Agrees, FileModeOf
  <2> QED
    BY <1>0, <1>1, <1>2, <1>3, <2>1, FilesGoOn DEF IInv
<1>4. CASE \/ Goto("parent") \/ Goto("open")
           \/ Goto("write") /\ fs'[d.path].kind = "file"
           \/ /\ Goto("chmod")
              /\ fs'[d.path].kind = "file" /\ fs'[d.path].content = d.content
           \/ /\ Goto("chown")
              /\ fs'[d.path].kind = "file" /\ fs'[d.path].content = d.content
              /\ fs'[d.path].mode = FileModeOf(d)
  <2>1. UNCHANGED <<i, result>> /\ pc' \in {"parent", "open", "write", "chmod", "chown"}
    BY <1>4 DEF Goto
  <2>2. FoldersProvided' /\ FilesProvided' /\ HostnameProvided'
    BY <1>0, <1>2, <2>1, SameEntry
  <2>3. DeclaredFile' = d /\ FileMode' = FileModeOf(d)
    BY <2>1 DEF DeclaredFile, FileMode, FileModeOf
  <2>4. InProgress'
    BY <1>0, <1>4, <2>1, <2>3 DEF InProgress, Goto, FolderCalls, FileCalls
  <2> QED
    BY <1>1, <2>2, <2>4 DEF IInv
<1> QED
  BY <1>3, <1>4

\* The file, from its parents to its owner (provision.go:149-170).
LEMMA FileSteps ==
    ASSUME IInv, MkdirParent \/ OpenFile \/ WriteFile \/ ChmodFile \/ ChownFile
    PROVE  IInv'
<1> DEFINE p == DeclaredFile.path
<1>0. /\ TypeOK /\ InProgress /\ pc \in FileCalls /\ UNCHANGED <<hostname, config>>
      /\ pc # "idle"
  BY DEF IInv, MkdirParent, OpenFile, WriteFile, ChmodFile, ChownFile, FileCalls
<1>1. p \in Path
  BY <1>0, Entries DEF InProgress, DeclaredFile
<1>2. \A q \in Path : Formed(fs[q])
  BY <1>0 DEF TypeOK
<1>3. PICK d : d = DeclaredFile
  OBVIOUS
<1>4. ASSUME Return("error"), UNCHANGED <<fs, unsynced>> PROVE IInv'
  <2>1. TypeOK'
    BY <1>0, <1>4, StepTypeOK DEF TypeOK
  <2> QED
    BY <1>4, <2>1, AnErrorTellsNothing DEF IInv
<1>5. CASE MkdirParent
  <2> DEFINE dir == Parent[p]
  <2>1. unsynced' = unsynced
    BY <1>5 DEF MkdirParent
  <2>2. CASE dir = Root
    <3>1. Goto("open") /\ fs' = fs
      BY <1>5, <2>2 DEF MkdirParent
    <3> QED
      BY <1>0, <1>3, <2>1, <3>1, FileStep DEF TypeOK
  <2>3. CASE /\ dir # Root /\ CanMkdirAll(dir) /\ MkdirAll(dir)
             /\ Goto("open") \/ Goto("parent")
    <3>1. dir \in Path
      BY <1>1, <2>3, ProvisionAssumption
    <3>2. /\ DOMAIN fs' = Path /\ \A q \in Path : Formed(fs'[q])
          /\ \A q \in Path : fs[q].kind # "absent" => fs'[q] = fs[q]
      BY <1>0, <2>3, <3>1, MkdirAllLeaves
    <3>3. unsynced' \subseteq {q \in Path : fs'[q].kind = "file"}
      BY <1>0, <2>1, <3>2 DEF TypeOK
    <3>4. \A q \in Path : fs[q].kind \in {"dir", "file"} => fs'[q] = fs[q]
      BY <3>2
    <3> QED
      BY <1>0, <1>3, <2>3, <3>2, <3>3, <3>4, FileStep
  <2> QED
    BY <1>4, <1>5, <2>1, <2>2, <2>3 DEF MkdirParent
<1>6. CASE OpenFile
  <2>1. CASE fs[p].kind = "dir"
    BY <1>4, <1>6, <2>1 DEF OpenFile
  <2>2. CASE fs[p].kind # "dir"
    <3> DEFINE made == IF fs[p] = Absent
                       THEN File(Empty, WithoutUmask(FileMode), DefaultOwner)
                       ELSE [fs[p] EXCEPT !.content = Empty]
    <3>1. fs' = [fs EXCEPT ![p] = made] /\ unsynced' = unsynced \cup {p} /\ Goto("write")
      BY <1>6, <2>2 DEF OpenFile
    <3>2. PICK n : n = made
      OBVIOUS
    <3>3. Formed(n) /\ n.kind = "file"
      BY <1>1, <1>2, <2>2, <3>2 DEF Formed, Absent, File
    <3>4. p = d.path
      BY <1>3
    <3> HIDE DEF p, made
    <3>5. /\ fs'[p] = n /\ \A q \in Path : q # p => fs'[q] = fs[q]
          /\ DOMAIN fs' = Path /\ \A q \in Path : Formed(fs'[q])
          /\ unsynced' \subseteq {q \in Path : fs'[q].kind = "file"}
      BY <1>0, <1>1, <3>1, <3>2, <3>3 DEF TypeOK
    <3> QED
      BY <1>0, <1>3, <2>2, <3>1, <3>3, <3>4, <3>5, FileStep
  <2> QED
    BY <2>1, <2>2
\* The calls on the open file and after.
<1>7. ASSUME NEW n, fs[p].kind = "file", Formed(n), n.kind = "file", fs' = [fs EXCEPT ![p] = n],
             unsynced' = unsynced,
             \/ Goto("chmod") /\ n.content = d.content
             \/ Goto("chown") /\ n.content = d.content /\ n.mode = FileModeOf(d)
             \/ NextFile /\ n.content = d.content /\ n.mode = FileModeOf(d)
                /\ OwnerAgrees(d.owner, n.owner)
      PROVE  IInv'
  <2>1. p = d.path
    BY <1>3
  <2> HIDE DEF p
  <2>2. /\ fs'[p] = n /\ \A q \in Path : q # p => fs'[q] = fs[q]
        /\ DOMAIN fs' = Path /\ \A q \in Path : Formed(fs'[q])
        /\ unsynced' \subseteq {q \in Path : fs'[q].kind = "file"}
    BY <1>0, <1>1, <1>7 DEF TypeOK
  <2> QED
    BY <1>0, <1>3, <1>7, <2>1, <2>2, FileStep
<1>8. CASE WriteFile
  <2>1. /\ fs[p].kind = "file" /\ Goto("chmod") /\ unsynced' = unsynced
        /\ fs' = [fs EXCEPT ![p] = [fs[p] EXCEPT !.content = d.content]]
    BY <1>0, <1>1, <1>3, <1>8 DEF WriteFile, InProgress
  <2>2. PICK n : n = [fs[p] EXCEPT !.content = d.content]
    OBVIOUS
  <2>3. Formed(n) /\ n.kind = "file" /\ n.content = d.content
    BY <1>1, <1>2, <2>1, <2>2 DEF Formed, Absent
  <2> QED
    BY <1>7, <2>1, <2>2, <2>3
<1>9. CASE ChmodFile
  <2>1. /\ fs[p].kind = "file" /\ fs[p].content = d.content /\ unsynced' = unsynced
        /\ fs' = [fs EXCEPT ![p] = [fs[p] EXCEPT !.mode = FileModeOf(d)]]
        /\ Goto("chown") \/ (NextFile /\ ~HasOwner(d))
    BY <1>0, <1>1, <1>3, <1>9 DEF ChmodFile, InProgress, AfterChmod, FileMode
  <2>2. PICK n : n = [fs[p] EXCEPT !.mode = FileModeOf(d)]
    OBVIOUS
  <2>3. Formed(n) /\ n.kind = "file" /\ n.content = d.content /\ n.mode = FileModeOf(d)
    BY <1>1, <1>2, <2>1, <2>2 DEF Formed, Absent
  <2>4. ~HasOwner(d) => OwnerAgrees(d.owner, n.owner)
    BY ChownedAgrees
  <2> QED
    BY <1>7, <2>1, <2>2, <2>3, <2>4
<1>10. CASE ChownFile
  <2>0. PICK o : o = Chowned(d.owner, fs[p].owner)
    OBVIOUS
  <2>1. /\ fs[p].kind = "file" /\ fs[p].content = d.content /\ unsynced' = unsynced
        /\ fs[p].mode = FileModeOf(d)
        /\ fs' = [fs EXCEPT ![p] = [fs[p] EXCEPT !.owner = o]]
        /\ NextFile
    BY <1>0, <1>1, <1>3, <1>10, <2>0 DEF ChownFile, InProgress, FileMode
  <2>2. PICK n : n = [fs[p] EXCEPT !.owner = o]
    OBVIOUS
  <2>3. /\ Formed(n) /\ n.kind = "file" /\ n.content = d.content /\ n.mode = FileModeOf(d)
        /\ n.owner = o
    BY <1>1, <1>2, <2>1, <2>2 DEF Formed, Absent
  <2>4. OwnerAgrees(d.owner, o)
    BY <2>0, ChownedAgrees
  <2> QED
    BY <1>7, <2>1, <2>2, <2>3, <2>4
<1> QED
  BY <1>5, <1>6, <1>8, <1>9, <1>10

\* What is at some files is lost: they stay files (a write cut short, a power
\* loss).
LEMMA TornTypeOK ==
    ASSUME TypeOK, NEW lost, lost \subseteq {p \in Path : fs[p].kind = "file"},
           fs' = [p \in Path |-> IF p \in lost THEN [fs[p] EXCEPT !.content = Torn] ELSE fs[p]]
    PROVE  /\ DOMAIN fs' = Path /\ \A p \in Path : Formed(fs'[p])
           /\ \A p \in Path : fs[p].kind = "file" => fs'[p].kind = "file"
<1>1. DOMAIN fs' = Path
  OBVIOUS
<1>2. ASSUME NEW p \in Path, NEW n, n = fs'[p]
      PROVE  Formed(n) /\ (fs[p].kind = "file" => n.kind = "file")
  <2>1. Formed(fs[p])
    BY DEF TypeOK
  <2>2. CASE p \notin lost
    BY <1>2, <2>1, <2>2
  <2>3. CASE p \in lost
    <3>1. n = [fs[p] EXCEPT !.content = Torn] /\ fs[p].kind = "file"
      BY <1>2, <2>3
    <3> QED
      BY <2>1, <3>1 DEF Formed, Absent
  <2> QED
    BY <2>2, <2>3
<1> QED
  BY <1>1, <1>2

\* A restart, an outage or an error ends the apply: nothing is told of it.
LEMMA StartOverTellsNothing ==
    ASSUME pc' = "hostname", result' = "none"
    PROVE  InProgress' /\ FoldersProvided' /\ FilesProvided' /\ HostnameProvided'
  BY DEF InProgress, FoldersProvided, FilesProvided, HostnameProvided, FoldersDone, FilesDone,
         FolderCalls, FileCalls

\* The invariant holds whatever was there before, whatever fails, and however
\* often the process is killed or power is lost (provision.go:19-204).
THEOREM ProvisionInvariance == Spec => []IInv
<1>1. Init => IInv
  <2> SUFFICES ASSUME Init PROVE IInv
    OBVIOUS
  <2>1. fs \in [Path -> Node] /\ unsynced = {} /\ pc = "idle" /\ result = "none"
        /\ config = [hostname |-> Undeclared, folders |-> <<>>, files |-> <<>>]
    BY ProvisionAssumption DEF Init
  <2>2. \A n \in Node : Formed(n)
    BY DEF Node, Formed
  <2>3. Valid(config)
    BY <2>1 DEF Valid
  <2>4. TypeOK
    BY <2>1, <2>2, <2>3 DEF TypeOK
  <2>5. InProgress /\ FoldersProvided /\ FilesProvided /\ HostnameProvided
    BY <2>1 DEF InProgress, FoldersProvided, FilesProvided, HostnameProvided, FoldersDone,
                FilesDone, FolderCalls, FileCalls
  <2> QED
    BY <2>4, <2>5 DEF IInv
<1>2. IInv /\ [Next]_vars => IInv'
  <2> SUFFICES ASSUME IInv, [Next]_vars PROVE IInv'
    OBVIOUS
  <2>0. TypeOK /\ InProgress
    BY DEF IInv
  <2>1. ASSUME NEW c \in Configs, Apply(c) PROVE IInv'
    <3>1. TypeOK'
      BY <2>0, <2>1, ProvisionAssumption DEF Apply, TypeOK
    <3> QED
      BY <2>1, <3>1, StartOverTellsNothing DEF Apply, IInv
  <2>2. CASE Step
    BY <2>2, HostnameStep, FolderSteps, FileSteps DEF Step
  <2>3. CASE CallFails
    <3>1. /\ Return("error") /\ UNCHANGED <<unsynced, config>> /\ pc # "idle"
          /\ \/ fs' = fs
             \/ pc = "write" /\ fs' = [fs EXCEPT ![DeclaredFile.path].content = Torn]
      BY <2>3 DEF CallFails
    <3>2. /\ DOMAIN fs' = Path /\ \A q \in Path : Formed(fs'[q])
          /\ \A q \in Path : fs[q].kind = "file" => fs'[q].kind = "file"
      <4>1. CASE fs' = fs
        BY <2>0, <4>1 DEF TypeOK
      <4>2. CASE pc = "write" /\ fs' = [fs EXCEPT ![DeclaredFile.path].content = Torn]
        <5> DEFINE p == DeclaredFile.path
        <5>1. p \in Path /\ fs[p].kind = "file" /\ DOMAIN fs = Path
          BY <2>0, <4>2, Entries DEF InProgress, DeclaredFile, FileCalls, TypeOK
        <5>2. fs' = [q \in Path |-> IF q \in {p} THEN [fs[q] EXCEPT !.content = Torn] ELSE fs[q]]
          BY <4>2, <5>1
        <5>3. PICK lost : lost = {p}
          OBVIOUS
        <5> HIDE DEF p
        <5> QED
          BY <2>0, <5>1, <5>2, <5>3, TornTypeOK
      <4> QED
        BY <3>1, <4>1, <4>2
    <3>3. unsynced' \subseteq {q \in Path : fs'[q].kind = "file"}
      BY <2>0, <3>1, <3>2 DEF TypeOK
    <3>4. TypeOK'
      BY <2>0, <3>1, <3>2, <3>3, StepTypeOK
    <3> QED
      BY <3>1, <3>4, AnErrorTellsNothing DEF IInv
  <2>4. CASE Killed
    <3>1. TypeOK'
      BY <2>0, <2>4 DEF Killed, TypeOK
    <3> QED
      BY <2>4, <3>1, StartOverTellsNothing DEF Killed, IInv
  <2>5. CASE PowerLoss
    <3>1. PICK lost \in SUBSET unsynced :
              fs' = [p \in Path |-> IF p \in lost THEN [fs[p] EXCEPT !.content = Torn] ELSE fs[p]]
      BY <2>5 DEF PowerLoss
    <3>2. DOMAIN fs' = Path /\ \A q \in Path : Formed(fs'[q])
      BY <2>0, <3>1, TornTypeOK DEF TypeOK
    <3>3. TypeOK'
      BY <2>0, <2>5, <3>2 DEF PowerLoss, TypeOK
    <3> QED
      BY <2>5, <3>3, StartOverTellsNothing DEF PowerLoss, IInv
  <2>6. CASE UNCHANGED <<fs, hostname, config, pc, i, result>> /\ unsynced' \subseteq unsynced
    <3>1. TypeOK'
      BY <2>0, <2>6 DEF TypeOK
    <3>2. InProgress'
      BY <2>0, <2>6 DEF InProgress, Folder, DeclaredFile, FileMode, FileModeOf
    <3>3. FoldersProvided' /\ FilesProvided' /\ HostnameProvided'
      BY <2>6 DEF IInv, FoldersProvided, FilesProvided, HostnameProvided, FoldersDone, FilesDone,
                  Current, FolderIsThere, FileIsThere
    <3> QED
      BY <3>1, <3>2, <3>3 DEF IInv
  <2>7. WriteBack \/ UNCHANGED vars =>
            UNCHANGED <<fs, hostname, config, pc, i, result>> /\ unsynced' \subseteq unsynced
    BY DEF WriteBack, vars
  <2> QED
    BY <2>1, <2>2, <2>3, <2>4, <2>5, <2>6, <2>7 DEF Next
<1> QED
  BY <1>1, <1>2, PTL DEF Spec

\* What an apply has been through is as declared, and a success means all of it
\* (provision.go:43-50, 112-124).
THEOREM ProvidedSoFarAlways == Spec => []ProvidedSoFar
<1>1. IInv => ProvidedSoFar
  BY DEF IInv, ProvidedSoFar, FoldersProvided, FilesProvided, HostnameProvided
<1> QED
  BY <1>1, ProvisionInvariance, PTL

\* What one step of an apply may do to a path at which something is.
Undisturbed(p) ==
    /\ fs'[p].kind = fs[p].kind
    /\ fs[p].kind = "file" =>
          fs'[p] = fs[p] \/ \E j \in DOMAIN config.files : config.files[j].path = p
    /\ fs[p].kind = "dir" => fs'[p].mode = fs[p].mode \/
          \E j \in DOMAIN config.folders :
              config.folders[j].path = p /\ config.folders[j].mode # Undeclared
    /\ fs'[p].owner.user = fs[p].owner.user \/ \E d \in DeclaredAt(p) : d.owner.user # Undeclared
    /\ fs'[p].owner.group = fs[p].owner.group \/ \E d \in DeclaredAt(p) : d.owner.group # Undeclared

\* An apply changes of what exists only what its config declares
\* (provision.go:52-83, 126-170).
THEOREM KeepsTheUndeclaredAlways == Spec => KeepsTheUndeclared
<1>1. IInv /\ [Next]_vars => [Step => \A p \in Path : fs[p] # Absent => Undisturbed(p)]_vars
  <2> SUFFICES ASSUME IInv, Step, NEW p \in Path, fs[p] # Absent
               PROVE  Undisturbed(p)
    BY DEF vars
  <2>0. /\ TypeOK /\ InProgress
        /\ \/ fs[p].kind = "dir" /\ DOMAIN fs[p] = {"kind", "mode", "owner"}
           \/ fs[p].kind = "file" /\ DOMAIN fs[p] = {"kind", "content", "mode", "owner"}
    BY DEF IInv, TypeOK, Formed
  <2>1. CASE fs'[p] = fs[p]
    BY <2>1 DEF Undisturbed
  <2>2. CASE EnsureHostname
    BY <2>1, <2>2 DEF EnsureHostname
  <2>3. CASE MkdirFolder \/ MkdirParent
    <3>1. fs' = fs \/ \E q \in Path \cup {Root} : MkdirAll(q)
      <4>1. CASE MkdirFolder
        <5>1. Folder.path \in Path
          BY <2>0, <4>1, Entries DEF MkdirFolder, InProgress, Folder, FolderCalls
        <5> QED
          BY <4>1, <5>1 DEF MkdirFolder
      <4>2. CASE MkdirParent
        <5>1. DeclaredFile.path \in Path
          BY <2>0, <4>2, Entries DEF MkdirParent, InProgress, DeclaredFile, FileCalls
        <5>2. Parent[DeclaredFile.path] \in Path \cup {Root}
          BY <5>1, ProvisionAssumption
        <5> QED
          BY <4>2, <5>2 DEF MkdirParent
      <4> QED
        BY <2>3, <4>1, <4>2
    <3>2. ASSUME NEW q, fs[q] = Absent, NEW n, fs' = [fs EXCEPT ![q] = n] PROVE fs'[p] = fs[p]
      <4>1. q # p /\ p \in DOMAIN fs
        BY <2>0, <3>2 DEF TypeOK
      <4> QED
        BY <3>2, <4>1
    <3>3. fs' = fs \/ \E q, n : fs[q] = Absent /\ fs' = [fs EXCEPT ![q] = n]
      BY <3>1 DEF MkdirAll, Missing
    <3>4. fs'[p] = fs[p]
      BY <3>2, <3>3
    <3> QED
      BY <2>1, <3>4
  <2>4. CASE ChownFolder \/ ChmodFolder
    <3>1. /\ i \in DOMAIN config.folders /\ Folder.path \in Path /\ fs[Folder.path].kind = "dir"
          /\ Folder = config.folders[i] /\ DOMAIN fs = Path
      BY <2>0, <2>4, Entries DEF ChownFolder, ChmodFolder, InProgress, Folder, FolderCalls, TypeOK
    <3>2. CASE p # Folder.path
      BY <2>1, <2>4, <3>1, <3>2 DEF ChownFolder, ChmodFolder
    <3>3. CASE p = Folder.path /\ ChownFolder
      <4>0. PICK o : o = Chowned(Folder.owner, fs[p].owner)
        OBVIOUS
      <4>1. fs'[p] = [fs[p] EXCEPT !.owner = o]
        BY <2>0, <3>1, <3>3, <4>0 DEF ChownFolder
      <4>2. fs'[p].kind = "dir" /\ fs'[p].mode = fs[p].mode /\ fs'[p].owner = o
        BY <2>0, <3>1, <3>3, <4>1
      <4>3. Folder \in DeclaredAt(p)
        BY <3>1, <3>3 DEF DeclaredAt
      <4>4. /\ o.user # fs[p].owner.user => Folder.owner.user # Undeclared
            /\ o.group # fs[p].owner.group => Folder.owner.group # Undeclared
        BY <4>0, ChownedAgrees
      <4> QED
        BY <3>1, <3>3, <4>2, <4>3, <4>4 DEF Undisturbed
    <3>4. CASE p = Folder.path /\ ChmodFolder
      <4>1. fs'[p] = [fs[p] EXCEPT !.mode = Perm(Folder.mode)] /\ Folder.mode # Undeclared
        BY <2>0, <3>1, <3>4 DEF ChmodFolder, InProgress
      <4>2. fs'[p].kind = "dir" /\ fs'[p].owner = fs[p].owner
        BY <2>0, <3>1, <3>4, <4>1
      <4> QED
        BY <3>1, <3>4, <4>1, <4>2 DEF Undisturbed
    <3> QED
      BY <2>4, <3>2, <3>3, <3>4
  <2>5. CASE OpenFile \/ WriteFile \/ ChmodFile \/ ChownFile
    <3>1. /\ i \in DOMAIN config.files /\ DeclaredFile.path \in Path
          /\ DeclaredFile = config.files[i] /\ DOMAIN fs = Path
      BY <2>0, <2>5, Entries DEF OpenFile, WriteFile, ChmodFile, ChownFile, InProgress,
                                 DeclaredFile, FileCalls, TypeOK
    <3>2. CASE p # DeclaredFile.path
      BY <2>1, <2>5, <3>1, <3>2 DEF OpenFile, WriteFile, ChmodFile, ChownFile
    <3>3. CASE p = DeclaredFile.path /\ fs[p].kind = "file"
      <4>0. PICK o : o = Chowned(DeclaredFile.owner, fs[p].owner)
        OBVIOUS
      <4>1. \/ fs'[p] = [fs[p] EXCEPT !.content = Empty]
            \/ fs'[p] = [fs[p] EXCEPT !.content = DeclaredFile.content]
            \/ fs'[p] = [fs[p] EXCEPT !.mode = FileMode]
            \/ fs'[p] = [fs[p] EXCEPT !.owner = o]
        BY <2>0, <2>5, <3>1, <3>3, <4>0 DEF OpenFile, WriteFile, ChmodFile, ChownFile
      <4>2. fs'[p].kind = "file" /\ fs'[p].owner \in {fs[p].owner, o}
        BY <2>0, <3>3, <4>1
      <4>3. DeclaredFile \in DeclaredAt(p)
        BY <3>1, <3>3 DEF DeclaredAt
      <4>4. /\ o.user # fs[p].owner.user => DeclaredFile.owner.user # Undeclared
            /\ o.group # fs[p].owner.group => DeclaredFile.owner.group # Undeclared
        BY <4>0, ChownedAgrees
      <4> QED
        BY <3>1, <3>3, <4>2, <4>3, <4>4 DEF Undisturbed
    <3>4. CASE p = DeclaredFile.path /\ fs[p].kind = "dir"
      <4>1. pc = "open"
        BY <2>0, <2>5, <3>4 DEF OpenFile, WriteFile, ChmodFile, ChownFile, InProgress
      <4>2. fs' = fs
        BY <2>5, <3>4, <4>1 DEF OpenFile, WriteFile, ChmodFile, ChownFile
      <4> QED
        BY <2>1, <4>2
    <3> QED
      BY <2>0, <3>2, <3>3, <3>4
  <2> QED
    BY <2>2, <2>3, <2>4, <2>5 DEF Step
<1> QED
  BY <1>1, ProvisionInvariance, PTL DEF Spec, KeepsTheUndeclared, Undisturbed

-----------------------------------------------------------------------------
\* What is left of an apply: three calls for a folder, five for a file, where
\* those of os.MkdirAll count as one.
FilesLeft == 5 * Len(config.files)
CallsLeft ==
    CASE pc = "hostname" -> 3 * Len(config.folders) + FilesLeft + 1
      [] pc = "mkdir" -> 3 * (Len(config.folders) - i) + FilesLeft + 3
      [] pc = "chownFolder" -> 3 * (Len(config.folders) - i) + FilesLeft + 2
      [] pc = "chmodFolder" -> 3 * (Len(config.folders) - i) + FilesLeft + 1
      [] pc = "parent" -> 5 * (Len(config.files) - i) + 5
      [] pc = "open" -> 5 * (Len(config.files) - i) + 4
      [] pc = "write" -> 5 * (Len(config.files) - i) + 3
      [] pc = "chmod" -> 5 * (Len(config.files) - i) + 2
      [] pc = "chown" -> 5 * (Len(config.files) - i) + 1
      [] OTHER -> 0

\* A mkdir that is not the last of its os.MkdirAll leaves fewer paths absent.
AbsentPaths == {p \in Path : fs[p] = Absent}
Fewer == AbsentPaths' \subseteq AbsentPaths /\ AbsentPaths' # AbsentPaths

\* Only a restart, which a fault brings about, begins an apply anew.
CallsAreBounded ==
    [][pc # "idle" => /\ CallsLeft \in Nat
                      /\ \/ CallsLeft' < CallsLeft
                         \/ CallsLeft' = CallsLeft /\ (WriteBack \/ Fewer)
                         \/ Killed \/ PowerLoss]_vars

LEMMA CallsLeftIs ==
    /\ pc = "hostname" => CallsLeft = 3 * Len(config.folders) + FilesLeft + 1
    /\ pc = "mkdir" => CallsLeft = 3 * (Len(config.folders) - i) + FilesLeft + 3
    /\ pc = "chownFolder" => CallsLeft = 3 * (Len(config.folders) - i) + FilesLeft + 2
    /\ pc = "chmodFolder" => CallsLeft = 3 * (Len(config.folders) - i) + FilesLeft + 1
    /\ pc = "parent" => CallsLeft = 5 * (Len(config.files) - i) + 5
    /\ pc = "open" => CallsLeft = 5 * (Len(config.files) - i) + 4
    /\ pc = "write" => CallsLeft = 5 * (Len(config.files) - i) + 3
    /\ pc = "chmod" => CallsLeft = 5 * (Len(config.files) - i) + 2
    /\ pc = "chown" => CallsLeft = 5 * (Len(config.files) - i) + 1
    /\ pc = "idle" => CallsLeft = 0
BY DEF CallsLeft

LEMMA CallsLeftWillBe ==
    ASSUME config' = config
    PROVE  /\ pc' = "mkdir" => CallsLeft' = 3 * (Len(config.folders) - i') + FilesLeft + 3
           /\ pc' = "chownFolder" => CallsLeft' = 3 * (Len(config.folders) - i') + FilesLeft + 2
           /\ pc' = "chmodFolder" => CallsLeft' = 3 * (Len(config.folders) - i') + FilesLeft + 1
           /\ pc' = "parent" => CallsLeft' = 5 * (Len(config.files) - i') + 5
           /\ pc' = "open" => CallsLeft' = 5 * (Len(config.files) - i') + 4
           /\ pc' = "write" => CallsLeft' = 5 * (Len(config.files) - i') + 3
           /\ pc' = "chmod" => CallsLeft' = 5 * (Len(config.files) - i') + 2
           /\ pc' = "chown" => CallsLeft' = 5 * (Len(config.files) - i') + 1
           /\ pc' = "idle" => CallsLeft' = 0
BY DEF CallsLeft, FilesLeft

LEMMA Lengths ==
    ASSUME TypeOK, InProgress
    PROVE  /\ Len(config.folders) \in Nat /\ Len(config.files) \in Nat
           /\ FilesLeft = 5 * Len(config.files)
           /\ pc \in FolderCalls => i \in 1..Len(config.folders)
           /\ pc \in FileCalls => i \in 1..Len(config.files)
           /\ config.files # <<>> => Len(config.files) # 0
           /\ config.folders # <<>> => Len(config.folders) # 0
BY Entries DEF InProgress, FilesLeft

LEMMA SomeCallIsLeft ==
    ASSUME TypeOK, InProgress
    PROVE  CallsLeft \in Nat /\ (pc # "idle" => CallsLeft > 0)
<1>1. CASE pc \in {"idle", "hostname"}
  BY <1>1, Lengths, CallsLeftIs
<1>2. CASE pc \in FolderCalls
  <2> DEFINE rest == 3 * (Len(config.folders) - i) + FilesLeft
  <2>1. rest \in Nat
    BY <1>2, Lengths
  <2>2. CallsLeft = rest + 3 \/ CallsLeft = rest + 2 \/ CallsLeft = rest + 1
    BY <1>2, CallsLeftIs DEF FolderCalls
  <2> HIDE DEF rest
  <2> QED
    BY <2>1, <2>2
<1>3. CASE pc \in FileCalls
  <2> DEFINE rest == 5 * (Len(config.files) - i)
  <2>1. rest \in Nat
    BY <1>3, Lengths
  <2>2. \E n \in 1..5 : CallsLeft = rest + n
    BY <1>3, CallsLeftIs DEF FileCalls
  <2> HIDE DEF rest
  <2> QED
    BY <2>1, <2>2
<1> QED
  BY <1>1, <1>2, <1>3 DEF TypeOK

\* The files come after the folders, and may be none.
LEMMA FilesAreLess ==
    ASSUME TypeOK, InProgress, StartFiles, config' = config
    PROVE  CallsLeft' \in Nat /\ CallsLeft' <= FilesLeft
<1>1. CASE config.files = <<>>
  BY <1>1, Lengths, CallsLeftWillBe DEF StartFiles, Return
<1>2. CASE config.files # <<>>
  BY <1>2, Lengths, CallsLeftWillBe DEF StartFiles
<1> QED
  BY <1>1, <1>2

LEMMA NextFolderIsLess ==
    ASSUME TypeOK, InProgress, pc \in FolderCalls, NextFolder, config' = config
    PROVE  CallsLeft' \in Nat /\ CallsLeft' <= 3 * (Len(config.folders) - i) + FilesLeft
<1>1. CASE i < Len(config.folders)
  BY <1>1, Lengths, CallsLeftWillBe DEF NextFolder
<1>2. CASE ~(i < Len(config.folders))
  BY <1>2, Lengths, FilesAreLess DEF NextFolder
<1> QED
  BY <1>1, <1>2

LEMMA NextFileIsLess ==
    ASSUME TypeOK, InProgress, pc \in FileCalls, NextFile, config' = config
    PROVE  CallsLeft' \in Nat /\ CallsLeft' <= 5 * (Len(config.files) - i)
<1>1. CASE i < Len(config.files)
  BY <1>1, Lengths, CallsLeftWillBe DEF NextFile
<1>2. CASE ~(i < Len(config.files))
  BY <1>2, Lengths, CallsLeftWillBe DEF NextFile, Return
<1> QED
  BY <1>1, <1>2

\* One mkdir of a path that is missing.
LEMMA MkdirIsFewer ==
    ASSUME TypeOK, NEW p \in Path, MkdirAll(p), ~LastMkdir(p)
    PROVE  Fewer
<1>1. PICK q \in Missing(p) : fs' = [fs EXCEPT ![q] = Dir(493, DefaultOwner)]
  BY DEF MkdirAll, LastMkdir
<1>2. q \in Path /\ fs[q] = Absent /\ DOMAIN fs = Path
  BY DEF Missing, Above, TypeOK
<1>3. Dir(493, DefaultOwner).kind = "dir" /\ Absent.kind = "absent"
  BY DEF Dir, Absent
<1>4. Dir(493, DefaultOwner) # Absent
  BY <1>3
<1> QED
  BY <1>1, <1>2, <1>4 DEF Fewer, AbsentPaths

LEMMA StepIsLess ==
    ASSUME TypeOK, InProgress, Step
    PROVE  CallsLeft' < CallsLeft \/ (CallsLeft' = CallsLeft /\ Fewer)
<1>0. config' = config
  BY DEF Step, EnsureHostname, MkdirFolder, ChownFolder, ChmodFolder, MkdirParent, OpenFile,
         WriteFile, ChmodFile, ChownFile
<1>1. CASE EnsureHostname
  <2>1. pc = "hostname" /\ StartFolders
    BY <1>1 DEF EnsureHostname
  <2>2. CASE config.folders = <<>>
    BY <1>0, <2>1, <2>2, Lengths, CallsLeftIs, FilesAreLess DEF StartFolders
  <2>3. CASE config.folders # <<>>
    BY <1>0, <2>1, <2>3, Lengths, CallsLeftIs, CallsLeftWillBe DEF StartFolders
  <2> QED
    BY <2>2, <2>3
<1>2. CASE MkdirFolder \/ ChownFolder \/ ChmodFolder
  <2>1. /\ pc \in FolderCalls
        /\ \/ pc' = "idle"
           \/ NextFolder
           \/ pc = "mkdir" /\ pc' \in {"chownFolder", "chmodFolder"} /\ i' = i
           \/ pc = "chownFolder" /\ pc' = "chmodFolder" /\ i' = i
           \/ /\ MkdirFolder /\ pc' = "mkdir" /\ i' = i
              /\ MkdirAll(Folder.path) /\ ~LastMkdir(Folder.path)
    BY <1>2 DEF MkdirFolder, ChownFolder, ChmodFolder, AfterMkdir, Goto, Return, FolderCalls
  <2>2. CASE NextFolder
    <3> DEFINE rest == 3 * (Len(config.folders) - i) + FilesLeft
    <3>1. rest \in Nat
      BY <2>1, Lengths
    <3>2. CallsLeft' \in Nat /\ CallsLeft' <= rest
      BY <1>0, <2>1, <2>2, NextFolderIsLess
    <3>3. CallsLeft = rest + 3 \/ CallsLeft = rest + 2 \/ CallsLeft = rest + 1
      BY <2>1, CallsLeftIs DEF FolderCalls
    <3> HIDE DEF rest
    <3> QED
      BY <3>1, <3>2, <3>3
  <2>3. CASE pc' = "idle"
    BY <1>0, <2>1, <2>3, SomeCallIsLeft, CallsLeftWillBe DEF FolderCalls
  <2>4. CASE pc' \in {"chownFolder", "chmodFolder"} /\ ~NextFolder
    BY <1>0, <2>1, <2>4, Lengths, CallsLeftIs, CallsLeftWillBe DEF FolderCalls
  <2>5. CASE /\ MkdirFolder /\ pc' = "mkdir" /\ i' = i
             /\ MkdirAll(Folder.path) /\ ~LastMkdir(Folder.path)
    <3>1. pc = "mkdir" /\ Folder.path \in Path
      BY <2>5, Entries DEF MkdirFolder, InProgress, Folder, FolderCalls
    <3>2. CallsLeft' = CallsLeft
      BY <1>0, <2>5, <3>1, CallsLeftIs, CallsLeftWillBe
    <3> QED
      BY <2>5, <3>1, <3>2, MkdirIsFewer
  <2> QED
    BY <2>1, <2>2, <2>3, <2>4, <2>5
<1>3. CASE MkdirParent \/ OpenFile \/ WriteFile \/ ChmodFile \/ ChownFile
  <2>1. /\ pc \in FileCalls
        /\ \/ pc' = "idle"
           \/ NextFile
           \/ /\ i' = i
              /\ \/ pc = "parent" /\ pc' = "open"
                 \/ pc = "open" /\ pc' = "write"
                 \/ pc = "write" /\ pc' = "chmod"
                 \/ pc = "chmod" /\ pc' = "chown"
           \/ /\ MkdirParent /\ pc' = "parent" /\ i' = i
              /\ Parent[DeclaredFile.path] # Root
              /\ MkdirAll(Parent[DeclaredFile.path]) /\ ~LastMkdir(Parent[DeclaredFile.path])
    BY <1>3 DEF MkdirParent, OpenFile, WriteFile, ChmodFile, ChownFile, AfterChmod, Goto, Return,
                FileCalls
  <2>2. CASE NextFile
    <3> DEFINE rest == 5 * (Len(config.files) - i)
    <3>1. rest \in Nat
      BY <2>1, Lengths
    <3>2. CallsLeft' \in Nat /\ CallsLeft' <= rest
      BY <1>0, <2>1, <2>2, NextFileIsLess
    <3>3. \E n \in 1..5 : CallsLeft = rest + n
      BY <2>1, CallsLeftIs DEF FileCalls
    <3> HIDE DEF rest
    <3> QED
      BY <3>1, <3>2, <3>3
  <2>3. CASE pc' = "idle"
    BY <1>0, <2>1, <2>3, SomeCallIsLeft, CallsLeftWillBe DEF FileCalls
  <2>4. CASE /\ MkdirParent /\ pc' = "parent" /\ i' = i
             /\ Parent[DeclaredFile.path] # Root
             /\ MkdirAll(Parent[DeclaredFile.path]) /\ ~LastMkdir(Parent[DeclaredFile.path])
    <3>1. pc = "parent" /\ DeclaredFile.path \in Path
      BY <2>1, <2>4, Entries DEF MkdirParent, InProgress, DeclaredFile
    <3>2. Parent[DeclaredFile.path] \in Path
      BY <2>4, <3>1, ProvisionAssumption
    <3>3. CallsLeft' = CallsLeft
      BY <1>0, <2>4, <3>1, CallsLeftIs, CallsLeftWillBe
    <3> QED
      BY <2>4, <3>2, <3>3, MkdirIsFewer
  <2>5. CASE /\ i' = i
             /\ \/ pc = "parent" /\ pc' = "open"
                \/ pc = "open" /\ pc' = "write"
                \/ pc = "write" /\ pc' = "chmod"
                \/ pc = "chmod" /\ pc' = "chown"
    BY <1>0, <2>1, <2>5, Lengths, CallsLeftIs, CallsLeftWillBe DEF FileCalls
  <2> QED
    BY <2>1, <2>2, <2>3, <2>4, <2>5
<1> QED
  BY <1>1, <1>2, <1>3 DEF Step

\* An apply of the provisioning steps ends if its calls do, for lists of any
\* length: each call takes it closer to its end (or makes a folder that was
\* missing above the one at hand), a failed one ends it, and only
\* a restart of the process begins it anew (provision.go:43-50, 117-124).
THEOREM CallsAreAlwaysBounded == Spec => CallsAreBounded
<1> DEFINE Ends == pc # "idle" => /\ CallsLeft \in Nat
                                  /\ \/ CallsLeft' < CallsLeft
                                     \/ CallsLeft' = CallsLeft /\ (WriteBack \/ Fewer)
                                     \/ Killed \/ PowerLoss
<1>1. IInv /\ [Next]_vars => [Ends]_vars
  <2> SUFFICES ASSUME IInv, Next, pc # "idle" PROVE Ends
    BY DEF vars
  <2>0. TypeOK /\ InProgress /\ CallsLeft \in Nat
    BY SomeCallIsLeft DEF IInv
  <2>1. CASE Step
    BY <2>0, <2>1, StepIsLess
  <2>2. CASE CallFails
    <3>1. CallsLeft' = 0
      BY <2>2, CallsLeftWillBe DEF CallFails, Return
    <3>2. CallsLeft > 0
      BY <2>0, SomeCallIsLeft
    <3> QED
      BY <2>0, <3>1, <3>2
  <2>3. CASE WriteBack
    <3>1. CallsLeft' = CallsLeft
      BY <2>3 DEF WriteBack, CallsLeft, FilesLeft
    <3> QED
      BY <2>0, <2>3, <3>1
  <2>4. CASE Killed \/ PowerLoss
    BY <2>0, <2>4
  <2> QED
    BY <2>1, <2>2, <2>3, <2>4 DEF Next, Apply
<1> QED
  BY <1>1, ProvisionInvariance, PTL DEF Spec, CallsAreBounded
=============================================================================
