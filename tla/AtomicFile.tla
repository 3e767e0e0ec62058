------------------------------ MODULE AtomicFile ------------------------------
(***************************************************************************)
(* Replacing a file through a temporary one (fileio.go): writeConfigFile,  *)
(* whose callers hold applyMu, and streamToFileAtomic, which any number of *)
(* requests to /edgecommander/ostree/upload run at once.  One system call  *)
(* is one step; any of them may fail; the process may be killed and the    *)
(* power may fail between any two of them.                                 *)
(*                                                                         *)
(* Each call writes one inode, named like the call.  What a power failure  *)
(* leaves is modelled as POSIX promises it: the data of an inode that was  *)
(* not fsynced may be cut off or missing, an entry of a directory that was *)
(* not fsynced may be the old one.  Names of temporary files do not repeat *)
(* (os.CreateTemp draws them at random).                                   *)
(***************************************************************************)
EXTENDS Naturals, Sequences, FiniteSets

CONSTANTS
    Call,       \* calls of the function, each writing a document of its own
    Reader,     \* readers of the destination: loadConfig, the apply command
    Original,   \* the inode of the destination before all calls
    NoFile,     \* the destination does not exist
    MaxFaults,  \* bound: system calls that fail
    MaxOutages  \* bound: crashes and power failures

ASSUME AtomicFileAssumption ==
    /\ Original \notin Call
    /\ NoFile \notin Call \cup {Original}
    /\ MaxFaults \in Nat
    /\ MaxOutages \in Nat

Inode == Call \cup {Original}

VARIABLES
    function,   \* what is called: writeConfigFile or streamToFileAtomic
    fresh,      \* os.MkdirAll has to create the directory
    pc,         \* the last step each call has done
    content,    \* of each inode: "none", "cut" or "whole"
    synced,     \* the inodes whose data is on disk
    temps,      \* the calls whose temporary file has its name
    dest,       \* the inode the destination names
    survivors,  \* what the destination may name after a power failure
    dirDurable, \* the directory's own entry in its parent is on disk
    fd,         \* the inode each reader has open
    answer,     \* what each call returned
    renames,    \* history: the calls in the order of their renames
    faults, outages

setting == <<function, fresh>>
vars == <<setting, pc, content, synced, temps, dest, survivors, dirDurable, fd,
          answer, renames, faults, outages>>

Init ==
    /\ function \in {"writeConfigFile", "streamToFileAtomic"}
    /\ fresh \in BOOLEAN
    /\ pc = [w \in Call |-> "idle"]
    /\ content = [i \in Inode |-> IF i = Original THEN "whole" ELSE "none"]
    /\ synced = {Original}
    /\ temps = {}
    /\ dest \in IF fresh THEN {NoFile} ELSE {NoFile, Original}
    /\ survivors = {dest}
    /\ dirDurable = ~fresh
    /\ fd = [r \in Reader |-> NoFile]
    /\ answer = [w \in Call |-> "none"]
    /\ renames = <<>>
    /\ faults = 0
    /\ outages = 0

-----------------------------------------------------------------------------
(* One call. *)

InFlight(w) == pc[w] \notin {"idle", "returned"}

\* Callers of writeConfigFile hold applyMu; uploads of images hold nothing.
MayStart == function = "writeConfigFile" => \A w \in Call : ~InFlight(w)

Fault ==
    /\ faults < MaxFaults
    /\ faults' = faults + 1

Return(w, result) ==
    /\ pc' = [pc EXCEPT ![w] = "returned"]
    /\ answer' = [answer EXCEPT ![w] = result]

\* os.MkdirAll and os.CreateTemp in the destination's own directory.
CreateTemp(w) ==
    /\ pc[w] = "idle"
    /\ MayStart
    /\ temps' = temps \cup {w}
    /\ pc' = [pc EXCEPT ![w] = "created"]
    /\ UNCHANGED <<setting, content, synced, dest, survivors, dirDurable, fd, answer,
                   renames, faults, outages>>

\* Write or io.Copy, seen half way and at its end.
WriteSome(w) ==
    /\ pc[w] = "created"
    /\ content' = [content EXCEPT ![w] = "cut"]
    /\ pc' = [pc EXCEPT ![w] = "writing"]
    /\ UNCHANGED <<setting, synced, temps, dest, survivors, dirDurable, fd, answer,
                   renames, faults, outages>>

\* writeConfigFile then sets the mode, which streamToFileAtomic does not.
WriteRest(w) ==
    /\ pc[w] = "writing"
    /\ content' = [content EXCEPT ![w] = "whole"]
    /\ pc' = [pc EXCEPT ![w] = IF function = "writeConfigFile" THEN "written" ELSE "ready"]
    /\ UNCHANGED <<setting, synced, temps, dest, survivors, dirDurable, fd, answer,
                   renames, faults, outages>>

Chmod(w) ==
    /\ pc[w] = "written"
    /\ pc' = [pc EXCEPT ![w] = "ready"]
    /\ UNCHANGED <<setting, content, synced, temps, dest, survivors, dirDurable, fd,
                   answer, renames, faults, outages>>

\* tmp.Sync: the data is on disk before the rename.
FlushedBy_Nothing(w) == {}
FlushedBy(w) == {w}
Sync(w) ==
    /\ pc[w] = "ready"
    /\ synced' = synced \cup FlushedBy(w)
    /\ pc' = [pc EXCEPT ![w] = "synced"]
    /\ UNCHANGED <<setting, content, temps, dest, survivors, dirDurable, fd, answer,
                   renames, faults, outages>>

Close(w) ==
    /\ pc[w] = "synced"
    /\ pc' = [pc EXCEPT ![w] = "closed"]
    /\ UNCHANGED <<setting, content, synced, temps, dest, survivors, dirDurable, fd,
                   answer, renames, faults, outages>>

\* os.Rename: readers see the new file from here on.
Rename_BeforeClose(w) ==
    /\ pc[w] \in {"writing", "closed"}
    /\ dest' = w
    /\ survivors' = survivors \cup {w}
    /\ temps' = temps \ {w}
    /\ renames' = Append(renames, w)
    /\ pc' = [pc EXCEPT ![w] = "renamed"]
    /\ UNCHANGED <<setting, content, synced, dirDurable, fd, answer, faults, outages>>
Rename(w) ==
    /\ pc[w] = "closed"
    /\ dest' = w
    /\ survivors' = survivors \cup {w}
    /\ temps' = temps \ {w}
    /\ renames' = Append(renames, w)
    /\ pc' = [pc EXCEPT ![w] = "renamed"]
    /\ UNCHANGED <<setting, content, synced, dirDurable, fd, answer, faults, outages>>

\* syncDir settles whatever the directory holds by now, not only this rename.
SyncDir_Skipped(w) ==
    /\ pc[w] = "renamed"
    /\ Return(w, "ok")
    /\ UNCHANGED <<setting, content, synced, temps, dest, survivors, dirDurable, fd,
                   renames, faults, outages>>
SyncDir(w) ==
    /\ pc[w] = "renamed"
    /\ survivors' = {dest}
    /\ Return(w, "ok")
    /\ UNCHANGED <<setting, content, synced, temps, dest, dirDurable, fd, renames,
                   faults, outages>>

\* A call that fails, or whose source ends in an error, returns through the
\* deferred os.Remove; that the removal fails as well takes a second fault.
Fails(w) ==
    /\ pc[w] \notin {"renamed", "returned"}
    /\ \/ Fault /\ temps' = temps \ {w}
       \/ /\ faults + 2 <= MaxFaults
          /\ faults' = faults + 2
          /\ temps' = temps
    /\ Return(w, "error")
    /\ UNCHANGED <<setting, content, synced, dest, survivors, dirDurable, fd, renames,
                   outages>>

\* syncDir fails: the file is in place and the caller is told of a failure.
SyncDirFails(w) ==
    /\ pc[w] = "renamed"
    /\ Fault
    /\ Return(w, "error")
    /\ UNCHANGED <<setting, content, synced, temps, dest, survivors, dirDurable, fd,
                   renames, outages>>

-----------------------------------------------------------------------------
(* Readers and outages. *)

Open(r) ==
    /\ fd[r] = NoFile
    /\ dest # NoFile
    /\ fd' = [fd EXCEPT ![r] = dest]
    /\ UNCHANGED <<setting, pc, content, synced, temps, dest, survivors, dirDurable,
                   answer, renames, faults, outages>>

CloseRead(r) ==
    /\ fd[r] # NoFile
    /\ fd' = [fd EXCEPT ![r] = NoFile]
    /\ UNCHANGED <<setting, pc, content, synced, temps, dest, survivors, dirDurable,
                   answer, renames, faults, outages>>

\* Every call ends where it is: no deferred Remove runs, no answer is given.
ProcessEnds ==
    /\ outages < MaxOutages
    /\ outages' = outages + 1
    /\ pc' = [w \in Call |-> IF InFlight(w) THEN "returned" ELSE pc[w]]
    /\ fd' = [r \in Reader |-> NoFile]
    /\ UNCHANGED <<setting, answer, renames, faults>>

Crash ==
    /\ ProcessEnds
    /\ UNCHANGED <<content, synced, temps, dest, survivors, dirDurable>>

\* The directory comes back with one of its possible entries, or not at all
\* when its own entry was never made durable; unsynced data may be missing.
PowerLoss ==
    /\ ProcessEnds
    /\ \/ /\ dest' \in survivors
          /\ temps' \in SUBSET temps
          /\ dirDurable' = TRUE
       \/ /\ ~dirDurable
          /\ dest' = NoFile
          /\ temps' = {}
          /\ UNCHANGED dirDurable
    /\ survivors' = {dest'}
    /\ \E lost \in SUBSET (Inode \ synced) :
          content' = [i \in Inode |-> IF i \in lost THEN "none" ELSE content[i]]
    /\ UNCHANGED synced

-----------------------------------------------------------------------------
Next ==
    \/ \E w \in Call :
          \/ CreateTemp(w) \/ WriteSome(w) \/ WriteRest(w) \/ Chmod(w)
          \/ Sync(w) \/ Close(w) \/ Rename(w) \/ SyncDir(w)
          \/ Fails(w) \/ SyncDirFails(w)
    \/ \E r \in Reader : Open(r) \/ CloseRead(r)
    \/ Crash \/ PowerLoss

Spec == Init /\ [][Next]_vars

-----------------------------------------------------------------------------
(* Properties. *)

TypeOK ==
    /\ function \in {"writeConfigFile", "streamToFileAtomic"}
    /\ fresh \in BOOLEAN
    /\ pc \in [Call -> {"idle", "created", "writing", "written", "ready",
                        "synced", "closed", "renamed", "returned"}]
    /\ content \in [Inode -> {"none", "cut", "whole"}]
    /\ synced \in SUBSET Inode
    /\ temps \in SUBSET Call
    /\ dest \in Inode \cup {NoFile}
    /\ survivors \in SUBSET (Inode \cup {NoFile})
    /\ dirDurable \in BOOLEAN
    /\ fd \in [Reader -> Inode \cup {NoFile}]
    /\ answer \in [Call -> {"none", "ok", "error"}]
    /\ renames \in Seq(Call)
    /\ faults \in 0..MaxFaults
    /\ outages \in 0..MaxOutages

\* Nobody reads a file that was cut off, neither after a power failure nor
\* while others replace it: not loadConfig at the next boot, not the apply
\* command reading a staged image (fileio.go:49-50, :72-76, :99-100,
\* server.go:262-264).
Readable(i) == i = NoFile \/ content[i] = "whole"

NeverPartial ==
    /\ Readable(dest)
    /\ \A r \in Reader : Readable(fd[r])

\* What a call that returned no error has written outlasts every outage: the
\* destination, now and after a power failure, is that file or one renamed
\* there later (fileio.go:31-34, :72-76).  In a directory that os.MkdirAll has
\* just created it may also be missing: nobody fsyncs that directory's parent.
RenamedSince(w) ==
    {renames[k] : k \in {i \in DOMAIN renames : \E j \in 1..i : renames[j] = w}}

AckedSurvives ==
    \A w \in Call : answer[w] = "ok" =>
        {dest} \cup survivors \subseteq
            RenamedSince(w) \cup (IF fresh THEN {NoFile} ELSE {})

\* The destination is a register in the sense of DurableRegister, the one
\* NodeService takes the config file to be, when its directory exists, as the
\* active config's does.  A file that was cut off would be none of its values.
Shown(i) == IF fresh THEN NoFile ELSE IF Readable(i) THEN i ELSE "cut off"

Register == INSTANCE DurableRegister WITH
                Value <- Inode \cup {NoFile},
                value <- Shown(dest),
                possible <- {Shown(i) : i \in survivors}

IsRegister == Register!Spec
=============================================================================
