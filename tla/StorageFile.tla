---------------------------- MODULE StorageFile -----------------------------
(***************************************************************************)
(* instances.json on disk.  InstanceManager reads and saves the list in    *)
(* one step each; here are the system calls behind these steps, with       *)
(* readers that take no lock, errors and crashes between any two calls.    *)
(*                                                                         *)
(* On POSIX systems a save writes a temporary file and renames it over     *)
(* instances.json; on Windows it truncates instances.json and writes it    *)
(* again.  A file that was opened stays readable after the rename, so      *)
(* files are inodes: path is the one that instances.json names now.        *)
(*                                                                         *)
(* Abstractions.  A list is the set of the ids in it, and each save adds   *)
(* one.  What a file holds of its list is nothing, a part, or all of it.   *)
(***************************************************************************)
EXTENDS Naturals, FiniteSets

CONSTANTS
    Procs,      \* kdn processes, one manager call each at a time
    Ids,        \* the instances that may be registered
    Inodes,     \* the files that may exist at one time
    NoInode,    \* no such file
    NoList,     \* what a load returns that failed
    Platforms,  \* the platforms kdn runs on: "posix", "windows"
    Faults      \* what may happen there: pairs of a platform and a fault

Sizes == {"empty", "part", "full"}

Content == [list : SUBSET Ids, size : Sizes]

Labels == {"idle", "lock", "stat", "open", "read", "rest", "loaded",
           "create", "write", "close", "rename"}

ASSUME PlatformAssumption == Platforms \subseteq {"posix", "windows"}

ASSUME FaultsAssumption == Faults \subseteq Platforms \X {"crash", "io"}

ASSUME NamesAssumption ==
    /\ NoInode \notin Inodes
    /\ \A list \in SUBSET Ids : NoList # list

VARIABLES
    platform,  \* the platform of this machine
    disk,      \* disk[i]: what inode i holds
    path,      \* the inode instances.json names
    temps,     \* the inodes that have a temporary name
    holder,    \* the processes that hold instances.json.lock
    pc,        \* pc[p]: the next system call of p
    fd,        \* fd[p]: the inode p has open
    chunk,     \* chunk[p]: what p saw of its file when it began to read
    got,       \* got[p]: the list p loaded
    adding,    \* adding[p]: the ids p is going to register
    seen,      \* seen[p]: the lists stored since p began to load
    saved,     \* the ids whose registration returned without an error
    litter     \* the temporary files of processes that died

vars == <<platform, disk, path, temps, holder, pc, fd, chunk, got, adding, seen,
          saved, litter>>

Blank == [list |-> {}, size |-> "empty"]

\* What instances.json holds; no file stands for no instances.
Stored ==
    IF path # NoInode /\ disk[path].size = "full" THEN disk[path].list ELSE {}

Init ==
    /\ platform \in Platforms
    /\ disk = [i \in Inodes |-> Blank]
    /\ path = NoInode
    /\ temps = {}
    /\ holder = {}
    /\ pc = [p \in Procs |-> "idle"]
    /\ fd = [p \in Procs |-> NoInode]
    /\ chunk = [p \in Procs |-> Blank]
    /\ got = [p \in Procs |-> NoList]
    /\ adding = [p \in Procs |-> {}]
    /\ seen = [p \in Procs |-> {}]
    /\ saved = {}
    /\ litter = {}

Posix == platform = "posix"

May(fault) == <<platform, fault>> \in Faults

Goto(p, label) == pc' = [pc EXCEPT ![p] = label]

Free(i) == i # path /\ i \notin temps /\ \A p \in Procs : fd[p] # i

\* A new list is in place: every load under way may return it from now on.
Published(list) ==
    seen' = [p \in Procs |->
                IF pc[p] \in {"open", "read", "rest"} THEN seen[p] \cup {list}
                                                      ELSE seen[p]]

-----------------------------------------------------------------------------
(* loadInstances.                                                          *)

\* A method reads the list without the file lock, or asks for the lock first.
LoadBegin(p) ==
    /\ pc[p] = "idle"
    /\ Goto(p, "stat")
    /\ UNCHANGED <<disk, path, temps, holder, fd, chunk, got, adding, seen, saved>>

UpdateBegin(p) ==
    /\ pc[p] = "idle"
    /\ \E id \in Ids \ (Stored \cup saved \cup UNION {adding[q] : q \in Procs}) :
          adding' = [adding EXCEPT ![p] = {id}]
    /\ Goto(p, "lock")
    /\ UNCHANGED <<disk, path, temps, holder, fd, chunk, got, seen, saved>>

\* Mutant: the exclusive lock admits several holders.
Lock_shared(p) ==
    /\ pc[p] = "lock"
    /\ holder' = holder \cup {p}
    /\ Goto(p, "stat")
    /\ UNCHANGED <<disk, path, temps, fd, chunk, got, adding, seen, saved>>

Lock(p) ==
    /\ pc[p] = "lock"
    /\ holder = {}
    /\ holder' = {p}
    /\ Goto(p, "stat")
    /\ UNCHANGED <<disk, path, temps, fd, chunk, got, adding, seen, saved>>

\* A file that does not exist holds no instances.
Stat(p) ==
    /\ pc[p] = "stat"
    /\ seen' = [seen EXCEPT ![p] = {Stored}]
    /\ IF path = NoInode
       THEN got' = [got EXCEPT ![p] = {}] /\ Goto(p, "loaded")
       ELSE UNCHANGED got /\ Goto(p, "open")
    /\ UNCHANGED <<disk, path, temps, holder, fd, chunk, adding, saved>>

Open(p) ==
    /\ pc[p] = "open"
    /\ fd' = [fd EXCEPT ![p] = path]
    /\ Goto(p, "read")
    /\ UNCHANGED <<disk, path, temps, holder, chunk, got, adding, seen, saved>>

\* os.ReadFile needs several reads: the first part of the file, then the rest.
Read(p) ==
    /\ pc[p] = "read"
    /\ chunk' = [chunk EXCEPT ![p] = disk[fd[p]]]
    /\ Goto(p, "rest")
    /\ UNCHANGED <<disk, path, temps, holder, fd, got, adding, seen, saved>>

\* What was read parses to a list if it is complete, to no instances if it is
\* empty, and not at all if it is a part of a list or parts of two.
Parsed(first, rest) ==
    CASE first.size = "empty"                              -> {}
      [] first.size # "empty" /\ rest.size = "full"
                              /\ rest.list = first.list    -> rest.list
      [] OTHER                                             -> NoList

Rest(p) ==
    /\ pc[p] = "rest"
    /\ got' = [got EXCEPT ![p] = Parsed(chunk[p], disk[fd[p]])]
    /\ fd' = [fd EXCEPT ![p] = NoInode]
    /\ Goto(p, "loaded")
    /\ UNCHANGED <<disk, path, temps, holder, chunk, adding, seen, saved>>

-----------------------------------------------------------------------------
(* Returning, and the save.                                                *)

\* The call returns: withStorageLock releases the lock.
Finish(p) ==
    /\ Goto(p, "idle")
    /\ holder' = holder \ {p}
    /\ fd' = [fd EXCEPT ![p] = NoInode]
    /\ chunk' = [chunk EXCEPT ![p] = Blank]
    /\ got' = [got EXCEPT ![p] = NoList]
    /\ adding' = [adding EXCEPT ![p] = {}]

\* A reader is done; a writer that could not load returns the error.
LoadEnd(p) ==
    /\ pc[p] = "loaded"
    /\ p \notin holder \/ got[p] = NoList
    /\ Finish(p)
    /\ seen' = [seen EXCEPT ![p] = {}]
    /\ UNCHANGED <<disk, path, temps, saved>>

\* The content of a new file: the loaded list and the new id.
New(p, size) == [list |-> got[p] \cup adding[p], size |-> size]

Change(p) ==
    /\ pc[p] = "loaded"
    /\ p \in holder
    /\ got[p] # NoList
    /\ Goto(p, "create")
    /\ seen' = [seen EXCEPT ![p] = {}]
    /\ UNCHANGED <<disk, path, temps, holder, fd, chunk, got, adding, saved>>

\* Mutant: the data is written into instances.json itself.
CreateTemp_inPlace(p) ==
    /\ pc[p] = "create"
    /\ Posix
    /\ \E i \in Inodes :
          /\ IF path = NoInode THEN Free(i) ELSE i = path
          /\ disk' = [disk EXCEPT ![i] = Blank]
          /\ temps' = temps \cup {i}
          /\ fd' = [fd EXCEPT ![p] = i]
    /\ Goto(p, "write")
    /\ UNCHANGED <<path, holder, chunk, got, adding, seen, saved>>

\* POSIX: os.CreateTemp.  Windows: os.WriteFile truncates instances.json.
CreateTemp(p) ==
    /\ pc[p] = "create"
    /\ Posix
    /\ \E i \in Inodes :
          /\ Free(i)
          /\ disk' = [disk EXCEPT ![i] = Blank]
          /\ temps' = temps \cup {i}
          /\ fd' = [fd EXCEPT ![p] = i]
    /\ Goto(p, "write")
    /\ UNCHANGED <<path, holder, chunk, got, adding, seen, saved>>

Truncate(p) ==
    /\ pc[p] = "create"
    /\ ~Posix
    /\ \E i \in Inodes :
          /\ IF path = NoInode THEN Free(i) ELSE i = path
          /\ path' = i
          /\ disk' = [disk EXCEPT ![i] = Blank]
          /\ fd' = [fd EXCEPT ![p] = i]
    /\ Goto(p, "write")
    /\ UNCHANGED <<temps, holder, chunk, got, adding, seen, saved>>

\* The data arrives in two parts.
Write(p) ==
    /\ pc[p] = "write"
    /\ disk[fd[p]].size # "full"
    /\ LET size == IF disk[fd[p]].size = "empty" THEN "part" ELSE "full" IN
       disk' = [disk EXCEPT ![fd[p]] = New(p, size)]
    /\ Goto(p, IF disk'[fd[p]].size = "full" THEN "close" ELSE "write")
    /\ UNCHANGED <<path, temps, holder, fd, chunk, got, adding, seen, saved>>

\* After the close, Windows is done and POSIX renames.
Close(p) ==
    /\ pc[p] = "close"
    /\ IF Posix
       THEN /\ Goto(p, "rename")
            /\ UNCHANGED <<holder, fd, chunk, got, adding, seen, saved>>
       ELSE /\ Finish(p)
            /\ Published(disk[fd[p]].list)
            /\ saved' = saved \cup adding[p]
    /\ UNCHANGED <<disk, path, temps>>

\* The temporary file becomes instances.json; its deferred removal finds none.
Rename(p) ==
    /\ pc[p] = "rename"
    /\ path' = fd[p]
    /\ temps' = temps \ {fd[p]}
    /\ Published(disk[fd[p]].list)
    /\ saved' = saved \cup adding[p]
    /\ Finish(p)
    /\ UNCHANGED disk

-----------------------------------------------------------------------------
(* Errors and crashes.                                                     *)

\* Mutant: the temporary file is removed after a failed rename only.
Fails_litters(p) ==
    /\ May("io")
    /\ pc[p] \in {"open", "read", "rest", "create", "write", "close", "rename"}
    /\ temps' = IF pc[p] = "rename" THEN temps \ {fd[p]} ELSE temps
    /\ Finish(p)
    /\ seen' = [seen EXCEPT ![p] = {}]
    /\ UNCHANGED <<disk, path, saved>>

\* A system call fails: the method returns the error.  The temporary file of
\* a writer is removed by a deferred call.
Fails(p) ==
    /\ May("io")
    /\ pc[p] \in {"open", "read", "rest", "create", "write", "close", "rename"}
    /\ temps' = temps \ {fd[p]}
    /\ Finish(p)
    /\ seen' = [seen EXCEPT ![p] = {}]
    /\ UNCHANGED <<disk, path, saved>>

\* A process dies: the kernel closes its files and drops its lock, and nobody
\* removes its temporary file.
Crash(p) ==
    /\ May("crash")
    /\ pc[p] # "idle"
    /\ litter' = litter \cup ({fd[p]} \cap temps)
    /\ Finish(p)
    /\ seen' = [seen EXCEPT ![p] = {}]
    /\ UNCHANGED <<disk, path, temps, saved>>

-----------------------------------------------------------------------------

Step(p) ==
    \/ LoadBegin(p)
    \/ UpdateBegin(p)
    \/ Lock(p)
    \/ Stat(p)
    \/ Open(p)
    \/ Read(p)
    \/ Rest(p)
    \/ LoadEnd(p)
    \/ Change(p)
    \/ CreateTemp(p)
    \/ Truncate(p)
    \/ Write(p)
    \/ Close(p)
    \/ Rename(p)
    \/ Fails(p)

Next ==
    /\ \E p \in Procs :
          \/ Step(p) /\ UNCHANGED litter
          \/ Crash(p)
    /\ UNCHANGED platform

Spec == Init /\ [][Next]_vars

-----------------------------------------------------------------------------
(* Correctness.                                                            *)

\* Every variable holds a value of its kind; one process holds the lock.
TypeOK ==
    /\ platform \in Platforms
    /\ disk \in [Inodes -> Content]
    /\ path \in Inodes \cup {NoInode}
    /\ temps \subseteq Inodes
    /\ holder = {} \/ \E p \in Procs : holder = {p}
    /\ pc \in [Procs -> Labels]
    /\ fd \in [Procs -> Inodes \cup {NoInode}]
    /\ chunk \in [Procs -> Content]
    /\ got \in [Procs -> (SUBSET Ids) \cup {NoList}]
    /\ adding \in [Procs -> SUBSET Ids]
    /\ seen \in [Procs -> SUBSET SUBSET Ids]
    /\ saved \subseteq Ids
    /\ litter \subseteq Inodes

\* On POSIX a load that no lock protects returns a list that was stored at some moment
\* between its call and its return, whole: never an error, a partial list or
\* a list from before (savefile_unix.go:25-27, "readers always see either the
\* old file or the new file, never a partial write").
LoadsAreStored ==
    Posix => \A p \in Procs : pc[p] = "loaded" => got[p] \in seen[p]

\* Whatever dies or fails, once no save is under way the file holds every
\* instance that was ever registered with success (savefile_windows.go:24-26,
\* "a plain WriteFile is safe").
SavesAreKept == holder = {} => saved \subseteq Stored

\* A save that fails removes its temporary file: when no save is under way,
\* those that are left belong to processes that died in the middle of one
\* (savefile_unix.go:34, the deferred removal).
NoLitter == holder = {} => temps = litter
=============================================================================
