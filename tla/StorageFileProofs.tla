------------------------- MODULE StorageFileProofs --------------------------
(***************************************************************************)
(* Proofs about StorageFile: what unlocked loads return, what a save that  *)
(* dies or fails leaves behind and that no registration is lost, for every *)
(* number of processes, instances and inodes and every order of their      *)
(* system calls.                                                           *)
(*                                                                         *)
(* The inductive invariant is built in layers: types, the lock, the files, *)
(* what the files hold, and what was registered.  Each layer is shown to   *)
(* be preserved with the help of the layers below it.                      *)
(***************************************************************************)
EXTENDS StorageFile, TLAPS

Reading == {"read", "rest"}
Writing == {"write", "close", "rename"}
Saving  == {"create"} \cup Writing

\* A process has a file open from its open to its close.
OpenInv ==
    /\ \A p \in Procs : IF pc[p] \in Reading \cup Writing THEN fd[p] \in Inodes
                                                         ELSE fd[p] = NoInode
    /\ \A p \in Procs : pc[p] = "open" => path # NoInode
    /\ \A p \in Procs : pc[p] = "rename" => Posix

TypeInv == TypeOK /\ OpenInv

\* Who holds the lock is between taking it and returning; a save is under it,
\* with a list that was loaded.
LockInv ==
    /\ \A p \in holder : pc[p] \notin {"idle", "lock"}
    /\ \A p \in Procs : pc[p] \in Saving => holder = {p} /\ got[p] \in SUBSET Ids

\* Temporary names are those of dead processes and of the save under way.
\* Nobody else has the temporary file of a save open, and no reader has a
\* temporary file.
FileInv ==
    /\ path \notin temps
    /\ \A p \in Procs : pc[p] \in Reading => fd[p] \notin temps
    /\ \A p \in Procs : pc[p] \in Writing /\ ~Posix => fd[p] = path
    /\ \A p \in Procs : pc[p] \in Writing /\ Posix =>
          /\ fd[p] \in temps \ litter
          /\ \A q \in Procs \ {p} : fd[q] # fd[p]
    /\ litter \subseteq temps
    /\ \A i \in temps \ litter :
          \E p \in Procs : pc[p] \in Writing /\ fd[p] = i

\* On POSIX instances.json is always whole, and so is every file a reader has
\* open: it holds a list that was stored since the reader began.
LoadInv ==
    Posix =>
      /\ path # NoInode => disk[path].size = "full"
      /\ \A p \in Procs : pc[p] = "open" => Stored \in seen[p]
      /\ \A p \in Procs : pc[p] \in Reading =>
            disk[fd[p]].size = "full" /\ disk[fd[p]].list \in seen[p]
      /\ \A p \in Procs : pc[p] = "rest" => chunk[p] = disk[fd[p]]
      /\ \A p \in Procs : pc[p] = "loaded" => got[p] \in seen[p]

\* A file that is about to be closed or renamed has all of the new list.
WrittenInv ==
    \A p \in Procs :
        /\ pc[p] \in {"close", "rename"} => disk[fd[p]] = New(p, "full")

\* What was registered is in instances.json, unless a save on Windows has just
\* truncated it, and the save under way has loaded it.
SaveInv ==
    /\ saved \subseteq Stored \/ \E p \in Procs : pc[p] = "write" /\ ~Posix
    /\ path # NoInode => \/ disk[path].size = "full"
                         \/ \E p \in Procs : pc[p] = "write" /\ ~Posix
    /\ \A p \in holder :
          /\ pc[p] \in Reading => fd[p] = path
          /\ pc[p] = "rest" => chunk[p] = disk[path]
          /\ pc[p] \in {"loaded"} \cup Saving => saved \subseteq got[p]
-----------------------------------------------------------------------------
(* Types.                                                                  *)

LEMMA ExceptType ==
  ASSUME NEW D, NEW S, NEW f \in [D -> S], NEW d \in D, NEW v \in S
  PROVE  [f EXCEPT ![d] = v] \in [D -> S]
  OBVIOUS

LEMMA StoredType ==
  ASSUME TypeOK
  PROVE  Stored \in SUBSET Ids /\ Stored # NoList
  BY NamesAssumption DEF TypeOK, Stored, Content

LEMMA ParsedType ==
  ASSUME NEW first \in Content, NEW rest \in Content
  PROVE  Parsed(first, rest) \in (SUBSET Ids) \cup {NoList}
<1>1. rest.list \in SUBSET Ids
  BY DEF Content
<1>2. \/ Parsed(first, rest) = {}
      \/ Parsed(first, rest) = rest.list
      \/ Parsed(first, rest) = NoList
  BY DEF Parsed
<1> QED
  BY <1>1, <1>2

LEMMA NewType ==
  ASSUME TypeOK, NEW p \in Procs, got[p] \in SUBSET Ids, NEW size \in Sizes
  PROVE  New(p, size) \in Content
  BY DEF TypeOK, New, Content

LEMMA PublishedType ==
  ASSUME TypeOK, NEW list \in SUBSET Ids, Published(list)
  PROVE  seen' \in [Procs -> SUBSET SUBSET Ids]
  BY DEF TypeOK, Published

LEMMA FinishType ==
  ASSUME TypeOK, NEW p \in Procs, Finish(p)
  PROVE  /\ holder' = {} \/ \E q \in Procs : holder' = {q}
         /\ pc' \in [Procs -> Labels]
         /\ fd' \in [Procs -> Inodes \cup {NoInode}]
         /\ chunk' \in [Procs -> Content]
         /\ got' \in [Procs -> (SUBSET Ids) \cup {NoList}]
         /\ adding' \in [Procs -> SUBSET Ids]
         /\ pc'[p] = "idle" /\ fd'[p] = NoInode
         /\ \A q \in Procs \ {p} : pc'[q] = pc[q] /\ fd'[q] = fd[q]
<1>1. Blank \in Content
  BY DEF Blank, Content, Sizes
<1>2. got' = [got EXCEPT ![p] = NoList] /\ NoList \in (SUBSET Ids) \cup {NoList}
  BY DEF Finish
<1>3. got' \in [Procs -> (SUBSET Ids) \cup {NoList}]
  BY <1>2, ExceptType DEF TypeOK
<1>4. /\ chunk' \in [Procs -> Content]
      /\ adding' \in [Procs -> SUBSET Ids]
  BY <1>1 DEF TypeOK, Finish
<1>5. holder' = {} \/ \E q \in Procs : holder' = {q}
  BY DEF TypeOK, Finish
<1> QED
  BY <1>3, <1>4, <1>5 DEF TypeOK, Finish, Goto, Labels

LEMMA TypeStep ==
  ASSUME TypeInv, LockInv, [Next]_vars
  PROVE  TypeInv'
<1>1. CASE UNCHANGED vars
  BY <1>1 DEF vars, TypeInv, TypeOK, OpenInv, Posix
<1>2. ASSUME NEW p \in Procs, Step(p), UNCHANGED <<litter, platform>>
      PROVE  TypeInv'
  <2>1. CASE LoadBegin(p)
    BY <1>2, <2>1 DEF LoadBegin, Goto, Content, Sizes, Labels, Reading, Writing, Posix,
       Blank, TypeInv, TypeOK, OpenInv
  <2>2. CASE UpdateBegin(p)
    BY <1>2, <2>2 DEF UpdateBegin, Goto, Content, Sizes, Labels, Reading, Writing,
       Posix, Blank, TypeInv, TypeOK, OpenInv
  <2>3. CASE Lock(p)
    BY <1>2, <2>3 DEF Lock, Goto, Content, Sizes, Labels, Reading, Writing, Posix,
       Blank, TypeInv, TypeOK, OpenInv
  <2>4. CASE Stat(p)
    <3>1. /\ got' \in [Procs -> (SUBSET Ids) \cup {NoList}]
          /\ seen' \in [Procs -> SUBSET SUBSET Ids]
      BY <2>4, StoredType, ExceptType DEF Stat, TypeInv, TypeOK
    <3> QED
      BY <1>2, <2>4, <3>1, FinishType, NamesAssumption, StoredType
      DEF Stat, TypeInv, TypeOK, OpenInv, Reading, Writing, Posix, Goto, Labels
  <2>5. CASE Open(p)
    BY <1>2, <2>5 DEF Open, Goto, Content, Sizes, Labels, Reading, Writing, Posix,
       Blank, TypeInv, TypeOK, OpenInv
  <2>6. CASE Read(p)
    BY <1>2, <2>6 DEF Read, Goto, Content, Sizes, Labels, Reading, Writing, Posix,
       Blank, TypeInv, TypeOK, OpenInv
  <2>7. CASE Rest(p)
    <3>1. got' \in [Procs -> (SUBSET Ids) \cup {NoList}]
      <4>1. chunk[p] \in Content /\ disk[fd[p]] \in Content
        BY <2>7 DEF Rest, TypeInv, TypeOK, OpenInv, Reading
      <4> QED
        BY <2>7, <4>1, ParsedType, ExceptType DEF Rest, TypeInv, TypeOK
    <3> QED
      BY <1>2, <2>7, <3>1, FinishType, NamesAssumption
      DEF Rest, TypeInv, TypeOK, OpenInv, Reading, Writing, Posix, Goto, Labels
  <2>8. CASE LoadEnd(p)
    BY <1>2, <2>8, FinishType, NamesAssumption
    DEF LoadEnd, TypeInv, TypeOK, OpenInv, Reading, Writing, Posix
  <2>9. CASE Change(p)
    BY <1>2, <2>9 DEF Change, Goto, Content, Sizes, Labels, Reading, Writing, Posix,
       Blank, TypeInv, TypeOK, OpenInv
  <2>10. CASE CreateTemp(p)
    BY <1>2, <2>10 DEF CreateTemp, Goto, Content, Sizes, Labels, Reading, Writing,
       Posix, Blank, TypeInv, TypeOK, OpenInv
  <2>11. CASE Truncate(p)
    BY <1>2, <2>11 DEF Truncate, Goto, Content, Sizes, Labels, Reading, Writing, Posix,
       Blank, TypeInv, TypeOK, OpenInv
  <2>12. CASE Write(p)
    <3>1. disk' \in [Inodes -> Content]
      <4>1. fd[p] \in Inodes /\ got[p] \in SUBSET Ids
        BY <2>12 DEF Write, TypeInv, OpenInv, LockInv, Writing, Saving
      <4> QED
        BY <2>12, <4>1, NewType, ExceptType DEF Write, TypeInv, TypeOK, Sizes
    <3> QED
      BY <1>2, <2>12, <3>1, FinishType, NamesAssumption
      DEF Write, TypeInv, TypeOK, OpenInv, Reading, Writing, Posix, Goto, Labels
  <2>13. CASE Close(p)
    <3>1. disk[fd[p]].list \in SUBSET Ids /\ adding[p] \in SUBSET Ids
      BY <2>13 DEF Close, TypeInv, TypeOK, OpenInv, Writing, Content
    <3> QED
      BY <1>2, <2>13, <3>1, FinishType, NamesAssumption, PublishedType
      DEF Close, TypeInv, TypeOK, OpenInv, Reading, Writing, Posix, Goto, Labels
  <2>14. CASE Rename(p)
    <3>1. /\ disk[fd[p]].list \in SUBSET Ids /\ adding[p] \in SUBSET Ids
          /\ fd[p] \in Inodes
      BY <2>14 DEF Rename, TypeInv, TypeOK, OpenInv, Writing, Content
    <3> QED
      BY <1>2, <2>14, <3>1, FinishType, NamesAssumption, PublishedType
      DEF Rename, TypeInv, TypeOK, OpenInv, Reading, Writing, Posix
  <2>15. CASE Fails(p)
    BY <1>2, <2>15, FinishType, NamesAssumption
    DEF Fails, TypeInv, TypeOK, OpenInv, Reading, Writing, Posix
  <2> QED
    BY <1>2, <2>1, <2>2, <2>3, <2>4, <2>5, <2>6, <2>7, <2>8, <2>9, <2>10, <2>11, <2>12,
       <2>13, <2>14, <2>15 DEF Step
<1>3. ASSUME NEW p \in Procs, Crash(p), UNCHANGED platform
      PROVE  TypeInv'
  BY <1>3, FinishType, NamesAssumption
  DEF Crash, TypeInv, TypeOK, OpenInv, Reading, Writing, Posix
<1> QED
  BY <1>1, <1>2, <1>3 DEF Next

(* The lock and the files.                                                 *)

LEMMA LockStep ==
  ASSUME TypeInv, LockInv, [Next]_vars
  PROVE  LockInv'
<1> USE DEF TypeInv, TypeOK, LockInv, Goto, Finish, Labels, Writing, Saving
<1>1. CASE UNCHANGED vars
  BY <1>1 DEF vars
<1>2. ASSUME NEW p \in Procs, Step(p), UNCHANGED <<litter, platform>>
      PROVE  LockInv'
  <2>1. CASE LoadBegin(p)
    BY <1>2, <2>1 DEF LoadBegin
  <2>2. CASE UpdateBegin(p)
    BY <1>2, <2>2 DEF UpdateBegin
  <2>3. CASE Lock(p)
    BY <1>2, <2>3 DEF Lock
  <2>4. CASE Stat(p)
    BY <1>2, <2>4 DEF Stat
  <2>5. CASE Open(p)
    BY <1>2, <2>5 DEF Open
  <2>6. CASE Read(p)
    BY <1>2, <2>6 DEF Read
  <2>7. CASE Rest(p)
    BY <1>2, <2>7 DEF Rest
  <2>8. CASE LoadEnd(p)
    BY <1>2, <2>8 DEF LoadEnd
  <2>9. CASE Change(p)
    <3>1. got[p] \in SUBSET Ids /\ holder = {p}
      BY <2>9 DEF Change
    <3> QED
      BY <1>2, <2>9, <3>1 DEF Change
  <2>10. CASE CreateTemp(p)
    BY <1>2, <2>10 DEF CreateTemp
  <2>11. CASE Truncate(p)
    BY <1>2, <2>11 DEF Truncate
  <2>12. CASE Write(p)
    BY <1>2, <2>12 DEF Write
  <2>13. CASE Close(p)
    BY <1>2, <2>13 DEF Close
  <2>14. CASE Rename(p)
    BY <1>2, <2>14 DEF Rename
  <2>15. CASE Fails(p)
    BY <1>2, <2>15 DEF Fails
  <2> QED
    BY <1>2, <2>1, <2>2, <2>3, <2>4, <2>5, <2>6, <2>7, <2>8, <2>9, <2>10, <2>11, <2>12,
       <2>13, <2>14, <2>15 DEF Step
<1>3. ASSUME NEW p \in Procs, Crash(p), UNCHANGED platform
      PROVE  LockInv'
  BY <1>3 DEF Crash
<1> QED
  BY <1>1, <1>2, <1>3 DEF Next

LEMMA FileStep ==
  ASSUME TypeInv, LockInv, FileInv, [Next]_vars
  PROVE  FileInv'
<1> USE DEF TypeInv, TypeOK, OpenInv, LockInv, FileInv, Goto, Finish, Labels, Writing,
   Saving, Reading, Posix, Free
<1>1. CASE UNCHANGED vars
  BY <1>1 DEF vars
<1>2. ASSUME NEW p \in Procs, Step(p), UNCHANGED <<litter, platform>>
      PROVE  FileInv'
  <2>1. CASE LoadBegin(p)
    BY NamesAssumption, <1>2, <2>1 DEF LoadBegin
  <2>2. CASE UpdateBegin(p)
    BY NamesAssumption, <1>2, <2>2 DEF UpdateBegin
  <2>3. CASE Lock(p)
    BY NamesAssumption, <1>2, <2>3 DEF Lock
  <2>4. CASE Stat(p)
    BY NamesAssumption, <1>2, <2>4 DEF Stat
  <2>5. CASE Open(p)
    BY NamesAssumption, <1>2, <2>5 DEF Open
  <2>6. CASE Read(p)
    BY NamesAssumption, <1>2, <2>6 DEF Read
  <2>7. CASE Rest(p)
    BY NamesAssumption, <1>2, <2>7 DEF Rest
  <2>8. CASE LoadEnd(p)
    BY NamesAssumption, <1>2, <2>8 DEF LoadEnd
  <2>9. CASE Change(p)
    BY NamesAssumption, <1>2, <2>9 DEF Change
  <2>10. CASE CreateTemp(p)
    BY NamesAssumption, <1>2, <2>10 DEF CreateTemp
  <2>11. CASE Truncate(p)
    BY NamesAssumption, <1>2, <2>11 DEF Truncate
  <2>12. CASE Write(p)
    BY NamesAssumption, <1>2, <2>12 DEF Write
  <2>13. CASE Close(p)
    BY NamesAssumption, <1>2, <2>13 DEF Close
  <2>14. CASE Rename(p)
    BY NamesAssumption, <1>2, <2>14 DEF Rename
  <2>15. CASE Fails(p)
    BY NamesAssumption, <1>2, <2>15 DEF Fails
  <2> QED
    BY NamesAssumption, <1>2, <2>1, <2>2, <2>3, <2>4, <2>5, <2>6, <2>7, <2>8, <2>9,
       <2>10, <2>11, <2>12, <2>13, <2>14, <2>15 DEF Step
<1>3. ASSUME NEW p \in Procs, Crash(p), UNCHANGED platform
      PROVE  FileInv'
  BY NamesAssumption, <1>3 DEF Crash
<1> QED
  BY <1>1, <1>2, <1>3 DEF Next

(* What the files hold.                                                    *)

LEMMA WrittenStep ==
  ASSUME TypeInv, LockInv, FileInv, WrittenInv, [Next]_vars
  PROVE  WrittenInv'
<1> USE DEF TypeInv, TypeOK, OpenInv, LockInv, FileInv, LoadInv, WrittenInv, Goto,
   Finish, Labels, Writing, Saving, Reading, Posix, Stored, Published, New, Parsed
<1>1. CASE UNCHANGED vars
  BY <1>1 DEF vars
<1>2. ASSUME NEW p \in Procs, Step(p), UNCHANGED <<litter, platform>>
      PROVE  WrittenInv'
  <2>1. CASE LoadBegin(p)
    BY <1>2, <2>1 DEF LoadBegin
  <2>2. CASE UpdateBegin(p)
    BY <1>2, <2>2 DEF UpdateBegin
  <2>3. CASE Lock(p)
    BY <1>2, <2>3 DEF Lock
  <2>4. CASE Stat(p)
    BY <1>2, <2>4 DEF Stat
  <2>5. CASE Open(p)
    BY <1>2, <2>5 DEF Open
  <2>6. CASE Read(p)
    BY <1>2, <2>6 DEF Read
  <2>7. CASE Rest(p)
    BY <1>2, <2>7 DEF Rest
  <2>8. CASE LoadEnd(p)
    BY <1>2, <2>8 DEF LoadEnd
  <2>9. CASE Change(p)
    BY <1>2, <2>9 DEF Change
  <2>10. CASE CreateTemp(p)
    BY <1>2, <2>10 DEF CreateTemp
  <2>11. CASE Truncate(p)
    BY <1>2, <2>11 DEF Truncate
  <2>12. CASE Write(p)
    <3>1. \A q \in Procs \ {p} : pc[q] \notin Saving
      BY <2>12 DEF Write
    <3>2. fd[p] \in Inodes
      BY <2>12 DEF Write
    <3>3. disk'[fd[p]] = New(p, disk'[fd[p]].size)
      BY <2>12, <3>2 DEF Write
    <3>4. pc'[p] \in {"close", "rename"} => disk'[fd[p]].size = "full"
      BY <2>12 DEF Write
    <3>5. /\ got' = got /\ adding' = adding /\ fd' = fd
          /\ \A q \in Procs \ {p} : pc'[q] = pc[q]
      BY <2>12 DEF Write
    <3>6. pc'[p] \in {"close", "rename"} => disk'[fd'[p]] = New(p, "full")'
      BY <3>3, <3>4, <3>5
    <3>7. \A q \in Procs \ {p} : pc'[q] \notin {"close", "rename"}
      BY <3>1, <3>5
    <3> QED
      BY <3>6, <3>7
  <2>13. CASE Close(p)
    BY <1>2, <2>13 DEF Close
  <2>14. CASE Rename(p)
    BY <1>2, <2>14 DEF Rename
  <2>15. CASE Fails(p)
    BY <1>2, <2>15 DEF Fails
  <2> QED
    BY <1>2, <2>1, <2>2, <2>3, <2>4, <2>5, <2>6, <2>7, <2>8, <2>9, <2>10, <2>11, <2>12,
       <2>13, <2>14, <2>15 DEF Step
<1>3. ASSUME NEW p \in Procs, Crash(p), UNCHANGED platform
      PROVE  WrittenInv'
  BY <1>3 DEF Crash
<1> QED
  BY <1>1, <1>2, <1>3 DEF Next

LEMMA LoadStep ==
  ASSUME TypeInv, LockInv, FileInv, WrittenInv, LoadInv, [Next]_vars
  PROVE  LoadInv'
<1> USE DEF TypeInv, TypeOK, OpenInv, LockInv, FileInv, LoadInv, WrittenInv, Goto,
   Finish, Labels, Writing, Saving, Reading, Posix, Stored, Published, New, Parsed
<1>1. CASE UNCHANGED vars
  BY <1>1 DEF vars
<1>2. ASSUME NEW p \in Procs, Step(p), UNCHANGED <<litter, platform>>
      PROVE  LoadInv'
  <2>1. CASE LoadBegin(p)
    BY NamesAssumption, <1>2, <2>1 DEF LoadBegin
  <2>2. CASE UpdateBegin(p)
    BY NamesAssumption, <1>2, <2>2 DEF UpdateBegin
  <2>3. CASE Lock(p)
    BY NamesAssumption, <1>2, <2>3 DEF Lock
  <2>4. CASE Stat(p)
    BY NamesAssumption, <1>2, <2>4 DEF Stat
  <2>5. CASE Open(p)
    BY NamesAssumption, <1>2, <2>5 DEF Open
  <2>6. CASE Read(p)
    BY NamesAssumption, <1>2, <2>6 DEF Read
  <2>7. CASE Rest(p)
    BY NamesAssumption, <1>2, <2>7 DEF Rest
  <2>8. CASE LoadEnd(p)
    BY NamesAssumption, <1>2, <2>8 DEF LoadEnd
  <2>9. CASE Change(p)
    BY NamesAssumption, <1>2, <2>9 DEF Change
  <2>10. CASE CreateTemp(p)
    <3>1. PICK i \in Inodes : /\ Free(i)
                              /\ disk' = [disk EXCEPT ![i] = Blank]
                              /\ fd' = [fd EXCEPT ![p] = i]
      BY <2>10 DEF CreateTemp
    <3>2. \A j \in Inodes \ {i} : disk'[j] = disk[j]
      BY <3>1
    <3>3. /\ path # i /\ path' = path
          /\ \A q \in Procs : pc'[q] \in Reading => pc[q] \in Reading /\ fd'[q] = fd[q] /\ fd[q] # i
      BY <2>10, <3>1 DEF CreateTemp, Free
    <3>4. Stored' = Stored
      BY <3>2, <3>3
    <3>5. \A q \in Procs : fd[q] # NoInode => fd[q] \in Inodes
      BY NamesAssumption
    <3> QED
      BY NamesAssumption, <1>2, <2>10, <3>2, <3>3, <3>4, <3>5, NamesAssumption
         DEF CreateTemp
  <2>11. CASE Truncate(p)
    BY NamesAssumption, <1>2, <2>11 DEF Truncate
  <2>12. CASE Write(p)
    BY NamesAssumption, <1>2, <2>12 DEF Write
  <2>13. CASE Close(p)
    BY NamesAssumption, <1>2, <2>13 DEF Close
  <2>14. CASE Rename(p)
    <3>1. /\ disk[fd[p]] = New(p, "full") /\ fd[p] \in Inodes
          /\ path' = fd[p] /\ disk' = disk
      BY <2>14 DEF Rename
    <3>2. Stored' = disk[fd[p]].list
      BY <3>1, NamesAssumption
    <3>3. \A q \in Procs : pc[q] \in {"open"} \cup Reading =>
             seen'[q] = seen[q] \cup {disk[fd[p]].list}
      BY <2>14 DEF Rename
    <3>4. pc'[p] = "idle" /\ \A q \in Procs \ {p} :
             /\ pc'[q] = pc[q] /\ fd'[q] = fd[q] /\ chunk'[q] = chunk[q]
             /\ got'[q] = got[q] /\ seen[q] \subseteq seen'[q]
      BY <2>14 DEF Rename
    <3> QED
      BY NamesAssumption, <1>2, <2>14, <3>1, <3>2, <3>3, <3>4
  <2>15. CASE Fails(p)
    BY NamesAssumption, <1>2, <2>15 DEF Fails
  <2> QED
    BY NamesAssumption, <1>2, <2>1, <2>2, <2>3, <2>4, <2>5, <2>6, <2>7, <2>8, <2>9,
       <2>10, <2>11, <2>12, <2>13, <2>14, <2>15 DEF Step
<1>3. ASSUME NEW p \in Procs, Crash(p), UNCHANGED platform
      PROVE  LoadInv'
  BY <1>3 DEF Crash
<1> QED
  BY <1>1, <1>2, <1>3 DEF Next

(* What was registered.                                                    *)

LEMMA SaveStep ==
  ASSUME \A f : <<"windows", f>> \notin Faults,
         TypeInv, LockInv, FileInv, WrittenInv, SaveInv, [Next]_vars
  PROVE  SaveInv'
<1> USE DEF TypeInv, TypeOK, OpenInv, LockInv, FileInv, WrittenInv, Goto, Finish,
   Labels, Writing, Saving, Reading, Posix, Stored, Published, New, Parsed, May, SaveInv
<1>1. CASE UNCHANGED vars
  BY <1>1 DEF vars
<1>2. ASSUME NEW p \in Procs, Step(p), UNCHANGED <<litter, platform>>
      PROVE  SaveInv'
  <2>1. CASE LoadBegin(p)
    BY NamesAssumption, <1>2, <2>1 DEF LoadBegin
  <2>2. CASE UpdateBegin(p)
    BY NamesAssumption, <1>2, <2>2 DEF UpdateBegin
  <2>3. CASE Lock(p)
    BY NamesAssumption, <1>2, <2>3 DEF Lock
  <2>4. CASE Stat(p)
    BY NamesAssumption, <1>2, <2>4 DEF Stat
  <2>5. CASE Open(p)
    BY NamesAssumption, <1>2, <2>5 DEF Open
  <2>6. CASE Read(p)
    BY NamesAssumption, <1>2, <2>6 DEF Read
  <2>7. CASE Rest(p)
    BY NamesAssumption, <1>2, <2>7 DEF Rest
  <2>8. CASE LoadEnd(p)
    BY NamesAssumption, <1>2, <2>8 DEF LoadEnd
  <2>9. CASE Change(p)
    BY NamesAssumption, <1>2, <2>9 DEF Change
  <2>10. CASE CreateTemp(p)
    <3>1. PICK i \in Inodes : /\ Free(i)
                              /\ disk' = [disk EXCEPT ![i] = Blank]
                              /\ fd' = [fd EXCEPT ![p] = i]
      BY <2>10 DEF CreateTemp
    <3>2. \A j \in Inodes \ {i} : disk'[j] = disk[j]
      BY <3>1
    <3>3. /\ path # i /\ path' = path
          /\ \A q \in Procs : pc'[q] \in Reading => pc[q] \in Reading /\ fd'[q] = fd[q] /\ fd[q] # i
      BY <2>10, <3>1 DEF CreateTemp, Free
    <3>4. Stored' = Stored
      BY <3>2, <3>3
    <3>5. \A q \in Procs : fd[q] # NoInode => fd[q] \in Inodes
      BY NamesAssumption
    <3> QED
      BY NamesAssumption, <1>2, <2>10, <3>2, <3>3, <3>4, <3>5, NamesAssumption
         DEF CreateTemp
  <2>11. CASE Truncate(p)
    BY NamesAssumption, <1>2, <2>11 DEF Truncate
  <2>12. CASE Write(p)
    BY NamesAssumption, <1>2, <2>12 DEF Write
  <2>13. CASE Close(p)
    <3>1. CASE Posix
      BY NamesAssumption, <1>2, <2>13, <3>1 DEF Close
    <3>2. CASE ~Posix
      <4>1. /\ disk[fd[p]] = New(p, "full") /\ fd[p] = path /\ path # NoInode
            /\ holder = {p} /\ saved \subseteq got[p]
        BY <2>13, <3>2, NamesAssumption DEF Close
      <4>2. path' = path /\ disk' = disk /\ saved' = saved \cup adding[p] /\ holder' = {}
        BY <2>13, <3>2, <4>1 DEF Close
      <4>3. Stored' = got[p] \cup adding[p]
        BY <4>1, <4>2
      <4> QED
        BY <4>1, <4>2, <4>3
    <3> QED
      BY <3>1, <3>2
  <2>14. CASE Rename(p)
    <3>1. /\ disk[fd[p]] = New(p, "full") /\ fd[p] \in Inodes /\ fd[p] # NoInode
          /\ holder = {p} /\ saved \subseteq got[p]
      BY <2>14, NamesAssumption DEF Rename
    <3>2. path' = fd[p] /\ disk' = disk /\ saved' = saved \cup adding[p] /\ holder' = {}
      BY <2>14, <3>1 DEF Rename
    <3>3. Stored' = got[p] \cup adding[p]
      BY <3>1, <3>2
    <3> QED
      BY <3>1, <3>2, <3>3
  <2>15. CASE Fails(p)
    <3>1. Posix
      BY <2>15, PlatformAssumption DEF Fails
    <3>2. /\ Stored' = Stored /\ UNCHANGED <<path, disk, saved>> /\ holder' \subseteq holder
          /\ \A q \in holder' : /\ pc'[q] = pc[q] /\ fd'[q] = fd[q]
                                /\ chunk'[q] = chunk[q] /\ got'[q] = got[q]
      BY <2>15 DEF Fails
    <3> QED
      BY <1>2, <3>1, <3>2
  <2> QED
    BY NamesAssumption, <1>2, <2>1, <2>2, <2>3, <2>4, <2>5, <2>6, <2>7, <2>8, <2>9,
       <2>10, <2>11, <2>12, <2>13, <2>14, <2>15 DEF Step
<1>3. ASSUME NEW p \in Procs, Crash(p), UNCHANGED platform
      PROVE  SaveInv'
  <2>1. Posix
    BY <1>3, PlatformAssumption DEF Crash
  <2>2. /\ Stored' = Stored /\ UNCHANGED <<path, disk, saved>> /\ holder' \subseteq holder
        /\ \A q \in holder' : /\ pc'[q] = pc[q] /\ fd'[q] = fd[q]
                              /\ chunk'[q] = chunk[q] /\ got'[q] = got[q]
    BY <1>3 DEF Crash
  <2> QED
    BY <1>3, <2>1, <2>2
<1> QED
  BY <1>1, <1>2, <1>3 DEF Next

-----------------------------------------------------------------------------
(* The invariants, and what they show.                                     *)

Inv == TypeInv /\ LockInv /\ FileInv /\ WrittenInv /\ LoadInv

LEMMA InvInit == Init => Inv /\ SaveInv
<1> USE NamesAssumption
<1>1. Init => TypeInv
  BY DEF Init, TypeInv, TypeOK, OpenInv, Content, Sizes, Labels, Reading, Writing, Blank
<1>2. Init => LockInv /\ FileInv /\ WrittenInv /\ LoadInv /\ SaveInv
  BY DEF Init, LockInv, FileInv, WrittenInv, LoadInv, SaveInv, Reading, Writing, Saving
<1> QED
  BY <1>1, <1>2 DEF Inv

LEMMA InvStep == Inv /\ [Next]_vars => Inv'
  BY TypeStep, LockStep, FileStep, WrittenStep, LoadStep DEF Inv

LEMMA Invariance == Spec => []Inv
<1> QED
  BY InvInit, InvStep, PTL DEF Spec

\* Every variable keeps its type, and one process at a time holds the lock.
THEOREM TypeCorrect == Spec => []TypeOK
<1>1. Inv => TypeOK
  BY DEF Inv, TypeInv
<1> QED
  BY <1>1, Invariance, PTL

\* On POSIX a load that takes no lock returns a list that was stored while it
\* ran, whatever saves, fails or dies beside it (savefile_unix.go:25-27).
THEOREM LoadsReturnStored == Spec => []LoadsAreStored
<1>1. Inv => LoadsAreStored
  BY DEF Inv, LoadInv, LoadsAreStored
<1> QED
  BY <1>1, Invariance, PTL

\* When no save is under way the temporary files are those of processes that
\* died in the middle of one (savefile_unix.go:34).
THEOREM OnlyDeathsLitter == Spec => []NoLitter
<1>1. Inv => NoLitter
  BY DEF Inv, LockInv, FileInv, NoLitter, Saving
<1> QED
  BY <1>1, Invariance, PTL

\* Where Windows has no faults, no registration that returned without an error
\* is ever lost.  With crashes or errors on Windows this is false: a save that
\* was interrupted has truncated instances.json (savefile_windows.go:30).
THEOREM RegistrationsAreKept ==
  ASSUME \A f : <<"windows", f>> \notin Faults
  PROVE  Spec => []SavesAreKept
<1>1. Inv /\ SaveInv /\ [Next]_vars => SaveInv'
  BY SaveStep DEF Inv
<1>2. Inv /\ SaveInv => SavesAreKept
  BY DEF Inv, LockInv, SaveInv, SavesAreKept, Saving, Writing
<1> QED
  BY <1>1, <1>2, InvInit, Invariance, PTL DEF Spec
=============================================================================
