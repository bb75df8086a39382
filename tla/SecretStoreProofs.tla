-------------------------- MODULE SecretStoreProofs --------------------------
(***************************************************************************)
(* Proofs about SecretStore, for every number of processes, names, values  *)
(* and commands, and for every combination of faults.                      *)
(***************************************************************************)
EXTENDS SecretStore, TLAPS

-----------------------------------------------------------------------------
(* Names.  A list has one record for each name, in the file and in every   *)
(* process, and a process that is about to add a record found no other.    *)

OneRecordEach(recs) == \A r, s \in recs : r.name = s.name => r = s

NamesInv ==
    /\ OneRecordEach(secrets)
    /\ \A p \in Procs :
          /\ OneRecordEach(list[p])
          /\ pc[p] = "set" => arg[p].name \notin NamesIn(list[p])

(* Commands in turn.  As long as no two commands overlapped, the one that  *)
(* runs has the list as it is in the file, and then the change it makes.   *)

Creating(p) ==
    /\ op[p] = "create"
    /\ arg[p].name \notin NamesIn(secrets)

Created(p) ==
    /\ Creating(p)
    /\ list[p] = secrets \cup {arg[p]}
    /\ keychain[arg[p].name] = arg[p].for

Removed(p) ==
    /\ op[p] = "remove"
    /\ list[p] = {r \in secrets : r.name # arg[p].name}
    /\ keychain[arg[p].name] = NoValue

Alone ==
    /\ \A p, q \in Procs : pc[p] # "idle" /\ pc[q] # "idle" => p = q
    /\ \A p \in Procs :
          /\ pc[p] = "set" => Creating(p) /\ list[p] = secrets
          /\ pc[p] = "unset" => op[p] = "remove" /\ list[p] = secrets
          /\ pc[p] \in {"truncate", "write"} => Created(p) \/ Removed(p)

Matching == \A r \in secrets : keychain[r.name] \in {r.for, NoValue}

\* The records of successful Creates are in the list, and none of them has the
\* name that is being removed.
StoredListed ==
    /\ stored \subseteq secrets
    /\ \A p \in Procs : pc[p] # "idle" /\ op[p] = "remove" =>
          \A r \in stored : r.name # arg[p].name

TurnInv == ~raced => Alone /\ Matching /\ StoredListed

\* Only a process inside a save can have been overtaken by another one.
OverlapInv == \A p \in overlap : pc[p] = "write"

Inv == TypeOK /\ NamesInv /\ TurnInv /\ OverlapInv

\* Some value and some name exist where a command can be called.
LEMMA AnyRecordType ==
  ASSUME NEW r \in Record
  PROVE  AnyRecord \in Record /\ AnyValue \in Values
  BY DEF AnyRecord, AnyValue, Record

-----------------------------------------------------------------------------
(* Typing.                                                                 *)

LEMMA LeaveType ==
  ASSUME TypeOK, NEW p \in Procs, NEW res \in Results, Leave(p, res)
  PROVE  /\ pc' \in [Procs -> Labels]
         /\ op' \in [Procs -> Ops]
         /\ arg' \in [Procs -> Record]
         /\ list' \in [Procs -> SUBSET Record]
         /\ result' \in [Procs -> Results]
<1>1. arg[p] \in Record
  BY DEF TypeOK
<1>2. AnyRecord \in Record
  BY <1>1, AnyRecordType
<1> QED
  BY <1>2 DEF TypeOK, Leave, Goto, Labels, Ops

LEMMA ReturnType ==
  ASSUME TypeOK, NEW p \in Procs, NEW res \in Results, Return(p, res),
         UNCHANGED <<secrets, stored, torn, keychain, budget, raced>>
  PROVE  TypeOK'
  BY LeaveType DEF Return, TypeOK

\* Every step of a process, and every death of one, keeps the types.
LEMMA StepType ==
  ASSUME TypeOK, NEW p \in Procs, Step(p) \/ Crash(p), UNCHANGED raced
  PROVE  TypeOK'
<1>1. CASE LoadFails(p)
  BY <1>1, ReturnType DEF LoadFails, Results
<1>2. CASE CreateCheck(p)
  <2>1. CASE arg[p].name \in NamesIn(secrets)
    BY <1>2, <2>1, ReturnType DEF CreateCheck, Results
  <2>2. CASE arg[p].name \notin NamesIn(secrets)
    BY <1>2, <2>2 DEF CreateCheck, TypeOK, Goto, Labels
  <2> QED
    BY <2>1, <2>2
<1>3. CASE Lookup(p)
  <2>1. CASE arg[p].name \in NamesIn(secrets)
    BY <1>3, <2>1 DEF Lookup, TypeOK, Goto, Labels
  <2>2. CASE arg[p].name \notin NamesIn(secrets)
    BY <1>3, <2>2, ReturnType DEF Lookup, Results
  <2> QED
    BY <2>1, <2>2
<1>4. CASE SetValue(p)
  BY <1>4 DEF SetValue, TypeOK, Goto, Labels, Record
<1>5. CASE DeleteValue(p)
  <2>1. list' \in [Procs -> SUBSET Record]
    BY <1>5 DEF DeleteValue, TypeOK
  <2> QED
    BY <1>5, <2>1 DEF DeleteValue, TypeOK, Goto, Labels
<1>6. CASE Fetch(p)
  BY <1>6, ReturnType DEF Fetch, Results
<1>7. CASE KeychainFails(p)
  BY <1>7, ReturnType DEF KeychainFails, Results
<1>8. CASE Truncate(p)
  BY <1>8 DEF Truncate, TypeOK, Goto, Labels
<1>9. CASE Write(p)
  <2>1. /\ torn' \in BOOLEAN
        /\ overlap' \subseteq Procs
        /\ secrets' \subseteq Record
        /\ stored' \subseteq Record
    BY <1>9 DEF Write, TypeOK
  <2> QED
    BY <1>9, <2>1, LeaveType DEF Write, TypeOK, Results
<1>10. CASE SaveFails(p)
  BY <1>10, ReturnType DEF SaveFails, Results
<1>11. CASE Crash(p)
  BY <1>11, ReturnType DEF Crash, Results
<1> QED
  BY <1>1, <1>2, <1>3, <1>4, <1>5, <1>6, <1>7, <1>8, <1>9, <1>10, <1>11 DEF Step

LEMMA CallTypes ==
  ASSUME TypeOK, NEW p \in Procs, NEW o \in Ops, NEW r \in Record, Call(p, o, r)
  PROVE  TypeOK'
  BY DEF TypeOK, Call, Goto, Labels, Results

LEMMA TypeNext == ASSUME TypeOK, [Next]_vars PROVE TypeOK'
  BY StepType, CallTypes DEF Next, Finished, vars, TypeOK

-----------------------------------------------------------------------------
(* Names.                                                                  *)

\* A process that returns has an empty list.
LEMMA ReturnNames ==
  ASSUME TypeOK, NamesInv, NEW p \in Procs, NEW res, Leave(p, res), OneRecordEach(secrets')
  PROVE  NamesInv'
  BY DEF TypeOK, NamesInv, Leave, Goto, OneRecordEach

LEMMA StepNames ==
  ASSUME TypeOK, NamesInv, NEW p \in Procs, Step(p) \/ Crash(p)
  PROVE  NamesInv'
<1>1. CASE LoadFails(p) \/ Fetch(p) \/ KeychainFails(p) \/ SaveFails(p) \/ Crash(p)
  <2>1. secrets' = secrets /\ \E res : Leave(p, res)
    BY <1>1 DEF LoadFails, Fetch, KeychainFails, SaveFails, Crash, Return
  <2> QED
    BY <2>1, ReturnNames DEF NamesInv
<1>2. CASE CreateCheck(p)
  <2>1. CASE arg[p].name \in NamesIn(secrets)
    BY <1>2, <2>1, ReturnNames DEF CreateCheck, Return, NamesInv
  <2>2. CASE arg[p].name \notin NamesIn(secrets)
    BY <1>2, <2>2 DEF CreateCheck, TypeOK, NamesInv, Goto
  <2> QED
    BY <2>1, <2>2
<1>3. CASE Lookup(p)
  <2>1. CASE arg[p].name \in NamesIn(secrets)
    BY <1>3, <2>1 DEF Lookup, TypeOK, NamesInv, Goto
  <2>2. CASE arg[p].name \notin NamesIn(secrets)
    BY <1>3, <2>2, ReturnNames DEF Lookup, Return, NamesInv
  <2> QED
    BY <2>1, <2>2
<1>4. CASE SetValue(p)
  <2>1. OneRecordEach(list[p] \cup {arg[p]})
    BY <1>4 DEF SetValue, NamesInv, OneRecordEach, NamesIn
  <2> QED
    BY <1>4, <2>1 DEF SetValue, TypeOK, NamesInv, Goto
<1>5. CASE DeleteValue(p)
  <2>1. OneRecordEach({r \in list[p] : r.name # arg[p].name})
    BY DEF NamesInv, OneRecordEach
  <2> QED
    BY <1>5, <2>1 DEF DeleteValue, TypeOK, NamesInv, Goto
<1>6. CASE Truncate(p)
  BY <1>6 DEF Truncate, TypeOK, NamesInv, Goto
<1>7. CASE Write(p)
  BY <1>7, ReturnNames DEF Write, NamesInv
<1> QED
  BY <1>1, <1>2, <1>3, <1>4, <1>5, <1>6, <1>7 DEF Step

LEMMA NamesNext == ASSUME TypeOK, NamesInv, [Next]_vars PROVE NamesInv'
<1>1. ASSUME NEW p \in Procs, NEW o \in Ops, NEW r \in Record, Call(p, o, r)
      PROVE  NamesInv'
  BY <1>1 DEF Call, TypeOK, NamesInv, Goto
<1>2. CASE UNCHANGED vars
  BY <1>2 DEF vars, NamesInv
<1> QED
  BY <1>1, <1>2, StepNames DEF Next, Finished

-----------------------------------------------------------------------------
(* Commands in turn.                                                       *)

\* A process that returns leaves the file and the keychain to the next one.
LEMMA ReturnAlone ==
  ASSUME TypeOK, Alone, NEW p \in Procs, NEW res, Leave(p, res), pc[p] # "idle"
  PROVE  Alone'
<1>1. \A q \in Procs : pc'[q] = "idle"
  BY DEF TypeOK, Alone, Leave, Goto
<1> QED
  BY <1>1 DEF Alone

LEMMA StepAlone ==
  ASSUME TypeOK, Alone, NEW p \in Procs, Step(p) \/ Crash(p)
  PROVE  Alone'
<1>1. CASE LoadFails(p) \/ Fetch(p) \/ KeychainFails(p) \/ SaveFails(p) \/ Crash(p) \/ Write(p)
  BY <1>1, ReturnAlone
  DEF LoadFails, Fetch, KeychainFails, SaveFails, Crash, Write, Return
<1>2. CASE CreateCheck(p)
  <2>1. CASE arg[p].name \in NamesIn(secrets)
    BY <1>2, <2>1, ReturnAlone DEF CreateCheck, Return
  <2>2. CASE arg[p].name \notin NamesIn(secrets)
    BY <1>2, <2>2 DEF CreateCheck, TypeOK, Alone, Goto, Creating, Created, Removed
  <2> QED
    BY <2>1, <2>2
<1>3. CASE Lookup(p)
  <2>1. CASE arg[p].name \in NamesIn(secrets)
    BY <1>3, <2>1 DEF Lookup, TypeOK, Alone, Goto, Creating, Created, Removed, Ops
  <2>2. CASE arg[p].name \notin NamesIn(secrets)
    BY <1>3, <2>2, ReturnAlone DEF Lookup, Return
  <2> QED
    BY <2>1, <2>2
<1>4. CASE SetValue(p)
  <2>1. /\ Creating(p) /\ list[p] = secrets
        /\ \A q \in Procs \ {p} : pc[q] = "idle"
    BY <1>4 DEF SetValue, Alone
  <2>2. Created(p)'
    BY <1>4, <2>1 DEF SetValue, TypeOK, Created, Creating, Record
  <2> QED
    BY <1>4, <2>1, <2>2 DEF SetValue, TypeOK, Alone, Goto
<1>5. CASE DeleteValue(p)
  <2>1. /\ op[p] = "remove" /\ list[p] = secrets
        /\ \A q \in Procs \ {p} : pc[q] = "idle"
    BY <1>5 DEF DeleteValue, Alone
  <2>2. Removed(p)'
    BY <1>5, <2>1 DEF DeleteValue, TypeOK, Removed, Record
  <2> QED
    BY <1>5, <2>1, <2>2 DEF DeleteValue, TypeOK, Alone, Goto
<1>6. CASE Truncate(p)
  BY <1>6 DEF Truncate, TypeOK, Alone, Goto, Creating, Created, Removed
<1> QED
  BY <1>1, <1>2, <1>3, <1>4, <1>5, <1>6 DEF Step

LEMMA StepMatching ==
  ASSUME TypeOK, Alone, Matching, NEW p \in Procs, Step(p) \/ Crash(p)
  PROVE  Matching'
<1>1. CASE SetValue(p)
  BY <1>1 DEF SetValue, TypeOK, Alone, Matching, Creating, NamesIn, Record
<1>2. CASE DeleteValue(p)
  BY <1>2 DEF DeleteValue, TypeOK, Matching, Record
<1>3. CASE Write(p)
  <2>1. Created(p) \/ Removed(p)
    BY <1>3 DEF Write, Alone
  <2>2. \A r \in list[p] : keychain[r.name] \in {r.for, NoValue}
    BY <2>1 DEF Matching, Created, Removed
  <2> QED
    BY <1>3, <2>2 DEF Write, Matching
<1>4. CASE UNCHANGED <<secrets, keychain>>
  BY <1>4 DEF Matching
<1> QED
  BY <1>1, <1>2, <1>3, <1>4
  DEF Step, LoadFails, CreateCheck, Lookup, Fetch, KeychainFails, Truncate, SaveFails, Crash

LEMMA StepStored ==
  ASSUME TypeOK, Alone, StoredListed, NEW p \in Procs, Step(p) \/ Crash(p)
  PROVE  StoredListed'
<1>1. \A q \in Procs : pc'[q] # "idle" /\ op'[q] = "remove" =>
          pc[q] # "idle" /\ op[q] = "remove" /\ arg'[q] = arg[q]
  BY DEF TypeOK, Step, LoadFails, CreateCheck, Lookup, SetValue, DeleteValue, Fetch, KeychainFails,
         Truncate, Write, SaveFails, Crash, Return, Leave, Goto
<1>2. CASE Write(p)
  <2>1. \A q \in Procs : pc'[q] = "idle"
    BY <1>2 DEF Write, TypeOK, Alone, Leave, Goto
  <2>2. CASE Created(p)
    BY <1>2, <2>1, <2>2 DEF Write, StoredListed, Created, Creating
  <2>3. CASE Removed(p)
    BY <1>2, <2>1, <2>3 DEF Write, StoredListed, Removed
  <2> QED
    BY <1>2, <2>2, <2>3 DEF Write, Alone
<1>3. CASE UNCHANGED <<secrets, stored>>
  BY <1>1, <1>3 DEF StoredListed
<1> QED
  BY <1>2, <1>3
  DEF Step, LoadFails, CreateCheck, Lookup, SetValue, DeleteValue, Fetch, KeychainFails, Truncate,
      SaveFails, Crash

\* The first command that is called while another one runs ends the claim.
LEMMA CallInTurn ==
  ASSUME TypeOK, TurnInv, NEW p \in Procs, NEW o \in Ops, NEW r \in Record, Call(p, o, r)
  PROVE  TurnInv'
<1> SUFFICES ASSUME ~raced' PROVE (Alone /\ Matching /\ StoredListed)'
  BY DEF TurnInv
<1>1. ~raced /\ \A q \in Procs : pc[q] = "idle"
  BY DEF Call
<1>2. (Alone /\ Matching)'
  BY <1>1 DEF Call, Goto, TypeOK, TurnInv, Alone, Matching
<1>3. stored' \subseteq stored /\ (o = "remove" => \A s \in stored' : s.name # r.name)
  BY DEF Call
<1>4. StoredListed'
  BY <1>1, <1>3 DEF Call, Goto, TypeOK, TurnInv, StoredListed
<1> QED
  BY <1>2, <1>4

LEMMA TurnNext == ASSUME TypeOK, TurnInv, [Next]_vars PROVE TurnInv'
<1>1. CASE UNCHANGED vars
  BY <1>1 DEF vars, TurnInv, Alone, Matching, StoredListed, Creating, Created, Removed
<1>2. ASSUME NEW p \in Procs, Step(p) \/ Crash(p), UNCHANGED raced
      PROVE  TurnInv'
  BY <1>2, StepAlone, StepMatching, StepStored DEF TurnInv
<1> QED
  BY <1>1, <1>2, CallInTurn DEF Next, Finished

LEMMA OverlapNext == ASSUME TypeOK, OverlapInv, [Next]_vars PROVE OverlapInv'
<1>1. ASSUME NEW p \in Procs, NEW o \in Ops, NEW r \in Record, Call(p, o, r)
      PROVE  OverlapInv'
  BY <1>1 DEF Call, Goto, TypeOK, OverlapInv
<1>2. ASSUME NEW p \in Procs, Step(p) \/ Crash(p)
      PROVE  OverlapInv'
  <2>1. \A q \in Procs \ {p} : pc'[q] = pc[q]
    BY <1>2
    DEF TypeOK, Step, LoadFails, CreateCheck, Lookup, SetValue, DeleteValue, Fetch, KeychainFails,
        Truncate, Write, SaveFails, Crash, Return, Leave, Goto
  <2>2. CASE Write(p)
    BY <2>1, <2>2 DEF Write, TypeOK, OverlapInv
  <2>3. CASE overlap' = overlap /\ p \notin overlap
    BY <2>1, <2>3 DEF TypeOK, OverlapInv
  <2>4. CASE overlap' = overlap \ {p}
    BY <2>1, <2>4 DEF TypeOK, OverlapInv
  <2> QED
    BY <1>2, <2>2, <2>3, <2>4
    DEF OverlapInv, Step, LoadFails, CreateCheck, Lookup, SetValue, DeleteValue, Fetch, KeychainFails,
        Truncate, SaveFails, Crash, Return
<1>3. CASE UNCHANGED vars
  BY <1>3 DEF vars, OverlapInv
<1> QED
  BY <1>1, <1>2, <1>3 DEF Next, Finished

-----------------------------------------------------------------------------
(* The theorems.                                                           *)

LEMMA InvInit == ASSUME Init PROVE Inv
<1>1. AnyRecord \in Record
  BY StoreAssumption DEF AnyRecord, AnyValue, Record
<1>2. TypeOK
  BY <1>1, StoreAssumption DEF Init, TypeOK, Labels, Ops, Results
<1>3. NamesInv
  BY DEF Init, NamesInv, OneRecordEach
<1>4. TurnInv
  BY DEF Init, TurnInv, Alone, Matching, StoredListed
<1>5. OverlapInv
  BY DEF Init, OverlapInv
<1> QED
  BY <1>2, <1>3, <1>4, <1>5 DEF Inv

LEMMA InvNext == ASSUME Inv, [Next]_vars PROVE Inv'
  BY TypeNext, NamesNext, TurnNext, OverlapNext DEF Inv

LEMMA Invariance == Spec => []Inv
<1>1. Init => Inv
  BY InvInit
<1>2. Inv /\ [Next]_vars => Inv'
  BY InvNext
<1> QED
  BY <1>1, <1>2, PTL DEF Spec

\* Every variable keeps its type.
THEOREM StoreTypeCorrect == Spec => []TypeOK
<1>1. Inv => TypeOK
  BY DEF Inv
<1> QED
  BY <1>1, Invariance, PTL

\* However commands interleave, fail and die, no list has two records with one
\* name (store.go:110-114).
THEOREM NamesAreUnique == Spec => []UniqueNames
<1>1. Inv => UniqueNames
  BY DEF Inv, NamesInv, OneRecordEach, UniqueNames
<1> QED
  BY <1>1, Invariance, PTL

\* As long as commands do not overlap, a record never stands for the value of
\* another one, whatever fails between the keychain and the file.
THEOREM ValuesMatch == Spec => []ValueMatches
<1>1. Inv => ValueMatches
  BY DEF Inv, TurnInv, Matching, ValueMatches
<1> QED
  BY <1>1, Invariance, PTL

\* Only SetValue writes a value, DeleteValue removes one.
LEMMA KeychainChange ==
  ASSUME Inv, ~raced, [Next]_vars, NEW n \in Names, keychain'[n] # keychain[n]
  PROVE  keychain'[n] = NoValue \/ n \notin NamesIn(secrets)
<1>1. PICK p \in Procs : SetValue(p) \/ DeleteValue(p)
  BY DEF Next, vars, Call, Step, LoadFails, CreateCheck, Lookup, Fetch, KeychainFails,
         Truncate, Write, SaveFails, Crash, Finished
<1>2. CASE SetValue(p)
  BY <1>2 DEF SetValue, Inv, TypeOK, TurnInv, Alone, Creating, Record
<1>3. CASE DeleteValue(p)
  BY <1>3 DEF DeleteValue, Inv, TypeOK, Record
<1> QED
  BY <1>1, <1>2, <1>3

\* Only Write changes the list.
LEMMA ListChange ==
  ASSUME Inv, ~raced, [Next]_vars, NEW n \in NamesIn(secrets) \ NamesIn(secrets')
  PROVE  /\ keychain[n] = NoValue
         /\ \E p \in Procs : pc[p] = "write" /\ op[p] = "remove" /\ arg[p].name = n
<1>1. PICK p \in Procs : Write(p)
  BY DEF Next, vars, Call, Step, LoadFails, CreateCheck, Lookup, SetValue, DeleteValue, Fetch,
         KeychainFails, Truncate, SaveFails, Crash, Finished
<1>2. secrets' = list[p] /\ pc[p] = "write" /\ (Created(p) \/ Removed(p))
  BY <1>1 DEF Write, Inv, TurnInv, Alone
<1>3. Removed(p)
  BY <1>2 DEF Created, NamesIn
<1>4. n = arg[p].name
  BY <1>2, <1>3 DEF Removed, NamesIn
<1> QED
  BY <1>2, <1>3, <1>4 DEF Removed

\* The value of a name that is taken is not overwritten (store.go:102-103).
THEOREM NothingOverwritten == Spec => NoOverwrite
<1>1. Inv /\ [Next]_vars =>
        [~raced => \A n \in NamesIn(secrets) :
            keychain[n] # NoValue => keychain'[n] \in {keychain[n], NoValue}]_vars
  BY KeychainChange DEF Inv, TypeOK, Record, NamesIn
<1> QED
  BY <1>1, Invariance, PTL DEF Spec, NoOverwrite

\* A secret leaves the list after its value left the keychain (README.md:2890).
THEOREM RemovedHaveGone == Spec => RemovedAreGone
<1>1. Inv /\ [Next]_vars =>
        [~raced => \A n \in NamesIn(secrets) \ NamesIn(secrets') : keychain[n] = NoValue]_vars
  BY ListChange
<1> QED
  BY <1>1, Invariance, PTL DEF Spec, RemovedAreGone

\* As long as commands do not overlap, a file that can be read has every record
\* whose Create succeeded and that nobody asked to remove since, whatever failed
\* or died before (store.go:104-118, 177-201).
THEOREM ReadableComplete == Spec => []ReadableIsComplete
<1>1. Inv => ReadableIsComplete
  BY DEF Inv, TurnInv, StoredListed, ReadableIsComplete
<1> QED
  BY <1>1, Invariance, PTL
=============================================================================
