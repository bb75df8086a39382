---------------------------- MODULE SecretStore -----------------------------
(***************************************************************************)
(* pkg/secret/store.go: the value of a secret is kept in the system        *)
(* keychain and its metadata in secrets.json.  Every kdn command works on  *)
(* both without a lock: it loads the file, changes the keychain, and       *)
(* writes the whole list back with os.WriteFile, which truncates the file  *)
(* first.                                                                  *)
(*                                                                         *)
(* Abstractions.  Each Create brings metadata (a type, hosts, a header)    *)
(* that is meant for its own value: the metadata of a record is known by   *)
(* that value.  The keychain, a system service, is a function of names.    *)
(***************************************************************************)
EXTENDS Naturals, FiniteSets

CONSTANTS
    Procs,      \* kdn processes
    Names,      \* names of secrets
    Values,     \* the values users store
    NoValue,    \* no entry in the keychain
    MaxOps,     \* MaxOps[p]: bound on the operations of process p
    Faults      \* "crash", "io", "keychain"

Record == [name : Names, for : Values]

Ops == {"create", "remove", "get"}

Results == {"none", "ok", "exists", "notfound", "error"}

Labels == {"idle", "load", "set", "unset", "fetch", "truncate", "write"}

ASSUME StoreAssumption ==
    /\ Names # {} /\ Values # {}
    /\ NoValue \notin Values
    /\ MaxOps \in [Procs -> Nat]
    /\ Faults \subseteq {"crash", "io", "keychain"}

VARIABLES
    secrets,   \* the records that secrets.json held when it was last whole
    torn,      \* secrets.json is now empty or not a JSON document
    keychain,  \* keychain[n]: the value stored under n
    pc,        \* pc[p]: the next step of p
    op,        \* op[p]: the operation of p
    arg,       \* arg[p]: the record p wants to create, or one with the name
    list,      \* list[p]: the list p loaded, then the one it will save
    overlap,   \* processes whose truncated file another one wrote since
    result,    \* result[p]: what the last operation of p returned
    budget,    \* budget[p]: how many commands p may still run
    raced,     \* some command was called while another one ran
    stored     \* the records whose Create succeeded, until a Remove is called

vars == <<secrets, torn, keychain, pc, op, arg, list, overlap, result, budget,
          raced, stored>>

NamesIn(recs) == {r.name : r \in recs}

AnyValue == CHOOSE v \in Values : TRUE

AnyRecord == [name |-> CHOOSE n \in Names : TRUE, for |-> AnyValue]

TypeOK ==
    /\ secrets \subseteq Record
    /\ torn \in BOOLEAN
    /\ keychain \in [Names -> Values \cup {NoValue}]
    /\ pc \in [Procs -> Labels]
    /\ op \in [Procs -> Ops]
    /\ arg \in [Procs -> Record]
    /\ list \in [Procs -> SUBSET Record]
    /\ overlap \subseteq Procs
    /\ result \in [Procs -> Results]
    /\ budget \in [Procs -> Nat]
    /\ raced \in BOOLEAN
    /\ stored \subseteq Record

Init ==
    /\ secrets = {}
    /\ torn = FALSE
    /\ keychain = [n \in Names |-> NoValue]
    /\ pc = [p \in Procs |-> "idle"]
    /\ op = [p \in Procs |-> "get"]
    /\ arg = [p \in Procs |-> AnyRecord]
    /\ list = [p \in Procs |-> {}]
    /\ overlap = {}
    /\ result = [p \in Procs |-> "none"]
    /\ budget = MaxOps
    /\ raced = FALSE
    /\ stored = {}

Goto(p, label) == pc' = [pc EXCEPT ![p] = label]

\* The operation returns res; its locals are gone.
Leave(p, res) ==
    /\ Goto(p, "idle")
    /\ result' = [result EXCEPT ![p] = res]
    /\ op' = [op EXCEPT ![p] = "get"]
    /\ arg' = [arg EXCEPT ![p] = AnyRecord]
    /\ list' = [list EXCEPT ![p] = {}]

Return(p, res) ==
    /\ Leave(p, res)
    /\ overlap' = overlap \ {p}

-----------------------------------------------------------------------------

\* Somebody calls Create, Remove or Get; the last two have only a name.
Call(p, o, r) ==
    /\ pc[p] = "idle"
    /\ budget[p] > 0
    /\ budget' = [budget EXCEPT ![p] = @ - 1]
    /\ o # "create" => r.for = AnyValue
    /\ op' = [op EXCEPT ![p] = o]
    /\ arg' = [arg EXCEPT ![p] = r]
    /\ result' = [result EXCEPT ![p] = "none"]
    /\ Goto(p, "load")
    /\ raced' = (raced \/ \E q \in Procs : pc[q] # "idle")
    /\ stored' = IF o = "remove" THEN {s \in stored : s.name # r.name} ELSE stored
    /\ UNCHANGED <<secrets, torn, keychain, list, overlap>>

\* loadSecretsFile: an empty or half-written file is an error.
LoadFails(p) ==
    /\ pc[p] = "load"
    /\ torn \/ "io" \in Faults
    /\ Return(p, "error")
    /\ UNCHANGED <<secrets, stored, torn, keychain, budget>>

\* Mutant: Create does not look for the name.
CreateCheck_blind(p) ==
    /\ pc[p] = "load"
    /\ ~torn
    /\ op[p] = "create"
    /\ Goto(p, "set")
    /\ list' = [list EXCEPT ![p] = secrets]
    /\ UNCHANGED <<secrets, stored, torn, keychain, op, arg, overlap, result, budget>>

\* Create loads the list and refuses a name that is in it.
CreateCheck(p) ==
    /\ pc[p] = "load"
    /\ ~torn
    /\ op[p] = "create"
    /\ IF arg[p].name \in NamesIn(secrets)
       THEN Return(p, "exists")
       ELSE /\ Goto(p, "set")
            /\ list' = [list EXCEPT ![p] = secrets]
            /\ UNCHANGED <<op, arg, overlap, result>>
    /\ UNCHANGED <<secrets, stored, torn, keychain, budget>>

\* Remove and Get load the list and need the name.
Lookup(p) ==
    /\ pc[p] = "load"
    /\ ~torn
    /\ op[p] # "create"
    /\ IF arg[p].name \in NamesIn(secrets)
       THEN /\ Goto(p, IF op[p] = "remove" THEN "unset" ELSE "fetch")
            /\ list' = [list EXCEPT ![p] = secrets]
            /\ UNCHANGED <<op, arg, overlap, result>>
       ELSE Return(p, "notfound")
    /\ UNCHANGED <<secrets, stored, torn, keychain, budget>>

\* Mutant: the loaded list is dropped.
SetValue_alone(p) ==
    /\ pc[p] = "set"
    /\ keychain' = [keychain EXCEPT ![arg[p].name] = arg[p].for]
    /\ list' = [list EXCEPT ![p] = {arg[p]}]
    /\ Goto(p, "truncate")
    /\ UNCHANGED <<secrets, stored, torn, op, arg, overlap, result, budget>>

\* Create: the value goes to the keychain, then the record into the list.
SetValue(p) ==
    /\ pc[p] = "set"
    /\ keychain' = [keychain EXCEPT ![arg[p].name] = arg[p].for]
    /\ list' = [list EXCEPT ![p] = @ \cup {arg[p]}]
    /\ Goto(p, "truncate")
    /\ UNCHANGED <<secrets, stored, torn, op, arg, overlap, result, budget>>

\* Mutant: Remove forgets the keychain.
DeleteValue_keeps(p) ==
    /\ pc[p] = "unset"
    /\ list' = [list EXCEPT ![p] = {r \in @ : r.name # arg[p].name}]
    /\ Goto(p, "truncate")
    /\ UNCHANGED <<secrets, stored, torn, keychain, op, arg, overlap, result, budget>>

\* Remove: an entry that is not in the keychain is no error.
DeleteValue(p) ==
    /\ pc[p] = "unset"
    /\ keychain' = [keychain EXCEPT ![arg[p].name] = NoValue]
    /\ list' = [list EXCEPT ![p] = {r \in @ : r.name # arg[p].name}]
    /\ Goto(p, "truncate")
    /\ UNCHANGED <<secrets, stored, torn, op, arg, overlap, result, budget>>

\* Get: a record whose value is not in the keychain is an error of its own.
Fetch(p) ==
    /\ pc[p] = "fetch"
    /\ Return(p, IF keychain[arg[p].name] = NoValue THEN "error" ELSE "ok")
    /\ UNCHANGED <<secrets, stored, torn, keychain, budget>>

KeychainFails(p) ==
    /\ "keychain" \in Faults
    /\ pc[p] \in {"set", "unset", "fetch"}
    /\ Return(p, "error")
    /\ UNCHANGED <<secrets, stored, torn, keychain, budget>>

-----------------------------------------------------------------------------
(* saveSecretsFile.                                                        *)

Truncate(p) ==
    /\ pc[p] = "truncate"
    /\ torn' = TRUE
    /\ Goto(p, "write")
    /\ UNCHANGED <<secrets, stored, keychain, op, arg, list, overlap, result, budget>>

\* The list is written from the start of the file.  When another process wrote
\* after this one truncated, the end of a longer list may stay behind it.
Write(p) ==
    /\ pc[p] = "write"
    /\ secrets' = list[p]
    /\ stored' = IF op[p] = "create" THEN stored \cup {arg[p]} ELSE stored
    /\ torn' \in {FALSE} \cup (IF p \in overlap THEN {TRUE} ELSE {})
    /\ Leave(p, "ok")
    /\ overlap' = (overlap \cup {q \in Procs : pc[q] = "write"}) \ {p}
    /\ UNCHANGED <<keychain, budget>>

\* The file cannot be opened, or not be written once it was truncated.
SaveFails(p) ==
    /\ "io" \in Faults
    /\ pc[p] \in {"truncate", "write"}
    /\ Return(p, "error")
    /\ UNCHANGED <<secrets, stored, torn, keychain, budget>>

Crash(p) ==
    /\ "crash" \in Faults
    /\ pc[p] # "idle"
    /\ Return(p, "none")
    /\ UNCHANGED <<secrets, stored, torn, keychain, budget>>

Finished ==
    /\ \A p \in Procs : pc[p] = "idle" /\ budget[p] = 0
    /\ UNCHANGED vars

-----------------------------------------------------------------------------

Step(p) ==
    \/ LoadFails(p)
    \/ CreateCheck(p)
    \/ Lookup(p)
    \/ SetValue(p)
    \/ DeleteValue(p)
    \/ Fetch(p)
    \/ KeychainFails(p)
    \/ Truncate(p)
    \/ Write(p)
    \/ SaveFails(p)

Next ==
    \/ \E p \in Procs :
          \/ \E o \in Ops, r \in Record : Call(p, o, r)
          \/ (Step(p) \/ Crash(p)) /\ UNCHANGED raced
    \/ Finished

Spec == Init /\ [][Next]_vars

-----------------------------------------------------------------------------
(* Correctness.                                                            *)

\* A name identifies a secret, however commands interleave: no list that was
\* ever written has two records with one name (store.go:110-114).
UniqueNames == \A r, s \in secrets : r.name = s.name => r = s

(* Commands that fail or die, one after another.                           *)

\* The value of a listed secret is the one its metadata is meant for, or there
\* is none: the hosts of a secret are never sent the value of another one.
ValueMatches ==
    ~raced => \A r \in secrets : keychain[r.name] \in {r.for, NoValue}

\* A value in the keychain is not overwritten while the name is taken
\* (store.go:102-103).
NoOverwrite ==
    [][~raced => \A n \in NamesIn(secrets) :
          keychain[n] # NoValue => keychain'[n] \in {keychain[n], NoValue}]_vars

\* A secret that leaves the list has left the keychain before: no value stays
\* behind that no later Remove could find (README.md:2890, "also deletes its
\* value from the system keychain").
RemovedAreGone ==
    [][~raced => \A n \in NamesIn(secrets) \ NamesIn(secrets') :
          keychain[n] = NoValue]_vars

\* A secret that was listed stays listed until a Remove of that name writes the
\* list (secret.go:55-56, "persists the remaining metadata").
Keeps ==
    \A n \in NamesIn(secrets) \ NamesIn(secrets') :
        \E p \in Procs : pc[p] = "write" /\ op[p] = "remove" /\ arg[p].name = n

ListedAreKept == [][Keeps]_vars

\* One after another, commands that fail or die lose no secret of another one,
\* unless they die or fail inside saveSecretsFile: a file that can be read has
\* every record whose Create succeeded and that nobody asked to remove since.
\* (A save that is cut off leaves a torn file, and with it no record at all.)
ReadableIsComplete == ~raced /\ ~torn => stored \subseteq secrets
=============================================================================
