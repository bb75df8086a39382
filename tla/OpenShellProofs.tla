-------------------------- MODULE OpenShellProofs ----------------------------
(***************************************************************************)
(* Proofs about OpenShell, for every number of processes, workspaces,      *)
(* drivers, ports and commands, and for any faults in one history: the     *)
(* driver on record is the one of the gateway, no switch of the driver     *)
(* hides a sandbox, a workspace that is stored as running has its ports    *)
(* forwarded, and the overrides of the states are kept.                    *)
(***************************************************************************)
EXTENDS OpenShell, TLAPS

\* What the commands run: the methods that are left.
Todos == {<<"create">>, <<"create", "start">>, <<"start">>, <<"stop">>,
          <<"stop", "remove">>, <<"remove">>}

Calls == [at : Labels, todo : Seq(Methods), name : Names \cup {NoName},
          driver : Drivers \cup {NoDriver}, asked : BOOLEAN, ready : BOOLEAN,
          pid : Pids \cup {NoPid}, ports : Seq(Ports), view : SUBSET Names]

-----------------------------------------------------------------------------
(* The inductive invariant.                                                *)

\* The locals of a call fit the step it is at.
Fits(c) ==
    /\ c.at = "idle" <=> c.name = NoName
    /\ c.at # "idle" => c.todo \in Todos /\ c.driver \in Drivers
    /\ c.pid # NoPid => c.at = "await"
    /\ c.at \in {"ensure", "active", "kill", "spawn", "await"} =>
           Head(c.todo) \in {"create", "start"}
    /\ c.at \in {"config", "sandbox", "upload"} => Head(c.todo) = "create"
    /\ c.at \in {"verify", "free", "forward"} => Head(c.todo) = "start"
    /\ c.at = "unforward" => Head(c.todo) = "stop" /\ ~c.ready
    /\ c.at \in {"info", "delete"} => Head(c.todo) = "remove"
    /\ c.at = "forward" => c.ports # << >>
    /\ c.at \in {"truncate", "write"} /\ Head(c.todo) \in {"create", "stop"} => c.name \in c.view

TypeInv == TypeOK /\ \A p \in Procs : Fits(call[p])

\* Unless two commands overlapped, one process at most runs a command.
SoloInv ==
    Without({"race"}) =>
        \A p, q \in Procs : ~At(p, "idle") /\ ~At(q, "idle") => p = q

\* No two gateways have the same process id.
AllGateways == (spawned \cup {gateway, recorded}) \ {NoGateway}

PidInv == \A g, h \in AllGateways : g.pid = h.pid => g = h

BaseInv == TypeInv /\ SoloInv /\ PidInv

\* A gateway that listens is the one on record; who starts one has found
\* none, and who waits for one has recorded it.
GatewayInv ==
    Without({"race", "list", "record", "late"}) =>
        /\ gateway \in {NoGateway, recorded}
        /\ \A p \in Procs :
              /\ At(p, "spawn") => gateway = NoGateway
              /\ call[p].pid # NoPid => recorded # NoGateway /\ recorded.pid = call[p].pid

\* All sandboxes are in the database of the gateway that listens, and a
\* gateway is killed only when there are none.
SandboxInv ==
    Without({"race", "list", "gateway", "reboot"}) =>
        /\ \A d \in Drivers : boxes[d] # {} => gateway # NoGateway /\ d = gateway.driver
        /\ \A p \in Procs :
              /\ At(p, "active") => gateway # NoGateway
              /\ At(p, "kill") => \A d \in Drivers : boxes[d] = {}
              /\ At(p, "delete") => Name(p) \in stopped \/ \A d \in Drivers : Name(p) \notin boxes[d]

\* What a command is about to write are the overrides with its own changed; the
\* file is damaged only between the two steps of a write.
OverrideInv ==
    Without({"race", "torn"}) =>
        /\ torn => \E p \in Procs : At(p, "write")
        /\ \A p \in Procs : call[p].at \in {"truncate", "write"} =>
              call[p].view = IF Method(p) \in {"create", "stop"}
                             THEN stopped \cup {Name(p)}
                             ELSE stopped \ {Name(p)}

\* The ports of workspace n are forwarded, but for those that are left.
ForwardedBut(n, ports) ==
    \A i \in DOMAIN PortsOf[n] :
        \/ <<PortsOf[n][i], n>> \in forwards
        \/ \E j \in DOMAIN ports : ports[j] = PortsOf[n][i]

\* The ports of a workspace stored as running are forwarded, and a Start that
\* has come to the overrides has forwarded all of them; a Stop that has come
\* to the record has set its override.
ForwardInv ==
    Without({"race", "forward", "reboot", "data"}) =>
        /\ \A n \in Names : known[n] = "running" => ForwardedBut(n, << >>)
        /\ \A p \in Procs : ~At(p, "idle") =>
              /\ call[p].at \in {"free", "forward"} => ForwardedBut(Name(p), call[p].ports)
              /\ call[p].at \in {"load", "truncate", "write", "save"} /\ Method(p) = "start" =>
                     ForwardedBut(Name(p), << >>)
              /\ At(p, "save") /\ Method(p) = "stop" => Overridden(Name(p))

-----------------------------------------------------------------------------
(* The locals of a call.                                                   *)

LEMMA TodoFacts ==
  \A t \in Todos :
     /\ t \in Seq(Methods) /\ t # << >> /\ Head(t) \in Methods
     /\ Tail(t) # << >> => Tail(t) \in Todos /\ Head(Tail(t)) \in {"start", "remove"}
<1>1. /\ <<"create">> \in Seq(Methods) /\ <<"create", "start">> \in Seq(Methods)
      /\ <<"start">> \in Seq(Methods) /\ <<"stop">> \in Seq(Methods)
      /\ <<"stop", "remove">> \in Seq(Methods) /\ <<"remove">> \in Seq(Methods)
  BY DEF Methods
<1>2. /\ Tail(<<"create">>) = << >> /\ Tail(<<"create", "start">>) = <<"start">>
      /\ Tail(<<"start">>) = << >> /\ Tail(<<"stop">>) = << >>
      /\ Tail(<<"stop", "remove">>) = <<"remove">> /\ Tail(<<"remove">>) = << >>
  OBVIOUS
<1>3. /\ Head(<<"create">>) = "create" /\ Head(<<"create", "start">>) = "create"
      /\ Head(<<"start">>) = "start" /\ Head(<<"stop">>) = "stop"
      /\ Head(<<"stop", "remove">>) = "stop" /\ Head(<<"remove">>) = "remove"
  OBVIOUS
<1>4. \A t \in Todos : t # << >>
  BY DEF Todos
<1> QED
  BY <1>1, <1>2, <1>3, <1>4 DEF Todos, Methods

LEMMA EntryFacts ==
  /\ Entry("create") = "ensure" /\ Entry("start") = "ensure"
  /\ Entry("stop") = "unforward" /\ Entry("remove") = "info"
  BY DEF Entry

LEMMA Shapes ==
  ASSUME TypeInv
  PROVE  /\ gateway \in Gateways \cup {NoGateway} /\ recorded \in Gateways \cup {NoGateway}
         /\ spawned \in SUBSET Gateways /\ config \in Drivers
         /\ boxes \in [Drivers -> SUBSET Names] /\ stopped \in SUBSET Names
         /\ known \in [Names -> {"none", "stopped", "running", "error"}]
         /\ call \in [Procs -> Calls] /\ \A p \in Procs : Fits(call[p])
  BY DEF TypeInv, TypeOK, Calls

LEMMA FieldTypes ==
  ASSUME TypeInv, NEW p \in Procs, ~At(p, "idle")
  PROVE  /\ Name(p) \in Names /\ Name(p) # NoName /\ call[p].todo \in Todos
         /\ Method(p) \in Methods /\ call[p].driver \in Drivers
  BY Shapes, TodoFacts, OpenShellAssumption DEF Calls, Fits, At, Name, Method

LEMMA NoCallFits ==
  /\ NoCall \in Calls /\ Fits(NoCall) /\ NoCall.at = "idle" /\ NoCall.name = NoName
  /\ NoCall.pid = NoPid
  BY DEF NoCall, Calls, Fits, Labels

LEMMA SetCall ==
  ASSUME TypeInv, NEW p \in Procs, NEW c, call' = [call EXCEPT ![p] = c]
  PROVE  call'[p] = c /\ \A q \in Procs \ {p} : call'[q] = call[q]
  BY Shapes

\* What a step of p does to the calls: those of others stay, and p goes on
\* with the same workspace or is done.
Moves(p) ==
    /\ \A q \in Procs \ {p} : call'[q] = call[q]
    /\ call'[p] \in Calls /\ Fits(call'[p])
    /\ call' = [call EXCEPT ![p] = call'[p]]
    /\ \/ call'[p] = NoCall
       \/ ~At(p, "idle")' /\ call'[p].name = call[p].name

LEMMA SetMoves ==
  ASSUME TypeInv, NEW p \in Procs, NEW c \in Calls, Fits(c), call' = [call EXCEPT ![p] = c],
         c = NoCall \/ (c.at # "idle" /\ c.name = call[p].name)
  PROVE  Moves(p) /\ call'[p] = c
  BY SetCall DEF Moves, At

LEMMA ReturnMoves ==
  ASSUME TypeInv, NEW p \in Procs, Return(p)
  PROVE  Moves(p) /\ call'[p] = NoCall
  BY NoCallFits, SetMoves DEF Return

LEMMA GotoLocals ==
  ASSUME TypeInv, NEW p \in Procs, NEW label \in Labels, Goto(p, label)
  PROVE  /\ call'[p] \in Calls /\ call' = [call EXCEPT ![p] = call'[p]]
         /\ call'[p].at = label /\ call'[p].name = call[p].name
         /\ call'[p].todo = call[p].todo /\ call'[p].driver = call[p].driver
         /\ call'[p].ready = call[p].ready /\ call'[p].pid = call[p].pid
         /\ call'[p].ports = call[p].ports /\ call'[p].view = call[p].view
<1>1. PICK c : c = [call[p] EXCEPT !.at = label]
  OBVIOUS
<1>2. call[p] \in Calls
  BY Shapes
<1>3. c \in Calls
  BY <1>1, <1>2 DEF Calls
<1>4. call' = [call EXCEPT ![p] = c]
  BY <1>1, Shapes DEF Goto
<1>5. call'[p] = c
  BY <1>4, SetCall
<1>6. /\ c.at = label /\ c.name = call[p].name
      /\ c.todo = call[p].todo /\ c.driver = call[p].driver
      /\ c.ready = call[p].ready /\ c.pid = call[p].pid
      /\ c.ports = call[p].ports /\ c.view = call[p].view
  BY <1>1, <1>2 DEF Calls
<1> QED
  BY <1>3, <1>4, <1>5, <1>6

\* A step that only moves on to a label that fits the method.
LEMMA GotoMoves ==
  ASSUME TypeInv, NEW p \in Procs, NEW label \in Labels, Goto(p, label),
         ~At(p, "idle"), ~At(p, "await"),
         label \in {"config", "sandbox", "upload", "load", "save", "active", "kill", "spawn",
                    "forward", "write"},
         label \in {"active", "kill", "spawn"} => Method(p) \in {"create", "start"},
         label \in {"config", "sandbox", "upload"} => Method(p) = "create",
         label = "forward" => Method(p) = "start" /\ call[p].ports # << >>,
         label = "write" => At(p, "truncate")
  PROVE  Moves(p) /\ call'[p].at = label /\ call'[p].name = call[p].name
         /\ call'[p].todo = call[p].todo /\ call'[p].pid = NoPid
         /\ call'[p].ports = call[p].ports /\ call'[p].view = call[p].view
         /\ call'[p].driver = call[p].driver
<1>1. PICK c : c = call'[p]
  OBVIOUS
<1>2. /\ c \in Calls /\ call' = [call EXCEPT ![p] = c]
      /\ c.at = label /\ c.name = call[p].name
      /\ c.todo = call[p].todo /\ c.driver = call[p].driver /\ c.ready = call[p].ready
      /\ c.pid = call[p].pid /\ c.ports = call[p].ports /\ c.view = call[p].view
  BY <1>1, GotoLocals
<1>3. call[p] \in Calls /\ Fits(call[p])
  BY Shapes
<1>4. call[p].pid = NoPid /\ call[p].name # NoName
  BY <1>3 DEF Fits, At
<1>5. Fits(c)
  BY <1>2, <1>3, <1>4 DEF Fits, At, Method
<1> QED
  BY <1>1, <1>2, <1>4, <1>5, SetMoves

\* The steps that change more of the locals than the label.
Keeps(p) ==
    /\ call'[p].name = call[p].name /\ call'[p].todo = call[p].todo
    /\ call'[p].driver = call[p].driver

LEMMA EnsureMoves ==
  ASSUME TypeInv, NEW p \in Procs, Ensure(p)
  PROVE  /\ Moves(p) /\ Keeps(p) /\ call'[p].pid = NoPid
         /\ call'[p].at \in {"spawn", "active", "verify", "config", "sandbox"}
         /\ call'[p].at = "spawn" => gateway = NoGateway \/ "list" \in mishaps'
         /\ call'[p].at = "active" => gateway # NoGateway
<1>0. /\ call[p] \in Calls /\ Fits(call[p]) /\ call[p].at = "ensure"
      /\ Method(p) \in {"create", "start"} /\ call[p].pid = NoPid
      /\ call[p].todo \in Todos /\ call[p].driver \in Drivers /\ call[p].name # NoName
  BY Shapes DEF Ensure, At, Fits, Method
<1>1. PICK ready \in BOOLEAN, label \in {"spawn", "active", AfterEnsure(p)} :
         /\ Listed(ready)
         /\ label = "spawn" => ~ready
         /\ label = "active" => ready
         /\ call' = [call EXCEPT ![p].ready = TRUE, ![p].at = label]
  BY DEF Ensure, AfterEnsure
<1>2. AfterEnsure(p) \in {"verify", "config", "sandbox"}
      /\ (AfterEnsure(p) = "verify" <=> Method(p) = "start")
  BY DEF AfterEnsure
<1>3. PICK c : c = [call[p] EXCEPT !.ready = TRUE, !.at = label]
  OBVIOUS
<1>4. /\ c.at = label /\ c.ready = TRUE
      /\ c.name = call[p].name /\ c.todo = call[p].todo /\ c.driver = call[p].driver
      /\ c.pid = NoPid
  BY <1>0, <1>3 DEF Calls
<1>5. c \in Calls
  BY <1>0, <1>2, <1>3 DEF Calls, Labels
<1>6. Fits(c)
  BY <1>0, <1>2, <1>4 DEF Fits, Method
<1>7. call' = [call EXCEPT ![p] = c]
  BY <1>1, <1>3, Shapes
<1>8. Moves(p) /\ call'[p] = c
  BY <1>2, <1>4, <1>5, <1>6, <1>7, SetMoves
<1>9. /\ label = "spawn" => gateway = NoGateway \/ "list" \in mishaps'
      /\ label = "active" => gateway # NoGateway
  BY <1>1 DEF Listed, Fault, Happened
<1> QED
  BY <1>2, <1>4, <1>8, <1>9 DEF Keeps

LEMMA SpawnMoves ==
  ASSUME TypeInv, NEW p \in Procs, Spawn(p)
  PROVE  /\ Moves(p) /\ Keeps(p) /\ call'[p].at = "await" /\ call'[p].pid \in Pids
         /\ \E g \in NewGateways(p) :
               /\ spawned' = spawned \cup {g} /\ g.pid = call'[p].pid
               /\ \/ recorded' = g /\ mishaps' = mishaps
                  \/ /\ recorded' \in {recorded, NoGateway}
                     /\ mishaps' = mishaps \cup {"record"}
<1>0. /\ call[p] \in Calls /\ Fits(call[p]) /\ call[p].at = "spawn"
      /\ Method(p) \in {"create", "start"}
      /\ call[p].todo \in Todos /\ call[p].driver \in Drivers /\ call[p].name # NoName
  BY Shapes DEF Spawn, At, Fits, Method
<1>1. PICK g \in NewGateways(p) :
         /\ spawned' = spawned \cup {g}
         /\ \/ recorded' = g /\ UNCHANGED mishaps
            \/ recorded' \in {recorded, NoGateway} /\ Fault("record")
         /\ call' = [call EXCEPT ![p].at = "await", ![p].pid = g.pid]
  BY DEF Spawn
<1>8. g.pid \in Pids
  BY <1>1 DEF NewGateways, Gateways
<1>2. PICK c : c = [call[p] EXCEPT !.at = "await", !.pid = g.pid]
  OBVIOUS
<1>3. /\ c.at = "await" /\ c.pid = g.pid
      /\ c.name = call[p].name /\ c.todo = call[p].todo /\ c.driver = call[p].driver
  BY <1>0, <1>2 DEF Calls
<1>4. c \in Calls
  BY <1>0, <1>2, <1>8 DEF Calls, Labels
<1>5. Fits(c)
  BY <1>0, <1>3 DEF Fits, Method
<1>6. call' = [call EXCEPT ![p] = c]
  BY <1>1, <1>2, Shapes
<1>7. Moves(p) /\ call'[p] = c
  BY <1>3, <1>4, <1>5, <1>6, SetMoves
<1> QED
  BY <1>1, <1>3, <1>7, <1>8 DEF Keeps, Fault, Happened

LEMMA AwaitMoves ==
  ASSUME TypeInv, NEW p \in Procs, Await(p)
  PROVE  /\ Moves(p)
         /\ \/ call'[p] = NoCall
            \/ /\ Keeps(p) /\ call'[p].pid = NoPid
               /\ call'[p].at \in {"verify", "config", "sandbox"}
<1>0. /\ call[p] \in Calls /\ Fits(call[p]) /\ call[p].at = "await"
      /\ Method(p) \in {"create", "start"}
      /\ call[p].todo \in Todos /\ call[p].driver \in Drivers /\ call[p].name # NoName
  BY Shapes DEF Await, At, Fits, Method
<1>1. CASE Return(p)
  BY <1>1, ReturnMoves
<1>2. CASE call' = [call EXCEPT ![p].at = AfterEnsure(p), ![p].pid = NoPid]
  <2>1. AfterEnsure(p) \in {"verify", "config", "sandbox"}
        /\ (AfterEnsure(p) = "verify" <=> Method(p) = "start")
    BY DEF AfterEnsure
  <2>2. PICK c : c = [call[p] EXCEPT !.at = AfterEnsure(p), !.pid = NoPid]
    OBVIOUS
  <2>3. /\ c.at = AfterEnsure(p) /\ c.pid = NoPid
        /\ c.name = call[p].name /\ c.todo = call[p].todo /\ c.driver = call[p].driver
    BY <1>0, <2>2 DEF Calls
  <2>4. c \in Calls
    BY <1>0, <2>1, <2>2 DEF Calls, Labels
  <2>5. Fits(c)
    BY <1>0, <2>1, <2>3 DEF Fits, Method
  <2>6. call' = [call EXCEPT ![p] = c]
    BY <1>2, <2>2, Shapes
  <2>7. Moves(p) /\ call'[p] = c
    BY <2>1, <2>3, <2>4, <2>5, <2>6, SetMoves
  <2> QED
    BY <2>1, <2>3, <2>7 DEF Keeps
<1> QED
  BY <1>1, <1>2 DEF Await

LEMMA VerifyMoves ==
  ASSUME TypeInv, NEW p \in Procs, Verify(p)
  PROVE  /\ Moves(p)
         /\ \/ call'[p] = NoCall
            \/ /\ Keeps(p) /\ call'[p].pid = NoPid
               /\ call'[p].at = "free"
               /\ call'[p].ports = PortsOf[Name(p)] \/ "data" \in mishaps'
<1>0. /\ call[p] \in Calls /\ Fits(call[p]) /\ call[p].at = "verify"
      /\ Method(p) = "start" /\ call[p].pid = NoPid
      /\ call[p].todo \in Todos /\ call[p].driver \in Drivers /\ call[p].name # NoName
  BY Shapes DEF Verify, At, Fits, Method
<1>1. CASE Return(p)
  BY <1>1, ReturnMoves
<1>2. CASE Found(p)
  <2>0. PICK ports \in {PortsOf[Name(p)], << >>} :
           /\ ports = PortsOf[Name(p)] \/ "data" \in mishaps'
           /\ call' = [call EXCEPT ![p].at = "free", ![p].ports = ports]
    BY <1>2 DEF Found, Fault, Happened
  <2>1. ports \in Seq(Ports)
    <3>1. Name(p) \in Names
      BY <1>0, FieldTypes DEF At
    <3>2. PortsOf[Name(p)] \in Seq(Ports) /\ << >> \in Seq(Ports)
      BY <3>1, OpenShellAssumption
    <3> QED
      BY <2>0, <3>2
  <2>2. PICK c : c = [call[p] EXCEPT !.at = "free", !.ports = ports]
    OBVIOUS
  <2>3. /\ c.at = "free" /\ c.pid = NoPid /\ c.ports = ports
        /\ c.name = call[p].name /\ c.todo = call[p].todo /\ c.driver = call[p].driver
    BY <1>0, <2>2 DEF Calls
  <2>4. c \in Calls
    BY <1>0, <2>1, <2>2 DEF Calls, Labels
  <2>5. Fits(c)
    BY <1>0, <2>3 DEF Fits, Method
  <2>6. call' = [call EXCEPT ![p] = c]
    BY <2>0, <2>2, Shapes
  <2>7. Moves(p) /\ call'[p] = c
    BY <2>3, <2>4, <2>5, <2>6, SetMoves
  <2> QED
    BY <2>0, <2>3, <2>7 DEF Keeps
<1> QED
  BY <1>1, <1>2 DEF Verify, NotFound

LEMMA ForwardMoves ==
  ASSUME TypeInv, NEW p \in Procs, Forward(p)
  PROVE  /\ Moves(p) /\ Keeps(p) /\ call'[p].pid = NoPid
         /\ call[p].ports \in Seq(Ports) /\ call[p].ports # << >>
         /\ call'[p].ports = Tail(call[p].ports)
         /\ \/ call'[p].at = "load" /\ call'[p].ports = << >>
            \/ call'[p].at = "forward"
         /\ Method(p) = "start"
<1>0. /\ call[p] \in Calls /\ Fits(call[p]) /\ call[p].at = "forward"
      /\ Method(p) = "start" /\ call[p].pid = NoPid /\ call[p].ports # << >>
      /\ call[p].todo \in Todos /\ call[p].driver \in Drivers /\ call[p].name # NoName
  BY Shapes DEF Forward, At, Fits, Method
<1> DEFINE rest == Tail(call[p].ports)
           label == IF rest = << >> THEN "load" ELSE "forward"
<1>1. call' = [call EXCEPT ![p].ports = rest, ![p].at = label]
  BY DEF Forward
<1>2. call[p].ports \in Seq(Ports) /\ rest \in Seq(Ports)
  BY <1>0 DEF Calls
<1>3. PICK c : c = [call[p] EXCEPT !.ports = rest, !.at = label]
  OBVIOUS
<1>4. /\ c.at = label /\ c.pid = NoPid /\ c.ports = rest
      /\ c.name = call[p].name /\ c.todo = call[p].todo /\ c.driver = call[p].driver
  BY <1>0, <1>3 DEF Calls
<1>5. c \in Calls
  BY <1>0, <1>2, <1>3 DEF Calls, Labels
<1>6. Fits(c)
  BY <1>0, <1>1, <1>4 DEF Fits, Method
<1>7. call' = [call EXCEPT ![p] = c]
  BY <1>1, <1>3, Shapes
<1>8. Moves(p) /\ call'[p] = c
  BY <1>4, <1>5, <1>6, <1>7, SetMoves
<1> QED
  BY <1>0, <1>1, <1>2, <1>4, <1>8 DEF Keeps

LEMMA LoadMoves ==
  ASSUME TypeInv, NEW p \in Procs, LoadStates(p)
  PROVE  /\ Moves(p) /\ Keeps(p) /\ call'[p].pid = NoPid /\ call'[p].at = "truncate"
         /\ call'[p].view = IF Method(p) \in {"create", "stop"}
                            THEN (IF torn THEN {} ELSE stopped) \cup {Name(p)}
                            ELSE (IF torn THEN {} ELSE stopped) \ {Name(p)}
<1>0. /\ call[p] \in Calls /\ Fits(call[p]) /\ call[p].at = "load" /\ call[p].pid = NoPid
      /\ call[p].todo \in Todos /\ call[p].driver \in Drivers
      /\ Name(p) \in Names /\ Name(p) # NoName /\ stopped \in SUBSET Names
  BY Shapes, FieldTypes DEF LoadStates, At, Fits
<1>1. PICK view : /\ view = IF Method(p) \in {"create", "stop"}
                            THEN (IF torn THEN {} ELSE stopped) \cup {Name(p)}
                            ELSE (IF torn THEN {} ELSE stopped) \ {Name(p)}
                  /\ call' = [call EXCEPT ![p].at = "truncate", ![p].view = view]
  BY DEF LoadStates
<1>2. view \in SUBSET Names /\ (Method(p) \in {"create", "stop"} => Name(p) \in view)
  BY <1>0, <1>1
<1>3. PICK c : c = [call[p] EXCEPT !.at = "truncate", !.view = view]
  OBVIOUS
<1>4. /\ c.at = "truncate" /\ c.pid = NoPid /\ c.view = view
      /\ c.name = call[p].name /\ c.todo = call[p].todo /\ c.driver = call[p].driver
  BY <1>0, <1>3 DEF Calls
<1>5. c \in Calls
  BY <1>0, <1>2, <1>3 DEF Calls, Labels
<1>6. Fits(c)
  BY <1>0, <1>2, <1>4 DEF Fits, Method, Name
<1>7. call' = [call EXCEPT ![p] = c]
  BY <1>1, <1>3, Shapes
<1>8. Moves(p) /\ call'[p] = c
  BY <1>4, <1>5, <1>6, <1>7, SetMoves
<1> QED
  BY <1>1, <1>4, <1>8 DEF Keeps

LEMMA WriteMoves ==
  ASSUME TypeInv, NEW p \in Procs, WriteStates(p)
  PROVE  /\ Moves(p) /\ Keeps(p) /\ call'[p].pid = NoPid /\ call'[p].at = "save"
         /\ stopped' = call[p].view /\ stopped' \in SUBSET Names /\ torn' \in BOOLEAN
         /\ torn' => "race" \in mishaps
<1>0. /\ call[p] \in Calls /\ Fits(call[p]) /\ call[p].at = "write" /\ call[p].pid = NoPid
      /\ call[p].todo \in Todos /\ call[p].driver \in Drivers /\ call[p].name # NoName
  BY Shapes DEF WriteStates, At, Fits
<1>1. PICK c : c = [call[p] EXCEPT !.at = "save", !.view = {}]
  OBVIOUS
<1>2. /\ c.at = "save" /\ c.pid = NoPid
      /\ c.name = call[p].name /\ c.todo = call[p].todo /\ c.driver = call[p].driver
  BY <1>0, <1>1 DEF Calls
<1>3. c \in Calls
  BY <1>0, <1>1 DEF Calls, Labels
<1>4. Fits(c)
  BY <1>0, <1>2 DEF Fits
<1>5. call' = [call EXCEPT ![p] = c]
  BY <1>1, Shapes DEF WriteStates
<1>6. Moves(p) /\ call'[p] = c
  BY <1>2, <1>3, <1>4, <1>5, SetMoves
<1>7. /\ stopped' = call[p].view /\ stopped' \in SUBSET Names /\ torn' \in BOOLEAN
      /\ torn' => "race" \in mishaps
  BY <1>0 DEF WriteStates, Calls
<1> QED
  BY <1>2, <1>6, <1>7 DEF Keeps

LEMMA SaveMoves ==
  ASSUME TypeInv, NEW p \in Procs, Save(p)
  PROVE  /\ Moves(p)
         /\ \/ call'[p] = NoCall
            \/ call'[p].at \in {"ensure", "info"} /\ call'[p].pid = NoPid
<1>0. /\ call[p] \in Calls /\ Fits(call[p]) /\ call[p].at = "save" /\ call[p].pid = NoPid
      /\ call[p].todo \in Todos /\ call[p].driver \in Drivers /\ call[p].name # NoName
  BY Shapes DEF Save, At, Fits
<1>1. CASE Return(p)
  BY <1>1, ReturnMoves
<1>2. CASE ~Return(p)
  <2>1. PICK rest, label : /\ rest = Tail(call[p].todo) /\ rest # << >>
                           /\ label = Entry(Head(rest))
                           /\ call' = [call EXCEPT ![p].todo = rest, ![p].at = label]
    BY <1>2 DEF Save, Done
  <2>2. rest \in Todos /\ rest \in Seq(Methods) /\ Head(rest) \in {"start", "remove"}
    BY <1>0, <2>1, TodoFacts
  <2>3. /\ label \in {"ensure", "info"}
        /\ label = "ensure" => Head(rest) = "start"
        /\ label = "info" => Head(rest) = "remove"
    BY <2>1, <2>2, EntryFacts
  <2>4. PICK c : c = [call[p] EXCEPT !.todo = rest, !.at = label]
    OBVIOUS
  <2>5. /\ c.at = label /\ c.pid = NoPid /\ c.todo = rest
        /\ c.name = call[p].name /\ c.driver = call[p].driver
    BY <1>0, <2>4 DEF Calls
  <2>6. c \in Calls
    BY <1>0, <2>2, <2>3, <2>4 DEF Calls, Labels
  <2>7. Fits(c)
    BY <1>0, <2>2, <2>3, <2>5 DEF Fits
  <2>8. call' = [call EXCEPT ![p] = c]
    BY <2>1, <2>4, Shapes
  <2>9. Moves(p) /\ call'[p] = c
    BY <2>3, <2>5, <2>6, <2>7, <2>8, SetMoves
  <2> QED
    BY <2>3, <2>5, <2>9
<1> QED
  BY <1>1, <1>2

LEMMA CheckMoves ==
  ASSUME TypeInv, NEW p \in Procs, CheckStopped(p)
  PROVE  /\ Moves(p)
         /\ \/ call'[p] = NoCall
            \/ /\ Keeps(p) /\ call'[p].pid = NoPid /\ call'[p].at = "delete"
               /\ \/ Overridden(Name(p))
                  \/ gateway = NoGateway
                  \/ ~InReach(Name(p))
                  \/ "list" \in mishaps'
<1>0. /\ call[p] \in Calls /\ Fits(call[p]) /\ call[p].at = "info" /\ call[p].pid = NoPid
      /\ Method(p) = "remove"
      /\ call[p].todo \in Todos /\ call[p].driver \in Drivers /\ call[p].name # NoName
  BY Shapes DEF CheckStopped, At, Fits, Method
<1>1. CASE Return(p)
  BY <1>1, ReturnMoves
<1>2. CASE ~Return(p)
  <2>1. call' = [call EXCEPT ![p].ready = TRUE, ![p].at = "delete"]
    BY <1>2 DEF CheckStopped
  <2>2. PICK c : c = [call[p] EXCEPT !.ready = TRUE, !.at = "delete"]
    OBVIOUS
  <2>3. /\ c.at = "delete" /\ c.pid = NoPid
        /\ c.name = call[p].name /\ c.todo = call[p].todo /\ c.driver = call[p].driver
    BY <1>0, <2>2 DEF Calls
  <2>4. c \in Calls
    BY <1>0, <2>2 DEF Calls, Labels
  <2>5. Fits(c)
    BY <1>0, <2>3 DEF Fits, Method
  <2>6. call' = [call EXCEPT ![p] = c]
    BY <2>1, <2>2, Shapes
  <2>7. Moves(p) /\ call'[p] = c
    BY <2>3, <2>4, <2>5, <2>6, SetMoves
  <2>8. \/ Overridden(Name(p))
        \/ gateway = NoGateway
        \/ ~InReach(Name(p))
        \/ "list" \in mishaps'
    BY <1>2 DEF CheckStopped, StateOf, Listed, Fault, Happened
  <2> QED
    BY <2>3, <2>7, <2>8 DEF Keeps
<1> QED
  BY <1>1, <1>2

LEMMA HasActiveMoves ==
  ASSUME TypeInv, NEW p \in Procs, HasActive(p)
  PROVE  /\ Moves(p)
         /\ \/ call'[p] = NoCall
            \/ /\ Keeps(p) /\ call'[p].pid = NoPid /\ call'[p].at = "kill"
               /\ \/ gateway # NoGateway /\ boxes[gateway.driver] = {}
                  \/ gateway = NoGateway
                  \/ "list" \in mishaps'
<1>1. CASE Return(p)
  BY <1>1, ReturnMoves
<1>2. CASE Goto(p, "kill")
  <2>1. At(p, "active") /\ Method(p) \in {"create", "start"} /\ ~At(p, "idle") /\ ~At(p, "await")
    BY Shapes DEF HasActive, At, Fits, Method
  <2>2. Moves(p) /\ Keeps(p) /\ call'[p].pid = NoPid /\ call'[p].at = "kill"
    BY <1>2, <2>1, GotoMoves DEF Labels, Keeps
  <2>3. PICK answers \in BOOLEAN :
           /\ Listed(answers)
           /\ IF answers /\ boxes[gateway.driver] # {} THEN Return(p) ELSE Goto(p, "kill")
    BY DEF HasActive
  <2>4. ~Return(p)
    BY <2>2, NoCallFits, ReturnMoves
  <2> QED
    BY <2>2, <2>3, <2>4 DEF Listed, Fault, Happened
<1> QED
  BY <1>1, <1>2 DEF HasActive

\* The steps that change nothing of the locals but the label.
LEMMA PlainMoves ==
  ASSUME TypeInv, NEW p \in Procs
  PROVE  /\ StopGateway(p) => /\ Moves(p) /\ Keeps(p) /\ call'[p].pid = NoPid
                              /\ call'[p].at = "spawn"
         /\ SaveConfig(p) => /\ Moves(p) /\ Keeps(p) /\ call'[p].pid = NoPid
                             /\ call'[p].at = "sandbox" /\ call[p].driver \in Drivers
         /\ CreateSandbox(p) => /\ Moves(p) /\ Keeps(p) /\ call'[p].pid = NoPid
                                /\ call'[p].at = "upload" /\ Name(p) \in Names
         /\ Upload(p) => /\ Moves(p) /\ Keeps(p) /\ call'[p].pid = NoPid
                         /\ call'[p].at = "load" /\ Method(p) = "create"
         /\ Unforward(p) => /\ Moves(p) /\ Keeps(p) /\ call'[p].pid = NoPid
                            /\ call'[p].at = "load" /\ Method(p) = "stop"
                            /\ forwards' = forwards
         /\ DeleteSandbox(p) => /\ Moves(p) /\ Keeps(p) /\ call'[p].pid = NoPid
                                /\ call'[p].at = "load" /\ Method(p) = "remove"
         /\ TruncateStates(p) => /\ Moves(p) /\ Keeps(p) /\ call'[p].pid = NoPid
                                 /\ call'[p].at = "write" /\ call'[p].view = call[p].view
<1> USE DEF At, Keeps, Labels
<1>0. call[p] \in Calls /\ Fits(call[p])
  BY Shapes
<1>1. StopGateway(p) => /\ Moves(p) /\ Keeps(p) /\ call'[p].pid = NoPid
                        /\ call'[p].at = "spawn"
  BY <1>0, GotoMoves DEF StopGateway, Fits, Method
<1>2. SaveConfig(p) => /\ Moves(p) /\ Keeps(p) /\ call'[p].pid = NoPid
                       /\ call'[p].at = "sandbox" /\ call[p].driver \in Drivers
  BY <1>0, GotoMoves DEF SaveConfig, Fits, Method
<1>3. CreateSandbox(p) => /\ Moves(p) /\ Keeps(p) /\ call'[p].pid = NoPid
                          /\ call'[p].at = "upload" /\ Name(p) \in Names
  BY <1>0, GotoMoves, FieldTypes DEF CreateSandbox, Fits, Method
<1>4. Upload(p) => /\ Moves(p) /\ Keeps(p) /\ call'[p].pid = NoPid
                   /\ call'[p].at = "load" /\ Method(p) = "create"
  BY <1>0, GotoMoves DEF Upload, Fits, Method
<1>5. Unforward(p) => /\ Moves(p) /\ Keeps(p) /\ call'[p].pid = NoPid
                      /\ call'[p].at = "load" /\ Method(p) = "stop"
                      /\ forwards' = forwards
  BY <1>0, GotoMoves DEF Unforward, Fits, Method
<1>6. DeleteSandbox(p) => /\ Moves(p) /\ Keeps(p) /\ call'[p].pid = NoPid
                          /\ call'[p].at = "load" /\ Method(p) = "remove"
  BY <1>0, GotoMoves DEF DeleteSandbox, Fits, Method
<1>7. TruncateStates(p) => /\ Moves(p) /\ Keeps(p) /\ call'[p].pid = NoPid
                           /\ call'[p].at = "write" /\ call'[p].view = call[p].view
  BY <1>0, GotoMoves DEF TruncateStates
<1> QED
  BY <1>1, <1>2, <1>3, <1>4, <1>5, <1>6, <1>7

LEMMA PortsFreeMoves ==
  ASSUME TypeInv, NEW p \in Procs, PortsFree(p)
  PROVE  /\ Moves(p)
         /\ \/ call'[p] = NoCall
            \/ /\ Keeps(p) /\ call'[p].pid = NoPid /\ call'[p].ports = call[p].ports
               /\ \/ call'[p].at = "load" /\ call[p].ports = << >>
                  \/ call'[p].at = "forward"
<1>0. call[p] \in Calls /\ Fits(call[p]) /\ call[p].at = "free" /\ Method(p) = "start"
  BY Shapes DEF PortsFree, At, Fits, Method
<1>1. CASE Return(p)
  BY <1>1, ReturnMoves
<1>2. CASE call[p].ports = << >> /\ Goto(p, "load")
  BY <1>0, <1>2, GotoMoves DEF At, Keeps, Labels
<1>3. CASE call[p].ports # << >> /\ Goto(p, "forward")
  BY <1>0, <1>3, GotoMoves DEF At, Keeps, Labels
<1> QED
  BY <1>1, <1>2, <1>3 DEF PortsFree

LEMMA FailMoves ==
  ASSUME TypeInv, NEW p \in Procs, StepFails(p) \/ Die(p)
  PROVE  /\ Moves(p)
         /\ \/ call'[p] = NoCall
            \/ /\ Keeps(p) /\ call'[p].pid = NoPid /\ call'[p].at = "save"
               /\ Method(p) = "remove"
         /\ At(p, "write") => "torn" \in mishaps'
         /\ mishaps \subseteq mishaps' /\ mishaps' \subseteq mishaps \cup Mishaps
<1>1. /\ At(p, "write") => "torn" \in mishaps'
      /\ mishaps \subseteq mishaps' /\ mishaps' \subseteq mishaps \cup Mishaps
  BY DEF StepFails, Die, Happened, Mishaps, FaultKinds
<1>2. CASE Return(p)
  BY <1>1, <1>2, ReturnMoves
<1>3. CASE /\ Method(p) = "remove" /\ Goto(p, "save")
           /\ call[p].at \in {"load", "truncate", "write"}
  BY <1>1, <1>3, GotoMoves DEF At, Keeps, Labels
<1> QED
  BY <1>2, <1>3 DEF StepFails, Die

LEMMA StepMoves ==
  ASSUME TypeInv, NEW p \in Procs, Step(p) \/ Die(p)
  PROVE  Moves(p) /\ ~At(p, "idle") /\ mishaps \subseteq mishaps'
<1>1. Moves(p)
  BY EnsureMoves, HasActiveMoves, PlainMoves, SpawnMoves, AwaitMoves, VerifyMoves,
     PortsFreeMoves, ForwardMoves, LoadMoves, WriteMoves, SaveMoves, CheckMoves, FailMoves
     DEF Step
<1>2. ~At(p, "idle")
  BY DEF Step, At, Ensure, HasActive, StopGateway, Spawn, Await, SaveConfig,
     CreateSandbox,
         Upload, Verify, PortsFree, Forward, Unforward, LoadStates, TruncateStates,
         WriteStates, Save, CheckStopped, DeleteSandbox, StepFails, Die
<1>3. mishaps \subseteq mishaps'
  BY FailMoves
     DEF Step, Ensure, HasActive, StopGateway, Spawn, Await, SaveConfig, CreateSandbox,
         Upload, Verify, Found, NotFound, PortsFree, Forward, Unforward, LoadStates, TruncateStates,
         WriteStates, Save, CheckStopped, DeleteSandbox, Listed, Fault, Happened
<1> QED
  BY <1>1, <1>2, <1>3

-----------------------------------------------------------------------------
(* Types.                                                                  *)

Commands(p, n) ==
    CommandInit(p, n) \/ CommandStart(p, n) \/ CommandStop(p, n) \/ CommandRemove(p, n)

\* A command begins; it overlaps with no other, or that goes on record.
LEMMA CommandMoves ==
  ASSUME TypeInv, NEW p \in Procs, NEW n \in Names, Commands(p, n)
  PROVE  /\ At(p, "idle") /\ \A q \in Procs \ {p} : call'[q] = call[q]
         /\ call'[p] \in Calls /\ Fits(call'[p]) /\ call' = [call EXCEPT ![p] = call'[p]]
         /\ call'[p].at \in {"ensure", "unforward", "info"}
         /\ call'[p].name = n /\ call'[p].pid = NoPid
         /\ \/ mishaps' = mishaps /\ \A q \in Procs : At(q, "idle")
            \/ mishaps' = mishaps \cup {"race"} /\ "race" \in Faults
         /\ budget' = budget - 1 /\ budget > 0
         /\ UNCHANGED <<gatewayVars, sandboxVars, overrideVars, known>>
<1>0. n # NoName /\ config \in Drivers
  BY Shapes, OpenShellAssumption
<1>1. PICK c : /\ call' = [call EXCEPT ![p] = c] /\ c \in Calls /\ Fits(c)
               /\ c.at \in {"ensure", "unforward", "info"} /\ c.name = n /\ c.pid = NoPid
  <2>1. CASE CommandInit(p, n)
    <3>1. PICK todo \in {<<"create">>, <<"create", "start">>}, asked \in BOOLEAN,
               driver \in Drivers :
             call' = [call EXCEPT ![p] = [NoCall EXCEPT !.at = "ensure", !.name = n,
                         !.todo = todo, !.asked = asked, !.driver = driver]]
      <4>1. PICK todo \in {<<"create">>, <<"create", "start">>}, d \in Drivers \cup {NoDriver} :
               call' = [call EXCEPT ![p] = [NoCall EXCEPT !.at = "ensure",
                           !.name = n, !.todo = todo, !.asked = (d # NoDriver),
                           !.driver = IF d = NoDriver THEN config ELSE d]]
        BY <2>1 DEF CommandInit
      <4>2. (d # NoDriver) \in BOOLEAN /\ (IF d = NoDriver THEN config ELSE d) \in Drivers
        BY <1>0
      <4> QED
        BY <4>1, <4>2
    <3>2. todo \in Todos /\ todo \in Seq(Methods) /\ Head(todo) = "create"
      <4>1. todo \in Todos
        BY <3>1 DEF Todos
      <4>2. Head(<<"create">>) = "create" /\ Head(<<"create", "start">>) = "create"
        OBVIOUS
      <4> QED
        BY <3>1, <4>1, <4>2, TodoFacts
    <3>3. PICK c : c = [NoCall EXCEPT !.at = "ensure", !.name = n, !.todo = todo,
                           !.asked = asked, !.driver = driver]
      OBVIOUS
    <3>4. /\ c.at = "ensure" /\ c.name = n /\ c.todo = todo /\ c.driver = driver
          /\ c.pid = NoPid
      BY <3>3, NoCallFits DEF Calls
    <3>5. c \in Calls
      BY <3>2, <3>3, NoCallFits DEF Calls, Labels
    <3>6. Fits(c)
      BY <1>0, <3>2, <3>4 DEF Fits
    <3> QED
      BY <3>1, <3>3, <3>4, <3>5, <3>6
  <2>2. ASSUME NEW todo \in Todos, Command(p, n, todo)
        PROVE  \E c : /\ call' = [call EXCEPT ![p] = c] /\ c \in Calls /\ Fits(c)
                      /\ c.at \in {"ensure", "unforward", "info"}
                      /\ c.name = n /\ c.pid = NoPid
    <3>1. PICK c : c = [NoCall EXCEPT !.at = Entry(Head(todo)), !.name = n, !.todo = todo,
                           !.driver = config]
      OBVIOUS
    <3>2. /\ todo \in Seq(Methods) /\ Head(todo) \in Methods
          /\ Entry(Head(todo)) \in {"ensure", "unforward", "info"}
          /\ Entry(Head(todo)) = "ensure" => Head(todo) \in {"create", "start"}
          /\ Entry(Head(todo)) = "unforward" => Head(todo) = "stop"
          /\ Entry(Head(todo)) = "info" => Head(todo) = "remove"
      BY TodoFacts, EntryFacts DEF Methods
    <3>3. /\ c.at = Entry(Head(todo)) /\ c.name = n /\ c.todo = todo /\ c.driver = config
          /\ c.pid = NoPid /\ c.ready = FALSE
      BY <3>1, NoCallFits DEF Calls, NoCall
    <3>4. c \in Calls
      BY <1>0, <3>1, <3>2, NoCallFits DEF Calls, Labels
    <3>5. Fits(c)
      BY <1>0, <3>2, <3>3 DEF Fits
    <3> QED
      BY <2>2, <3>1, <3>2, <3>3, <3>4, <3>5 DEF Command
  <2>3. ~CommandInit(p, n) => \E todo \in Todos : Command(p, n, todo)
    BY DEF Commands, CommandStart, CommandStop, CommandRemove, Todos
  <2> QED
    BY <2>1, <2>2, <2>3
<1>2. call'[p] = c /\ \A q \in Procs \ {p} : call'[q] = call[q]
  BY <1>1, SetCall
<1>3. /\ At(p, "idle")
      /\ IF \E q \in Procs : ~At(q, "idle") THEN Fault("race") ELSE UNCHANGED mishaps
      /\ budget' = budget - 1 /\ budget > 0
      /\ UNCHANGED <<gatewayVars, sandboxVars, overrideVars, known>>
  BY DEF Commands, CommandInit, CommandStart, CommandStop, CommandRemove, Command
<1>4. \/ mishaps' = mishaps /\ \A q \in Procs : At(q, "idle")
      \/ mishaps' = mishaps \cup {"race"} /\ "race" \in Faults
  BY <1>3 DEF Fault, Happened
<1> QED
  BY <1>1, <1>2, <1>3, <1>4

\* The types of what is shared.
SharedOK ==
    /\ gateway \in Gateways \cup {NoGateway} /\ recorded \in Gateways \cup {NoGateway}
    /\ spawned \in SUBSET Gateways /\ config \in Drivers
    /\ boxes \in [Drivers -> SUBSET Names] /\ stopped \in SUBSET Names
    /\ torn \in BOOLEAN
    /\ forwards \in SUBSET (Ports \X Names)
    /\ known \in [Names -> {"none", "stopped", "running", "error"}]
    /\ mishaps \in SUBSET Mishaps

LEMMA GatewayDriver ==
  ASSUME TypeInv, gateway # NoGateway
  PROVE  gateway \in Gateways /\ gateway.driver \in Drivers /\ gateway.pid \in Pids
  BY Shapes DEF Gateways

LEMMA ListedKinds ==
  ASSUME TypeInv, NEW answers, Listed(answers)
  PROVE  mishaps' \in SUBSET Mishaps
  BY DEF Listed, Fault, Happened, TypeInv, TypeOK, Mishaps, FaultKinds

LEMMA RecordTyped ==
  ASSUME TypeInv, NEW p \in Procs, NEW state \in {"none", "stopped", "running", "error"},
         Record(p, state)
  PROVE  known' \in [Names -> {"none", "stopped", "running", "error"}]
  BY Shapes DEF Record

LEMMA MoreBoxes ==
  ASSUME TypeInv, NEW n \in Names, gateway # NoGateway,
         boxes' = [boxes EXCEPT ![gateway.driver] = @ \cup {n}]
  PROVE  boxes' \in [Drivers -> SUBSET Names]
  BY Shapes, GatewayDriver

LEMMA SharedStep ==
  ASSUME TypeInv, NEW p \in Procs, Step(p) \/ Die(p)
  PROVE  SharedOK'
<1> USE DEF gatewayVars, sandboxVars, overrideVars
<1>0. SharedOK
  BY DEF SharedOK, TypeInv, TypeOK
<1>1. CASE Ensure(p)
  <2>1. mishaps' \in SUBSET Mishaps
    BY <1>1, ListedKinds DEF Ensure
  <2> QED
    BY <1>0, <1>1, <2>1 DEF SharedOK, Ensure
<1>2. CASE HasActive(p)
  <2>1. mishaps' \in SUBSET Mishaps
    BY <1>2, ListedKinds DEF HasActive
  <2> QED
    BY <1>0, <1>2, <2>1 DEF SharedOK, HasActive
<1>3. CASE StopGateway(p)
  BY <1>0, <1>3 DEF SharedOK, StopGateway
<1>4. CASE Spawn(p)
  BY <1>0, <1>4, SpawnMoves DEF SharedOK, Spawn, NewGateways, Mishaps, FaultKinds
<1>5. CASE Await(p)
  BY <1>0, <1>5 DEF SharedOK, Await
<1>6. CASE SaveConfig(p)
  BY <1>0, <1>6, PlainMoves DEF SharedOK, SaveConfig
<1>7. CASE CreateSandbox(p)
  <2>1. boxes' \in [Drivers -> SUBSET Names]
    BY <1>7, PlainMoves, MoreBoxes DEF CreateSandbox
  <2> QED
    BY <1>0, <1>7, <2>1 DEF SharedOK, CreateSandbox
<1>8. CASE Upload(p)
  BY <1>0, <1>8 DEF SharedOK, Upload
<1>9. CASE Verify(p)
  <2>1. mishaps' \in SUBSET Mishaps
    BY <1>0, <1>9, ListedKinds
       DEF Verify, Found, NotFound, Fault, Happened, SharedOK, Mishaps, FaultKinds
  <2> QED
    BY <1>0, <1>9, <2>1 DEF SharedOK, Verify
<1>10. CASE PortsFree(p)
  BY <1>0, <1>10 DEF SharedOK, PortsFree
<1>11. CASE Forward(p)
  <2>1. call[p].ports \in Seq(Ports) /\ call[p].ports # << >> /\ Name(p) \in Names
    BY <1>11, ForwardMoves, FieldTypes DEF Forward, At
  <2>2. Head(call[p].ports) \in Ports
    BY <2>1
  <2> QED
    BY <1>0, <1>11, <2>1, <2>2 DEF SharedOK, Forward
<1>12. CASE Unforward(p)
  BY <1>0, <1>12, PlainMoves DEF SharedOK, Unforward
<1>13. CASE LoadStates(p)
  BY <1>0, <1>13 DEF SharedOK, LoadStates
<1>14. CASE TruncateStates(p)
  BY <1>0, <1>14 DEF SharedOK, TruncateStates
<1>15. CASE WriteStates(p)
  BY <1>0, <1>15, WriteMoves DEF SharedOK, WriteStates
<1>16. CASE Save(p)
  <2>1. CASE Method(p) = "stop"
    <3>1. PICK answers \in BOOLEAN :
             /\ IF Overridden(Name(p)) THEN UNCHANGED mishaps ELSE Listed(answers)
             /\ Record(p, StateOf(Name(p), answers))
      BY <1>16, <2>1 DEF Save
    <3>2. StateOf(Name(p), answers) \in {"none", "stopped", "running", "error"}
      BY DEF StateOf
    <3>3. known' \in [Names -> {"none", "stopped", "running", "error"}]
      BY <3>1, <3>2, RecordTyped
    <3>4. mishaps' \in SUBSET Mishaps
      BY <1>0, <3>1, ListedKinds DEF SharedOK
    <3> QED
      BY <1>0, <1>16, <3>3, <3>4 DEF SharedOK, Save
  <2>2. CASE Method(p) # "stop"
    <3>1. known' \in [Names -> {"none", "stopped", "running", "error"}]
      BY <1>16, <2>2, RecordTyped DEF Save
    <3> QED
      BY <1>0, <1>16, <2>2, <3>1 DEF SharedOK, Save
  <2> QED
    BY <2>1, <2>2
<1>17. CASE CheckStopped(p)
  <2>1. mishaps' \in SUBSET Mishaps
    BY <1>0, <1>17, ListedKinds DEF CheckStopped, SharedOK
  <2> QED
    BY <1>0, <1>17, <2>1 DEF SharedOK, CheckStopped
<1>18. CASE DeleteSandbox(p)
  <2>1. boxes' \in [Drivers -> SUBSET Names]
    BY <1>0, <1>18, GatewayDriver DEF DeleteSandbox, InReach, SharedOK
  <2> QED
    BY <1>0, <1>18, <2>1 DEF SharedOK, DeleteSandbox
<1>19. CASE StepFails(p)
  <2>1. mishaps' \in SUBSET Mishaps
    BY <1>0, <1>19, FailMoves DEF SharedOK
  <2>2. boxes' \in [Drivers -> SUBSET Names]
    BY <1>0, <1>19, FieldTypes, MoreBoxes DEF StepFails, SharedOK
  <2> QED
    BY <1>0, <1>19, <2>1, <2>2 DEF SharedOK, StepFails
<1>20. CASE Die(p)
  <2>1. mishaps' \in SUBSET Mishaps
    BY <1>0, <1>20, FailMoves DEF SharedOK
  <2> QED
    BY <1>0, <1>20, <2>1 DEF SharedOK, Die, NewGateways
<1> QED
  BY <1>1, <1>2, <1>3, <1>4, <1>5, <1>6, <1>7, <1>8, <1>9, <1>10, <1>11, <1>12, <1>13,
     <1>14, <1>15, <1>16, <1>17, <1>18, <1>19, <1>20 DEF Step

\* What runs beside kdn: gateways, port forwards and the machine.
Around == GatewayStarts \/ GatewayDies \/ ForwardEnds \/ Reboot

LEMMA AroundMoves ==
  ASSUME TypeInv, Around
  PROVE  /\ SharedOK' /\ mishaps \subseteq mishaps'
         /\ UNCHANGED <<recorded, config, boxes, overrideVars, known, call>>
         /\ gateway' = gateway \/ GatewayStarts \/ "gateway" \in mishaps'
               \/ "reboot" \in mishaps'
         /\ forwards' = forwards \/ "forward" \in mishaps' \/ "reboot" \in mishaps'
         /\ gateway' = gateway \/ gateway' = NoGateway \/ gateway' \in spawned
         /\ spawned' \subseteq spawned
<1> USE DEF gatewayVars, sandboxVars, overrideVars, Fault, Happened
<1>0. SharedOK
  BY DEF SharedOK, TypeInv, TypeOK
<1>1. CASE GatewayStarts
  BY <1>0, <1>1 DEF GatewayStarts, SharedOK, Mishaps
<1>2. CASE GatewayDies
  BY <1>0, <1>2 DEF GatewayDies, SharedOK, Mishaps, FaultKinds
<1>3. CASE ForwardEnds
  BY <1>0, <1>3 DEF ForwardEnds, SharedOK, Mishaps, FaultKinds
<1>4. CASE Reboot
  BY <1>0, <1>4 DEF Reboot, SharedOK, Mishaps, FaultKinds
<1> QED
  BY <1>1, <1>2, <1>3, <1>4 DEF Around

LEMMA NextCases ==
  ASSUME Next
  PROVE  \/ \E p \in Procs, n \in Names : Commands(p, n)
         \/ budget' = budget /\ \E p \in Procs : Step(p) \/ Die(p)
         \/ budget' = budget /\ Around
         \/ UNCHANGED vars
  BY DEF Next, Commands, Around, Finished

LEMMA TypeNext ==
  ASSUME TypeInv, [Next]_vars
  PROVE  TypeInv'
<1>0. SharedOK /\ call \in [Procs -> Calls] /\ budget \in Nat
  BY DEF SharedOK, TypeInv, TypeOK, Calls
<1>1. SUFFICES SharedOK' /\ (call \in [Procs -> Calls])' /\ (budget \in Nat)'
               /\ \A p \in Procs : Fits(call[p])'
  BY DEF SharedOK, TypeInv, TypeOK, Calls
<1>2. CASE UNCHANGED vars
  BY <1>0, <1>2 DEF vars, SharedOK, TypeInv
<1>3. ASSUME NEW p \in Procs, NEW n \in Names, Commands(p, n)
      PROVE  /\ SharedOK' /\ (call \in [Procs -> Calls])' /\ (budget \in Nat)'
             /\ \A q \in Procs : Fits(call[q])'
  <2>1. SharedOK'
    BY <1>0, <1>3, CommandMoves
       DEF SharedOK, gatewayVars, sandboxVars, overrideVars, Mishaps, FaultKinds
  <2>2. (call \in [Procs -> Calls])' /\ \A q \in Procs : Fits(call[q])'
    BY <1>0, <1>3, CommandMoves DEF TypeInv
  <2>3. (budget \in Nat)'
    BY <1>0, <1>3, CommandMoves
  <2> QED
    BY <2>1, <2>2, <2>3
<1>4. ASSUME NEW p \in Procs, Step(p) \/ Die(p), budget' = budget
      PROVE  /\ SharedOK' /\ (call \in [Procs -> Calls])' /\ (budget \in Nat)'
             /\ \A q \in Procs : Fits(call[q])'
  <2>1. Moves(p)
    BY <1>4, StepMoves
  <2>2. (call \in [Procs -> Calls])' /\ \A q \in Procs : Fits(call[q])'
    BY <1>0, <2>1 DEF Moves, TypeInv
  <2> QED
    BY <1>0, <1>4, <2>2, SharedStep
<1>5. CASE Around /\ budget' = budget
  BY <1>0, <1>5, AroundMoves DEF TypeInv
<1> QED
  BY <1>2, <1>3, <1>4, <1>5, NextCases

LEMMA TypeInit == Init => TypeInv
<1> SUFFICES ASSUME Init PROVE TypeInv
  OBVIOUS
<1>1. SharedOK /\ budget \in Nat
  BY OpenShellAssumption DEF Init, SharedOK
<1>2. call \in [Procs -> Calls] /\ \A p \in Procs : Fits(call[p])
  BY NoCallFits DEF Init
<1> QED
  BY <1>1, <1>2 DEF TypeInv, TypeOK, SharedOK, Calls

\* Every variable always holds a value of its kind.
THEOREM TypeCorrect == Spec => []TypeOK
<1>1. TypeInv => TypeOK
  BY DEF TypeInv
<1> QED
  BY <1>1, TypeInit, TypeNext, PTL DEF Spec

-----------------------------------------------------------------------------
(* One command at a time, and one gateway for each process id.             *)

LEMMA SoloNext ==
  ASSUME TypeInv, SoloInv, [Next]_vars
  PROVE  SoloInv'
<1> SUFFICES ASSUME "race" \notin mishaps', NEW q \in Procs, NEW r \in Procs,
                    ~At(q, "idle")', ~At(r, "idle")'
             PROVE  q = r
  BY DEF SoloInv, Without
<1>1. CASE UNCHANGED vars
  BY <1>1 DEF vars, SoloInv, Without, At
<1>2. ASSUME NEW p \in Procs, NEW n \in Names, Commands(p, n) PROVE q = r
  BY <1>2, CommandMoves DEF At
<1>3. ASSUME NEW p \in Procs, Step(p) \/ Die(p) PROVE q = r
  BY <1>3, StepMoves DEF Moves, At, SoloInv, Without
<1>4. CASE Around
  BY <1>4, AroundMoves DEF SoloInv, Without, At
<1> QED
  BY <1>1, <1>2, <1>3, <1>4, NextCases

LEMMA PidNext ==
  ASSUME TypeInv, PidInv, [Next]_vars
  PROVE  PidInv'
<1>1. CASE AllGateways' \subseteq AllGateways
  BY <1>1 DEF PidInv
<1>2. CASE \E p \in Procs : Spawn(p) \/ (Die(p) /\ spawned' # spawned)
  <2>1. PICK p \in Procs : Spawn(p) \/ (Die(p) /\ spawned' # spawned)
    BY <1>2
  <2>2. PICK new \in NewGateways(p) : AllGateways' \subseteq AllGateways \cup {new}
    BY <2>1, SpawnMoves DEF Spawn, Die, AllGateways
  <2>3. \A g \in AllGateways : g.pid # new.pid
    BY <2>2 DEF AllGateways, PidsOf, NewGateways
  <2> QED
    BY <2>2, <2>3 DEF PidInv
<1>3. CASE gateway' = gateway /\ spawned' = spawned /\ recorded' = recorded
  BY <1>3 DEF PidInv, AllGateways
<1>4. ASSUME NEW p \in Procs, Step(p) \/ Die(p),
             ~(Spawn(p) \/ (Die(p) /\ spawned' # spawned))
      PROVE  AllGateways' \subseteq AllGateways \/ UNCHANGED <<gateway, spawned, recorded>>
  BY <1>4
     DEF AllGateways, gatewayVars, Step, Ensure, HasActive, StopGateway, Await, SaveConfig,
         CreateSandbox, Upload, Verify, PortsFree, Forward, Unforward, LoadStates,
         TruncateStates, WriteStates, Save, CheckStopped, DeleteSandbox, StepFails, Die
<1>5. ASSUME NEW p \in Procs, NEW n \in Names, Commands(p, n)
      PROVE  UNCHANGED <<gateway, spawned, recorded>>
  BY <1>5, CommandMoves DEF gatewayVars
<1>6. Around => AllGateways' \subseteq AllGateways
  BY AroundMoves DEF AllGateways
<1> QED
  BY <1>1, <1>2, <1>3, <1>4, <1>5, <1>6, NextCases DEF vars

LEMMA BaseCorrect == Spec => []BaseInv
<1>1. Init => BaseInv
  BY TypeInit, NoCallFits
     DEF Init, BaseInv, SoloInv, PidInv, AllGateways, Without, At
<1>2. BaseInv /\ [Next]_vars => BaseInv'
  BY TypeNext, SoloNext, PidNext DEF BaseInv
<1> QED
  BY <1>1, <1>2, PTL DEF Spec

\* Where no commands overlap, a step of p finds all others idle.
LEMMA StepAlone ==
  ASSUME BaseInv, NEW p \in Procs, Step(p) \/ Die(p), "race" \notin mishaps'
  PROVE  \A q \in Procs \ {p} : /\ call[q].at = "idle" /\ call'[q].at = "idle"
                                /\ call'[q].pid = NoPid
<1>1. "race" \notin mishaps /\ ~At(p, "idle") /\ Moves(p)
  BY StepMoves DEF BaseInv
<1> QED
  BY <1>1 DEF BaseInv, SoloInv, Without, At, Moves, TypeInv, Fits

LEMMA CommandAlone ==
  ASSUME BaseInv, NEW p \in Procs, NEW n \in Names, Commands(p, n), "race" \notin mishaps'
  PROVE  /\ \A q \in Procs : call[q].at = "idle"
         /\ \A q \in Procs : /\ call'[q].at \in {"idle", "ensure", "unforward", "info"}
                             /\ call'[q].pid = NoPid
         /\ mishaps' = mishaps
         /\ UNCHANGED <<gatewayVars, sandboxVars, overrideVars, known>>
<1>1. \A q \in Procs : call[q].at = "idle" => call[q].pid = NoPid
  BY DEF BaseInv, TypeInv, Fits
<1> QED
  BY <1>1, CommandMoves DEF BaseInv, At

\* Where a step leads.
LEMMA Leads ==
  ASSUME TypeInv, NEW p \in Procs, Step(p) \/ Die(p)
  PROVE  /\ call'[p].at = "spawn" => Ensure(p) \/ StopGateway(p)
         /\ call'[p].at = "await" => Spawn(p)
         /\ call'[p].at = "active" => Ensure(p)
         /\ call'[p].at = "kill" => HasActive(p)
         /\ call'[p].at = "delete" => CheckStopped(p)
         /\ call'[p].at = "free" => Verify(p)
         /\ call'[p].at = "forward" => PortsFree(p) \/ Forward(p)
         /\ call'[p].at = "truncate" => LoadStates(p)
         /\ call'[p].at = "write" => TruncateStates(p)
         /\ call'[p].at = "load" =>
               \/ PortsFree(p) \/ Forward(p)
               \/ Upload(p) \/ Unforward(p) \/ DeleteSandbox(p)
         /\ call'[p].at = "save" => WriteStates(p) \/ StepFails(p) \/ Die(p)
<1> DEFINE label == call'[p].at
<1>1. Ensure(p) => label \in {"spawn", "active", "verify", "config", "sandbox"}
  BY EnsureMoves
<1>2. HasActive(p) => label \in {"idle", "kill"}
  BY HasActiveMoves, NoCallFits
<1>3. /\ StopGateway(p) => label = "spawn"
      /\ SaveConfig(p) => label = "sandbox"
      /\ CreateSandbox(p) => label = "upload"
      /\ Upload(p) => label = "load"
      /\ Unforward(p) => label = "load"
      /\ DeleteSandbox(p) => label = "load"
      /\ TruncateStates(p) => label = "write"
  BY PlainMoves
<1>4. Spawn(p) => label = "await"
  BY SpawnMoves
<1>5. Await(p) => label \in {"idle", "verify", "config", "sandbox"}
  BY AwaitMoves, NoCallFits
<1>6. Verify(p) => label \in {"idle", "free"}
  BY VerifyMoves, NoCallFits
<1>7. PortsFree(p) => label \in {"idle", "load", "forward"}
  BY PortsFreeMoves, NoCallFits
<1>8. Forward(p) => label \in {"load", "forward"}
  BY ForwardMoves
<1>9. LoadStates(p) => label = "truncate"
  BY LoadMoves
<1>10. WriteStates(p) => label = "save"
  BY WriteMoves
<1>11. Save(p) => label \in {"idle", "ensure", "info"} /\ label # "spawn"
  BY SaveMoves, NoCallFits
<1>12. CheckStopped(p) => label \in {"idle", "delete"}
  BY CheckMoves, NoCallFits
<1>13. StepFails(p) \/ Die(p) => label \in {"idle", "save"}
  BY FailMoves, NoCallFits
<1> HIDE DEF label
<1>14. /\ label = "spawn" => Ensure(p) \/ StopGateway(p)
       /\ label = "await" => Spawn(p)
       /\ label = "active" => Ensure(p)
       /\ label = "kill" => HasActive(p)
       /\ label = "delete" => CheckStopped(p)
       /\ label = "free" => Verify(p)
       /\ label = "forward" => PortsFree(p) \/ Forward(p)
       /\ label = "truncate" => LoadStates(p)
       /\ label = "write" => TruncateStates(p)
       /\ label = "load" =>
             \/ PortsFree(p) \/ Forward(p)
             \/ Upload(p) \/ Unforward(p) \/ DeleteSandbox(p)
       /\ label = "save" => WriteStates(p) \/ StepFails(p) \/ Die(p)
  BY <1>1, <1>2, <1>3, <1>4, <1>5, <1>6, <1>7, <1>8, <1>9, <1>10, <1>11, <1>12, <1>13
     DEF Step
<1> QED
  BY <1>14 DEF label

\* What a step leaves alone.
LEMMA Frame ==
  ASSUME NEW p \in Procs, Step(p) \/ Die(p)
  PROVE  /\ StopGateway(p) \/ UNCHANGED gateway
         /\ StopGateway(p) \/ Spawn(p) \/ UNCHANGED recorded
         /\ CreateSandbox(p) \/ DeleteSandbox(p) \/ StepFails(p) \/ UNCHANGED boxes
         /\ WriteStates(p) \/ UNCHANGED stopped
         /\ TruncateStates(p) \/ WriteStates(p) \/ UNCHANGED torn
         /\ Forward(p) \/ Unforward(p) \/ UNCHANGED forwards
         /\ Save(p) \/ UNCHANGED known
  BY DEF gatewayVars, sandboxVars, overrideVars, Step, Ensure, HasActive, StopGateway,
     Spawn,
         Await, SaveConfig, CreateSandbox, Upload, Verify, PortsFree, Forward, Unforward,
         LoadStates, TruncateStates, WriteStates, Save, CheckStopped, DeleteSandbox,
         StepFails, Die

-----------------------------------------------------------------------------
(* The gateway on record.                                                  *)

LEMMA GatewayNext ==
  ASSUME BaseInv, GatewayInv, [Next]_vars
  PROVE  GatewayInv'
<1> USE DEF BaseInv
<1> DEFINE Good ==
      /\ gateway \in {NoGateway, recorded}
      /\ \A q \in Procs :
            /\ call[q].at = "spawn" => gateway = NoGateway
            /\ call[q].pid # NoPid => recorded # NoGateway /\ recorded.pid = call[q].pid
<1> SUFFICES ASSUME "race" \notin mishaps', "list" \notin mishaps',
                    "record" \notin mishaps', "late" \notin mishaps'
             PROVE  Good'
  BY DEF GatewayInv, Without, At
<1>0. mishaps \subseteq mishaps' => Good
  BY DEF GatewayInv, Without, At
<1>1. CASE UNCHANGED vars
  BY <1>0, <1>1 DEF vars
<1>2. ASSUME NEW p \in Procs, NEW n \in Names, Commands(p, n) PROVE Good'
  BY <1>0, <1>2, CommandAlone DEF gatewayVars
<1>3. ASSUME NEW p \in Procs, Step(p) \/ Die(p) PROVE Good'
  <2>0. Good /\ \A q \in Procs \ {p} : call'[q].at = "idle" /\ call'[q].pid = NoPid
    BY <1>0, <1>3, StepMoves, StepAlone
  <2>1. Moves(p) /\ Fits(call'[p])
    BY <1>3, StepMoves DEF Moves
  <2>2. CASE StopGateway(p)
    BY <2>0, <2>2, PlainMoves DEF StopGateway
  <2>3. CASE Spawn(p)
    <3>1. gateway = NoGateway /\ gateway' = gateway
      BY <2>0, <2>3 DEF Spawn, At
    <3>2. call'[p].at = "await" /\ recorded' # NoGateway /\ recorded'.pid = call'[p].pid
      BY <2>3, SpawnMoves, OpenShellAssumption DEF NewGateways
    <3> QED
      BY <2>0, <3>1, <3>2
  <2>4. CASE ~StopGateway(p) /\ ~Spawn(p)
    <3>1. UNCHANGED <<gateway, recorded>>
      BY <1>3, <2>4, Frame
    <3>2. call'[p].pid = NoPid
      BY <1>3, <2>1, <2>4, Leads DEF Fits
    <3>3. call'[p].at = "spawn" => gateway = NoGateway
      BY <1>3, <2>4, Leads, EnsureMoves
    <3> QED
      BY <2>0, <3>1, <3>2, <3>3
  <2> QED
    BY <2>2, <2>3, <2>4
<1>4. CASE Around
  <2>0. Good /\ call' = call /\ recorded' = recorded
    BY <1>0, <1>4, AroundMoves
  <2>1. CASE gateway' = gateway
    BY <2>0, <2>1
  <2>2. CASE gateway' = NoGateway
    BY <2>0, <2>2
  <2>3. CASE gateway' # gateway /\ gateway' # NoGateway
    <3>1. GatewayStarts
      BY <1>4, <2>3 DEF Around, GatewayDies, ForwardEnds, Reboot, gatewayVars
    <3>2. PICK g \in spawned : /\ gateway' = g /\ gateway = NoGateway
                               /\ \E p \in Procs : call[p].pid = g.pid
      BY <2>3, <3>1 DEF GatewayStarts, Happened
    <3>3. g \in Gateways /\ g.pid # NoPid /\ g # NoGateway
      BY <3>2, Shapes, OpenShellAssumption DEF Gateways
    <3>4. recorded # NoGateway /\ recorded.pid = g.pid
      BY <2>0, <3>2, <3>3
    <3>5. recorded = g
      BY <3>2, <3>3, <3>4 DEF PidInv, AllGateways
    <3>6. \A q \in Procs : call[q].at # "spawn"
      <4>1. PICK p \in Procs : call[p].pid = g.pid
        BY <3>2
      <4>2. call[p].at = "await"
        BY <3>3, <4>1 DEF TypeInv, Fits
      <4>3. "race" \notin mishaps
        BY <1>4, AroundMoves
      <4> QED
        BY <4>2, <4>3 DEF SoloInv, Without, At
    <3> QED
      BY <2>0, <3>2, <3>5, <3>6
  <2> QED
    BY <2>1, <2>2, <2>3
<1> QED
  BY <1>1, <1>2, <1>3, <1>4, NextCases

\* The driver on record is the one of the gateway that listens, whatever steps
\* failed and processes died, gateways included; unless commands overlapped, a
\* gateway did not answer or could not be recorded, or one came up that no
\* command waited for any more.
THEOREM RecordMatchesGateway == Spec => []RecordedDriver
<1>1. Init => GatewayInv
  BY NoCallFits DEF Init, GatewayInv, At
<1>2. BaseInv /\ GatewayInv /\ [Next]_vars => GatewayInv'
  BY GatewayNext
<1>3. GatewayInv => RecordedDriver
  BY DEF GatewayInv, RecordedDriver
<1> QED
  BY <1>1, <1>2, <1>3, BaseCorrect, PTL DEF Spec

-----------------------------------------------------------------------------
(* Sandboxes.                                                              *)

LEMMA SandboxNext ==
  ASSUME BaseInv, SandboxInv, [Next]_vars
  PROVE  SandboxInv'
<1> USE DEF BaseInv
<1> DEFINE Seen == \A d \in Drivers : boxes[d] # {} => gateway # NoGateway /\ d = gateway.driver
           Local(q) == /\ call[q].at = "active" => gateway # NoGateway
                       /\ call[q].at = "kill" => \A d \in Drivers : boxes[d] = {}
                       /\ call[q].at = "delete" =>
                             \/ call[q].name \in stopped
                             \/ \A d \in Drivers : call[q].name \notin boxes[d]
<1> SUFFICES ASSUME "race" \notin mishaps', "list" \notin mishaps', "gateway" \notin mishaps',
                    "reboot" \notin mishaps'
             PROVE  Seen' /\ \A q \in Procs : Local(q)'
  BY DEF SandboxInv, Without, At, Name
<1>0. mishaps \subseteq mishaps' => Seen /\ \A q \in Procs : Local(q)
  BY DEF SandboxInv, Without, At, Name
<1>1. CASE UNCHANGED vars
  BY <1>0, <1>1 DEF vars
<1>2. ASSUME NEW p \in Procs, NEW n \in Names, Commands(p, n)
      PROVE  Seen' /\ \A q \in Procs : Local(q)'
  BY <1>0, <1>2, CommandAlone DEF gatewayVars, sandboxVars
<1>3. ASSUME NEW p \in Procs, Step(p) \/ Die(p)
      PROVE  Seen' /\ \A q \in Procs : Local(q)'
  <2>0. /\ Seen /\ Local(p) /\ \A q \in Procs \ {p} : call'[q].at = "idle"
    BY <1>0, <1>3, StepMoves, StepAlone
  <2>1. Seen'
    <3>1. CASE StopGateway(p)
      <4>1. (\A d \in Drivers : boxes[d] = {}) /\ boxes' = boxes
        BY <2>0, <3>1 DEF StopGateway, At, sandboxVars
      <4> QED
        BY <4>1
    <3>2. CASE CreateSandbox(p) \/ (StepFails(p) /\ boxes' # boxes)
      <4>1. gateway # NoGateway /\ gateway' = gateway
            /\ boxes' = [boxes EXCEPT ![gateway.driver] = @ \cup {Name(p)}]
        BY <3>2 DEF CreateSandbox, StepFails, gatewayVars
      <4> QED
        BY <2>0, <4>1, Shapes
    <3>3. CASE DeleteSandbox(p)
      <4>1. gateway' = gateway /\ boxes' = [boxes EXCEPT ![gateway.driver] = @ \ {Name(p)}]
        BY <3>3 DEF DeleteSandbox, gatewayVars
      <4> QED
        BY <2>0, <4>1, Shapes
    <3>4. CASE UNCHANGED <<gateway, boxes>>
      BY <2>0, <3>4
    <3> QED
      BY <1>3, <3>1, <3>2, <3>3, <3>4, Frame DEF StepFails, gatewayVars
  <2>2. Local(p)'
    <3>1. CASE call'[p].at = "active"
      <4>1. Ensure(p)
        BY <1>3, <3>1, Leads
      <4> QED
        BY <3>1, <4>1, EnsureMoves DEF Ensure, gatewayVars
    <3>2. CASE call'[p].at = "kill"
      <4>1. HasActive(p)
        BY <1>3, <3>2, Leads
      <4>2. boxes' = boxes /\ (gateway = NoGateway \/ boxes[gateway.driver] = {})
        BY <3>2, <4>1, HasActiveMoves, NoCallFits DEF HasActive, sandboxVars
      <4> QED
        BY <2>0, <3>2, <4>2
    <3>3. CASE call'[p].at = "delete"
      <4>1. CheckStopped(p)
        BY <1>3, <3>3, Leads
      <4>2. /\ boxes' = boxes /\ stopped' = stopped
            /\ call'[p].name = Name(p)
            /\ Overridden(Name(p)) \/ gateway = NoGateway \/ ~InReach(Name(p))
        BY <3>3, <4>1, CheckMoves, NoCallFits DEF CheckStopped, sandboxVars,
           overrideVars, Keeps, Name
      <4> QED
        BY <2>0, <3>3, <4>2 DEF Overridden, InReach
    <3> QED
      BY <3>1, <3>2, <3>3
  <2> QED
    BY <2>0, <2>1, <2>2
<1>4. CASE Around
  <2>0. /\ Seen /\ (\A q \in Procs : Local(q))
        /\ call' = call /\ boxes' = boxes /\ stopped' = stopped
        /\ gateway' = gateway \/ GatewayStarts
    BY <1>0, <1>4, AroundMoves DEF overrideVars
  <2>1. gateway # NoGateway => gateway' = gateway
    BY <2>0 DEF GatewayStarts
  <2>2. gateway = NoGateway => \A d \in Drivers : boxes[d] = {}
    BY <2>0
  <2>3. CASE gateway # NoGateway
    BY <2>0, <2>1, <2>3
  <2>4. CASE gateway = NoGateway
    BY <2>0, <2>2, <2>4
  <2> QED
    BY <2>3, <2>4
<1> QED
  BY <1>1, <1>2, <1>3, <1>4, NextCases

LEMMA SandboxCorrect == Spec => []SandboxInv
<1>1. Init => SandboxInv
  BY NoCallFits DEF Init, SandboxInv, At
<1>2. BaseInv /\ SandboxInv /\ [Next]_vars => SandboxInv'
  BY SandboxNext
<1> QED
  BY <1>1, <1>2, BaseCorrect, PTL DEF Spec

\* No switch of the driver hides a sandbox, those left by commands that failed
\* or died included; unless commands overlapped, or a gateway gave no answer or
\* died, by itself or with the machine.
THEOREM SandboxesAreSeen == Spec => []NoHiddenSandboxes
<1>1. SandboxInv => NoHiddenSandboxes
  BY DEF SandboxInv, NoHiddenSandboxes
<1> QED
  BY <1>1, SandboxCorrect, PTL

\* A sandbox is deleted only when it counts as stopped, under the same conditions.
THEOREM DeletesOnlyStopped == Spec => RemovesStopped
<1>1. ASSUME BaseInv, SandboxInv, [Next]_vars,
             Without({"race", "list", "gateway", "reboot", "torn"})', NEW d \in Drivers
      PROVE  boxes[d] \ boxes'[d] \subseteq stopped
  <2>0. TypeInv
    BY <1>1 DEF BaseInv
  <2>1. CASE boxes' = boxes
    BY <2>1
  <2>2. ASSUME NEW p \in Procs, Step(p) \/ Die(p)
        PROVE  boxes[d] \ boxes'[d] \subseteq stopped
    <3>1. CASE DeleteSandbox(p)
      <4>1. Name(p) \in stopped \/ Name(p) \notin boxes[d]
        BY <1>1, <2>0, <2>2, <3>1, StepMoves DEF SandboxInv, Without, DeleteSandbox
      <4>2. boxes[d] \ boxes'[d] \subseteq {Name(p)}
        BY <2>0, <3>1, Shapes DEF DeleteSandbox
      <4> QED
        BY <4>1, <4>2
    <3>2. CASE CreateSandbox(p) \/ StepFails(p)
      BY <2>0, <3>2, Shapes DEF CreateSandbox, StepFails
    <3> QED
      BY <2>1, <2>2, <3>1, <3>2, Frame
  <2>3. ASSUME NEW p \in Procs, NEW n \in Names, Commands(p, n) PROVE boxes' = boxes
    BY <2>0, <2>3, CommandMoves DEF sandboxVars
  <2>4. Around => boxes' = boxes
    BY <2>0, AroundMoves
  <2> QED
    BY <1>1, <2>1, <2>2, <2>3, <2>4, NextCases DEF vars
<1>2. BaseInv /\ SandboxInv /\ [Next]_vars =>
         [Without({"race", "list", "gateway", "reboot", "torn"})' =>
             \A d \in Drivers : boxes[d] \ boxes'[d] \subseteq stopped]_vars
  BY <1>1
<1> QED
  BY <1>2, BaseCorrect, SandboxCorrect, PTL DEF Spec, RemovesStopped

-----------------------------------------------------------------------------
(* The overrides.                                                          *)

LEMMA OverrideNext ==
  ASSUME BaseInv, OverrideInv, [Next]_vars
  PROVE  OverrideInv'
<1> USE DEF BaseInv
<1> DEFINE Whole == torn => \E q \in Procs : call[q].at = "write"
           Fresh(q) == call[q].at \in {"truncate", "write"} =>
                          call[q].view = IF Head(call[q].todo) \in {"create", "stop"}
                                         THEN stopped \cup {call[q].name}
                                         ELSE stopped \ {call[q].name}
<1> SUFFICES ASSUME "race" \notin mishaps', "torn" \notin mishaps'
             PROVE  Whole' /\ \A q \in Procs : Fresh(q)'
  BY DEF OverrideInv, Without, At, Name, Method
<1>0. mishaps \subseteq mishaps' => Whole /\ \A q \in Procs : Fresh(q)
  BY DEF OverrideInv, Without, At, Name, Method
<1>1. CASE UNCHANGED vars
  BY <1>0, <1>1 DEF vars
<1>2. ASSUME NEW p \in Procs, NEW n \in Names, Commands(p, n)
      PROVE  Whole' /\ \A q \in Procs : Fresh(q)'
  BY <1>0, <1>2, CommandAlone DEF overrideVars
<1>3. ASSUME NEW p \in Procs, Step(p) \/ Die(p)
      PROVE  Whole' /\ \A q \in Procs : Fresh(q)'
  <2>0. /\ Whole /\ Fresh(p)
        /\ \A q \in Procs \ {p} : call[q].at = "idle" /\ call'[q].at = "idle"
    BY <1>0, <1>3, StepMoves, StepAlone
  <2>1. Whole'
    <3>1. CASE TruncateStates(p)
      BY <3>1, PlainMoves
    <3>2. CASE WriteStates(p)
      BY <1>3, <3>2, WriteMoves, StepMoves
    <3>3. CASE torn' = torn /\ torn
      <4>1. At(p, "write")
        BY <2>0, <3>3 DEF At
      <4>2. WriteStates(p) \/ StepFails(p) \/ Die(p)
        BY <1>3, <4>1
           DEF Step, At, Ensure, HasActive, StopGateway, Spawn, Await, SaveConfig,
               CreateSandbox, Upload, Verify, PortsFree, Forward, Unforward, LoadStates,
               TruncateStates, Save, CheckStopped, DeleteSandbox
      <4> QED
        BY <3>2, <4>1, <4>2, FailMoves
    <3> QED
      BY <1>3, <3>1, <3>2, <3>3, Frame
  <2>2. Fresh(p)'
    <3>1. CASE call'[p].at = "truncate"
      <4>1. LoadStates(p)
        BY <1>3, <3>1, Leads
      <4>2. ~torn /\ stopped' = stopped
        BY <2>0, <4>1 DEF LoadStates, At, overrideVars
      <4> QED
        BY <3>1, <4>1, <4>2, LoadMoves DEF Keeps, Method, Name
    <3>2. CASE call'[p].at = "write"
      <4>1. TruncateStates(p)
        BY <1>3, <3>2, Leads
      <4>2. stopped' = stopped /\ call[p].at = "truncate"
        BY <4>1 DEF TruncateStates, At
      <4> QED
        BY <2>0, <3>2, <4>1, <4>2, PlainMoves DEF Keeps
    <3> QED
      BY <3>1, <3>2
  <2> QED
    BY <2>0, <2>1, <2>2
<1>4. CASE Around
  BY <1>0, <1>4, AroundMoves DEF overrideVars
<1> QED
  BY <1>1, <1>2, <1>3, <1>4, NextCases

LEMMA OverrideCorrect == Spec => []OverrideInv
<1>1. Init => OverrideInv
  BY NoCallFits DEF Init, OverrideInv
<1>2. BaseInv /\ OverrideInv /\ [Next]_vars => OverrideInv'
  BY OverrideNext
<1> QED
  BY <1>1, <1>2, BaseCorrect, PTL DEF Spec

\* A workspace that counts as stopped does so until it is started or removed,
\* unless commands overlapped or one ended in the middle of a write.
THEOREM OverridesAreKept == Spec => StoppedStays
<1>1. ASSUME BaseInv, OverrideInv, [Next]_vars, Without({"race", "torn"})',
             NEW n \in stopped \ stopped'
      PROVE  \E p \in Procs : Name(p) = n /\ Method(p) \in {"start", "remove"}
  <2>0. TypeInv
    BY <1>1 DEF BaseInv
  <2>1. PICK p \in Procs : WriteStates(p)
    <3>1. ASSUME NEW p \in Procs, NEW k \in Names, Commands(p, k) PROVE FALSE
      BY <1>1, <2>0, <3>1, CommandMoves DEF overrideVars
    <3>2. ~Around
      BY <1>1, <2>0, AroundMoves DEF overrideVars
    <3> QED
      BY <1>1, <3>1, <3>2, NextCases, Frame DEF vars
  <2>2. /\ stopped' = call[p].view
        /\ call[p].view = IF Method(p) \in {"create", "stop"}
                          THEN stopped \cup {Name(p)}
                          ELSE stopped \ {Name(p)}
    BY <1>1, <2>0, <2>1, WriteMoves, StepMoves DEF OverrideInv, Without, WriteStates,
       At, Step
  <2>3. Method(p) \in Methods
    BY <2>0, <2>1, FieldTypes DEF WriteStates, At
  <2> QED
    BY <1>1, <2>2, <2>3 DEF Methods
<1>2. BaseInv /\ OverrideInv /\ [Next]_vars =>
         [Without({"race", "torn"})' =>
             \A n \in stopped \ stopped' :
                 \E p \in Procs : Name(p) = n /\ Method(p) \in {"start", "remove"}]_vars
  BY <1>1
<1> QED
  BY <1>2, BaseCorrect, OverrideCorrect, PTL DEF Spec, StoppedStays

-----------------------------------------------------------------------------
(* Port forwards.                                                          *)

LEMMA MoreForwards ==
  ASSUME NEW n, NEW ports, ForwardedBut(n, ports), forwards \subseteq forwards'
  PROVE  ForwardedBut(n, ports)'
  BY DEF ForwardedBut

\* One port less is left.
LEMMA NextForward ==
  ASSUME NEW n, NEW ports \in Seq(Ports), ports # << >>, ForwardedBut(n, ports),
         forwards' = forwards \cup {<<Head(ports), n>>}
  PROVE  ForwardedBut(n, Tail(ports))'
<1> SUFFICES ASSUME NEW i \in DOMAIN PortsOf[n], <<PortsOf[n][i], n>> \notin forwards'
             PROVE  \E j \in DOMAIN Tail(ports) : Tail(ports)[j] = PortsOf[n][i]
  BY DEF ForwardedBut
<1>1. PICK j \in DOMAIN ports : ports[j] = PortsOf[n][i]
  BY DEF ForwardedBut
<1>2. j \in 1 .. Len(ports) /\ j # 1
  BY <1>1
<1>3. j - 1 \in DOMAIN Tail(ports) /\ Tail(ports)[j - 1] = ports[j]
  BY <1>2
<1> QED
  BY <1>1, <1>3

LEMMA ForwardNext ==
  ASSUME BaseInv, ForwardInv, [Next]_vars
  PROVE  ForwardInv'
<1> USE DEF BaseInv
<1> DEFINE Known == \A n \in Names : known[n] = "running" => ForwardedBut(n, << >>)
           Local(q) == call[q].at # "idle" =>
              /\ call[q].at \in {"free", "forward"} => ForwardedBut(call[q].name, call[q].ports)
              /\ /\ call[q].at \in {"load", "truncate", "write", "save"}
                 /\ Head(call[q].todo) = "start"
                 => ForwardedBut(call[q].name, << >>)
              /\ call[q].at = "save" /\ Head(call[q].todo) = "stop" =>
                    ~torn /\ call[q].name \in stopped
<1> SUFFICES ASSUME "race" \notin mishaps', "forward" \notin mishaps',
                    "reboot" \notin mishaps', "data" \notin mishaps'
             PROVE  Known' /\ \A q \in Procs : Local(q)'
  BY DEF ForwardInv, Without, At, Name, Method, Overridden
<1>0. mishaps \subseteq mishaps' => Known /\ \A q \in Procs : Local(q)
  BY DEF ForwardInv, Without, At, Name, Method, Overridden
<1>1. CASE UNCHANGED vars
  BY <1>0, <1>1 DEF vars, ForwardedBut
<1>2. ASSUME NEW p \in Procs, NEW n \in Names, Commands(p, n)
      PROVE  Known' /\ \A q \in Procs : Local(q)'
  <2>1. Known /\ forwards' = forwards /\ known' = known
    BY <1>0, <1>2, CommandAlone DEF sandboxVars
  <2>2. Known'
    BY <2>1, MoreForwards
  <2>3. \A q \in Procs : call'[q].at \in {"idle", "ensure", "unforward", "info"}
    BY <1>2, CommandAlone
  <2> QED
    BY <2>2, <2>3
<1>3. ASSUME NEW p \in Procs, Step(p) \/ Die(p)
      PROVE  Known' /\ \A q \in Procs : Local(q)'
  <2>0. /\ Known /\ Local(p)
        /\ \A q \in Procs \ {p} : call[q].at = "idle" /\ call'[q].at = "idle"
        /\ "race" \notin mishaps
    BY <1>0, <1>3, StepMoves, StepAlone
  <2>1. forwards \subseteq forwards'
    BY <1>3, Frame, PlainMoves DEF Forward
  <2>2. Known'
    <3>1. CASE known' = known
      BY <2>0, <2>1, <3>1, MoreForwards
    <3>2. CASE Save(p)
      <4>1. /\ call[p].at = "save" /\ Name(p) \in Names
            /\ \A n \in Names \ {Name(p)} : known'[n] = known[n]
            /\ known'[Name(p)] = "running" =>
                  known[Name(p)] = "running" \/ Method(p) = "start"
        <5>1. call[p].at = "save" /\ Name(p) \in Names
          BY <3>2, FieldTypes DEF Save, At
        <5>2. CASE Method(p) = "stop"
          <6>1. Overridden(Name(p))
            BY <2>0, <5>1, <5>2 DEF Overridden, Name, Method
          <6>2. Record(p, "stopped")
            BY <3>2, <5>2, <6>1 DEF Save, StateOf
          <6> QED
            BY <5>1, <6>2, Shapes DEF Record
        <5>3. CASE Method(p) # "stop"
          BY <3>2, <5>1, <5>3, Shapes DEF Save, Record
        <5> QED
          BY <5>2, <5>3
      <4>2. Method(p) = "start" => ForwardedBut(Name(p), << >>)
        BY <2>0, <4>1 DEF Method, Name
      <4> QED
        BY <2>0, <2>1, <4>1, <4>2, MoreForwards
    <3> QED
      BY <1>3, <3>1, <3>2, Frame
  <2>3. Local(p)'
    <3>1. CASE call'[p].at = "free"
      <4>1. Verify(p)
        BY <1>3, <3>1, Leads
      <4>2. call'[p].ports = PortsOf[call'[p].name]
        BY <3>1, <4>1, VerifyMoves, NoCallFits DEF Keeps, Name
      <4> QED
        BY <3>1, <4>2 DEF ForwardedBut
    <3>2. CASE call'[p].at = "forward"
      <4>1. PortsFree(p) \/ Forward(p)
        BY <1>3, <3>2, Leads
      <4>2. CASE PortsFree(p)
        <5>1. /\ call'[p].ports = call[p].ports /\ call'[p].name = call[p].name
              /\ call[p].at = "free"
          BY <3>2, <4>2, PortsFreeMoves, NoCallFits DEF Keeps, PortsFree, At
        <5> QED
          BY <2>0, <2>1, <3>2, <5>1, MoreForwards
            <4>3. CASE Forward(p)
        <5>1. PICK n, ports : n = call[p].name /\ ports = call[p].ports
          OBVIOUS
        <5>2. /\ ports \in Seq(Ports) /\ ports # << >> /\ ForwardedBut(n, ports)
              /\ forwards' = forwards \cup {<<Head(ports), n>>}
              /\ call'[p].name = n /\ call'[p].ports = Tail(ports)
          BY <2>0, <3>2, <4>3, <5>1, ForwardMoves DEF Keeps, Forward, At, Name
        <5>3. ForwardedBut(n, Tail(ports))'
          BY <5>2, NextForward
        <5> QED
          BY <3>2, <5>2, <5>3
      <4> QED
        BY <4>1, <4>2, <4>3
    <3>3. CASE call'[p].at = "load"
      <4>1. PortsFree(p) \/ Forward(p) \/ Upload(p) \/ Unforward(p) \/ DeleteSandbox(p)
        BY <1>3, <3>3, Leads
      <4>2. CASE PortsFree(p)
        <5>1. /\ call[p].ports = << >> /\ call'[p].name = call[p].name
              /\ call[p].at = "free"
          BY <3>3, <4>2, PortsFreeMoves, NoCallFits DEF Keeps, PortsFree, At
        <5> QED
          BY <2>0, <2>1, <3>3, <5>1, MoreForwards
      <4>3. CASE Forward(p)
        <5>1. PICK n, ports : n = call[p].name /\ ports = call[p].ports
          OBVIOUS
        <5>2. /\ ports \in Seq(Ports) /\ ports # << >> /\ ForwardedBut(n, ports)
              /\ forwards' = forwards \cup {<<Head(ports), n>>}
              /\ call'[p].name = n /\ Tail(ports) = << >>
          BY <2>0, <3>3, <4>3, <5>1, ForwardMoves DEF Keeps, Forward, At, Name
        <5>3. ForwardedBut(n, << >>)'
          BY <5>2, NextForward
        <5> QED
          BY <3>3, <5>2, <5>3
      <4>4. CASE Upload(p) \/ Unforward(p) \/ DeleteSandbox(p)
        BY <3>3, <4>4, PlainMoves DEF Keeps, Method
      <4> QED
        BY <4>1, <4>2, <4>3, <4>4
    <3>4. CASE call'[p].at = "truncate"
      <4>1. LoadStates(p)
        BY <1>3, <3>4, Leads
      <4> QED
        BY <2>0, <2>1, <3>4, <4>1, LoadMoves, MoreForwards DEF Keeps, LoadStates, At
    <3>5. CASE call'[p].at = "write"
      <4>1. TruncateStates(p)
        BY <1>3, <3>5, Leads
      <4> QED
        BY <2>0, <2>1, <3>5, <4>1, PlainMoves, MoreForwards DEF Keeps, TruncateStates, At
    <3>6. CASE call'[p].at = "save"
      <4>1. WriteStates(p) \/ StepFails(p) \/ Die(p)
        BY <1>3, <3>6, Leads
      <4>2. CASE WriteStates(p)
        <5>1. /\ ~torn' /\ stopped' = call[p].view /\ Keeps(p) /\ call[p].at = "write"
          BY <2>0, <4>2, WriteMoves DEF WriteStates, At
        <5>2. Head(call[p].todo) = "stop" => call[p].name \in call[p].view
          BY <5>1 DEF TypeInv, Fits
        <5> QED
          BY <2>0, <2>1, <3>6, <5>1, <5>2, MoreForwards DEF Keeps
      <4>3. CASE StepFails(p) \/ Die(p)
        BY <3>6, <4>3, FailMoves, NoCallFits DEF Keeps, Method
      <4> QED
        BY <4>1, <4>2, <4>3
    <3> QED
      BY <3>1, <3>2, <3>3, <3>4, <3>5, <3>6
  <2> QED
    BY <2>0, <2>2, <2>3
<1>4. CASE Around
  <2>1. /\ Known /\ (\A q \in Procs : Local(q)) /\ forwards' = forwards
        /\ call' = call /\ known' = known /\ torn' = torn /\ stopped' = stopped
    BY <1>0, <1>4, AroundMoves DEF overrideVars
  <2> QED
    BY <2>1, MoreForwards
<1> QED
  BY <1>1, <1>2, <1>3, <1>4, NextCases

\* A workspace that is stored as running has all its ports forwarded, whatever
\* steps failed and processes and gateways died; unless commands overlapped,
\* the data of a sandbox could not be read, or a forward ended by itself or with
\* the machine.
THEOREM RunningHasForwards == Spec => []RunningIsForwarded
<1>1. Init => ForwardInv
  BY NoCallFits DEF Init, ForwardInv, At
<1>2. BaseInv /\ ForwardInv /\ [Next]_vars => ForwardInv'
  BY ForwardNext
<1>3. ForwardInv => RunningIsForwarded
  BY DEF ForwardInv, RunningIsForwarded, ForwardedBut
<1> QED
  BY <1>1, <1>2, <1>3, BaseCorrect, PTL DEF Spec
=============================================================================
