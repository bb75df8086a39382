\* One process with two threads; a Create may fail and leave an instance behind;
\* fair scheduling.
SPECIFICATION FairSpec
CONSTANTS
    t1 = t1
    t2 = t2
    t3 = t3
    p1 = p1
    p2 = p2
    i1 = i1
    i2 = i2
    i3 = i3
    a = a
    podman = podman
    openshell = openshell
    NoRec = NoRec
    Threads = {t1, t2}
    Procs = {p1}
    ProcOf <- SameProcess
    Ids = {i1, i2, i3}
    Bases = {a}
    Runtimes = {podman, openshell}
    NameKeyed = {}
    Legacy <- OldStored
    MaxSuffix = 3
    MaxOps = 2
    Faults = {"leftover"}
    UseReconcile = FALSE
INVARIANTS
    NamesUnique
    StateAgrees
    StartTimeAgrees
    NoDanglingRecords
PROPERTIES
    NoOrphanPods
    CallsReturn
