\* Two processes, one with two threads; crashes, failing saves, runtime faults.
SPECIFICATION Spec
CONSTANTS
    t1 = t1
    t2 = t2
    t3 = t3
    p1 = p1
    p2 = p2
    i1 = i1
    i2 = i2
    i3 = i3
    a = a
    podman = podman
    openshell = openshell
    NoRec = NoRec
    Threads = {t1, t2, t3}
    Procs = {p1, p2}
    ProcOf <- TwoAndOne
    Ids = {i1, i2}
    Bases = {a}
    Runtimes = {podman}
    NameKeyed = {}
    Legacy <- OldStored
    MaxSuffix = 3
    MaxOps = 1
    Faults = {"crash", "save", "leftover", "partial", "external"}
    UseReconcile = TRUE
SYMMETRY Symmetry
INVARIANTS
    SnapshotIsCurrent
    UniqueIds
PROPERTIES
    NoLostRegistration
    NoResurrection
    RegistrySpec
