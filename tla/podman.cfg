\* Two processes that work on one workspace, with errors, deaths and restarts.
SPECIFICATION Spec
CONSTANTS
    p1 = p1
    p2 = p2
    i1 = i1
    i2 = i2
    h1 = h1
    Cred = Cred
    NoPod = NoPod
    NoId = NoId
    NoName = NoName
    NoConf = NoConf
    NoPlan = NoPlan
    Procs = {p1, p2}
    Names = {"w"}
    Ids = {i1, i2}
    Hosts = {h1}
    Orders <- BothOrders
SYMMETRY Symmetry
INVARIANTS
    PolicyInForce
    NoOrphanPods
PROPERTIES
    AgentUnderPolicy
    RemovesStopped
    RemoveLeavesNothing
