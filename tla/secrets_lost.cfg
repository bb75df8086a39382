\* Two processes.
SPECIFICATION Spec
CONSTANTS
    p1 = p1
    p2 = p2
    n1 = n1
    n2 = n2
    v1 = v1
    v2 = v2
    NoValue = NoValue
    Procs = {p1, p2}
    Names = {n1, n2}
    Values = {v1, v2}
    MaxOps <- TwoEach
    Faults = {}
PROPERTIES
    ListedAreKept
