\* Two processes, two workspaces, and one kind of fault in each history.
SPECIFICATION Spec
CONSTANTS
    p1 = p1
    p2 = p2
    n1 = n1
    n2 = n2
    podman = podman
    vm = vm
    g1 = g1
    g2 = g2
    web = web
    db = db
    NoGateway = NoGateway
    NoName = NoName
    NoDriver = NoDriver
    NoPid = NoPid
    Procs = {p1, p2}
    Names = {n1, n2}
    Drivers = {podman, vm}
    Default = podman
    Pids = {g1, g2}
    Ports = {web, db}
    PortsOf <- TwoPorts
    Faults = {"race", "step", "death", "list", "record", "data",
              "gateway", "forward", "reboot"}
    MaxKinds = 1
    MaxCalls = 3
SYMMETRY Symmetry
INVARIANTS
    RecordedDriver
    NoHiddenSandboxes
    RunningIsForwarded
PROPERTIES
    RemovesStopped
    StoppedStays
