\* One workspace with one port, and nothing goes wrong: kdn stop stops the forward.
SPECIFICATION Spec
CONSTANTS
    p1 = p1
    p2 = p2
    n1 = n1
    n2 = n2
    podman = podman
    vm = vm
    g1 = g1
    g2 = g2
    web = web
    db = db
    NoGateway = NoGateway
    NoName = NoName
    NoDriver = NoDriver
    NoPid = NoPid
    Procs = {p1}
    Names = {n1}
    Drivers = {podman}
    Default = podman
    Pids = {g1, g2}
    Ports = {web}
    PortsOf <- OnePort
    Faults = {}
    MaxKinds = 0
    MaxCalls = 3
INVARIANT
    StoppedIsQuiet
