\* The claims that deny is the default and that edits of the policy take effect
\* with the next start, both refuted.
SPECIFICATION FairSpec
CONSTANTS
    p1 = p1
    p2 = p2
    i1 = i1
    i2 = i2
    h1 = h1
    Cred = Cred
    NoPod = NoPod
    NoId = NoId
    NoName = NoName
    NoConf = NoConf
    NoPlan = NoPlan
    Procs = {p1}
    Names = {"w"}
    Ids = {i1}
    Hosts = {h1}
    Orders <- BothOrders
PROPERTIES
    StartAsCommented
