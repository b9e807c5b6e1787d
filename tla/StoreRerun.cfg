CONSTANTS
    p1 = p1
    p2 = p2
    b1 = b1
    b2 = b2
    Procs = {p1}
    Ids = {1}
    Bodies = {b1}
    Addressed = {}
    Requests <- SameRequests
    Reach <- EveryReach
    Deletable = {}
    Stampable = {}
    Authority = FALSE
    SigningKey = FALSE
    HostKey = FALSE
    SignerListed = FALSE
    Demand = "optional"
    MaxTime = 1
SPECIFICATION Spec
INVARIANTS
    RerunSucceeds
CHECK_DEADLOCK FALSE
