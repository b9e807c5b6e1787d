CONSTANTS
    p1 = p1
    p2 = p2
    b1 = b1
    b2 = b2
    Procs = {p1, p2}
    Ids = {1}
    Bodies = {b1, b2}
    Addressed = {}
    Requests <- RivalRequests
    Reach <- EveryReach
    Deletable = {}
    Stampable = {}
    Authority = FALSE
    SigningKey = FALSE
    HostKey = FALSE
    SignerListed = FALSE
    Demand = "optional"
    MaxTime = 1
SPECIFICATION Spec
PROPERTIES
    DeedNeverEdited
CHECK_DEADLOCK FALSE
