CONSTANTS
    p1 = p1
    p2 = p2
    b1 = b1
    b2 = b2
    Procs = {p1}
    Ids = {1, 2, 3}
    Bodies = {b1, b2}
    Addressed = {}
    Requests <- OneRequests
    Reach <- EveryReach
    Deletable = {1}
    Stampable = {}
    Authority = FALSE
    SigningKey = TRUE
    HostKey = FALSE
    SignerListed = TRUE
    Demand = "optional"
    MaxTime = 2
SPECIFICATION Spec
INVARIANTS
    AuditFindsOnlyTombs
    LinkedBothWays
    SupersedesAcyclic
    AnswerHolds
    LoggedOnce
PROPERTIES
    BackfillSettles
CHECK_DEADLOCK FALSE
