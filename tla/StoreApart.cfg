CONSTANTS
    p1 = p1
    p2 = p2
    b1 = b1
    b2 = b2
    Procs = {p1, p2}
    Ids = {1, 2}
    Bodies = {b1, b2}
    Addressed = {b1}
    Requests <- ApartRequests
    Reach <- ApartReach
    Deletable = {1}
    Stampable = {1}
    Authority = TRUE
    SigningKey = FALSE
    HostKey = TRUE
    SignerListed = FALSE
    Demand = "optional"
    MaxTime = 1
SPECIFICATION Spec
INVARIANTS
    TimestampCoversEvidence
PROPERTIES
    RecordNeverEdited
    ImplementsRegistry
CHECK_DEADLOCK FALSE
