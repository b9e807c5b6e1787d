SPECIFICATION Spec
CONSTANTS
    Ids <- MCIds
    Bodies <- MCBodies
    Draft <- MCDraft
    Prior <- MCPrior
    SentAt <- MCSentAt
    Times = {1, 2}
    SealsDeeds = TRUE
    Seals = {TRUE}
    Deletable = {2}
    Losable = {"successor", "head"}
    Exports <- MCExports
    MaxExports = 2
    MaxEvents = 1
    Locals <- MCLocals
    Nows = {2}
    Discards = {1}
    Listed = TRUE
    Demand = "optional"
    Apart = TRUE
    Patient = TRUE
    MaxImports = 2
INVARIANTS
    LandedAsSent
    LinesComeLast
    KeptPairAgrees
    Resumable
    AgainAddsNothing
    ImportedAnswers
    LinksWereSigned
PROPERTIES
    HeldIsKept
CHECK_DEADLOCK FALSE
