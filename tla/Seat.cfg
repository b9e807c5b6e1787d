SPECIFICATION Spec
CONSTANTS
    Dirs = {"seat", "other"}
    FirstPaths <- MCFirstPaths
    Slugs <- MCSlugs
    Deeds = {1, 2}
    Raws <- MCRaws
    Sharers = {1, 2}
    Commands <- MCCommands
    Calls <- MCCalls
    Busy = {"seat"}
    MaxFrozen <- MCMaxFrozen
    MaxBackfills = 1
    Stumps = {1, 2, 3, 5, 7, 8, 9}
    MaxCuts = 1
INVARIANTS
    ResolveWasTrue
    TornLinesEndWhole
PROPERTIES
    ActsWhereTold
