SPECIFICATION FairSpec
CONSTANTS
    Jobs = {j1, j2}
    NoJob = NoJob
    QueueCap = 2
    HomeSlots = 3
    HomePer = 8
    Trained = 24
    Pad = 1
    Prompts <- Texts
    MayFail = TRUE
    MayClose = TRUE
INVARIANTS JobsKept
PROPERTIES PlacedInTurn RunsWhole Settles
CHECK_DEADLOCK FALSE
VIEW Live
