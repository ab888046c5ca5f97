SPECIFICATION Spec
CONSTANTS
    Requests <- All
    MaxPiece = 2
    MaxFragBuffer = 3
    Spare = 1
    MaxReloads = 2
INVARIANTS StreamShowsReply GoesOn EndsTruly
CHECK_DEADLOCK FALSE
