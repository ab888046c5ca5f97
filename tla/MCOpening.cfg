SPECIFICATION Spec
CONSTANTS
    Models <- Shapes
    Options <- Asks
    GPUs <- Machines
    Workers <- Others
    Readings <- Free
    Wants = {1, 3}
INVARIANTS NothingLeaks OperatorsNumbersStand SizedRight RoomLeft
PROPERTIES Opens
CHECK_DEADLOCK FALSE
