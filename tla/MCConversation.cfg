SPECIFICATION Spec
CONSTANTS
    Exchanges <- Said
    Openings <- Beginnings
    Slots <- Windows
    MaxRequests = 4
INVARIANTS NothingLost KeptWell
PROPERTIES CutsStayPut
CHECK_DEADLOCK FALSE
