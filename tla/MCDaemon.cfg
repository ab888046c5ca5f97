SPECIFICATION Spec
CONSTANTS
    a = a
    b = b
    Nobody = Nobody
    Runs = {1, 2}
    Stops = {s1}
    Pids = {1, 2, 3}
    Lists = {a, b}
    Calls <- Called
    Scripts <- Lines
    MaxEvents = 2
INVARIANTS ConversationTrue InstalledStays RestsServing
PROPERTIES StopEnds
CHECK_DEADLOCK FALSE
