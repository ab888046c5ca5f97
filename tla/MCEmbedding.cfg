SPECIFICATION Spec
CONSTANTS
    r1 = r1
    r2 = r2
    r3 = r3
    Nobody = Nobody
    Requests = {r1, r2, r3}
    Names = {"nomic", "bge", "chat"}
    Embedders = {"nomic", "bge"}
    Asks <- Calls
    Vocabulary = {"a", "b", "end"}
    Closing = {"end"}
    Limit = 3
    EmbedSeqs = 2
    Dims = 4
    MaxCallbacks = 2
INVARIANTS OpenWhileHeld AnswersMatch
PROPERTIES Settles
CHECK_DEADLOCK FALSE
