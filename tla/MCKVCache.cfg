SPECIFICATION Spec
CONSTANTS
    Tokens = {1, 2}
    Loads <- Three
    PerSeq = 4
    MinMatch = 1
    DraftPass = 3
    DraftingMost = 1
    MayFail = TRUE
INVARIANTS CachesAreText DraftsFollow
PROPERTIES SystemPromptsStay
VIEW Live
