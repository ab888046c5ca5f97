SPECIFICATION Spec
CONSTANTS
    Pulls = {p1, p2}
    Conns = {c1, c2}
    Files = {1, 2, 3, 4}
    Versions = {1, 2, 3}
    SizeOf <- Sizes
    PieceSize = 2
    Loads <- Seven
    Hole = Hole
    None = None
INVARIANTS FinalWhole PartHolds
SYMMETRY Symmetry
VIEW Live
CHECK_DEADLOCK FALSE
