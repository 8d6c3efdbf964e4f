SPECIFICATION Spec
CONSTANTS
    g1 = g1
    g2 = g2
    g3 = g3
    p1 = p1
    p2 = p2
    Nobody = Nobody
    Goroutines = {g1, g2, g3}
    Levels = {0, 1}
    Prefixes = {p1, p2}
CHECK_DEADLOCK FALSE
SYMMETRY Symmetric
INVARIANTS
    WholeUnlessIntruded
    FileIsKnown
