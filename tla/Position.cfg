\* Full, partial and triggered closes and level changes, racing and failing.
SPECIFICATION PositionSpec
CONSTANTS
    Closers = {c1, c2}
    Partials = {p1}
    Ticks = {k1}
    Setters = {s1}
    Total = 2
    Tokens = {2, 3}
    Faults = {"chain", "db"}
SYMMETRY CallSymmetry
INVARIANTS
    ClosedIsAnnounced
    BooksBalance
    TokenPassesOnce
CHECK_DEADLOCK FALSE
