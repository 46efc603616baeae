SPECIFICATION Spec
CONSTANTS
    Hashes = {h1, h2, h3}
    Receivers = {r1, r2}
    Workers = {w1}
    QueueCap = 1
    RecentCap = 1
    Batch = 2
    Faults = {}
    Nil = Nil
SYMMETRY Symmetry
INVARIANTS
    TypeOK
    SwallowedIsRecorded
    HandledIsRecorded
    SearchableOnce
PROPERTIES
    RowsOnlyAdvance
