SPECIFICATION RecentSpec
CONSTANTS
    Hashes = {h1, h2, h3, h4, h5, h6}
    Nil = Nil
    RecentCap = 2
INVARIANTS
    RecentBounded
