SPECIFICATION FairSpec
CONSTANTS
    Hashes = {h1, h2}
    Receivers = {r1}
    Workers = {w1, w2}
    QueueCap = 1
    RecentCap = 2
    Batch = 1
    Faults = {"store"}
    Nil = Nil
PROPERTIES
    FetchEnds
    QueueServed
    StopCompletes
