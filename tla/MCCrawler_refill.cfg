SPECIFICATION FairSpec
CONSTANTS
    Hashes = {h1, h2}
    Receivers = {r1}
    Workers = {w1}
    QueueCap = 1
    RecentCap = 1
    Batch = 1
    Faults = {}
    Nil = Nil
PROPERTIES
    OfferedIsQueued
