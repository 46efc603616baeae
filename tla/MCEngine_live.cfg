SPECIFICATION FairSpec
CONSTANTS
    Hashes = {h1}
    TorrentIds = {t1, t2}
    Files = {}
    Nil = Nil
    Torn = Torn
    DownloadIds = {d1, d2}
    Adders = {a1}
    Managers = {ui}
    Faults = {"disk"}
    TimeoutEnabled = FALSE
PROPERTIES
    OperationsEnd
    AwaitEnds
