SPECIFICATION Spec
CONSTANTS
    Hashes = {h1, h2}
    TorrentIds = {t1, t2}
    Files = {f1}
    Nil = Nil
    Torn = Torn
    DownloadIds = {d1, d2}
    Adders = {a1}
    Managers = {ui}
    Faults = {}
    TimeoutEnabled = TRUE
SYMMETRY Symmetry
VIEW Visible
INVARIANTS
    QuiescentStateFileMatches
PROPERTIES
    AddRetriesFailed
    ImplementsTaskList
