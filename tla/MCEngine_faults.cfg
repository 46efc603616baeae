SPECIFICATION Spec
CONSTANTS
    Hashes = {h1}
    TorrentIds = {t1, t2}
    Files = {f1, f2}
    Nil = Nil
    Torn = Torn
    DownloadIds = {d1, d2}
    Adders = {a1}
    Managers = {ui}
    Faults = {"disk", "read", "readd"}
    TimeoutEnabled = TRUE
SYMMETRY Symmetry
VIEW Visible
INVARIANTS
    TypeOK
    StateFileNeverTorn
    FailedNeverStarts
    PriorityFollowsSelection
    SavedSelectionExact
PROPERTIES
    ImplementsTaskList
