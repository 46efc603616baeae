SPECIFICATION FairSpec
CONSTANTS
    Nil = Nil
    Hashes = {h1}
    DownloadIds = {d1, d2, d3, d4}
    Files = {f1, f2}
    Adders = {a1}
    Threshold = 2
    MaxGap = 2
    Faults = {"readd"}
    Indexers = {"piratebay", "jackett"}
    Catalogue <- Answers
    Torrents = {"t1", "t2", "t3", "t4"}
    Vocabulary = {"w1", "w2"}
    Malformed = {"t4"}
    Queries <- AskedFor
    MaxSearches = 2
    Words <- Asked1
    Limits <- AnySize
    Pages <- AnyPage
    MaxInt = 31
    Contents = {f1, f2}
    Callers = {c1, c2}
    Hosts = 2
    Endpoints = 2
    Records = {"A1", "A2", "other"}
    Addresses = {"A1", "A2"}
    Fallback = {"ip1", "ip2"}
INVARIANTS
    TypeOK
    ListFresh
    ModalKeepsLive
    ShownIsAccumulated
    FinalIsComplete
    RankingIsComplete
    PagesPartition
    NodesComplete
    FallbackIsLast
    FailureIsExplained
PROPERTIES
    RestartedWasStalled
    DoneIsPruned
    StalledIsRestarted
    ProducersEnd
    SearchCompletes
    SearchReturns
    BootstrapEnds
    WaitInfoEnds
CHECK_DEADLOCK FALSE
