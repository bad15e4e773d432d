CONSTANTS
    Thread = {t1, t2}
    Request <- MCRequest
    Assets <- MCAssets
    Pages <- MCPages
    Index = "index.html"
    Deployed = {"index.html", "app.js", "app"}
    AuthEnabled = TRUE
    MetricsEnabled = TRUE
    Debug = FALSE
    TTL = 2
    CacheMax = 1
    MaxRequests = 3
    MaxTime = 4
    MaxFlips = 1
SPECIFICATION Spec
SYMMETRY Symmetry
INVARIANTS
    CountedOnce
    HealthIsRecent
    FallbackForCause
CHECK_DEADLOCK FALSE
