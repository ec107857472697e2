SPECIFICATION FairSpec
CONSTANTS
    Probes = {p1}
    Uploads = {u1}
    None = None
    Orphan = Orphan
    Start = 0
    MaxCase = 4
    Sealed = {3}
    LATEST_KNOWN = 4
    IQUERY_PROBE_MAX_OFFSET = 3
    IQUERY_MAX_PROBE = 2
    IQUERY_FIXED_SWEEP = 2
    BLOCKED_WAIT = 600
    BLOCKED_MAX_ATTEMPTS = 1
    EMPTY_LIMIT = 1
    MaxUploads = 1
    MaxFaults = 1
    MaxCrashes = 1
    MaxExpiries = 0
PROPERTIES NoCaseLeftBehind CatchesUpAlive ProbingGoesOn
