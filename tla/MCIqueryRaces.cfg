SPECIFICATION Spec
CONSTANTS
    Probes = {p1, p2}
    Uploads = {u1}
    None = None
    Orphan = Orphan
    Start = 0
    MaxCase = 6
    Sealed = {3}
    LATEST_KNOWN = 0
    IQUERY_PROBE_MAX_OFFSET = 3
    IQUERY_MAX_PROBE = 2
    IQUERY_FIXED_SWEEP = 2
    BLOCKED_WAIT = 600
    BLOCKED_MAX_ATTEMPTS = 1
    EMPTY_LIMIT = 1
    MaxUploads = 1
    MaxFaults = 0
    MaxCrashes = 1
    MaxExpiries = 1
SYMMETRY Symmetry
INVARIANTS TypeOK SweptIsScheduled ScheduledOnce OneProbe HitsAreSwept
PROPERTY SweepsInOrder
