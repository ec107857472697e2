SPECIFICATION Spec
CONSTANTS
    Recipients = {r1}
    Messages = {m1, m2}
    NoMessage = NoMessage
    To <- ToAll
    MAX_RETRY_COUNTER = 1
    BACKOFF_THRESHOLD = 3
    DELIVERABILITY_THRESHOLD = 1
    MaxCopies = 6
    MaxNotices = 3
    MaxRollbacks = 1
    MaxDeletions = 0
INVARIANTS TypeOK WaitingIsWatched OnlyFailuresRepeat NothingElseIsLost
PROPERTIES BanIsEarned
SYMMETRY MessageSymmetry
