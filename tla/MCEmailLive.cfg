SPECIFICATION FairSpec
CONSTANTS
    Recipients = {r1}
    Messages = {m1, m2}
    NoMessage = NoMessage
    To <- ToAll
    MAX_RETRY_COUNTER = 1
    BACKOFF_THRESHOLD = 2
    DELIVERABILITY_THRESHOLD = 1
    MaxCopies = 6
    MaxNotices = 2
    MaxRollbacks = 0
    MaxDeletions = 1
PROPERTIES QueueDrains
