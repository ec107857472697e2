SPECIFICATION PunctualSpec
CONSTANTS
    Events = {e1}
    Webhooks = {w1}
    Parent <- OneWebhook
    DebugEvents = {}
    INITIAL_TIME = 3
    WEBHOOK_MAX_RETRY_COUNTER = 7
    NOTIFY_ON = {1, 5, 7}
    CUT_OFF = 3600
    MaxLate = 45
    MaxCrashes = 0
    MaxEdits = 0
INVARIANT CutOffSparesRetries
