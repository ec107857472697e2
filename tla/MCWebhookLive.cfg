SPECIFICATION FairSpec
CONSTANTS
    Events = {e1, e2}
    Webhooks = {w1}
    Parent <- OneWebhook
    DebugEvents = {}
    INITIAL_TIME = 1
    WEBHOOK_MAX_RETRY_COUNTER = 1
    NOTIFY_ON = {1}
    CUT_OFF = 1
    MaxLate = 0
    MaxCrashes = 0
    MaxEdits = 1
PROPERTIES NoStrandedDelivery EveryEventSettles
