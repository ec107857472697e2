SPECIFICATION Spec
CONSTANTS
    Events = {e1, e2}
    Webhooks = {w1}
    Parent <- OneWebhook
    DebugEvents = {}
    INITIAL_TIME = 1
    WEBHOOK_MAX_RETRY_COUNTER = 2
    NOTIFY_ON = {1, 2}
    CUT_OFF = 3
    MaxLate = 0
    MaxCrashes = 1
    MaxEdits = 1
INVARIANTS TypeOK AtMostOneExtraPerCrash RetryBudget NoticeIsTrue LocksHold
PROPERTIES SwitchedOffByExhaustion Promise
