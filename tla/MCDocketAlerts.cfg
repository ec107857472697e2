SPECIFICATION FairSpec
CONSTANTS
    d1 = d1  d2 = d2  e1 = e1  e2 = e2  e3 = e3  f1 = f1  u1 = u1  m1 = m1
    Entries = {e1, e2, e3}
    Dockets = {d1, d2}
    DocketOf <- FirstTwo
    Feeds = {f1}
    Uploads = {u1}
    Emails = {m1}
    Content <- Brought
    NoDocket = NoDocket
    MaxFaults = 1
INVARIANTS TypeOK OneAlertAtATime
PROPERTIES CoverageIsKept PromisedIsMailed DocketIsNotMuted RecipientIsTold
CHECK_DEADLOCK FALSE
