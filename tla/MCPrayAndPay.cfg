SPECIFICATION Spec
CONSTANTS
    u1 = u1  u2 = u2  d1 = d1  d2 = d2
    Users = {u1, u2}
    Docs = {d1, d2}
    Wishes <- AndOther
    ByApi <- Api
    Quota = 1
    HasId = {d1}
    Fetches = {f1}
    Uploads = {p1}
    GoesTo <- FirstDoc
    MaxRequests = 2
    MaxFaults = 1
INVARIANTS WaitingIsWarranted TellingIsExact
CHECK_DEADLOCK FALSE
