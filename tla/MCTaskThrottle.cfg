SPECIFICATION FairSpec
CONSTANTS
    Tasks = {t1, t2, t3, t4}
    Workers = 2
    Allowed = 2
    Duration = 2
    MaxFaults = 1
INVARIANTS TypeOK CountedRateIsKept
PROPERTIES EveryTaskRuns
