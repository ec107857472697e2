SPECIFICATION FairSpec
CONSTANTS
    Items = {i1, i2}
    MaxRows = 2
    RSS_MAX_VISIT_FREQUENCY = 1
    RSS_MAX_PROCESSING_DURATION = 2
    MaxFailures = 2
INVARIANTS TypeOK OneItemPerFailure OverlapIsLate
PROPERTIES ItemsAreMerged
