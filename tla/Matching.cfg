SPECIFICATION FairSpec
CONSTANTS
    q1 = q1  q2 = q2  q3 = q3  h1 = h1  h2 = h2  none = none
    Requests = {q1, q2}
    Hashes = {h1, h2}
    Jobs = {1, 2, 3}
    BATCH_SIZE = 1
    MAX_CONCURRENT_BATCHES = 2
    None = none
    MaxFaults = 1
CHECK_DEADLOCK FALSE
INVARIANTS TypeOK ServedIsCurrent OneRun
PROPERTIES EveryRequestEnds
