SPECIFICATION FairSpec
CONSTANTS
    j1 = j1  j2 = j2  j3 = j3  q1 = q1  q2 = q2  q3 = q3
    s1 = s1  s2 = s2  p1 = p1  p2 = p2
    v1 = v1  v2 = v2  none = none
    Jobs = {j1, j2}
    External = {j2}
    Requests = {q1}
    Sweeps = {s1}
    Reports = {}
    Cvs = {v1}
    Mailable = {v1}
    None = none
    CONCURRENCY = 1
    SEND_ATTEMPTS = 1
    MaxFaults = 1
INVARIANTS NoDoubleWork CopiesOK
PROPERTIES EveryApplicationEnds EveryBatchEnds
