SPECIFICATION Spec
CONSTANTS
    j1 = j1  j2 = j2  j3 = j3  q1 = q1  q2 = q2  q3 = q3
    s1 = s1  s2 = s2  p1 = p1  p2 = p2
    v1 = v1  v2 = v2  none = none
    Jobs = {j1, j2}
    External = {j2}
    Requests = {q1}
    Sweeps = {s1}
    Reports = {p1, p2}
    Cvs = {v1, v2}
    Mailable = {v1}
    None = none
    CONCURRENCY = 2
    SEND_ATTEMPTS = 2
    MaxFaults = 0
PROPERTY SubmittedIsFinal
