SPECIFICATION FairSpec
CONSTANTS
    u1 = u1  u2 = u2  nobody = nobody
    Uploads = {u1, u2}
    Nobody = nobody
    MAX_ATTEMPTS = 2
    MaxFaults = 1
CHECK_DEADLOCK FALSE
INVARIANTS TypeOK DoneWasSaved FailureLeavesCv
PROPERTIES EndIsFinal EveryUploadEnds EveryFileGoes
