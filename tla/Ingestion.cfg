SPECIFICATION FairSpec
CONSTANTS
    g1 = g1  g2 = g2  c1 = c1  c2 = c2  s1 = s1  s2 = s2  s3 = s3  a1 = a1  a2 = a2  m1 = m1
    j1 = j1  t1 = t1  t2 = t2  server = server  seed = seed  none = none
    Postings = {j1}
    Texts = {t1}
    Writers = {s1, s2, s3}
    Enrichers = {s1, s2, s3, m1}
    None = none
    Groups = {g1, g2}
    Countries = {c1, c2}
    Supported = {c1}
    KEYWORDS = 2
    MAX_CALLS = 2
    BATCH_SIZE = 1
    Sweeps = {s1, s2, s3}
    Processes = {server, seed}
    Asks = {a1}
    MaxFaults = 1
    CountryOf <- OneCountry
    ProcessOf <- SeedToo
CHECK_DEADLOCK FALSE
INVARIANTS TypeOK BudgetHolds NotFetchedTwice
PROPERTIES EveryGroupEnds
