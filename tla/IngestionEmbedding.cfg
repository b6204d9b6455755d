SPECIFICATION Spec
CONSTANTS
    g1 = g1  g2 = g2  c1 = c1  c2 = c2  s1 = s1  s2 = s2  s3 = s3  a1 = a1  a2 = a2  m1 = m1
    j1 = j1  t1 = t1  t2 = t2  server = server  seed = seed  none = none
    Postings = {j1}
    Texts = {t1, t2}
    Writers = {s1}
    Enrichers = {s1, m1}
    None = none
    Groups = {g1}
    Countries = {c1}
    Supported = {c1}
    KEYWORDS = 2
    MAX_CALLS = 3
    BATCH_SIZE = 1
    Sweeps = {s1}
    Processes = {server}
    Asks = {a1}
    MaxFaults = 0
    CountryOf <- OneCountry
    ProcessOf <- OneProcess
CHECK_DEADLOCK FALSE
INVARIANT EmbeddingIsOfText
