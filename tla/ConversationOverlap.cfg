SPECIFICATION Spec
CONSTANTS
    r1 = r1  r2 = r2  r3 = r3  r4 = r4
    m1 = m1  c1 = c1  c2 = c2  p1 = p1  u1 = u1
    v1 = v1  v2 = v2  v3 = v3  old = old  none = none
    Sections = {"basic", "experience", "projects"}
    Authors = {r1, r2, p1, u1, old}
    CvIds = {v1, v2}
    None = none
    Posts = {r1, r2}
    Turns = {m1}
    Confirms = {c1, c2}
    Patches = {p1}
    Uploads = {u1}
    Old = old
    MaxRequests = 6
    BuildSections <- TwoSections
SYMMETRY Interchangeable
CHECK_DEADLOCK FALSE
INVARIANTS TypeOK SessionConsistent OneActive NothingOldLeaks CardsStayInSection
PROPERTIES ConfirmKeepsOthers UploadAsksForMissing
