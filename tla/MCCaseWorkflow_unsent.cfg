SPECIFICATION Spec
CONSTANTS
    None = None
    Token = {t1, t2}
    j1 = j1
    j2 = j2
    j3 = j3
    Judgment = {j1, j2}
    Sha <- DistinctSha
    CaseKey <- SharedKey
    User = {u1}
    Handler = {h1, h2}
    Faults = {}
    Sequential = FALSE
    DeleteAfterSend = TRUE
INVARIANTS
    RecordedOnlyAfterDelivery
