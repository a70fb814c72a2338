SPECIFICATION Spec
CONSTANTS
    None = None
    Token = {t1, t2}
    j1 = j1
    j2 = j2
    j3 = j3
    Judgment = {j1}
    Sha <- DistinctSha
    CaseKey <- SharedKey
    User = {u1, u2}
    Handler = {h1, h2}
    Faults = {}
    Sequential = TRUE
    DeleteAfterSend = TRUE
INVARIANTS
    NoJudgmentTwice
