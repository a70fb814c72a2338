SPECIFICATION Spec
CONSTANTS
    None = None
    Token = {t1, t2}
    j1 = j1
    j2 = j2
    j3 = j3
    Judgment = {j1, j2}
    Sha <- DistinctSha
    CaseKey <- SharedKey
    User = {u1, u2}
    Handler = {h1, h2}
    Faults = {"abort", "select", "record", "reply", "expiry", "restart"}
    Sequential = FALSE
    DeleteAfterSend = TRUE
SYMMETRY Symmetry
VIEW WhatMatters
INVARIANTS
    TypeOK
    NothingLeaks
PROPERTIES
    OthersUntouched
