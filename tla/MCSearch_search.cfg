SPECIFICATION SearchSpec
CONSTANTS
    None = None
    n1 = n1
    n2 = n2
    MaxLength = 3
    Number = {n1, n2}
    MaxCasePages = 2
    MinCaseChars = 400
    Url <- Urls
    Body <- Bodies
    MaxRedirects = 1
    MaxBytes = 1
    MaxPages = 4
    Candidate <- Candidates
    Threshold = 2
    a = a
    b = b
    c = c
    d = d
    Searcher = {u1, u2}
    Case = {a, b, c, d}
    Limit = 3
    MinCatalog = 3
    Attempts = 2
    Syntheses = 2
    Ttl = 2
    MaxTime = 3
    Listed <- Lists
    Found <- Finds
INVARIANTS
    TypeOK
    WithinLimits
    FilesOwned
    AcceptedIntact
    AcceptedIsOneJudgment
    AcceptedIsWhole
    AskedWithinAttempts
    CatalogSurvives
    ResultInOrder
PROPERTIES
    CandidateEnds
    ChecksFirst
    SearchEnds
