SPECIFICATION Spec
CONSTANTS
    None = None
    n1 = n1
    n2 = n2
    MaxLength = 2
    Number = {n1, n2}
    MaxCasePages = 2
    MinCaseChars = 400
    Url <- Urls
    Body <- Bodies
    MaxRedirects = 1
    MaxBytes = 1
    MaxPages = 4
    Candidate <- Candidates
    Threshold = 2
INVARIANT
    CleanedUp
