SPECIFICATION Spec
CONSTANTS
    k1 = k1
    NoKey = NoKey
    n1 = n1
    n2 = n2
    None = None
    Proposal <- Proposals
    Rounds = 2
    PerRound = 2
    Display = 2
    AutoScore = 85
    Margin = 5
    Mode = {"direct", "methodological"}
    MaxHits = 4
    Lengths = {1199, 1200, 1800, 2500, 5000}
    Number = {n1, n2}
    MaxCasePages = 3
    MinCaseChars = 1000
    SomePages <- PagesToAppend
    MaxPages = 4
    Markers = {"first instance", "administrative appeal", "subjects", "instrument number", "zakat and customs", "circuit"}
    Offsets = {100, 2500}
    MaxMarkers = 3
    MaxLabels = 2
    Pieces <- TextPieces
    Items <- ResponseItems
    MaxRepeats = 1
    ValidationAttempts = 3
    MaxPhase = 3
    MaxElapsed = 2
    Opener = {p1, p2}
INVARIANTS
    AutoIsClear
    ShownAreBest
    BatchIsSound
    EstimateIsFinal
    RangesAreOneJudgment
    RowsAreJudgments
    AnswerIsWhole
    ReturnedIsChecked
    FinalTextStays
    UpIsMigrated
PROPERTIES
    MoreTextFitsBetter
    HeaderStays
CHECK_DEADLOCK FALSE
