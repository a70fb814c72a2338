SPECIFICATION Spec
CONSTANTS
    None = None
    Gen = {g1, g2, g3}
    Doc = {d1, d2}
    Refresher = {p1, p2}
    Searcher = {s1}
    Keep = 1
    Faults = {"error", "crash"}
SYMMETRY Symmetry
INVARIANTS
    IInv
    ActiveIsReady
    NoRace
    ShownAsApproved
    SearchSeesOneSnapshot
    BuildAccountedFor
PROPERTIES
    SwitchesWhole
