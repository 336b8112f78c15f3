SPECIFICATION Spec
CONSTANTS
    Modules = {m1, m2}
    Requests = {r1, r2}
    None = None
    MaxVersions = 1
    MaxFaults = 2
SYMMETRY Symmetry
INVARIANTS
    TypeOK
    StaleCodeIsNoticed
    AnsweredCodeIsLoaded
    KeptHookIsAsBefore
