SPECIFICATION Spec
CONSTANTS
    Names = {n1, n2}
    Requests = {r1, r2, r3}
    Nobody = Nobody
    None = None
    MaxVersions = 3
    MaxFaults = 2
    Backends = {"s3"}
SYMMETRY Symmetry
CHECK_DEADLOCK FALSE
INVARIANTS
    TypeOK
    RowsHaveTheirBytes
    NothingLeftBehind
    RowsHaveABucket
PROPERTIES
    ImplementsObjectMap
