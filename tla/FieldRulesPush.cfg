SPECIFICATION Spec
CONSTANTS
    Changes = {d1, d2}
    Tiers = {"views"}
    Loads = {1, 2, 3, 4, 5}
    None = None
    TTL = 2
    LoadTime = 0
    MaxPushes = 1
    MaxTime = 5
    MaxFaults = 0
SYMMETRY Symmetry
INVARIANTS
    PushStopsOldRules
