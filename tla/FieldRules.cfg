SPECIFICATION Spec
CONSTANTS
    Changes = {d1, d2}
    Tiers = {"extension", "views"}
    Loads = {1, 2, 3}
    None = None
    TTL = 2
    LoadTime = 2
    MaxPushes = 1
    MaxTime = 4
    MaxFaults = 1
SYMMETRY Symmetry
INVARIANTS
    TypeOK
    PushedRulesJudge
    OldRulesExpire
