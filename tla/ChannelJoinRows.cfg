SPECIFICATION Spec
CONSTANTS
    h1 = h1  h2 = h2  tasks = tasks  notes = notes  broken = broken  peer = peer
    NoTarget = NoTarget  Self = Self
    Handles <- MCHandles
    Targets <- MCTwoTargets
    NameTarget = tasks
    Unreadable <- MCNobody
    Peers <- MCNobody
    MaxRef = 3
    MaxFrames = 2
    MaxTracks = 0
    MaxJudging = 1
    MaxLosses = 0
CHECK_DEADLOCK FALSE
INVARIANT
    EveryRowReachesItsTarget
