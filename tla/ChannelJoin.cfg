SPECIFICATION FairSpec
CONSTANTS
    h1 = h1  h2 = h2  tasks = tasks  notes = notes  broken = broken  peer = peer
    NoTarget = NoTarget  Self = Self
    Handles <- MCHandles
    Targets <- MCTargets
    NameTarget = tasks
    Unreadable <- MCUnreadable
    Peers <- MCNobody
    MaxRef = 3
    MaxFrames = 2
    MaxTracks = 0
    MaxJudging = 1
    MaxLosses = 1
CHECK_DEADLOCK FALSE
INVARIANTS
    RowsReachTheirTarget
    ListenersAreServed
    SubscribedIsRegistered
PROPERTY
    WatcherIsAnswered
