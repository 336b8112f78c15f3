SPECIFICATION Spec
CONSTANTS
    h1 = h1  h2 = h2  tasks = tasks  notes = notes  broken = broken  peer = peer
    NoTarget = NoTarget  Self = Self
    Handles <- MCHandles
    Targets <- MCTargets
    NameTarget = tasks
    Unreadable <- MCUnreadable
    Peers <- MCPeers
    MaxRef = 3
    MaxFrames = 2
    MaxTracks = 2
    MaxJudging = 0
    MaxLosses = 1
CHECK_DEADLOCK FALSE
PROPERTIES
    LateJoinerIsSentNobody
