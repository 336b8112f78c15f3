SPECIFICATION FairSpec
CONSTANTS
    Users = {u1}
    NoUser = NoUser
    Calls = {c1, c2}
    Boot = Boot
    NoCall = NoCall
    MaxTokens = 2
    Options <- MCOptions
INVARIANTS
    TypeOK
    DeadTokenIsNotSent
    OneRefreshAtATime
    SessionIsStoredAndAnnounced
PROPERTIES
    CallsReturn
