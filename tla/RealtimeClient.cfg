SPECIFICATION FairSpec
CONSTANTS
    c1 = c1  c2 = c2  s1 = s1  s2 = s2  anon = anon  user = user
    NoSocket = NoSocket  NoToken = NoToken
    Channels <- MCChannels
    Sockets <- MCSockets
    Tokens <- MCTokens
    MaxReconnectAttempts = 1
    MaxFaults = 2
    MaxSwitches = 1
INVARIANTS
    TypeOK
    OneLiveSocket
    SubscribedIsJoined
    SocketIsCurrentUser
    NoStrandedChannel
PROPERTY
    WaitingChannelIsTold
