SPECIFICATION Spec
CONSTANTS
    d1 = d1
    d2 = d2
    a1 = a1
    a2 = a2
    OriginIp = o
    None = None
    Devices = {d1, d2}
    Ips = {a1, a2, o}
    EndpointCap = 2
    Gids = {1, 2}
    OutCap = 2
    RingSize = 2
    MaxRev = 4
    MaxSession = 2
    NewIpBudget = 1
    BlockScenarios <- Scenes
    NumTorrents = 2
    MaxGen = 3
    PrevCap = 2
    RotFaults = 2
    RotCrashes = 2
INVARIANTS
    PeersSafe
PROPERTIES
    PeerSteps
    PeersConverge
\* With the outside events spent and everything settled nothing is left to do.
CHECK_DEADLOCK FALSE
