CONSTANTS
    Conn = {c1, c2}
    None = None
    Networks <- MCNetworks
    Excludes <- MCExcludes
    InitialNet <- MCInitialNet
    Subnets <- MCSubnets
    NoNet = NoNet
    Foreign = 0
    Peer = {peer}
    MaxResets = 2
    Whole <- MCWhole
    InitialSize = 4
    Asked <- MCAsked
    Avoided <- MCAvoided
    SrcIP = {1, 2}
    Number = {1, 2}
    Kinds = {"server", "client", "nseServer", "findClient"}
    File = {f1, f2}
    MaxFd = 4
    MaxCalls = 4
    Client = {1, 2, 3}
    NamesOf <- MCNamesOf
    OwnIPs = {"own", "own2"}
    OwnIP = "own"
    PeerIP = {"peer"}
    OtherIP = {"other"}
    DefaultIP = "lo"
    Originals <- MCOriginals
    MaxCrashes = 3
SPECIFICATION MCSpec
CHECK_DEADLOCK FALSE
INVARIANTS PoolsAreExact NothingIsShared PeersLearnPrefix FilesAreOwned NamesFollowConnections
