SPECIFICATION WorkloadSpec
CONSTANTS
    MCSockRoom = 2
    MCSockBuf = 2
    MCLimit = 2
    MCMaxOut = 3
    MCMaxIn = 2
    SockRoom <- MCSockRoom
    SockBuf <- MCSockBuf
    Limit <- MCLimit
    MaxOut <- MCMaxOut
    MaxIn <- MCMaxIn
    Orders <- MCOrders
    Configs <- MCConfigs
INVARIANTS
    RunsWhatWasAsked
    ReportedTruthfully
    StreamSound
CHECK_DEADLOCK FALSE
