SPECIFICATION FairSpec
CONSTANTS
    MCSockRoom = 2
    MCSockBuf = 2
    MCLimit = 2
    MCMaxOut = 3
    MCMaxIn = 2
    SockRoom <- MCSockRoom
    SockBuf <- MCSockBuf
    Limit <- MCLimit
    MaxOut <- MCMaxOut
    MaxIn <- MCMaxIn
    Orders <- MCWriter
    Configs <- MCConfigs
PROPERTY
    WriteReturns
CHECK_DEADLOCK FALSE
