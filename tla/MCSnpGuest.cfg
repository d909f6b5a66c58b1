SPECIFICATION Spec
CONSTANTS
    Fanout = 2
    NumPages = 8
    Ghcb = 0
    Blocks <- MCBlocks
    Request = 5
    Response = 6
    LeafSize <- MCLeafSize
    MaxSeqno = 5
    MaxCalls = 3
    MaxStalls = 1
    PayloadLen = 4000
    KeyLen = 32
    HeaderLen = 32
    ReportLens <- MCReportLens
    VcekLens <- MCVcekLens
    BufLens <- MCBufLens
INVARIANTS
    NoncesSound
    AnswerIsThisCalls
    PagesAsAsked
    HonestHostServes
    ReportDecodes
PROPERTY CallsReturn
