\* Two concurrent updates of the certificate and one keep that asks for it.
CONSTANTS
    Page = 4
    Align = 2
    Retries = 2
    CpuidMax = 2
    Jobs <- MCJobs
    BalloonAt <- MCBalloonAt
    MaxBalloons = 3
    Readers = {r1}
    Writers = {w1, w2}
    Tries = 2
    Nobody = Nobody
SPECIFICATION HostSpec
INVARIANTS
    KeepComplete
    SignedKeepsStart
    DoorsSound
    VcekWhole
    NothingLeftBehind
PROPERTY
    LaunchEnds
CHECK_DEADLOCK FALSE
