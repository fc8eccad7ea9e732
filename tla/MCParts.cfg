SPECIFICATION Spec
CONSTANTS
    Unit = 4
    MaxCwnd = 64
    MaxDupAcks = 10
    LastSegment = 3
    InitialRto = 2
    MinRto = 1
    MaxRto = 4
    FirstProbe = 1
    MaxProbe = 3
    MaxBackoff = 2
    GlobalTimeout = 11
    Base = 4
    MaxPayload = 3
INVARIANTS
    CongestionTypeOK
    RecoveryCounts
    InflationMatchesDupAcks
    KeepsTrying
    KeepsProbing
    RtoCoversSample
    ChecksumIsOnesComplement
    RoundTrip
    DamageRefused
    ResizeRefused
