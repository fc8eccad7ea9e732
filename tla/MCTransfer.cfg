SPECIFICATION Spec
CONSTANTS
    Unit = 1
    MaxCwnd = 8
    MaxDupAcks = 4
    Payload <- MCPayload
    File <- MCFile4
    SndWindow = 4
    SackBits = 4
    MaxRetransmits = 1
    SeqMod = 64
    RcvWindow = 3
    Isn = 5
    FailingReads = {2}
    MaxSackRetx = 2
    MaxFinRetries = 2
    FinAckBurst = 2
    MaxConsecutiveTimeouts = 2
    MaxBytesAcked = 8
INVARIANTS
    TypeOK
    AckedAndCounted
    NoWedge
    AcksConsistent
    WindowRespected
    NoOverflow
    SkippedMeansReset
PROPERTIES
    DeliversReliably
