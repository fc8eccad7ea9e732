SPECIFICATION Spec
CONSTANTS
    Unit = 1
    MaxCwnd = 8
    MaxDupAcks = 4
    Payload <- MCPayload
    File <- MCFile2
    SndWindow = 2
    SackBits = 2
    MaxRetransmits = 1
    SeqMod = 64
    RcvWindow = 2
    Isn = 5
    FailingReads = {}
    MaxSackRetx = 1
    MaxFinRetries = 1
    FinAckBurst = 1
    MaxConsecutiveTimeouts = 1
    MaxBytesAcked = 0
PROPERTIES
    ResetIsFinal
