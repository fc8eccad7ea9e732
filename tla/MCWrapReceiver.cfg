SPECIFICATION Spec
CONSTANTS
    Unit = 1
    MaxCwnd = 8
    MaxDupAcks = 4
    Payload <- MCPayload
    File <- MCFile3
    SndWindow = 2
    SackBits = 2
    MaxRetransmits = 1
    SeqMod = 16
    RcvWindow = 2
    Isn = 12
    FailingReads = {}
    MaxSackRetx = 1
    MaxFinRetries = 1
    FinAckBurst = 1
    MaxConsecutiveTimeouts = 1
    MaxBytesAcked = 0
INVARIANTS
    NextExpectedInWindow
