SPECIFICATION FairSpec
CONSTANTS
    Senders <- MCSenders
    Endpoint <- MCEndpoint
    SeqMod = 8
    Isns = {3, 7}
    SndIsn <- MCSndIsn
    Total <- MCTotal
    RcvWindow = 0
    MaxHandshakeRetries = 2
    MaxRounds = 2
    MaxReceiverRuns = 2
    None = None
INVARIANTS
    SenderAgrees
    AckAgrees
    ClientHasConnected
PROPERTIES
    HandshakeEnds
\* The receiver may wait for a SYN when no sender is left.
CHECK_DEADLOCK FALSE
