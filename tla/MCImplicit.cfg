SPECIFICATION Spec
CONSTANTS
    Senders <- MCTwoSenders
    Endpoint <- MCOneEndpoint
    SeqMod = 8
    Isns = {3, 7}
    SndIsn <- MCTwoIsns
    Total <- MCTwoTotals
    RcvWindow = 0
    MaxHandshakeRetries = 2
    MaxRounds = 2
    MaxReceiverRuns = 2
    None = None
INVARIANTS
    DataAgrees
\* The receiver may wait for a SYN when no sender is left.
CHECK_DEADLOCK FALSE
