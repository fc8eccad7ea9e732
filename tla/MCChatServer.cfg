SPECIFICATION FairSpec
CONSTANTS
    Sessions = {1, 2}
    Accept = Accept
    Quit = Quit
    None = None
    MaxChats = 1
INVARIANTS
    ExclusiveOwner
    QuietAfterStop
    NobodyStuck
PROPERTIES
    StopReturns
    LeaveAnnounced
    HearsInOrder
    JoinedBeforeFreed
\* The threads end, or wait for one another in join().
CHECK_DEADLOCK FALSE
