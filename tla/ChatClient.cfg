SPECIFICATION FairSpec
CONSTANTS
    MaxConnects = 3
INVARIANTS
    WindowAgrees
    OneReceiver
    SocketClosed
PROPERTIES
    UiReturns
    LossIsShown
