SPECIFICATION Spec
CONSTANTS
    Sessions = {1, 2}
    Accept = Accept
    Quit = Quit
    None = None
    MaxChats = 1
INVARIANTS
    NoJoinDeadlock
\* The threads end, or wait for one another in join().
CHECK_DEADLOCK FALSE
