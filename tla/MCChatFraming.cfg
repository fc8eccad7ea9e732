SPECIFICATION FairSpec
CONSTANTS
    LenBase = 2
    MaxPayload = 2
    Payloads <- MCPayloads
    Types = {0, 1}
    MaxFrames = 3
PROPERTIES
    CarriesFrames
    AllArrive
\* The bound on the calls, or a reset, ends a behaviour.
CHECK_DEADLOCK FALSE
