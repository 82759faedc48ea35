CONSTANTS
    Requests <- MC_Requests
    Sends <- MC_Sends
    MaxConnects = 2
    MaxFaults = 1
SPECIFICATION Spec
INVARIANTS SentInOrder UnavailableNotSent
PROPERTIES EveryRequestEnds
CHECK_DEADLOCK FALSE
