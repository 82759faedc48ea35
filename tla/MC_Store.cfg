CONSTANTS
    k1 = k1  k2 = k2  e1 = e1  p1 = p1
    None = None
    Sends <- MC_Sends
    Elsewhere <- MC_Elsewhere
    Theirs <- MC_Theirs
    MaxFaults = 1
SPECIFICATION MC_Spec
INVARIANTS OwnSendShownOnce NoPhantomSending
PROPERTIES ShownStays
CHECK_DEADLOCK FALSE
