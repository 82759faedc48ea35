CONSTANTS
    n1 = n1  n2 = n2  alice = alice  bob = bob
    a1 = a1  a2 = a2  b1 = b1  r1 = r1  r2 = r2  none = none
    None = none
    Nodes <- MC_Nodes
    Users <- MC_Users
    Owner <- MC_Owner
    Author <- MC_Author
    Peer <- MC_Peer
    Sockets <- MC_Devices
    Requests <- MC_One
    Origin <- MC_OriginHttp
    MaxFaults = 0
SPECIFICATION Spec
INVARIANTS AuthorNotAlerted
CHECK_DEADLOCK FALSE
