CONSTANTS
    alice = alice  bob = bob  a1 = a1  b1 = b1  b2 = b2
    Users <- MC_Users
    Participants <- MC_Users
    Devices <- MC_Devices
    Watched <- MC_Watched
    Owner <- MC_Owner
    Messages <- MC_ReadMessages
    Author <- MC_Author
    Calls <- MC_ReadCalls
    MaxTime = 2
    A = A  B = B  m1 = m1  m2 = m2  m3 = m3  m4 = m4  own = own
    NoChat = NoChat  NoMessage = NoMessage
    Chats <- MC_Chats
    ChatOf <- MC_ChatOf
    OfViewer <- MC_OfViewer
    Old <- MC_Old
    Height = 1
    MaxOpens = 3
    MaxScrolls = 1
    MaxMerges = 1
    MaxViewFaults = 1
SPECIFICATION AllSpec
PROPERTIES ReadCursorAdvances
