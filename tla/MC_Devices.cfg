CONSTANTS
  Devices = {"a1", "b1", "c1"}
  UserOf <- ThreeUsers
  FirstView <- EachOther
  Starters <- AnnFirst
  Faulty = {"a1"}
  Trickle = {"b1"}
  Replicas = {"r1"}
  MaxCalls = 2
  MaxCallActs = 1
  MaxCallFaults = 1
  a1 = a1
  a2 = a2
  Browsers <- Both
  Established <- Old
  Restless <- New
  Senders <- Old
  Follow = FALSE
  Slots <- TwoSlots
  History = 1
  PageSize = 1
  MaxPairs = 2
  MaxMessages = 2
  MaxActs = 2
  MaxFaults = 1
SPECIFICATION AllSpec
CHECK_DEADLOCK FALSE
INVARIANTS
  ActiveIsAgreed  EarlyCandidatesApplied HangUpEnds
  KeyringMatchesDirectory WrapsAreReadable ApprovedIsCopied ToldIsWrapped NoNeedlessBlock
PROPERTIES
  RemoteEndIsMeant
