CONSTANTS
  c1 = c1
  c2 = c2
  p1 = p1
  p2 = p2
  Connections <- Two
  MaxClock = 3
  MaxAsks = 3
  MaxDrops = 1
  MaxViews = 1
  MaxMishaps = 1
  Peers <- Both
  MaxSends = 3
  MaxExpiries = 1
  MaxFailures = 1
  MaxChoices = 1
  f1 = f1
  f2 = f2
  bad = bad
  NoFile = NoFile
  Files <- PickedFiles
  BadFiles <- RefusedFiles
  MaxUploads = 3
  MaxComposed = 2
  t1 = t1
  t2 = t2
  NoText = NoText
  Texts <- FieldTexts
  MaxEdits = 2
  MaxSaves = 2
  MaxElsewhere = 1
  MaxApprovals = 1
  own = own
  echo = echo
  theirs = theirs
  NoMessage = NoMessage
  Typed <- TypedHere
  Echoes <- TypedElsewhere
  Theirs <- OfPeer
  Attached <- WithAttachment
  Captioned <- WithText
  MaxLoads = 1
SPECIFICATION Spec
SYMMETRY Either
CHECK_DEADLOCK FALSE
INVARIANTS
  SeenIsAnswered OfflineIsNotOnline LastSeenIsLast HeaderIsFed
  OneThread ThreadsAppear BumpNotUndone
  AttachmentIsIntended SavesOnlyEdits RestIsReadable
