SPECIFICATION FairSpec
CONSTANTS
  ImageBytes = 5596
  Chunk = 1366
  MaxStarts = 2
  MaxLinks = 2
  MaxAhead = 2
INVARIANTS ProfilesApart PacketsFit
PROPERTIES ImplementsStream AdvertisesAgain TransferEnds
CHECK_DEADLOCK FALSE
