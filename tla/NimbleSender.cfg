SPECIFICATION FairSpec
CONSTANTS
  Sectors <- MCSectors
  Packets <- MCPackets
  SeqMod = 4
  BlockUnits = 5
INVARIANTS DeliversImage
PROPERTIES ImplementsStream GetsThrough
