SPECIFICATION FairSpec
CONSTANTS
  Sectors <- MCSectors
  Packets <- MCPackets
  SeqMod = 4
  BlockUnits = 4
  AckRetries = 3
  MaxJumps = 2
  Troubles <- MCTroubles
INVARIANTS HostInStep SuccessHadWholeImage
PROPERTIES EveryRunEnds CleanTransferArrives
