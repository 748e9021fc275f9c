SPECIFICATION FairSpec
CONSTANTS
  Data <- MCData
  Images <- MCImages
  FactoryImage <- MCFactory
  Handle <- MCHandle
  SlotSize = 4
  SectorUnits = 2
  MaxEpoch = 4
  ImageUnits = 3
  RingCap = 4
  Worlds <- MCWorlds
CHECK_DEADLOCK FALSE
INVARIANTS PumpCountsWhatSinkWrote WriterHasPump
PROPERTIES DeadStreamConverges LastStartBoots
