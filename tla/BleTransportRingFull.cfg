SPECIFICATION Spec
CONSTANTS
  Data <- MCData
  Images <- MCImages
  FactoryImage <- MCFactory
  Handle <- MCHandle
  SlotSize = 6
  SectorUnits = 2
  MaxEpoch = 4
  ImageUnits = 6
  RingCap = 4
  Worlds <- MCRingFull
CHECK_DEADLOCK FALSE
PROPERTIES
  AckedSectorIsQueued
