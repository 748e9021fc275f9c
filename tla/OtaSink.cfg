SPECIFICATION RSpec
CONSTANTS
  Data <- MCData
  Images <- MCImages
  FactoryImage <- MCFactory
  Handle <- MCHandle
  Sizes <- MCSizes
  ChunkLens <- MCChunkLens
  SlotSize = 4
  SectorUnits = 2
  MaxEpoch = 2
INVARIANTS NoHandleLeak WindowHandleOpen SlotPurity ProgressExact
PROPERTIES BootsOwnImage EpochNeverRevived ImplementsSession SparesRunning
