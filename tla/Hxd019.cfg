SPECIFICATION FairSpec
CONSTANTS
  Setters = {setter}
  Senders = {sender}
  BindInCallback = FALSE
  Brands <- MCBrands
  Table <- MCTable
  Settings <- MCSettings
  Temps = {30}
  Delta = 15
  Chunks <- MCChunks
  Builds <- MCBuilds
  MaxReaders = 2
INVARIANTS OneWriter WireIsRight 
 
