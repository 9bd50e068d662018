SPECIFICATION FairSpec
CONSTANTS
  Listing <- NodeGpus
  Loads = {1, 2}
  Masks <- JobMasks
INVARIANTS
  
  NoGhostReading
PROPERTY WorkerStops
