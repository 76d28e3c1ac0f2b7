SPECIFICATION FairSpec
CONSTANTS
  MAX_CHANNELS = 2
  MAX_FRAMES = 1
  Worker = {w1, w2}
  NoWorker = NoWorker
  NoChannel = NoChannel
INVARIANTS
  OneCommand
  CancelDenies
  CancelWakes
  KeepaliveBeforeResponse
PROPERTIES
  DroppedOnlyAfterReset
  EveryCommandEnds
