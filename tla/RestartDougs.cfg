SPECIFICATION RSpec
CONSTANTS
  Group <- TwoGroups
  Units = 1
  OutGroups <- OutputOnly
  LastOutGroup = 2
  Timely <- AllKinds
  Training = TRUE
  Dougs = TRUE
  NumEpochs = 1
  NumExamples = 1
  NumEvents = 1
  GlobalMaxTicks = 3
  MaxTicks = 3
  MinTicks = 1
  Lossy <- InTick
  MaxLost = 1
  DLRV_MAX_CNT = 2
  Patient = TRUE
INVARIANTS LdsAwaited
