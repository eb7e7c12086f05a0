SPECIFICATION RSpec
CONSTANTS
  Group <- TwoGroups
  Units = 1
  OutGroups <- OutputOnly
  LastOutGroup = 2
  Timely <- AllKinds
  Training = TRUE
  Dougs = FALSE
  NumEpochs = 1
  NumExamples = 1
  NumEvents = 1
  GlobalMaxTicks = 2
  MaxTicks = 3
  MinTicks = 1
  Lossy <- InTick
  MaxLost = 0
  DLRV_MAX_CNT = 2
  Patient = FALSE
PROPERTIES RestartIfStuck
