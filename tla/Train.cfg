SPECIFICATION Spec
CONSTANTS
  Group <- TwoGroups
  Units = 2
  OutGroups <- OutputOnly
  LastOutGroup = 2
  Timely <- AllKinds
  Training = TRUE
  Dougs = FALSE
  NumEpochs = 2
  NumExamples = 1
  NumEvents = 1
  GlobalMaxTicks = 2
  MaxTicks = 2
  MinTicks = 1
INVARIANTS TypeOK SumsExact TickQuiet StageEndsClean
PROPERTIES GradientExact BarrierSpec
