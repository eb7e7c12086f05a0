SPECIFICATION Spec
CONSTANTS
  Group <- TwoGroups
  Units = 1
  OutGroups <- OutputOnly
  LastOutGroup = 2
  Timely <- OnlyT
  Training = FALSE
  Dougs = FALSE
  NumEpochs = 1
  NumExamples = 1
  NumEvents = 1
  GlobalMaxTicks = 3
  MaxTicks = 2
  MinTicks = 1
INVARIANTS CountedTogether
CHECK_DEADLOCK FALSE
