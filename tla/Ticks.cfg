SPECIFICATION Spec
CONSTANTS
  Group <- TwoGroups
  Units = 1
  OutGroups <- OutputOnly
  LastOutGroup = 2
  Timely <- AllKinds
  Training = TRUE
  Dougs = TRUE
  NumEpochs = 1
  NumExamples = 2
  NumEvents = 1
  GlobalMaxTicks = 4
  MaxTicks = 3
  MinTicks = 2
INVARIANTS LdsExact DeltasCurrent OutputsCurrent UserEventFree TickQuiet
PROPERTIES GradientExact
CONSTRAINT LongThenShort
