SPECIFICATION Spec
CONSTANTS
  Group <- TwoGroups
  Units = 2
  OutGroups <- OutputOnly
  LastOutGroup = 2
  Timely <- AllKinds
  Training = FALSE
  Dougs = FALSE
  NumEpochs = 1
  NumExamples = 1
  NumEvents = 2
  GlobalMaxTicks = 4
  MaxTicks = 3
  MinTicks = 2
INVARIANTS SumsExact TickQuiet
PROPERTIES DecisionSound
