SPECIFICATION FairSpec
CONSTANTS
  Sub <- Five
  Groups <- ThreeGroups
  Group <- FiveGroup
  Last <- FiveLast
  LastOutGroup = 2
  NumTicks = 3
INVARIANTS Lockstep ScoreboardSound
PROPERTIES DecisionComplete TicksEnd
