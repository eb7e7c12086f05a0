SPECIFICATION Spec
CONSTANTS
  Units = 2
  MaxTick = 2
  NumExamples = 2
  MaxRestarts = 2
INVARIANTS RestartUnnoticed
