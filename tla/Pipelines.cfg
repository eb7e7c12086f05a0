SPECIFICATION Spec
CONSTANTS
  Units = 2
  MaxTick = 3
  NumExamples = 2
  MaxRestarts = 2
INVARIANTS TypeOK IntegratorExact IntegratedOnce DerivativeOfTick
