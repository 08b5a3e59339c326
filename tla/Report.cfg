SPECIFICATION Spec
CONSTANTS
  Radix = 2
  NsDigits = 3
  precision = 2
  WordBits = 6
  Mantissa = 4
  Epoch = 60
  trainLen = 3
  BurstRx = 2
  MaxFlying = 2
  MaxTime = 5
  Jumps <- MCJumps
  MaxSets = 1
INVARIANTS
  LatencyWithinUnit
  WrapsOnlyBackwards
  MeanWithinUnit
  IntervalWithinUlp
  IntervalsAddUp
