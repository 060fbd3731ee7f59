SPECIFICATION Spec
CONSTANTS
  RECEIVE_STACK_SIZE = 3
  MAX_AGE = 1
  Sent <- MCSent
  Odd <- MCOdd
  nullptr = nullptr
INVARIANTS TypeOK NoLeak ProcessedInPlace CrcOnlyForCollisions LostOnlyForAReason
