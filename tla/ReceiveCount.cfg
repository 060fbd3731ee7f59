SPECIFICATION Spec
CONSTANTS
  RECEIVE_STACK_SIZE = 2
  MAX_AGE = 1
  Sent <- MCSent
  Odd <- MCOdd
  nullptr = nullptr
INVARIANT CountMatchesBeforeCrc
