SPECIFICATION ErrorSpec
CONSTANTS
  Slots = {s1, s2}
  FirstBytes = {0, 3, 8}
  Short = 256
  Uninitialized = Uninitialized
  MaxChanges = 1
  MaxFaults = 1
INVARIANTS BitsAreOfLastMessages ObjectsAgree
PROPERTIES SumsReachKnx TextsReachKnx
