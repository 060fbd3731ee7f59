SPECIFICATION Spec
CONSTANTS
  messageTransformers <- PartyTable
  NoKO = NoKO
  NoInverse = NoInverse
  NoValue = NoValue
  Configurations <- AsShipped
  requestInterval = 0
  SEND_BUFFER_SIZE = 3
  UnderWay = 1
  MaxKnxWrites = 2
  MaxChanges = 1
INVARIANTS PrerequisiteFirst IgnoringKeepKnxValue
