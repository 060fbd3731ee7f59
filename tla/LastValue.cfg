SPECIFICATION Spec
CONSTANTS
  messageTransformers <- AirQualityTable
  NoKO = NoKO
  NoInverse = NoInverse
  NoValue = NoValue
  Configurations <- AsShipped
  requestInterval = 0
  SEND_BUFFER_SIZE = 1
  UnderWay = 1
  MaxKnxWrites = 1
  MaxChanges = 0
PROPERTY LastValueIsLastReceived
