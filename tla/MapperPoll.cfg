\* Polling as the unit of time: an entry expires after two polls' time.
SPECIFICATION FairSpec
CONSTANTS
  messageTransformers <- AirQualityTable
  NoKO = NoKO
  NoInverse = NoInverse
  NoValue = NoValue
  Configurations <- EitherWay
  requestInterval = 2
  SEND_BUFFER_SIZE = 1
  UnderWay = 1
  MaxKnxWrites = 1
  MaxChanges = 0
PROPERTIES EveryEntryIsPolled ShowsDeviceInTheEnd KnxIsShownDevice
