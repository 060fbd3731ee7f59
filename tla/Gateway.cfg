SPECIFICATION FairSpec
CONSTANTS
  CAN_ERROR_LOOP_CNT = 3
  CAN_ERROR_LIMIT = 2
  CAN_CONNECT_RETRY_DELAY = 2
  ErrorFlags = {rx0, rx1}
  NoError = NoError
  NoValue = NoValue
INVARIANTS ReadyIsStarted ResetsAfterErrorsInARow
PROPERTIES OfflineIsSaid OnlineIsSaid ErrorsForceReconnect HandlerGetsTurns
