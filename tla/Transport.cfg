\* rxBuffer holds 10 frames in the program; 2 make it wrap and overflow often.
SPECIFICATION FairSpec
CONSTANTS
  BUFFER_SIZE = 2
  CAN_INIT_MAX_RETRIES = 2
  HwBuffers = 2
  MaxFrames = 5
INVARIANTS IsrHasInstance StoredInOrder DropsReported
PROPERTIES ControllerIsDrained StoredIsDelivered OverflowIsReported
