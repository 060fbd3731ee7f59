\* In the program sendBuffer holds 3 messages and MAX_SEND_ERROR_CNT is 10; with
\* 2 messages and 3 requests the ring wraps, fills up and refuses.
SPECIFICATION FairSpec
CONSTANTS
  BUFFER_SIZE = 2
  MAX_SEND_ERROR_CNT = 2
  PING_DELAY = 1
  MaxRequests = 3
INVARIANTS SentInOrder ErrorsAreOfFront GivenUpOnlyAfterRetries
PROPERTIES QueueDrains PingGoesOut
