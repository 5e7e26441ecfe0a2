SPECIFICATION FairSessionsSpec
CONSTANTS
    PageSize = 2
    PrintSizes = {1, 3}
    MaxPrinted = 5
    MaxInput = 1
INVARIANTS OutputInOrder WokenByItsOwn ReleasedOnce LengthSaid
PROPERTIES CallsEnd ImplementsReply
CHECK_DEADLOCK FALSE
