\* A head in up to three pieces, one more than the limit, two pieces after it, one of the client's.
SPECIFICATION LiveSpec
CONSTANTS
  MaxHead = 3
  MaxBody = 2
  MaxClient = 2
  MaxBuffer = 1
INVARIANTS TypeOK ClientSeesTheStream UpstreamSeesTheStream
PROPERTIES EverythingArrives UpgradeIsAnswered NoPipeIsLeft
CHECK_DEADLOCK FALSE
