SPECIFICATION FairSpec
CONSTANTS
  MaxLength = 7
  BufferSizes <- Buffers
  MaxReads = 3
INVARIANTS BodyArrives ShortBodyReadOnce ResultIsAnswer
PROPERTIES TransferEnds
CHECK_DEADLOCK FALSE
