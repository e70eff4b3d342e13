CONSTANTS
  Lengths = {7}
  SndBuf = 14
  Parts = {1}
  Word = 64
  MaxQueued = 2
  MaxInputs = 3
SPECIFICATION FairSpec
INVARIANTS TypeOK StreamIsWhole  BufferOutlivesMessages
PROPERTY NothingStalls TimedOutIsSlow
CHECK_DEADLOCK FALSE
