SPECIFICATION FairSpec
CONSTANTS
  Channels <- AllChannels
  MaxKeys = 3
  MaxRequests = 2
INVARIANTS TypeOK AnswersItsRequest RequestInOnePlace EveryKeyOnce
PROPERTIES RequestAnswered StopEndsUnlessMissed
CHECK_DEADLOCK FALSE
