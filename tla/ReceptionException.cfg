\* A peer publishes a stream type whose byte size is no number.
SPECIFICATION Spec
CONSTANTS
  r1 = r1
  r2 = r2
  t1 = t1
  t2 = t2
  Unset = Unset
  NotANumber = NotANumber
  PlainArray <- Plain
  MaxMessageSize <- MCMaxSize
  IntMax <- MCIntMax
  Topics <- TwoTopics
  StreamTypes <- AllTypes
  InitialType <- SmallTopic
  Readers <- OneReader
  TopicOf <- OwnTopic1
  PeerTypes <- AnyType
  HistoryDepth = 1
  MaxSamplesPerRead = 2
  MaxArrivals = 2
INVARIANT
  RunsUntilStop
CHECK_DEADLOCK FALSE
