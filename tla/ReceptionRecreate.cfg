\* A peer publishes a stream type that asks for another profile.
SPECIFICATION Spec
CONSTANTS
  r1 = r1
  r2 = r2
  t1 = t1
  t2 = t2
  Unset = Unset
  NotANumber = NotANumber
  PlainArray <- Plain
  MaxMessageSize <- MCMaxSize
  IntMax <- MCIntMax
  Topics <- TwoTopics
  StreamTypes <- AllTypes
  InitialType <- SmallTopic
  Readers <- OneReader
  TopicOf <- OwnTopic1
  PeerTypes <- ValidType
  HistoryDepth = 1
  MaxSamplesPerRead = 2
  MaxArrivals = 2
INVARIANT
  WaitSetIsUsable
CHECK_DEADLOCK FALSE
