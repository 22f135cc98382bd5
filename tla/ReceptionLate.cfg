\* A reader may be registered while the reception runs.
SPECIFICATION Spec
CONSTANTS
  r1 = r1
  r2 = r2
  t1 = t1
  t2 = t2
  Unset = Unset
  NotANumber = NotANumber
  PlainArray <- Plain
  MaxMessageSize <- MCMaxSize
  IntMax <- MCIntMax
  Topics <- TwoTopics
  StreamTypes <- AllTypes
  InitialType <- SmallTopic
  Readers <- OneReader
  TopicOf <- OwnTopic1
  PeerTypes <- NoTypes
  HistoryDepth = 1
  MaxSamplesPerRead = 2
  MaxArrivals = 1
PROPERTY
  LateReaderServed
