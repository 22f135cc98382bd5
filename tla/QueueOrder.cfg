\* Samples and stream types of one peer.
SPECIFICATION QueueSpec
CONSTANTS
  r1 = r1
  t1 = t1
  Unset = Unset
  NotANumber = NotANumber
  PlainArray <- Plain
  MaxMessageSize <- MCMaxSize
  IntMax <- MCIntMax
  Topics <- OneTopic
  StreamTypes <- AllTypes
  InitialType <- SmallTopic
  Readers <- OneReader
  TopicOf <- ReaderTopic
  PeerTypes <- ReadableType
  HistoryDepth = 1
  MaxSamplesPerRead = 2
  MaxArrivals = 3
PROPERTY
  InArrivalOrder
