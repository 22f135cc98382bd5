\* One reader with the shipped history depth of 1; the peer publishes every
\* kind of stream type.
SPECIFICATION QueueSpec
CONSTANTS
  r1 = r1
  t1 = t1
  Unset = Unset
  NotANumber = NotANumber
  PlainArray <- Plain
  MaxMessageSize <- MCMaxSize
  IntMax <- MCIntMax
  Topics <- OneTopic
  StreamTypes <- AllTypes
  InitialType <- SmallTopic
  Readers <- OneReader
  TopicOf <- ReaderTopic
  PeerTypes <- AnyType
  HistoryDepth = 1
  MaxSamplesPerRead = 2
  MaxArrivals = 5
INVARIANTS
  QueueTypeOK
  DrainedBeforeRecreate
  ProfileInForce
  TakenIsHandedOn
PROPERTIES
  SamplesAreLossyFifo
  TypesAreLossyFifo
