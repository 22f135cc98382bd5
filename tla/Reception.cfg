\* Two readers; the peers of the first publish stream types that change the
\* profile or fail to parse, those of the second samples only, as this
\* plugin's writers do.  The process may crash, and then it stops.
SPECIFICATION Spec
CONSTANTS
  r1 = r1
  r2 = r2
  t1 = t1
  t2 = t2
  Unset = Unset
  NotANumber = NotANumber
  PlainArray <- Plain
  MaxMessageSize <- MCMaxSize
  IntMax <- MCIntMax
  Topics <- TwoTopics
  StreamTypes <- AllTypes
  InitialType <- SmallTopic
  Readers <- TwoReaders
  TopicOf <- OwnTopic2
  PeerTypes <- FirstOnly
  HistoryDepth = 1
  MaxSamplesPerRead = 2
  MaxArrivals = 1
INVARIANTS
  ReceptionTypeOK
  CallbackOnce
  StopIsKept
  SessionEndsForCause
  WaitsOnCurrentReaders
PROPERTIES
  StopEndsReception
  RegisteredIsServed
CHECK_DEADLOCK FALSE
