\* A reader and a writer of one topic, and two sessions.  The process may
\* crash, and then it stops.
SPECIFICATION Spec
CONSTANTS
  r1 = r1
  w1 = w1
  t1 = t1
  topic = t1
  Unset = Unset
  NotANumber = NotANumber
  PlainArray <- Plain
  MaxMessageSize = 16
  IntMax = 31
  Topics <- OneTopic
  StreamTypes <- AllTypes
  InitialType <- SmallTopic
  NewTypes <- AllTypes
  Readers = {r1}
  Writers = {w1}
  MaxSessions = 2
  MaxOwed = 2
INVARIANTS
  EndpointTypeOK
  FollowsItsTypes
  SessionHooksAreLive
  IterationIsSound
CHECK_DEADLOCK FALSE
