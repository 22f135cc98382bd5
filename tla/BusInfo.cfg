\* The classes with the listener attached.  Two threads pop; participants
\* with and without a version, and user data that are none.  The process may
\* crash, and then it stops.
SPECIFICATION Spec
CONSTANTS
  p1 = p1
  p2 = p2
  alice = alice
  bob = bob
  NoThread = NoThread
  NotJson = NotJson
  NotAnObject = NotAnObject
  NotValid = NotValid
  Poppers = {p1, p2}
  Limit = 1
  Names = {alice, bob}
  Versions = {0, 3}
  DefaultVersion = 0
  NoVersion = 99
  Attached = TRUE
  MaxNews = 3
INVARIANTS
  BusInfoTypeOK
  NewestAreKept
  EmptyFrontNeedsRace
  ReportsAreCumulative
PROPERTIES
  EntriesAreLossyFifo
CHECK_DEADLOCK FALSE
