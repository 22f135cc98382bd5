\* The plugin as shipped: registerParticipant attaches no listener.
SPECIFICATION Spec
CONSTANTS
  p1 = p1
  p2 = p2
  alice = alice
  bob = bob
  NoThread = NoThread
  NotJson = NotJson
  NotAnObject = NotAnObject
  NotValid = NotValid
  Poppers = {p1, p2}
  Limit = 1
  Names = {alice, bob}
  Versions = {0, 3}
  DefaultVersion = 0
  NoVersion = 99
  Attached = FALSE
  MaxNews = 3
PROPERTY
  AnnouncedIsReported
CHECK_DEADLOCK FALSE
