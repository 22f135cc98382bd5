\* Samples of up to five octets with times in and out of range; stream types
\* with texts of every length modulo four, some of which do not fit.
SPECIFICATION Spec
CONSTANTS
  a = a
  b = b
  Nul = Nul
  Octets = {a, b, Nul}
  NameMax = 2
  TypeMax = 2
  Encapsulation = 4
  Giga = 3
  WordSize = 8
  SampleData <- MCSampleData
  Times <- MCTimes
  StreamTypes <- MCStreamTypes
  MaxSize <- MCMaxSize
INVARIANTS
  PathTypeOK
  NeverTooShort
  SamplesArriveIntact
  TypesArriveIntact
PROPERTIES
  PathIsDelivery
