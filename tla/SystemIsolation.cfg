\* Two buses of different systems in one domain.
SPECIFICATION Spec
CONSTANTS
  b1 = b1
  b2 = b2
  r1 = r1
  r2 = r2
  w1 = w1
  sample = sample
  blackbird = blackbird
  whitebird = whitebird
  NoBus = NoBus
  Buses = {b1, b2}
  Names = {sample}
  Readers = {r1, r2}
  Writers = {w1}
  BusOf <- MCBusOf
  NameOf <- MCNameOf
  SystemOf <- MCSystemOf
  MaxAttempts = 1
INVARIANT
  SystemsAreIsolated
CHECK_DEADLOCK FALSE
