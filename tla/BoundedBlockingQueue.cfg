\* More threads than slots on both sides of a queue of capacity 2, so that
\* woken threads find their slot or element gone; -1 converted to size_t is
\* checked by the theorems, for every modulus.
CONSTANTS
  Producers = {p1, p2, p3}
  Consumers = {c1, c2}
  MaxPushes = 2
  CapacitySize = 2
  SizeModulus = 16
SPECIFICATION Spec
INVARIANTS
  SleepersHaveReason
PROPERTIES
  ImplementsChannel
  PushesComplete
