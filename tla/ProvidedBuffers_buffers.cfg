SPECIFICATION Spec
CONSTANTS
  Threads = {t1, t2}
  Buffers = {b1, b2}
  Addresses = {1, 2}
  None = None
INVARIANTS
  TypeOK
  OneOwner
  LostOnlyToRaces
  TimeoutAsExpected
  CancelsItsOwn
CHECK_DEADLOCK FALSE
PROPERTIES
  ImplementsOwnership
  GetsItsBuffer
  HandsBack
