\* A ring of two entries for four requests, any kernel, and batches that hold every
\* CQE there can be.
SPECIFICATION Spec
CONSTANTS
  r1 = r1
  r2 = r2
  r3 = r3
  r4 = r4
  Blank = Blank
  None = None
  Requests = {r1, r2, r3, r4}
  SqSize = 2
  MaxDrain = 4
  MaxTry = 2
  Kernels = {"all", "short", "busy"}
INVARIANTS
  TypeOK
  NoBlankSqe
  EveryRequestInOnePlace
  PendingCountSound
  NoCqeWithoutSignal
PROPERTIES
  ServiceSpec
