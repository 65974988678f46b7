\* Default configuration: the ring holds what one Drain prepares, no links, a
\* kernel that takes all SQEs.  r1's callback makes a request.
SPECIFICATION Spec
CONSTANTS
  t1 = t1
  t2 = t2
  r1 = r1
  r2 = r2
  r3 = r3
  Worker = Worker
  None = None
  Threads = {t1, t2}
  Requests = {r1, r2, r3}
  MaxDrain = 2
  PendingSqe <- MCPendingSqe
  SqSize = 2
  MaxTry = 1
  Kernels = {"all"}
  Resubmitters = {r1}
  Linked = {}
  Unimplemented = {}
  Selecting = {}
INVARIANTS
  TypeOK
  CallbacksRunUnlocked
  NoFreedCompletion
  NothingStranded
PROPERTIES
  ServiceSpec
