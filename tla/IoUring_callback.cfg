\* A full ring inside Drain, and a completion whose callback makes a request.
SPECIFICATION Spec
CONSTANTS
  t1 = t1
  t2 = t2
  r1 = r1
  r2 = r2
  r3 = r3
  Worker = Worker
  None = None
  Threads = {t1, t2}
  Requests = {r1, r2, r3}
  MaxDrain = 2
  PendingSqe <- MCPendingSqe
  SqSize = 1
  MaxTry = 2
  Kernels = {"all"}
  Resubmitters = {r1}
  Linked = {}
  Unimplemented = {}
  Selecting = {}
PROPERTIES
  GetSqeReturns
CHECK_DEADLOCK FALSE
