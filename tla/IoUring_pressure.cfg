\* A ring smaller than one Drain, every kind of kernel, a linked request, a request that
\* uses a provided buffer, and the destructor at any time.
SPECIFICATION Safety
CONSTANTS
  t1 = t1
  t2 = t2
  r1 = r1
  r2 = r2
  r3 = r3
  Worker = Worker
  None = None
  Threads = {t1, t2}
  Requests = {r1, r2, r3}
  MaxDrain = 3
  PendingSqe <- MCPendingSqe
  SqSize = 2
  MaxTry = 2
  Kernels = {"all", "short", "busy", "sqpoll"}
  Resubmitters = {}
  Linked = {r1}
  Unimplemented = {r3}
  Selecting = {r2}
SYMMETRY ThreadSymmetry
INVARIANTS
  PendingCountSound
  SleepsOnlyWhenIdle
  NoSilentLoss
  NoLostWakeup
  SubmissionInOrder
PROPERTIES
  ChainCutOnlyWhenFull
