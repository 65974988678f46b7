\* Batches smaller than what the completion ring holds.
SPECIFICATION Safety
CONSTANTS
  r1 = r1
  r2 = r2
  r3 = r3
  r4 = r4
  Blank = Blank
  None = None
  Requests = {r1, r2, r3}
  SqSize = 2
  MaxDrain = 2
  MaxTry = 2
  Kernels = {"all"}
INVARIANTS
  ProcessesAllCompleted
