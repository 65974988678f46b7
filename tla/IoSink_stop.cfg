\* The destructor's Stop against a worker on its way into the wait set.
SPECIFICATION SinkSpec
CONSTANTS
  Threads = {t1}
  Worker = Worker
  Requests = {r1, r2}
  MaxDrain = 2
  PendingSqe = {0, 1}
  None = None
PROPERTIES
  StopEndsDrain
CHECK_DEADLOCK FALSE
