\* Registrations, their roll back and reads of two threads, on two slots.
SPECIFICATION Spec
CONSTANTS
  t1 = t1
  t2 = t2
  NoFile = NoFile
  None = None
  NoRead = NoRead
  Queued = Queued
  Threads = {t1, t2}
  Fds = {3, 4, 5, 6}
  Owns <- MCOwns
  Lists <- MCLists
  Rejected = {6}
  Slots = 2
INVARIANTS
  TypeOK
  SlotsAgree
  KernelAgrees
  ReadsReachTheirFile
PROPERTIES
  AllOrNothing
