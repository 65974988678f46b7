\* Three events of one poll, and another request that may come at any time.
SPECIFICATION Spec
CONSTANTS
  Poll = poll
  Others = {read}
  Events = 3
  MaxDrain = 2
PROPERTIES
  EveryEventNotified
CHECK_DEADLOCK FALSE
