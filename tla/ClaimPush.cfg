CONSTANTS
  Entries = {e1, e2}
  Attempts = 3
  MaxCrashes = 1
SPECIFICATION Spec
CHECK_DEADLOCK FALSE
PROPERTIES
  Delivered
