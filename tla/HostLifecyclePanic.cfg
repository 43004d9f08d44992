SPECIFICATION FairSpec
CONSTANTS
  Calls = {parse, watch, check}
  Watches = {watch}
CHECK_DEADLOCK FALSE
PROPERTIES
  PanicOnError
