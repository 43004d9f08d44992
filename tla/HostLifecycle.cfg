SPECIFICATION FairSpec
CONSTANTS
  Calls = {parse, watch, check}
  Watches = {watch}
CHECK_DEADLOCK FALSE
INVARIANTS
  AcceptedCallsFinish
  ExitTellsFailure
PROPERTIES
  SigtermEndsHost
  LoneFailureEndsHost
