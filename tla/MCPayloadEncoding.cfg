SPECIFICATION Spec
CONSTANTS
  Requests <- MCRequests
  Builds = {TRUE, FALSE}
\* A call that was refused has ended.
CHECK_DEADLOCK FALSE
INVARIANTS
  SameAnswer
  NothingDropped
  SentIsPrintable
  VerifiedIsAlphabetical
