SPECIFICATION FairSpec
CONSTANT Buffer = 3
INVARIANTS
  TypeOK
  OneLateCheck
PROPERTIES
  ServingIsRecent
  WatcherEnds
  FailureIsShown
