CONSTANTS
  N = 4
  Fed = {0, 1}
  Watched = 1
  MaxWait = 70
  MaxSkips = 3
SPECIFICATION FairSpec
INVARIANTS
  TypeOK
  GrantIsPending
  WaitIsBounded
PROPERTIES
  PopFollowsPush
  ServedIfQuiet
