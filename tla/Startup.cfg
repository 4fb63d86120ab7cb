SPECIFICATION FairSpec
CONSTANTS
  Servers = {p1, p2, p3}
INVARIANT TypeOK
PROPERTIES FailureEnds Recovers
