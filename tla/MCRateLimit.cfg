CONSTANTS
  Threads = {t1, t2}
  Emails = {e1}
  Networks = {n1}
  RequestLimit = 2
  IpLimit = 3
  FailureLimit = 2
  Excess = 1
SPECIFICATION FairSpec
INVARIANTS
  TypeOK
  PassedBounded
  FailuresBounded
PROPERTIES
  BlockEnds
