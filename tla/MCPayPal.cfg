CONSTANTS
  Threads = {t1, t2}
  NoThread = NoThread
  order = order
  cancel = cancel
  event = event
  Requests = {order, cancel, event}
  OperationOf <- Asked
  Keyed = {order}
  Genuine = {}
  Margin = 2
  SendTime = 1
  AnswerTime = 1
  Lifetime = 3
  MaxClock = 3
  MaxFaults = 1
SPECIFICATION FairSpec
INVARIANTS
  TypeOK
  AliveOnArrival
  NoWastedFetch
  HonestOutcome
PROPERTIES
  CallsEnd
  RetriesSucceed
