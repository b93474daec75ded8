CONSTANTS
  Users = {u1}
  NoUser = NoUser
  Origs = {o1}
  NoOrig = NoOrig
  Groups = {}
  Web = {w1}
  Jobs = {j1}
  MaxVersion = 3
  LapseStates = {"GRACE_PERIOD"}
  MaxFaults = 1
  BatchSize = 2
  Shapes <- FullShapes
  Bare = {3}
  Dated = {}
  HasLog = TRUE
  HasLedger = FALSE
  Watched = {u1}
  Counted = {}
SPECIFICATION FairSpec
PROPERTIES
  LiveRowsConverge
  ReceiversConverge
  ReopeningCorrectsDrift
