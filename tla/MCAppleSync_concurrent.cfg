CONSTANTS
  Users = {u1, u2}
  NoUser = NoUser
  Origs = {o1}
  NoOrig = NoOrig
  Groups = {}
  Web = {w1, w2}
  Jobs = {}
  MaxVersion = 2
  LapseStates = {"BILLING_RETRY"}
  MaxFaults = 1
  BatchSize = 2
  Shapes <- FullShapes
  Bare = {}
  Dated = {}
  HasLog = TRUE
  HasLedger = FALSE
  Watched = {}
  Counted <- Notes
SYMMETRY Interchangeable
SPECIFICATION Spec
INVARIANTS
  TypeOK
  AckedMeansHandled
  SignalsBounded
PROPERTIES
  OwnRowOnly
  SettledIsFinal
  KeepsPromise
