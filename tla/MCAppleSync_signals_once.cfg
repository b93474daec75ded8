CONSTANTS
  Users = {u1}
  NoUser = NoUser
  Origs = {o1}
  NoOrig = NoOrig
  Groups = {}
  Web = {w1, w2}
  Jobs = {}
  MaxVersion = 2
  LapseStates = {"EXPIRED"}
  MaxFaults = 0
  BatchSize = 2
  Shapes <- FullShapes
  Bare = {}
  Dated = {}
  HasLog = TRUE
  HasLedger = FALSE
  Watched = {}
  Counted <- Notes
SPECIFICATION Spec
INVARIANTS
  FiredOnce
