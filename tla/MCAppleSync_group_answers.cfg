CONSTANTS
  Users = {u1, u2}
  NoUser = NoUser
  Origs = {o1, o2, o3}
  NoOrig = NoOrig
  Groups = {{o1, o2}}
  Web = {w1}
  Jobs = {j1}
  MaxVersion = 2
  LapseStates = {}
  MaxFaults = 0
  BatchSize = 2
  Shapes <- MixedShapes
  Bare = {}
  Dated = {o1, o2}
  HasLog = FALSE
  HasLedger = TRUE
  Watched = {}
  Counted = {}
SYMMETRY Interchangeable
SPECIFICATION Spec
INVARIANTS
  RowsFromApple
  FreshActivation
  LedgerCoversRows
PROPERTIES
  LinkNeverMoves
