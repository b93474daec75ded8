CONSTANTS
  Widgets = {client, lawyer}
  Staff = {lawyer}
  Writers = {client, lawyer}
  InOrder = TRUE
  MaxMessages = 2
  MaxPolls <- ClientsOverlap
  MaxFaults = 1
SPECIFICATION FairSpec
INVARIANTS
  InternalStaysInside
  OnlyOwnPostsSkip
PROPERTIES
  AllShownOrPassed
