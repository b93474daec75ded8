CONSTANTS
  Workers = {w1, w2}
  Emails <- Spellings
  Lower <- LowerCase
  Digits = {d1, d2}
  Legacy <- Deactivated
  MaxCodes = 2
  MaxFaults = 1
SPECIFICATION Spec
INVARIANTS
  TypeOK
  LoginOwnsAddress
  CodeUsesBounded
  AccountsBounded
PROPERTIES
  NewestWhileApart
