CONSTANTS
  Workers = {w1, w2}
  Emails <- Spellings
  Lower <- LowerCase
  Digits = {d1}
  Legacy <- NoAccounts
  MaxCodes = 1
  MaxFaults = 0
SPECIFICATION Spec
INVARIANTS
  OneAccountPerAddress
