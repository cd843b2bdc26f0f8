\* Two addresses, one Google account, two sign-ins at a time, two codes.
CONSTANTS
  Emails = {e1, e2}
  Subs = {s1}
  Claims <- MCClaims
  Currencies = {"USD"}
  Workers = {w1, w2}
  Failures = TRUE
  MaxCodes = 2
SPECIFICATION Spec
SYMMETRY Symmetry
INVARIANTS
  TypeOK
  TokensNameUsers
  SpentStaysSpent
  NewestCodeStands
  AcceptedIsServed
PROPERTY DirectorySpec
CHECK_DEADLOCK FALSE
