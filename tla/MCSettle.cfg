\* All balances of up to four units of four users, whichever are listed.
SPECIFICATION FairSpec
CONSTANTS
  ann = ann
  bob = bob
  cat = cat
  dan = dan
  eve = eve
  Users = {ann, bob, cat, dan}
  MaxAmount = 4
INVARIANTS
  TypeOK
  NobodyOverpays
  FewDebts
  SettlesAll
  MinimalUpToFour
PROPERTY ReturnsUnlessAlone
\* The function returns.
CHECK_DEADLOCK FALSE
