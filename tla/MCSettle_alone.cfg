\* What the comment on SimplifyDebts says, for every list of balances.
SPECIFICATION FairSpec
CONSTANTS
  ann = ann
  bob = bob
  cat = cat
  dan = dan
  eve = eve
  Users = {ann, bob, cat}
  MaxAmount = 3
PROPERTY Returns
\* The function returns.
CHECK_DEADLOCK FALSE
