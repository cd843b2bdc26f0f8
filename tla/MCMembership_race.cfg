\* What ROADMAP.md says of the last admin, with two requests at a time.
SPECIFICATION Spec
CONSTANTS
  ann = ann
  bob = bob
  cat = cat
  w1 = w1
  w2 = w2
  Users = {ann, bob, cat}
  Workers = {w1, w2}
  Fields = {"name", "avatar"}
  Values = {0, 1}
  Blank = 0
  Bodies <- OneFieldEach
SYMMETRY Symmetry
INVARIANT LastAdminGuard
