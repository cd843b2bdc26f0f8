\* Three users and two requests at a time: enough for two admins to leave, to
\* remove or to demote each other at once, with a third member left behind.
SPECIFICATION Spec
CONSTANTS
  ann = ann
  bob = bob
  cat = cat
  w1 = w1
  w2 = w2
  Users = {ann, bob, cat}
  Workers = {w1, w2}
  Fields = {"name", "avatar"}
  Values = {0, 1}
  Blank = 0
  Bodies <- OneFieldEach
SYMMETRY Symmetry
INVARIANTS
  TypeOK
  AdminUnlessRaced
  Justified
PROPERTY RosterSpec
