SPECIFICATION Spec

CONSTANTS
  s1 = s1
  s2 = s2
  i1 = i1
  a = a
  x = x
  Sessions = {s1, s2}
  Imports = {i1}
  Tokens = {a, x}
  Known = {a}
  NoModule = NoModule
  None = None

INVARIANTS TypeOK Registered ShownUnlessRaced

PROPERTIES CountedIsShown LeavesNothing

CHECK_DEADLOCK FALSE
