SPECIFICATION CacheSpec

CONSTANTS
  s1 = s1
  s2 = s2
  r1 = r1
  o1 = o1
  o2 = o2
  u1 = u1
  u2 = u2
  n1 = n1
  n2 = n2
  c1 = c1
  c2 = c2
  b1 = b1
  b2 = b2
  Empty = Empty
  None = None
  Sockets = {s1}
  Requests = {}
  Messages <- ConfigMessages
  Uuids = {u1, u2}
  MaxId = 2
  Names = {Empty, n1, n2}
  Contents = {Empty, c1, c2}
  Times = {1}
  Blobs = {b1, b2}
  Faulty = FALSE
  Crashes = FALSE
  Openers = {o1}
  BadBlobs = {b2}
  NoModule = NoModule

SYMMETRY Symmetry

INVARIANTS ConfigNamed
CHECK_DEADLOCK FALSE
