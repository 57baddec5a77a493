SPECIFICATION SerialSpec

CONSTANTS
  s1 = s1
  r1 = r1
  u1 = u1
  u2 = u2
  u3 = u3
  n1 = n1
  n2 = n2
  c1 = c1
  c2 = c2
  b1 = b1
  Empty = Empty
  None = None
  Sockets = {s1}
  Requests = {r1}
  Messages <- SerialMessages
  Uuids = {u1, u2}
  MaxId = 3
  Names = {Empty, n1, n2}
  Contents = {Empty, c1, c2}
  Times = {1, 2}
  Blobs = {b1}
  Faulty = FALSE
  Crashes = FALSE

SYMMETRY Symmetry

INVARIANTS Consistent
PROPERTIES KeepsPromise
