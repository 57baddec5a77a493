SPECIFICATION Spec

CONSTANTS
  s1 = s1
  s2 = s2
  r1 = r1
  u1 = u1
  u2 = u2
  u3 = u3
  n1 = n1
  n2 = n2
  c1 = c1
  c2 = c2
  b1 = b1
  b2 = b2
  Empty = Empty
  None = None
  Sockets = {s1, s2}
  Requests = {r1}
  Messages <- OwnerMessages
  Uuids = {u1, u2, u3}
  MaxId = 2
  Names = {Empty, n1, n2}
  Contents = {Empty, c1, c2}
  Times = {1}
  Blobs = {b1, b2}
  Faulty = TRUE
  Crashes = TRUE

SYMMETRY Symmetry

INVARIANTS TypeOK UniqueOwner TruthfulReply
CHECK_DEADLOCK FALSE
