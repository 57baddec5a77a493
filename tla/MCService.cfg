SPECIFICATION SharingSpec

CONSTANTS
  astolfo = astolfo
  n1 = n1
  t1 = t1
  u1 = u1
  u2 = u2
  c1 = c1
  r1 = r1
  r2 = r2
  Names = {astolfo, n1}
  Tokens = {astolfo, t1}
  Default = astolfo
  Requests = {r1, r2}
  MaxCrashes = 2
  MaxLosses = 1
  Uuids = {u1, u2}
  Codes = {c1}
  None = None

INVARIANTS TypeOK TokenResolves AccountKept ServesSeeded WedgedOnlyByCrash CodeOwnsItem

PROPERTIES BaseOnlyAtBoot NoSelfRepair OnlyOwnerUnshares ComesUp

CHECK_DEADLOCK FALSE
