SPECIFICATION Spec

CONSTANTS
  Base = 8
  InitialCap = 64
  None = None
  Admin <- AdminText
  Inputs <- SmallInputs

INVARIANTS ReadsBack ZeroAhead VTablesShared FourAligned FrameParses

CHECK_DEADLOCK FALSE
PROPERTY WrittenOnce
