SPECIFICATION Spec

CONSTANTS
  Base = 16
  InitialCap = 1024
  None = None
  Admin <- AdminText
  Inputs <- LongReplies

INVARIANTS EveryFrameParses

CHECK_DEADLOCK FALSE
