SPECIFICATION DrmSpec
CONSTANTS
  Boards <- MCBoards
  Wants <- MCWants
  FbFormats = {"nv12"}
  Rects = {1}
  MaxCalls = 1
  MaxDrmFaults = 0
INVARIANT
  ReservedIsKept
CHECK_DEADLOCK FALSE
