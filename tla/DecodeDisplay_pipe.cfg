SPECIFICATION Spec
CONSTANTS
  Boards <- MCBoards
  Wants <- MCWants
  FbFormats = {"nv12"}
  Rects = {1}
  MaxCalls = 1
  MaxDrmFaults = 1
  MppInputs = 1
  FrameLimits = {2}
  Timeouts = {"some"}
  MaxInfo = 1
  MaxMppFaults = 1
  InputCache = 1
  OutCache = 1
  OutModes = {"BLOCKING", "DROPCURRENT", "ATOMIC"}
  NullPackets = {1}
  EmptyPackets = {5}
  EosPackets = {3, 5}
  MaxPackets = 5
INVARIANTS
  TypeOK
  Compatible
  RectsAgree
  DecodedInOrder
  ScannedOutIsHeld
CHECK_DEADLOCK FALSE
PROPERTIES Progress
