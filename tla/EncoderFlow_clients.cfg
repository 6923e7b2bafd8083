SPECIFICATION Spec
CONSTANTS
  Codings = {"avc", "mjpeg"}
  RcModes = {"cbr", "vbr"}
  Rates = {20, 99}
  MinBps = 2
  MaxBps = 98
  Masks <- MCMasks
  StaleChange = TRUE
  MaxRequests = 2
  MaxFaults = 1
  NumExtra = 2
  InputCache = 2
  MaxFrames = 3
  MaxRounds = 3
  MaxToggles = 2
INVARIANTS
  TypeOK
  Delivered
  Paired
  ContextOutlivesPackets
  ChangesKept
  RateWithinLimits
CHECK_DEADLOCK FALSE
