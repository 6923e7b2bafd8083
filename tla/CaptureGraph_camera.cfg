SPECIFICATION Spec
CONSTANTS
  Setups <- MCSetups
  Counts <- GrantedOrFewer
  MaxFaults = 1
INVARIANTS
  TypeOK
  OneOwner
  SafeRelease
PROPERTY
  Progress
\* Torn down or crashed, the pipeline stops.
CHECK_DEADLOCK FALSE
