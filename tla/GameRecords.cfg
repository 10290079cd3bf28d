SPECIFICATION Spec
CONSTANTS
  u = u
  v = v
  r1 = r1
  r2 = r2
  None = None
  Users = {u, v}
  Rooms = {r1, r2}
  MaxRows = 2
  MaxTurns = 1
  MaxTime = 2
  MaxFaults = 1
  MaxAdjustments = 1
  Initial = 10
  Results <- Outcomes
  Reopen = FALSE
  Provisional = 1
  KProvisional = 4
  KEstablished = 2
INVARIANTS RatingsReproducible OneResultPerRoom ReplayIsComplete AsyncIsDurable
CHECK_DEADLOCK FALSE
