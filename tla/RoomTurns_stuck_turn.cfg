CONSTANTS
  NumSeats = 2
  Bots = {}
  Voting = FALSE
  Limited = FALSE
SPECIFICATION Spec
INVARIANT NoStuckTurn
CHECK_DEADLOCK FALSE
