CONSTANTS
  r1 = r1  r2 = r2
  Sids = {s1, s2, s3}
  Users = {u, v}
  Guests = {g}
  GuestTokens = {t1}
  Rooms = {r1, r2}
  MaxSeats = 2
  Saved = {u, g}
  MaxSeq = 2
  KindsOf <- AllRooms
  MovesOn = FALSE
  None = None
SYMMETRY Alike
SPECIFICATION Spec
CONSTRAINT LiveOrLetters
INVARIANTS  OwnSeatOnly SeatedKeepsToken GraceKeepsSeat
PROPERTY GraceRunsItsCourse
CHECK_DEADLOCK FALSE
