CONSTANTS
  r1 = r1  r2 = r2
  Sids = {s1, s2}
  Users = {u}
  Guests = {g}
  GuestTokens = {t1}
  Rooms = {r1, r2}
  MaxSeats = 2
  Saved = {u, g}
  MaxSeq = 2
  KindsOf <- LiveRooms
  MovesOn = FALSE
  None = None
SYMMETRY Alike
SPECIFICATION Spec
INVARIANTS RestoredPresentIsThere
CHECK_DEADLOCK FALSE
