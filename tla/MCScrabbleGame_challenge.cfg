CONSTANTS
  ta = ta  tb = tb  tc = tc  td = td  te = te  tf = tf
  NumSeats = 4
  Bots = {4}
  Tiles = {ta, tb, tc, td, te}
  HandValue <- SummedValues
  HandSize = 1
  ExchangeMin = 1
  ScorelessLimit = 3
  MaxTimeouts = 2
  WordScores = {1}
  BonusAllTiles = 0
  Modes = {"challenge"}
SYMMETRY EqualTiles
SPECIFICATION Spec
INVARIANTS TypeOK TileConservation FullHands PendingConsistent
PROPERTY ImplementsTurnGame
CHECK_DEADLOCK FALSE
