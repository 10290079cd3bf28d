CONSTANTS
  ta = ta  tb = tb  tc = tc  td = td  te = te  tf = tf
  NumSeats = 2
  Bots = {}
  Tiles = {ta, tb, tc}
  HandValue <- SummedValues
  HandSize = 1
  ExchangeMin = 1
  ScorelessLimit = 6
  MaxTimeouts = 3
  WordScores = {1}
  BonusAllTiles = 0
  Modes = {"plain"}
SPECIFICATION Spec
PROPERTY StartedGameIsPlayable
CHECK_DEADLOCK FALSE
