CONSTANTS
  ta = ta  tb = tb  tc = tc  td = td  te = te  tf = tf
  NumSeats = 2
  Bots = {}
  Tiles = {ta, tb, tc, td, te, tf}
  HandValue <- SummedValues
  HandSize = 2
  ExchangeMin = 1
  ScorelessLimit = 3
  MaxTimeouts = 2
  WordScores = {1}
  BonusAllTiles = 2
  Modes = {"plain", "challenge", "async"}
SPECIFICATION FairSpec
PROPERTIES Settlement VoteCloses AsyncEnds
CHECK_DEADLOCK FALSE
