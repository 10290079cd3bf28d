CONSTANTS
  NumSeats = 4
  Bots = {2}
  Voting = TRUE
  Limited = TRUE
SPECIFICATION FairSpec
INVARIANTS RoomTypeOK TimersFit BotWillMove 
PROPERTIES TurnsAreTimed VoteIsDecided AbsentTurnPasses BotPlays
CHECK_DEADLOCK FALSE
