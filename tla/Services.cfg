SPECIFICATION Spec
CONSTANTS
  user = user
  c1 = c1
  c2 = c2
  c3 = c3
  position1 = position1
  position2 = position2
  tS = tS
  tZ = tZ
  tSZ = tSZ
  tZS = tZS
  tA = tA
  S = S
  Z = Z
  A = A
  chA = chA
  chK = chK
  chB = chB
  chL = chL
  fA = fA
  fB = fB
  fP = fP
  fU = fU
  fF = fF
  fO = fO
  Blank = Blank
  NoRack = NoRack
  NoRule = NoRule
  NoWord = NoWord
  None = None

  Words = {w1, w2}
  Known = {w1}
  Overridden = {w1}
  Added = {w2}
  Listed = {w1}
  Reviewers = {reviewer}
  Thresholds = {1}
  Handlers = {h1, h2}
  Overlap = FALSE

  Players = {user}
  Connections = {c1, c2, c3}
  PlayerOf <- DailyPlayer
  Requests = {k1, k2}
  MaxDate = 2
  Positions = {position1, position2}
  ScoresIn <- DailyScores
  FoundIn <- DailyFinds
  MaxEvents = 2
  SwapInPlay = FALSE

  Size = 3
  Centre <- BoardCentre
  Tiles = {tS, tZ, tSZ, tZS, tA}
  Spelling <- TileText
  Worth <- TileWorth
  Premiums <- BoardPremiums
  Vocabulary <- BotWords
  OtherWords <- FurtherWords
  Racks <- DealtRacks
  RackSize = 3
  Bonus = 50
  MaxLaid = 3

  Letters <- Characters
  Lexicon <- Dic
  SuffixRules <- Endings
  PrefixRules <- Beginnings
  NeedAffix = fU
  OnlyInCompound = fO
  ForbiddenWord = fF
  Attested <- InUse
  WantedAdds <- BotEndings
  Lengthens <- Lengthening
  MaxForm = 4
  Looked <- LookedUp

  Emails = {e, f}
  Registrations = {r1, r2}
  MaxTries = 1
  MaxTyped = 1
  MaxFreed = 1

  Accounts = {account}
  Sockets = {s1, s2}
  Logins = {login}
  Moderators = {m1, m2}
  MaxSessions = 1

  AdminRequests = {q1, q2}
  IdleLimit = 4
  SudoLimit = 5
  TouchInterval = 2
  MaxTime = 10

  Keys = {key1, key2}
  Limited = {"login", "admin"}
  DefaultLimit <- Limits
  OverrideTables <- Overrides
  Callers = {r1, r2}
  PruneThreshold = 1
  MaxInstant = 3
  MaxCalls = 2

  People = {n1, n2, n3}
  Rooms = {room}
  MaxPlayers = 2
  MaxSpectators = 1
  MaxInvites = 1

  Branches = {main, dev}
  Commits = {0, 1}
  Precedes <- History
  SourceOf <- Sources
  Admins = {d1, d2}
  FirstBranch = main
  FirstCommit = 0

  FinishedGames = {g1, g2}
  Askers = {asker1, asker2}
  Jobs = {job1, job2}
  MaxTurnsLogged = 2

  Values = {0, 1}
  DefaultValue = 0
  Readers = {rd1, rd2}
  Changers = {ch1, ch2}
  Overtake = FALSE
CONSTRAINT FewEvents
INVARIANTS
  ListsFollow
  
  
  RankedByOwnTries
  SearchIsExact
  AnalysisIsExact
  FormsAreWords
  VerifiedOnce
  BanIsCarriedOut
  PasswordIsFresh
  RateIsKept
  CommunityAgrees
  
  RunningIsTrue
  SettingsInForce
CHECK_DEADLOCK FALSE
