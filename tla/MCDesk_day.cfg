SPECIFICATION DeskSpec
CONSTANTS
  MaxWrites = 2
  Messages = {m, n}
  Window = 1
  Hour = 1
  Cap = 1
  RecentSize = 2
  DeliveredSize = 2
  ReleaseLimit = 1
  MaxNotices = 3
  MaxClock = 2
  BargeIn = 2
  EndOfTurn = 2
  WakeWindow = 3
  MaxAge = 3
  MaxPieces = 2
  QueueSize = 2
  WireSize = 1
  MaxVersions = 3
  MaxLoops = 1
  MaxRefreshes = 2
INVARIANTS
  WithinTheLimit
  OnlyRestartsLose
  TurnIsOneHearing
  QuietWindowIsTrue
PROPERTIES
  EditsArrive
  ListeningEnds
  WindowCatchesUp
CHECK_DEADLOCK FALSE
