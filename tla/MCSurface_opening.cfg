\* One loop, one change of each kind.
CONSTANTS
  QueueSize = 2
  WireSize = 1
  MaxVersions = 3
  MaxLoops = 1
  MaxRefreshes = 2
SPECIFICATION SurfaceSpec
INVARIANT ShowsWhetherItWorks
CHECK_DEADLOCK FALSE
