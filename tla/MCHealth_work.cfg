\* One provider, a good key and a bad one, one call.
CONSTANTS
  Names = {n1}
  Keys = {good, bad}
  GoodKeys = {good}
  Calls = {c1}
  NoKey = NoKey
  Nothing = Nothing
SPECIFICATION FairSpec
INVARIANTS KnownIsCurrent
PROPERTIES GuiltIsKept ChangesAreTakenUp HealthyIsUsedAgain
CHECK_DEADLOCK FALSE
