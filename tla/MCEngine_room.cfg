\* Three tasks and two keys, no nested action; three tasks and one slot; three
\* operations, one of them optional, each with its own key.
CONSTANTS
  t1 = t1  t2 = t2  n1 = n1  n2 = n2
  Calls = {c1, c2, c3}
  Holders = {c1, c2, c3}
  Keys = {k1, k2}
  NoHolder = NoHolder
  NoCall = NoCall
  HolderOf <- FlatHolderOf
  Outer <- FlatOuter
  Tasks = {t1, t2, t3}
  MaxParallel = 1
  Ops = {"opA", "opB", "opC"}
  Plans <- SteadyPlans
  MaxReplans = 2
  Attempts = 2
  MaxInterrupts = 2
SPECIFICATION EngineSpec
INVARIANTS
  Exclusion
  NoLostWakeup
  OneCoroutine
  OnlyDroppedIsLost
  OnceUnlessUnjournaled
  EvidenceIsTrue
  DoneIsComplete
PROPERTIES
  ImplementsReadersWriters
  SleepersWake
  QueueMoves
  LivesEnd
CHECK_DEADLOCK FALSE
