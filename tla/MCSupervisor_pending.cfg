\* Two tasks, one slot.
CONSTANTS
  Tasks = {t1, t2}
  MaxParallel = 1
SPECIFICATION SupervisorSpec
INVARIANT PendingWaits
