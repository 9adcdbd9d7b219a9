\* One act, three callers of two processes; three events, two tasks; two
\* memories and a secret in two processes; three tasks that ask the user, two
\* of them about the same operation.
SPECIFICATION KernelSpec
CONSTANTS
  p1 = p1
  p2 = p2
  c1 = c1
  c2 = c2
  c3 = c3
  Ids = {act}
  Arguments = {these, those}
  Callers = {c1, c2, c3}
  Processes <- MCProcesses
  ProcessOf <- MCProcessOf
  Engines <- MCProcesses
  Writers <- MCService
  Hosts <- MCService
  Tasks = {u1, u2}
  t1 = t1  t2 = t2  t3 = t3  o1 = o1  o2 = o2
  Askers = {t1, t2, t3}
  Fingerprints = {o1, o2}
  OpOf <- SharedOp
  Questions = {r1, r2, r3}
  NoQuestion = NoQuestion
  NoOp = NoOp
  MaxAnswers = 3
  MaxEvents = 3
  MaxTime = 2
  MaxHanded = 3
  MaxLost = 1
  Limit = 2
  QueueSize = 2
  Machines <- MCProcesses
  Windows <- MCService
  Memories = {m1, m2}
  Secretive = {n1}
  NoMemory = NoMemory
  MaxKeys = 2
SYMMETRY Symmetry
INVARIANTS
  AtMostOnce
  RowsAreTrue
  StrandedIsNamed
  PublishedIsTold
  PositionsRise
  NewsIsInOrder
  ForgottenStays
  ReadableUnlessRaced
  OneYesOneRun
  OneLiveMatter
  SoleAskerIsAsked
CHECK_DEADLOCK FALSE
