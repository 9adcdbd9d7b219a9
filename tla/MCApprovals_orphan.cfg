\* Two tasks with the same operation.
CONSTANTS
  t1 = t1  t2 = t2  t3 = t3  o1 = o1  o2 = o2
  Askers = {t1, t2}
  Fingerprints = {o1, o2}
  OpOf <- SharedOp
  Questions = {r1, r2, r3}
  NoQuestion = NoQuestion  NoOp = NoOp
  MaxAnswers = 3
SYMMETRY QuestionSymmetry
SPECIFICATION ApprovalsSpec
CHECK_DEADLOCK FALSE
INVARIANT BlockedIsAsked
