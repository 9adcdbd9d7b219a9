\* Three operations; the planner reuses a key for another operation.
CONSTANTS
  Ops = {"opA", "opB", "opC"}
  Plans <- ShiftingPlans
  MaxReplans = 1
  Attempts = 1
  MaxInterrupts = 1
SPECIFICATION AgentLoopSpec
CHECK_DEADLOCK FALSE
INVARIANT EvidenceIsTrue
