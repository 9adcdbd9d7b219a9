------------------------------ MODULE AgentLoop -----------------------------
(***************************************************************************)
(* One task in the agent loop (agent/loop.py) over its journal (the rows   *)
(* of task_steps, tasks/store.py): plan, perform each step, repair the     *)
(* plan, verify; parked by a question, interrupted by a crash, and started *)
(* over by a resume or a recovery.                                         *)
(*                                                                         *)
(* A life of the task is one call of AgentLoop.run.  It always asks the    *)
(* planner for a plan; only the journal tells it what earlier lives did.   *)
(* A key is the sequence of a name and of the suffixes rekey has added:    *)
(* <<"a">> is "a", <<"a", 2>> is "a-2".                                    *)
(***************************************************************************)
EXTENDS Naturals, Sequences, FiniteSets

CONSTANTS
  Ops,            \* operations: a tool with its parameters
  Plans,          \* the plans the planner may write
  MaxReplans,     \* MAX_REPLANS
  Attempts,       \* autonomy.max_repair_attempts
  MaxInterrupts   \* bounds the crashes

\* A step of a plan; a name may be followed by numbers, see Rekeyed.
PlanSteps == [key : Seq(STRING \cup Nat), op : Ops, optional : BOOLEAN]

ASSUME AgentLoopAssumption ==
  /\ Plans \subseteq Seq(PlanSteps)
  /\ MaxReplans \in Nat
  /\ Attempts \in Nat \ {0}
  /\ MaxInterrupts \in Nat

StepStates == {"pending", "running", "done", "failed"}
Parked     == {"blocked", "done", "failed"}
Stages     == {"down", "thinking", "working", "performing", "performed",
               "repairing", "verifying"} \cup Parked

VARIABLES
  journal,     \* task_steps.state, by key
  stage,       \* where the loop stands
  plan,
  index,
  completed,   \* the keys that were done when this life began
  evidence,
  replans,
  attempt,
  interrupts,  \* crashes so far
  runs,        \* history: how often each operation succeeded
  unjournaled  \* history: successes a crash kept from the journal

life     == <<plan, index, completed, evidence, replans, attempt>>
history  == <<runs, unjournaled>>
loopVars == <<journal, stage, life, interrupts, history>>

AgentLoopTypeOK ==
  /\ \A k \in DOMAIN journal : journal[k] \in StepStates
  /\ stage       \in Stages
  /\ \A i \in DOMAIN plan : plan[i].op \in Ops
  /\ index       \in 1..(Len(plan) + 1)
  /\ completed   \subseteq DOMAIN journal
  /\ replans     \in 0..MaxReplans
  /\ attempt     \in 1..Attempts
  /\ interrupts  \in 0..MaxInterrupts
  /\ runs        \in [Ops -> Nat]
  /\ unjournaled \in [Ops -> Nat]

AgentLoopInit ==
  /\ journal     = <<>>
  /\ stage       = "thinking"
  /\ plan        = <<>>
  /\ index       = 1
  /\ completed   = {}
  /\ evidence    = <<>>
  /\ replans     = 0
  /\ attempt     = 1
  /\ interrupts  = 0
  /\ runs        = [o \in Ops |-> 0]
  /\ unjournaled = [o \in Ops |-> 0]
-----------------------------------------------------------------------------
\* Fault: the keys stay as the planner wrote them.
AsWritten(steps) == steps

\* Plan.rekey: a step whose key an earlier step has gets a suffix.
Rekeyed(steps) ==
  [i \in DOMAIN steps |->
     LET same == {j \in 1..(i - 1) : steps[j].key = steps[i].key} IN
     IF same = {} THEN steps[i]
     ELSE [steps[i] EXCEPT !.key = Append(@, Cardinality(same) + 1)]]

Step == plan[index]
Journaled(k, s) ==
  [j \in DOMAIN journal \cup {k} |-> IF j = k THEN s ELSE journal[j]]

\* Fault: the journal is not consulted.
NothingDone == {}

\* completed_steps
Done == {k \in DOMAIN journal : journal[k] = "done"}

\* What a step leaves behind for the verifier.  "skipped": it failed and was
\* optional.
Ok(op)      == [op |-> op, result |-> "ok"]
Skipped(op) == [op |-> op, result |-> "skipped"]
Failed(op)  == [op |-> op, result |-> "failed"]

Goes(s) == stage' = s

\* The plan has steps: work begins.
MakePlan ==
  /\ stage = "thinking"
  /\ \E p \in Plans :
       /\ p # <<>>
       /\ plan' = Rekeyed(p)
  /\ index'     = 1
  /\ completed' = Done
  /\ evidence'  = <<>>
  /\ replans'   = 0
  /\ attempt'   = 1
  /\ Goes("working")
  /\ UNCHANGED <<journal, interrupts, history>>

\* No model or a question to the user; or the planner fails.
NoPlan ==
  /\ stage = "thinking"
  /\ Goes("blocked") \/ Goes("failed")
  /\ UNCHANGED <<journal, life, interrupts, history>>

\* "Already done in an earlier life of this task."
SkipStep ==
  /\ stage = "working"
  /\ index <= Len(plan)
  /\ Step.key \in completed
  /\ evidence' = Append(evidence, Ok(Step.op))
  /\ index'    = index + 1
  /\ UNCHANGED <<journal, stage, plan, completed, replans, attempt, interrupts, history>>

StepStarted ==
  /\ stage = "working"
  /\ index <= Len(plan)
  /\ Step.key \notin completed
  /\ journal' = Journaled(Step.key, "running")
  /\ attempt' = 1
  /\ Goes("performing")
  /\ UNCHANGED <<plan, index, completed, evidence, replans, interrupts, history>>

\* Runtime.perform returned a success, which nothing has written down yet.
Succeed ==
  /\ stage = "performing"
  /\ runs' = [runs EXCEPT ![Step.op] = @ + 1]
  /\ Goes("performed")
  /\ UNCHANGED <<journal, life, interrupts, unjournaled>>

\* A failure that may be retried in place.
RetryStep ==
  /\ stage = "performing"
  /\ attempt < Attempts
  /\ attempt' = attempt + 1
  /\ UNCHANGED <<journal, stage, plan, index, completed, evidence, replans,
                 interrupts, history>>

\* ApprovalRequired parks the task; a denial fails it.  The step's row stays
\* "running" either way.
ParkStep ==
  /\ stage = "performing"
  /\ Goes("blocked") \/ Goes("failed")
  /\ UNCHANGED <<journal, life, interrupts, history>>

StepFinished ==
  /\ stage = "performed"
  /\ journal'  = Journaled(Step.key, "done")
  /\ evidence' = Append(evidence, Ok(Step.op))
  /\ index'    = index + 1
  /\ Goes("working")
  /\ UNCHANGED <<plan, completed, replans, attempt, interrupts, history>>

SkipOptional ==
  /\ Step.optional
  /\ evidence' = Append(evidence, Skipped(Step.op))
  /\ index'    = index + 1
  /\ Goes("working")
  /\ UNCHANGED replans

\* Fault: a replan does not use up the budget.
AskAgain ==
  /\ ~Step.optional
  /\ replans < MaxReplans
  /\ Goes("repairing")
  /\ UNCHANGED <<replans, evidence, index>>

AskForRepair ==
  /\ ~Step.optional
  /\ replans < MaxReplans
  /\ replans' = replans + 1
  /\ Goes("repairing")
  /\ UNCHANGED <<evidence, index>>

GivesUp ==
  /\ evidence' = Append(evidence, Failed(Step.op))
  /\ Goes("verifying")
  /\ UNCHANGED <<index, replans>>

\* The last attempt failed, or the failure is not one to retry.
StepFails ==
  /\ stage = "performing"
  /\ journal' = Journaled(Step.key, "failed")
  /\ \/ SkipOptional
     \/ AskForRepair
     \/ ~Step.optional /\ replans = MaxReplans /\ GivesUp
  /\ UNCHANGED <<plan, completed, attempt, interrupts, history>>

\* The planner is told which steps are not to be repeated, and is taken to
\* obey; what it writes replaces the rest of the plan.
Prefix == SubSeq(plan, 1, index - 1)
Repairs ==
  {p \in Plans : \A i \in DOMAIN p, j \in 1..(index - 1) : p[i].op # plan[j].op}

Repair ==
  /\ stage = "repairing"
  /\ \E p \in Repairs \ {<<>>} : plan' = Rekeyed(Prefix \o p)
  /\ Goes("working")
  /\ UNCHANGED <<journal, index, completed, evidence, replans, attempt,
                 interrupts, history>>

NoRepair ==
  /\ stage = "repairing"
  /\ GivesUp
  /\ UNCHANGED <<journal, plan, completed, attempt, interrupts, history>>

EndOfPlan ==
  /\ stage = "working"
  /\ index > Len(plan)
  /\ Goes("verifying")
  /\ UNCHANGED <<journal, life, interrupts, history>>

\* Fault: it is enough that nothing failed.
NothingFailed == \A i \in DOMAIN evidence : evidence[i].result # "failed"

\* Something ran, and nothing required failed; then it is the verifier's call.
MayBeDone ==
  /\ \E i \in DOMAIN evidence : evidence[i].result = "ok"
  /\ \A i \in DOMAIN evidence : evidence[i].result # "failed"

Verify ==
  /\ stage = "verifying"
  /\ (MayBeDone /\ Goes("done")) \/ Goes("failed")
  /\ UNCHANGED <<journal, life, interrupts, history>>

\* The user's answer or a call of resume starts a new life.
ResumeLife ==
  /\ stage = "blocked"
  /\ Goes("thinking")
  /\ UNCHANGED <<journal, life, interrupts, history>>

\* The process dies, or something unexpected is raised out of the loop.
Interrupt ==
  /\ stage \notin Parked \cup {"down"}
  /\ interrupts < MaxInterrupts
  /\ interrupts' = interrupts + 1
  /\ unjournaled' = IF stage = "performed"
                    THEN [unjournaled EXCEPT ![Step.op] = @ + 1] ELSE unjournaled
  /\ Goes("down")
  /\ UNCHANGED <<journal, life, runs>>

\* recover(): the step that was running is to be done again.
ResetRunning ==
  [k \in DOMAIN journal |-> IF journal[k] = "running" THEN "pending" ELSE journal[k]]

RecoverLife ==
  /\ stage = "down"
  /\ journal' = ResetRunning
  /\ Goes("thinking")
  /\ UNCHANGED <<life, interrupts, history>>

Works ==
  \/ MakePlan \/ NoPlan \/ SkipStep \/ StepStarted \/ Succeed \/ RetryStep
  \/ ParkStep \/ StepFinished \/ StepFails \/ Repair \/ NoRepair \/ EndOfPlan
  \/ Verify

AgentLoopNext == Works \/ ResumeLife \/ Interrupt \/ RecoverLife

AgentLoopSpec == AgentLoopInit /\ [][AgentLoopNext]_loopVars

\* Every call the loop awaits returns: handlers and model calls have
\* timeouts.  The user need not answer.
AgentLoopFairSpec == AgentLoopSpec /\ WF_loopVars(Works)
-----------------------------------------------------------------------------
\* "does not repeat completed work": an operation succeeds once, and again
\* only after a crash between its success and its row in the journal.
OnceUnlessUnjournaled == \A o \in Ops : runs[o] <= 1 + unjournaled[o]

\* A step is only reported as done if its operation has succeeded, in this
\* life or an earlier one ("Already done in an earlier life of this task").
EvidenceIsTrue ==
  \A i \in DOMAIN evidence : evidence[i].result = "ok" => runs[evidence[i].op] > 0

\* "Fail closed": a task is done when every required step of its plan is noted
\* as succeeded, and something has really happened.
DoneIsComplete ==
  stage = "done" =>
    /\ Len(evidence) = Len(plan)
    /\ \A i \in DOMAIN plan : evidence[i].result = "ok" \/ plan[i].optional
    /\ \E o \in Ops : runs[o] > 0

\* Every life ends: retries and replans are bounded.
LivesEnd == stage \notin Parked \cup {"down"} ~> stage \in Parked \cup {"down"}
=============================================================================
