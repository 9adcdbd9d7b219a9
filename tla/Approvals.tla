----------------------------- MODULE Approvals ------------------------------
(***************************************************************************)
(* The approval gate: the broker's table (runtime/approvals.py), step 4 of *)
(* Runtime.perform (runtime/executor.py), the API's answer to a question   *)
(* (api/server.py) and what becomes of the tasks that asked.               *)
(*                                                                         *)
(* A task performs one operation that the policy wants confirmed.  The     *)
(* operation is the fingerprint of the action (tool, parameters, target);  *)
(* it does not contain the task, so two tasks may share one.  The engine   *)
(* may crash and recover at any moment: the table survives, the tasks in   *)
(* flight start their step over, the blocked ones stay blocked.            *)
(***************************************************************************)
EXTENDS Naturals, FiniteSets

CONSTANTS
  Askers,      \* tasks
  Fingerprints,
  OpOf,        \* OpOf[t]: the operation task t performs
  Questions,   \* approval ids; bounds how many questions are asked
  NoQuestion, NoOp,
  MaxAnswers   \* bounds how many answers are given

ASSUME ApprovalsAssumption ==
  /\ OpOf \in [Askers -> Fingerprints]
  /\ NoQuestion \notin Questions
  /\ NoOp \notin Fingerprints
  /\ MaxAnswers \in Nat

RowStates == {"absent", "pending", "approved", "denied"}
Standings == {"new", "working", "cleared", "handling", "blocked", "over"}

VARIABLES
  state,       \* approvals.state, "absent" while there is no such row
  op,          \* approvals.fingerprint
  owner,       \* approvals.task_id
  consumed,    \* approvals.consumed
  resolvedAt,  \* approvals.resolved_at, as the number of the answer
  answers,     \* number of answers so far
  place,       \* where the task stands
  under,       \* the row whose yes the task has spent for the run it is in
  started,     \* history: handler runs started under each row
  saidYes      \* history: rows the user ever answered with yes

table        == <<state, op, owner, consumed, resolvedAt, answers>>
askHistory   == <<started, saidYes>>
approvalVars == <<table, place, under, askHistory>>

ApprovalsTypeOK ==
  /\ state      \in [Questions -> RowStates]
  /\ op         \in [Questions -> Fingerprints \cup {NoOp}]
  /\ owner      \in [Questions -> Askers \cup {NoQuestion}]
  /\ consumed   \in [Questions -> BOOLEAN]
  /\ resolvedAt \in [Questions -> Nat]
  /\ answers    \in Nat
  /\ place      \in [Askers -> Standings]
  /\ under      \in [Askers -> Questions \cup {NoQuestion}]
  /\ started    \in [Questions -> Nat]
  /\ saidYes    \in SUBSET Questions

ApprovalsInit ==
  /\ state      = [r \in Questions |-> "absent"]
  /\ op         = [r \in Questions |-> NoOp]
  /\ owner      = [r \in Questions |-> NoQuestion]
  /\ consumed   = [r \in Questions |-> FALSE]
  /\ resolvedAt = [r \in Questions |-> 0]
  /\ answers    = 0
  /\ place      = [t \in Askers |-> "new"]
  /\ under      = [t \in Askers |-> NoQuestion]
  /\ started    = [r \in Questions |-> 0]
  /\ saidYes    = {}
-----------------------------------------------------------------------------
\* denied_for and granted_for read the unspent answers to an operation.
Unspent(o, s) == {r \in Questions : state[r] = s /\ op[r] = o /\ ~consumed[r]}
Latest(R) == {r \in R : \A q \in R : resolvedAt[q] <= resolvedAt[r]}
PendingFor(o) == {r \in Questions : state[r] = "pending" /\ op[r] = o}

SubmitAsker(t) ==
  /\ place[t] = "new"
  /\ place' = [place EXCEPT ![t] = "working"]
  /\ UNCHANGED <<table, under, askHistory>>

\* An unspent no for the operation: it is spent, and the task fails.
Refuse(t) ==
  /\ place[t] = "working"
  /\ \E r \in Latest(Unspent(OpOf[t], "denied")) :
       consumed' = [consumed EXCEPT ![r] = TRUE]
  /\ place' = [place EXCEPT ![t] = "over"]
  /\ UNCHANGED <<state, op, owner, resolvedAt, answers, under, askHistory>>

\* Fault: the yes is not spent.
ClearKeepingYes(t) ==
  /\ place[t] = "working"
  /\ Unspent(OpOf[t], "denied") = {}
  /\ \E r \in Latest(Unspent(OpOf[t], "approved")) : under' = [under EXCEPT ![t] = r]
  /\ place' = [place EXCEPT ![t] = "cleared"]
  /\ UNCHANGED <<table, askHistory>>

\* No unspent no, and an unspent yes: it is spent before the lease is asked
\* for and before the handler runs.
Clear(t) ==
  /\ place[t] = "working"
  /\ Unspent(OpOf[t], "denied") = {}
  /\ \E r \in Latest(Unspent(OpOf[t], "approved")) :
       /\ consumed' = [consumed EXCEPT ![r] = TRUE]
       /\ under' = [under EXCEPT ![t] = r]
  /\ place' = [place EXCEPT ![t] = "cleared"]
  /\ UNCHANGED <<state, op, owner, resolvedAt, answers, askHistory>>

\* A row for a new question.
OpenQuestion(r, t) ==
  /\ state[r] = "absent"
  /\ state' = [state EXCEPT ![r] = "pending"]
  /\ op'    = [op EXCEPT ![r] = OpOf[t]]
  /\ owner' = [owner EXCEPT ![r] = t]

\* Fault: every task opens a question of its own.
AskAnew(t) ==
  /\ place[t] = "working"
  /\ Unspent(OpOf[t], "denied") = {}
  /\ Unspent(OpOf[t], "approved") = {}
  /\ \E r \in Questions : OpenQuestion(r, t)
  /\ place' = [place EXCEPT ![t] = "blocked"]
  /\ UNCHANGED <<consumed, resolvedAt, answers, under, askHistory>>

\* No unspent answer: join the question already open for the operation, or
\* open one, and park the task.
Ask(t) ==
  /\ place[t] = "working"
  /\ Unspent(OpOf[t], "denied") = {}
  /\ Unspent(OpOf[t], "approved") = {}
  /\ \/ PendingFor(OpOf[t]) # {} /\ UNCHANGED <<state, op, owner>>
     \/ PendingFor(OpOf[t]) = {} /\ \E r \in Questions : OpenQuestion(r, t)
  /\ place' = [place EXCEPT ![t] = "blocked"]
  /\ UNCHANGED <<consumed, resolvedAt, answers, under, askHistory>>

\* The lease is there and the handler starts.
StartHandler(t) ==
  /\ place[t] = "cleared"
  /\ place' = [place EXCEPT ![t] = "handling"]
  /\ started'  = [started EXCEPT ![under[t]] = @ + 1]
  /\ UNCHANGED <<table, under, saidYes>>

\* The call of perform is over: lease timeout or missing secret before the
\* handler, success, failure or timeout after it.  The loop tries the same
\* action again, or the task ends.
PerformReturns(t) ==
  /\ place[t] \in {"cleared", "handling"}
  /\ \E p \in {"working", "over"} : place' = [place EXCEPT ![t] = p]
  /\ under' = [under EXCEPT ![t] = NoQuestion]
  /\ UNCHANGED <<table, askHistory>>

\* Fault: the task is not resumed.
ResumedNever(t) == place

\* resume(): only a blocked task goes back to work.
Resumed(t) ==
  IF place[t] = "blocked" THEN [place EXCEPT ![t] = "working"] ELSE place

\* POST /api/approvals/{id}: resolve, whatever the row's state, then resume
\* the task that opened the question.
AnswerQuestion(r, approved) ==
  /\ state[r] # "absent"
  /\ answers < MaxAnswers
  /\ answers'    = answers + 1
  /\ resolvedAt' = [resolvedAt EXCEPT ![r] = answers + 1]
  /\ state'      = [state EXCEPT ![r] = IF approved THEN "approved" ELSE "denied"]
  /\ place'      = Resumed(owner[r])
  /\ saidYes'    = IF approved THEN saidYes \cup {r} ELSE saidYes
  /\ UNCHANGED <<op, owner, consumed, under, started>>

\* POST /api/tasks/{id}/resume.
ResumeAsker(t) ==
  /\ place[t] = "blocked"
  /\ place' = Resumed(t)
  /\ UNCHANGED <<table, under, askHistory>>

StopAsker(t) ==
  /\ place[t] \in {"working", "cleared", "handling", "blocked"}
  /\ place' = [place EXCEPT ![t] = "over"]
  /\ under' = [under EXCEPT ![t] = NoQuestion]
  /\ UNCHANGED <<table, askHistory>>

\* The process dies and is started again: recover() relaunches what was
\* running, which plans and performs its step from the beginning.
CrashOfEngine ==
  /\ place' = [t \in Askers |-> IF place[t] \in {"cleared", "handling"}
                               THEN "working" ELSE place[t]]
  /\ under' = [t \in Askers |-> NoQuestion]
  /\ UNCHANGED <<table, askHistory>>

ApprovalsNext ==
  \/ \E t \in Askers :
       \/ SubmitAsker(t) \/ Refuse(t) \/ Clear(t) \/ Ask(t) \/ StartHandler(t)
       \/ PerformReturns(t) \/ ResumeAsker(t) \/ StopAsker(t)
  \/ \E r \in Questions, approved \in BOOLEAN : AnswerQuestion(r, approved)
  \/ CrashOfEngine

ApprovalsSpec == ApprovalsInit /\ [][ApprovalsNext]_approvalVars
-----------------------------------------------------------------------------
\* "One yes authorises exactly one execution of exactly this operation": no
\* row authorises two runs of a handler, none without the user's yes, and a
\* task only runs under a yes to its own operation.
OneYesOneRun ==
  /\ \A r \in Questions : started[r] > 0 => started[r] = 1 /\ r \in saidYes
  /\ \A t \in Askers : place[t] \in {"cleared", "handling"} => op[under[t]] = OpOf[t]

\* Between a question being opened and its answer being spent, the operation
\* has no second question and no second answer.
LiveMatters(o) == PendingFor(o) \cup Unspent(o, "approved") \cup Unspent(o, "denied")
OneLiveMatter ==
  \A o \in Fingerprints, r, q \in Questions :
    r \in LiveMatters(o) /\ q \in LiveMatters(o) => r = q

\* "Anything BLOCKED ... is correctly waiting for the user": a task that waits
\* waits for an answer that can still come, to a question whose answer resumes
\* it.
IsAsked(t) == \E r \in PendingFor(OpOf[t]) : owner[r] = t
BlockedIsAsked == \A t \in Askers : place[t] = "blocked" => IsAsked(t)

\* The same for the tasks whose operation no other task performs: neither a
\* crash, a resume by hand nor a late answer leaves them waiting for nothing.
SoleAskerIsAsked ==
  \A t \in Askers : place[t] = "blocked" =>
    IsAsked(t) \/ \E u \in Askers \ {t} : OpOf[u] = OpOf[t]
=============================================================================
