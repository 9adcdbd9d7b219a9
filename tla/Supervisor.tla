----------------------------- MODULE Supervisor -----------------------------
(***************************************************************************)
(* The task supervisor (tasks/supervisor.py) over the rows of the tasks    *)
(* table (tasks/store.py): one process, its event loop, its semaphore of   *)
(* max_parallel slots, the calls of the API, the signal that shuts it down *)
(* (cli.py), a crash, and the recovery of the next start.                  *)
(*                                                                         *)
(* A coroutine of _run is first in the semaphore's queue and then in the   *)
(* agent loop.  What the loop does is its outcome only.                    *)
(***************************************************************************)
EXTENDS Naturals, Sequences, FiniteSets, Functions

CONSTANTS Tasks, MaxParallel

ASSUME SupervisorAssumption ==
  /\ IsFiniteSet(Tasks)
  /\ MaxParallel \in Nat \ {0}

Terminal == {"finished", "failed", "stopped"}
Active   == {"pending", "running", "blocked"}
Rows     == {"absent"} \cup Active \cup Terminal

VARIABLES
  up,          \* the process is running
  row,         \* tasks.state
  queue,       \* coroutines that wait for a slot, first come first
  loops,       \* loops[t]: coroutines of t that are in the agent loop
  slots,       \* free slots of the semaphore
  cancelling,  \* tasks whose coroutine was cancelled and has not run since
  asked,       \* history: tasks for which stop() returned True
  dropped      \* history: tasks whose last coroutine ended without a word

supervisorVars == <<up, row, queue, loops, slots, cancelling, asked, dropped>>

SupervisorTypeOK ==
  /\ up         \in BOOLEAN
  /\ row        \in [Tasks -> Rows]
  /\ queue      \in Seq(Tasks)
  /\ loops      \in [Tasks -> Nat]
  /\ slots      \in 0..MaxParallel
  /\ cancelling \in SUBSET Tasks
  /\ asked      \in SUBSET Tasks
  /\ dropped    \in SUBSET Tasks

SupervisorInit ==
  /\ up         = TRUE
  /\ row        = [t \in Tasks |-> "absent"]
  /\ queue      = <<>>
  /\ loops      = [t \in Tasks |-> 0]
  /\ slots      = MaxParallel
  /\ cancelling = {}
  /\ asked      = {}
  /\ dropped    = {}
-----------------------------------------------------------------------------
Queued(t)  == \E i \in DOMAIN queue : queue[i] = t
Looping(t) == loops[t] > 0
Live(t)    == Queued(t) \/ Looping(t)

\* Faults: a second coroutine for a task that has one; none at all.
LaunchAlways(t) == queue' = Append(queue, t) /\ dropped' = dropped \ {t}
LaunchNever(t) == UNCHANGED <<queue, dropped>>

\* _launch: nothing, if the task's coroutine is not done.
Launch(t) ==
  /\ queue'   = IF Live(t) THEN queue ELSE Append(queue, t)
  /\ dropped' = IF Live(t) THEN dropped ELSE dropped \ {t}

Submit(t) ==
  /\ up
  /\ row[t] = "absent"
  /\ row' = [row EXCEPT ![t] = "pending"]
  /\ Launch(t)
  /\ UNCHANGED <<up, loops, slots, cancelling, asked>>

Resumable(t) == row[t] \in {"blocked", "pending"}

Resume(t) ==
  /\ up
  /\ Resumable(t)
  /\ row' = [row EXCEPT ![t] = "pending"]
  /\ Launch(t)
  /\ UNCHANGED <<up, loops, slots, cancelling, asked>>

\* stop() returns True: it cancels the coroutine, or writes the row if there
\* is none.
CancelCoroutine(t) ==
  /\ Live(t)
  /\ cancelling' = cancelling \cup {t}
  /\ UNCHANGED row

WriteStopped(t) ==
  /\ ~Live(t)
  /\ row[t] \in Active
  /\ row' = [row EXCEPT ![t] = "stopped"]
  /\ UNCHANGED cancelling

Stop(t) ==
  /\ up
  /\ CancelCoroutine(t) \/ WriteStopped(t)
  /\ asked' = asked \cup {t}
  /\ UNCHANGED <<up, queue, loops, slots, dropped>>

\* Fault: the last one to come is served.
LastInLine == Len(queue)

NextInLine == 1
WithoutPlace(i) ==
  [j \in 1..(Len(queue) - 1) |-> queue[IF j < i THEN j ELSE j + 1]]

\* _run gets its slot.
Start(t) ==
  /\ up
  /\ slots > 0
  /\ queue # <<>> /\ t = queue[NextInLine]
  /\ t \notin cancelling
  /\ row'   = [row EXCEPT ![t] = "running"]
  /\ queue' = WithoutPlace(NextInLine)
  /\ loops' = [loops EXCEPT ![t] = @ + 1]
  /\ slots' = slots - 1
  /\ UNCHANGED <<up, cancelling, asked, dropped>>

\* The coroutine leaves "async with semaphore", by whichever way.
Leave(t) ==
  /\ loops' = [loops EXCEPT ![t] = @ - 1]
  /\ slots' = slots + 1

InLoop(t) == up /\ Looping(t) /\ t \notin cancelling

\* The agent loop returned; _apply_outcome writes what it returned.
Outcome(t) ==
  /\ InLoop(t)
  /\ \E s \in {"blocked", "finished", "failed"} : row' = [row EXCEPT ![t] = s]
  /\ Leave(t)
  /\ UNCHANGED <<up, queue, cancelling, asked, dropped>>

\* The agent loop raised something it does not expect: the exception stays in
\* the coroutine, which nobody awaits.
Raise(t) ==
  /\ InLoop(t)
  /\ Leave(t)
  /\ dropped' = dropped \cup {t}
  /\ UNCHANGED <<up, row, queue, cancelling, asked>>

\* The cancellation reaches the agent loop ...
CancelledInLoop(t) ==
  /\ up
  /\ t \in cancelling /\ Looping(t)
  /\ row' = [row EXCEPT ![t] = "stopped"]
  /\ Leave(t)
  /\ cancelling' = cancelling \ {t}
  /\ UNCHANGED <<up, queue, asked, dropped>>

\* ... or a coroutine that is still waiting for its slot, outside the try.
CancelledInQueue(t) ==
  /\ up
  /\ t \in cancelling
  /\ \E i \in DOMAIN queue : queue[i] = t /\ queue' = WithoutPlace(i)
  /\ cancelling' = cancelling \ {t}
  /\ dropped'    = dropped \cup {t}
  /\ UNCHANGED <<up, row, loops, slots, asked>>

Down ==
  /\ up
  /\ up'         = FALSE
  /\ queue'      = <<>>
  /\ loops'      = [t \in Tasks |-> 0]
  /\ slots'      = MaxParallel
  /\ cancelling' = {}
  /\ dropped'    = dropped \cup {t \in Tasks : Live(t)}
  /\ UNCHANGED asked

Crash == Down /\ UNCHANGED row

\* SIGTERM or Ctrl+C: _ask_to_stop cancels every coroutine of the event loop.
\* A running task whose cancellation is delivered before the database is
\* closed writes "stopped"; the others' rows are left as they are.
Shutdown ==
  /\ Down
  /\ \E T \in SUBSET {t \in Tasks : Looping(t)} :
       row' = [t \in Tasks |-> IF t \in T THEN "stopped" ELSE row[t]]

\* recover() of the next start: whatever is left in "running" is launched, in
\* the order of the rows.
LeftRunning == {t \in Tasks : row[t] = "running"}
Orders(S) == Bijection(1..Cardinality(S), S)

Recover ==
  /\ ~up
  /\ up' = TRUE
  /\ \E q \in Orders(LeftRunning) : queue' = q
  /\ dropped' = dropped \ LeftRunning
  /\ UNCHANGED <<row, loops, slots, cancelling, asked>>

SupervisorNext ==
  \/ \E t \in Tasks :
       \/ Submit(t) \/ Resume(t) \/ Stop(t) \/ Start(t) \/ Outcome(t)
       \/ Raise(t) \/ CancelledInLoop(t) \/ CancelledInQueue(t)
  \/ Crash
  \/ Shutdown
  \/ Recover

SupervisorSpec == SupervisorInit /\ [][SupervisorNext]_supervisorVars

\* The event loop runs what is ready, and the agent loop ends: its replans
\* are bounded and every call it awaits has a timeout.
SupervisorFairness ==
  \A t \in Tasks :
    /\ WF_supervisorVars(Start(t))
    /\ WF_supervisorVars(Outcome(t) \/ Raise(t) \/ CancelledInLoop(t))
    /\ WF_supervisorVars(CancelledInQueue(t))

SupervisorFairSpec == SupervisorSpec /\ SupervisorFairness
-----------------------------------------------------------------------------
\* A task never runs twice at once, however submits, resumes, stops, answers
\* and restarts interleave.
Waits(t) == Cardinality({i \in DOMAIN queue : queue[i] = t})
OneCoroutine == \A t \in Tasks : loops[t] + Waits(t) <= 1

\* Every way out of the agent loop gives its slot back, once.
SlotsReturned == slots + Cardinality({t \in Tasks : Looping(t)}) = MaxParallel

\* What the user was told about the end of a task stays true.
TerminalIsFinal ==
  [][\A t \in Tasks : row[t] \in Terminal => row'[t] = row[t]]_supervisorVars

\* A task that waits for the user has no coroutine: the answer's resume is
\* never swallowed by the check in _launch, and recovery does not ask again.
BlockedIsIdle == \A t \in Tasks : row[t] = "blocked" => ~Live(t)

\* A task that reads as accepted or running is, unless its coroutine ended in
\* one of the ways that write nothing.
OnlyDroppedIsLost ==
  up => \A t \in Tasks : row[t] \in {"pending", "running"} => Live(t) \/ t \in dropped

\* Whoever waits for a slot gets out of the queue: the tasks in front of it
\* end, and those that come later stay behind it.
QueueMoves == \A t \in Tasks : Queued(t) ~> ~Queued(t)

\* "PENDING: accepted, waiting for a slot": a pending task is in the queue.
PendingWaits == up => \A t \in Tasks : row[t] = "pending" => Live(t)

\* "STOPPED: user pulled the plug": nothing else stops a task for good.
StoppedByUser == \A t \in Tasks : row[t] = "stopped" => t \in asked
=============================================================================
