--------------------------------- MODULE Fleet ---------------------------------
(***************************************************************************)
(* The processes that work on one task table: `garis serve`, and the       *)
(* commands that build a GARIS of their own on the same database, do their *)
(* part and exit (cli.py, app.py).  Each has its own coroutines, which no  *)
(* other process knows of; Supervisor has what goes on in one.             *)
(***************************************************************************)
EXTENDS Naturals, FiniteSets

CONSTANTS
  Hosts,      \* processes that serve
  Terminals,  \* processes of commands
  Jobs        \* tasks

ASSUME FleetAssumption == Hosts \cap Terminals = {} /\ IsFiniteSet(Hosts \cup Terminals)

VARIABLES
  doing,    \* doing[p]: "off", "serving", "do" or "answer"
  waitsFor, \* waitsFor[p]: the tasks a command waits for
  work,     \* work[p][t]: "none", "queued" or "running", the coroutine of p for t
  entry,    \* entry[t]: tasks.state
  meddled   \* history: tasks a process has touched that another one worked on

fleetVars == <<doing, waitsFor, work, entry, meddled>>

Processes == Hosts \cup Terminals
Ended == {"finished", "failed", "stopped"}
Open == {"pending", "running", "blocked"}

FleetTypeOK ==
  /\ doing \in [Processes -> {"off", "serving", "do", "answer"}]
  /\ waitsFor \in [Processes -> SUBSET Jobs]
  /\ work \in [Processes -> [Jobs -> {"none", "queued", "running"}]]
  /\ entry \in [Jobs -> {"absent"} \cup Open \cup Ended]
  /\ meddled \subseteq Jobs

NoWork == [t \in Jobs |-> "none"]
FleetInit ==
  /\ doing = [p \in Processes |-> "off"] /\ waitsFor = [p \in Processes |-> {}]
  /\ work = [p \in Processes |-> NoWork] /\ entry = [t \in Jobs |-> "absent"]
  /\ meddled = {}
-----------------------------------------------------------------------------
Workers(t) == {p \in Processes : work[p][t] # "none"}
Meddles(p, T) == meddled' = meddled \cup {t \in T : Workers(t) \ {p} # {}}

\* _launch(): the process knows of its own coroutines only.
Launched(p, T) ==
  work' = [work EXCEPT ![p] = [t \in Jobs |->
             IF t \in T /\ @[t] = "none" THEN "queued" ELSE @[t]]]
Enter(t, s) == entry' = [entry EXCEPT ![t] = s]

\* recover_incomplete()
LeftRunning == {t \in Jobs : entry[t] = "running"}

\* cmd_serve: recovery first, then the providers, then the API.
Serve(p) ==
  /\ p \in Hosts /\ doing[p] = "off"
  /\ doing' = [doing EXCEPT ![p] = "serving"]
  /\ Launched(p, LeftRunning) /\ Meddles(p, LeftRunning)
  /\ UNCHANGED <<waitsFor, entry>>

\* submit(), for the API or for a command that goes on to wait.
Accept(p, t) ==
  /\ entry[t] = "absent" /\ Enter(t, "pending")
  /\ Launched(p, {t})
  /\ UNCHANGED meddled

Submit(p, t) == doing[p] = "serving" /\ Accept(p, t) /\ UNCHANGED <<doing, waitsFor>>

Command(p, what, t) ==
  /\ p \in Terminals /\ doing[p] = "off"
  /\ doing' = [doing EXCEPT ![p] = what]
  /\ waitsFor' = [waitsFor EXCEPT ![p] = {t}]

\* cmd_do
Do(p, t) == Command(p, "do", t) /\ Accept(p, t)

\* resume(), after an answer from the window or from the command line.
Reenter(p, t) ==
  /\ entry[t] \in {"blocked", "pending"} /\ Enter(t, "pending")
  /\ Launched(p, {t}) /\ Meddles(p, {t})

Resume(p, t) == doing[p] = "serving" /\ Reenter(p, t) /\ UNCHANGED <<doing, waitsFor>>

\* cmd_approve, cmd_reject
Answer(p, t) == Command(p, "answer", t) /\ Reenter(p, t)

\* Fault: stop() writes the row, whether or not it has a coroutine to cancel.
NothingToCancel(p, t) == TRUE
NoCoroutine(p, t) == work[p][t] = "none"

\* stop() of the API: it cancels the coroutine, which writes the row, ...
CancelOwn(p, t) ==
  /\ doing[p] = "serving" /\ work[p][t] # "none"
  /\ work' = [work EXCEPT ![p][t] = "none"]
  /\ IF work[p][t] = "running" THEN Enter(t, "stopped") ELSE UNCHANGED entry
  /\ Meddles(p, {t})
  /\ UNCHANGED <<doing, waitsFor>>

\* ... or it has none, and writes the row itself.  cmd_stop never has one, and
\* exits.
StopRow(p, t) ==
  /\ (doing[p] = "serving" \/ (p \in Terminals /\ doing[p] = "off"))
  /\ NoCoroutine(p, t) /\ entry[t] \in Open
  /\ Enter(t, "stopped") /\ Meddles(p, {t})
  /\ UNCHANGED <<doing, waitsFor, work>>

\* _run(): whatever the row says by then, it says "running" now; ...
Run(p, t) ==
  /\ work[p][t] = "queued"
  /\ work' = [work EXCEPT ![p][t] = "running"]
  /\ Enter(t, "running")
  /\ UNCHANGED <<doing, waitsFor, meddled>>

\* ... and _apply_outcome() writes what the loop returned.
Return(p, t) ==
  /\ work[p][t] = "running"
  /\ work' = [work EXCEPT ![p][t] = "none"]
  /\ \E s \in {"blocked", "finished", "failed"} : Enter(t, s)
  /\ UNCHANGED <<doing, waitsFor, meddled>>

\* A command ends: the database is closed, then its coroutines are cancelled.
Exit(p) ==
  /\ doing' = [doing EXCEPT ![p] = "off"]
  /\ waitsFor' = [waitsFor EXCEPT ![p] = {}]
  /\ work' = [work EXCEPT ![p] = NoWork]

\* wait() returns; without an end, after the timeout of `garis do`.
Reported(p, t) ==
  /\ t \in waitsFor[p] /\ entry[t] \notin {"pending", "running"}
  /\ Exit(p)
  /\ UNCHANGED <<entry, meddled>>

\* "Nadal pracuję", says the command, and its process ends with the work in it.
StillWorking(p, t) ==
  /\ doing[p] = "do" /\ t \in waitsFor[p] /\ entry[t] \in {"pending", "running"}
  /\ Exit(p)
  /\ UNCHANGED <<entry, meddled>>

\* A signal cancels every coroutine of a server, and one in the loop writes
\* "stopped"; a command closes the database first.  Or the process is killed.
Interrupted(p) ==
  /\ doing[p] # "off"
  /\ \E T \in SUBSET {t \in Jobs : doing[p] = "serving" /\ work[p][t] = "running"} :
       /\ entry' = [t \in Jobs |-> IF t \in T THEN "stopped" ELSE entry[t]]
       /\ Meddles(p, T)
  /\ Exit(p)

FleetNext ==
  \E p \in Processes :
    \/ Serve(p) \/ Interrupted(p)
    \/ \E t \in Jobs :
         \/ Submit(p, t) \/ Do(p, t) \/ Resume(p, t) \/ Answer(p, t)
         \/ CancelOwn(p, t) \/ StopRow(p, t) \/ Run(p, t) \/ Return(p, t)
         \/ Reported(p, t) \/ StillWorking(p, t)

FleetSpec == FleetInit /\ [][FleetNext]_fleetVars
-----------------------------------------------------------------------------
\* As long as no process touches a task that another one works on - stops it,
\* answers for it, recovers it - its work is done by one process, and what was
\* said about its end stays true (supervisor.py:110-121, 185-197).
AloneUnlessMeddled ==
  \A t \in Jobs \ meddled :
    /\ Cardinality(Workers(t)) <= 1
    /\ entry[t] \in Ended => Workers(t) = {}
=============================================================================
