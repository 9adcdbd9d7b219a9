# GARIS: a verification project

TLA+ models of the engine of GARIS (`src/core/src/garis`) and of what its window
shows (`src/apps/desktop/src/lib`), TLC configurations that check them on small
instances, and TLAPS proofs of what matters most for every instance. Paths below
are relative to `src/core/src/garis` unless they start with another directory of
the repository.

## 1. The system

GARIS is an agent that runs on one computer. The engine is one Python process
with one asyncio event loop and one SQLite database. What a person says is
either answered or becomes a *task*; a coroutine per task runs the *agent loop*,
which asks a planner (rules first, then a language model) for a plan and performs
its steps through the *runtime*: every action is resolved, validated, judged by
the policy, possibly confirmed by the user, given the resources it names, and
executed. A desktop window talks to the engine over HTTP and a websocket; the
shell starts the engine and supervises it. The commands of `garis` are further
processes on the same database and the same files.

| Component | State | Operations | Talks to |
|---|---|---|---|
| `runtime/leases.py` | readers and writer per resource key, a change-signal per key | `acquire` (loop, wait, timeout), `release` | called by the executor (steps 5, 6) |
| `runtime/approvals.py` | rows: fingerprint, state, owner, consumed, time of the answer | `request`, `resolve`, `granted_for`, `denied_for`, `consume` | executor (step 4), API, CLI |
| `runtime/executor.py`, `policy.py`, `audit.py` | the audit table | `perform`: resolve, validate, policy, approval, lease, run, record | everything that acts |
| `capabilities/*` | effects performed, by id, in memory | `perform`: refuse, replay, execute, verify, record | the tools' newer form |
| `tasks/supervisor.py`, `tasks/store.py` | task rows, coroutine per task, semaphore of slots | `submit`, `resume`, `stop`, `_run`, `recover` | API, CLI, agent loop, store |
| `agent/loop.py`, `goal.py` | plan, position, evidence, budgets; step journal in the database | plan, skip, perform, retry, park, repair, verify | planner, runtime, journal |
| `conversation.py`, `agent/intent.py`, `reflex.py`, `planner.py`, `verify.py`, `report.py` | none that lasts | `classify`, `plan_for`, `make_plan`, `repair_plan`, `check`, the report | router, agent loop |
| `kernel/effects.py`, `kernel/outbox.py` | effect rows; event rows with a publish mark | `reserve`, `complete`, `mark_uncertain`, `sweep_unsettled`; `stage`, `record`, `drain`, `prune` | database, bus; not called by the runtime yet |
| `events.py` | a bounded queue per subscriber | `emit`, `subscribe`, `get` | everything |
| `models/health.py`, `pool.py`, `router.py` | measured status per provider, providers, spend | `check`, `note_failure`, `rebuild`, `complete` | providers, vault, settings |
| `settings.py`, `config.py` | configuration, stamp of the file | `apply`, `save`, `reload`, `poll` | file, bus, everything by reference |
| `notifications.py` | recent, delivered and held notices | `consider`, `release_held`, `drop_held`, the pump | bus, settings |
| `voice/session.py`, `voice/__init__.py` | who talks, four moments, the words of the turn | wake, frames, transcripts, the key, speaking, pause | engines, settings |
| `memory.py`, `vault.py`, `crypto.py` | encrypted rows, the master key's file | remember, update, forget, purge; set, delete; make and load the key | database, file, CLI |
| `api/*`, `cli.py`, `app.py` | sockets; the processes | handlers; `serve`, `do`, `approve`, `stop`, `config`, `memory` | all of the above |
| `apps/desktop/src/lib/*` | link, what is shown, the orb | connect, receive, refresh, command | API |
| `store.py` | one connection, one lock | `execute`, `transaction`, migrations | all stores |
| `tools/*`, `voice/engines` , `models/providers` | the outside world | I/O | executor, voice, router |
| `apps/desktop/src-tauri/src/main.rs` | engine process, its address, phase | start, stop, restart, supervise | engine's output |

What is hard here, by component (each is a hazard of `PROJECT.json`, at its line):

* **Leases**: a waiter clears the signals it will listen to, and only listens
  one turn of the event loop later; several keys are taken at once; an action
  may perform another one under the same holder. Correct means: no two
  incompatible leases, an exact reader count, no writer without a lease, no
  sleeper that nobody wakes.
* **Approvals and the path of an action**: an answer may come late, twice, or to
  a task that has gone; two tasks may ask the same thing; a yes is spent before
  the work it allows, and the settings change in between. Correct means: one yes
  is at most one run of that operation, what cannot be undone never runs without
  one, and whoever waits can be answered.
* **Supervisor and the other processes**: submits, resumes, stops, answers,
  shutdowns and recoveries all start and end coroutines that share a semaphore,
  and a command does the same in a process of its own. Correct means: never two
  coroutines for a task, slots returned, ends that stay, rows that tell the truth.
* **Agent loop**: a plan is written anew in every life of a task, and a journal
  keyed by step names tells it what is done; crashes, parks, retries and repairs
  come between any two steps. Correct means: journaled work is not repeated,
  evidence is true, "done" is earned, every life ends.
* **From a sentence to a claim**: several planners, validators, a judge that may
  be a stub and a report stand between what was measured and what is called
  verified. Correct means: nobody vouches for what nobody measured.
* **Capabilities**: the record that makes a repetition harmless is written last,
  after two awaits. Correct means: an effect id acts once, or somebody knows why
  not; "verified" brings the evidence it declares.
* **Kernel tables**: processes look before they insert, die between acting and
  settling, sweep one another's rows, drain one table, and prune it. Correct
  means: an act happens once, its row is true, what is marked was told, what is new in order.
* **Provider health and router**: checks and calls are in flight while keys change;
  faults block until a check takes them back; a rebuild may raise half
  way; calls share a budget they are charged to afterwards. Correct means: what is known is
  about the key that is set, a healthy provider is used again, nobody is left untried,
  and the budget is exceeded by no more than the calls that were under way.
* **Settings, notices, voice, window**: each lives on state that somebody else
  changes - a file, a clock, a microphone, an engine behind a connection. Correct
  means: an edit arrives, a notice is told once, kept or thrown away and only a restart loses it, a
  turn is what was heard, and the window comes to show what is so.
* **Memory and vault**: processes read a row, decide, and write it back whole; the
  first start of two processes makes two keys. Correct means: forgotten stays
  forgotten, and what is written can be read.

## 2. Modules

| Module | Models | Role |
|---|---|---|
| `Leases` | `runtime/leases.py`, executor steps 5 and 6, `ToolContext.perform` | detailed specification |
| `ReadersWriters` | the promise of `LeaseMode` and of the module's docstring | abstract specification |
| `MCLeases` | flat and nested instances | for TLC |
| `Approvals` | `runtime/approvals.py`, executor step 4, the answer, what becomes of the asking tasks | detailed specification |
| `MCApprovals` | tasks that share an operation | for TLC |
| `Supervisor` | `tasks/supervisor.py` over the task rows, shutdown, crash, recovery | detailed specification of one process |
| `Fleet` | `garis serve` and the commands of `cli.py` on one task table | several processes |
| `AgentLoop` | `agent/loop.py` over the step journal | detailed specification |
| `MCAgentLoop` | the plans the planner may write | for TLC |
| `Answers` | `conversation.py`, `agent/intent.py`, `reflex.py`, `planner.py`, `verify.py`, `report.py` | from a sentence to what is claimed |
| `Pipeline` | `runtime/executor.py`, `policy.py`, what `audit.py` is given | the path of an action |
| `Capabilities` | `capabilities/registry.py`, `base.py` | the registry |
| `Effects` | `kernel/effects.py` | the effect store |
| `Outbox` | `kernel/outbox.py`, `events.py`, the websocket's subscription | from a fact to the window |
| `Secrets` | `memory.py`, `vault.py`, `crypto.py` | rows under a key |
| `Health` | `models/health.py` under `models/pool.py`, the API's rebuilds and forced checks | detailed specification |
| `Router` | `ModelRouter.complete` with `candidates`, `spread` and the budget | detailed specification with the pure algorithm as operators |
| `Settings` | `settings.py`, `config.py` | the live configuration |
| `Gate` | `notifications.py`, reading the configuration of `Settings` (which it extends) | the notification gate |
| `Voice` | `voice/session.py`, `voice/__init__.py` | the session |
| `Surface` | the websocket and handlers of `api/`, `apps/desktop/src/lib/api.ts`, `store.ts` | what the window shows |
| `MCEngine`, `MCKernel`, `MCDesk`, `MCRequest` | parts side by side, see section 3 | for TLC |
| `Ordering` | a finite set in the order of a relation: `ORDER BY`, `sorted()`, the `zip_longest` of `spread` | used by `Outbox`, `Gate`, `Router` |
| `LeasesProofs`, `SupervisorProofs`, `AgentLoopProofs`, `HealthProofs` | theorems about the module of that name | for TLAPS |
| `KernelProofs` | theorems about `Effects`, `Secrets`, `Approvals` and `Outbox` | for TLAPS |
| `DeskProofs` | theorems about `Voice`, `Surface`, `Gate` and `Settings` | for TLAPS |
| `RequestProofs` | theorems about `Answers`, `Pipeline`, `Capabilities`, `Fleet` and `Router` | for TLAPS |
| `OrderingProofs` | what `Ordering` returns | for TLAPS |

Next to some actions stand operators marked *Fault*, or named for a habit the
code does not have (`KeyIsIgnored`, `NeverOver`, `WordsKept`): the same operation
with a plausible bug, a dropped guard, a reset that is missing, an off-by-one. No
specification uses them; `PROJECT.json` pairs each with the property that
catches it.

### Leases

State: `readers`, `writer` and `changed` are the three fields of `_KeyState` per
key, with the values of a fresh row for a key that is not in the table. A call
of `perform` is `idle`, `arming` (it has cleared the signals of its `blockers`,
and the coroutines that listen to them have not run yet), `asleep`, `awake` (one
of them has returned) or `held`. Actions: `Request` and `Retry` are one turn of
the loop in `acquire` (`Turn` = `Take` or `Park`, the critical section under the
manager's lock); `Arm` is the first turn of the listening coroutines, which see
what was set in between; `GiveUp` is the timeout or a cancellation; `Release` is
the executor's `finally`. `asyncio.Event.set` wakes the listeners there and
then, which is why `Release` changes their phase; a row that leaves the table
takes its signal with it, set for good, so it also wakes the calls that still
hold the old row (`Dropped`). `Outer` gives the calls made by a handler: those
need the outer call to be in its handler, and the outer call can neither return
nor make another one meanwhile.

### Approvals

State: the columns of the table that a decision reads, the phase of each task,
and two history variables. A task in `working` is about to reach step 4 of
`perform`: `Refuse`, `Clear` and `Ask` are the three branches of
`_require_approval`, in the code's order of precedence. `Clear` spends the yes;
`StartHandler` is the handler's start; `PerformReturns` is any end of the call.
`AnswerQuestion` is the handler of the API or of the command: `resolve`, which
does not look at the row's state, and `resume` of the row's owner.
`CrashOfEngine` also stands for the recovery after it. The tie between equal
`resolved_at` cannot occur (`OneLiveMatter`: there is one row).

### Supervisor and Fleet

`Supervisor` is one process. State: the rows, the queue of the semaphore, the
coroutines in the agent loop, the free slots, and which coroutines have been
cancelled but not yet resumed by the event loop. What the agent loop does is
reduced to how it ends: `Outcome`, `Raise` or a cancellation. `Down` is the end of
the process, by a crash or by the signal handler, which cancels every coroutine
first; which of the cancellations are delivered before the database is closed is
left open. `Recover` is the next start. Two history variables record for which
tasks `stop()` returned True, and whose coroutine ended without writing anything.

`Fleet` is several processes, each of which knows of its own coroutines only.
`Serve` recovers whatever is marked as running, also what another process is
working on; `Do` and `Answer` are commands that launch a coroutine of their own
and wait for it; `StillWorking` is the command that gives up waiting and takes
the work with it; `StopRow` is a stop from where the coroutine is not; `Run` and
`Return` write the row whatever it says by then. `meddled` remembers the tasks
that a process has touched while another one worked on them.

### AgentLoop

State: the step journal, the stage of the loop, and the local variables of
`run`. One life is one call of `run`; `ResumeLife` and `RecoverLife` start the next
one, which always asks for a plan again (the saved plan is never read back).
`runs` counts the successes of each operation, `unjournaled` those that a crash
kept out of the journal. Keys are sequences, so the suffix that `Plan.rekey` adds
is told apart from the name it is added to. The planner chooses among `Plans`;
what it writes after a failure does not repeat the operations it is told are done.

### Answers

State: the sentence, the plan's steps that are left, the results so far, and what
the person is told. A sentence is what the word lists find in it; `Intent` is
`classify`, with its order of precedence, and `Reply`, `AskTheModel`,
`ModelDecides` and `StartTask` are what the conversation does with it. `Instinct`
is `plan_for`: the first reflex all of whose words are there, of a question.
`PlanByModel` is `make_plan` with `_sanitise`, `Repair` is `repair_plan`, which loses
the plan's origin as a reflex. `Sound` holds what the validators look for in a
reading; `RefuseByRules`, `CheckReflex`, `Unchecked` and `AskVerifier` are `check`
in its order; `Headline` and `Report` are `report.py`. The model that judges may be a
stub, may answer what cannot be read, may say no. Journals, crashes and retries are
left to `AgentLoop`, where the same decision is `MayBeDone`.

### Pipeline

State: the configuration, the answer that is live for each operation, where each
`perform` stands, the rows of the audit it has written, and whether it has spent a
yes. `Evaluate` is the policy with all of its rules in their order (the guards, what
is not negotiable, the configured effects, what is irreversible, installs,
elevation, cost, download). `Begin` is steps 1 and 2, then the policy's verdict is
`Deny`, `RejectByUser`, `AskUser` or `Proceed`; `Acquire`, `LeaseTimeout` and
`CancelWaiting` are step 5; `Finish`, `Cancel`, `MissingSecret`, `UnreadableSecret` and
`NestedStop` are the ways out of step 6. `Configure` changes the settings between any
two of them.

### Capabilities

State: where each caller stands, what the executor returned, the registry's memory
of performed effects. `RefuseHere`, `RefuseArguments` and `Replay` are the early
returns of `perform`; `Execute` starts an executor, which succeeds, fails
or raises, having acted or not; `Conclude` is the verifier, the judgement on the
declared evidence and the record. `Abandon` is a cancellation and `Restart` the end of
the process, with which the registry's memory goes. `overlapped` and `lost` are the two
ways in which an act can be repeated.

### Effects, Outbox

`Effects`: rows by identity. `reserve` is `Look` and `Insert`, because SQLite takes its
write lock at the INSERT; callers of one process are serialised by the lock of
`Database` (`LockIsFree`), callers of two processes are not, and meet at the primary
key (`KeyIsFree`). `Act` is the outside world. `Start` and `Sweep` are
`sweep_unsettled`, one row at a time; `Crash` is the end of a process anywhere.

`Outbox`: committed events in order, what each process has open (`Open`, `Stage`,
`Commit`, `Rollback`; `RecordRead` and `RecordInsert` for an event without a
transaction of its own), one drain per process (`DrainRead`, `Emit` per event, `Mark` at
the end or `MarkFails`; `Pending` is its `ORDER BY` and `LIMIT`), `Prune`, and a window
per process: `Connect`, a queue that loses its oldest entry and counts it, and `Deliver`,
which hands over whatever is in it: no code calls `deduplicate`, so that an event that is
said again reaches the window again. `Restart` ends a process. The stamp of an event is
any reading of the clock (`Now`), which may be set back; `ClockKeepsGoing` says of a
behaviour that so far it was not. One process writes events (`Writers`): `record` reads the last
position before SQLite has opened a transaction, so that two writing processes could
come out with the same one, against the comment of `stage`; nothing writes events in
two processes yet.

### Secrets

State: the key file and its temporary name, which key each process has in hand,
the rows of memory and vault with the key they were written with. `LoadKey`,
`MakeKey`, `DraftKey` and `PlaceKey` are `load_or_create_master_key` between
processes; `BeginUpdate` and `FinishUpdate` are the two statements of `update`, and
`SetSecret` and `WriteHint` the two databases of `remember_secret`.

### Health and Router

`Health`: what the vault and the settings say (`config`), the pool's signatures,
the key each live provider was built with, the monitor's entries, and the checks
and calls that are in flight. Three rounds refresh: the listener, the hourly
loop and the API. `Rebuild` is the critical section of `rebuild`. It may raise:
while it reads the keys (`RaisesBeforeSigning`) it has changed nothing, while it builds
the providers (`RaisesAfterSigning`) it has forgotten entries and taken over the new
fingerprints, and the old providers stay. The announcement is gone either way, and
`missed` remembers it. `RefreshRebuilt` is the refresh that follows it, which
awaits the daemon's probe first and so checks whatever is live by then. `Check` is `check()`
up to its request, where a fresh entry ends it; `Answer` records the verdict. A check and a
call keep the provider they began with. `Edit` is announced on the bus of this
process; `EditElsewhere` is a second process that writes the same vault. Statuses
that only a new check takes back are one, `faulty`; `lifted` is a rate limit past
its end. `about` and `late` remember which key an entry was measured with, and
whether by then the provider, or its fingerprint, had another. The fault of an entry is a free
choice where the vendor is at fault, and a call may fail where it is not.

`Router`: which providers `usable` says yes to, the spend, and for each call its
ranking, the order it tries and how many have failed. Scores are data: `Complete`
takes any subset of the candidates in any order, so every `Need` is covered.
`spread` deals the providers round by round: `Turn` is the round in which a choice
comes up, `Key` puts the choices of a round in the order in which the dictionary got
their providers, and `Spread` is the ranking in the order of `Ahead`. `Tried` is the
cut of `complete`. `ModelFails` shuts the provider out for
later calls as `_note_failure` does, and leaves the order of calls under way as it
is; `ProvidersChange` is whatever `Health` does meanwhile. The budget counts answers
of models that are paid for.

### Settings and Gate

`Settings`: the `Config` object, the file and its stamp, the stamp the service knows.
`Apply`, `Replace` (or `SaveFails`) and `Restamp` are `apply` in the stages between
which the file may be edited by hand (`Edit`); `Poll`, then `Adopt`, `Refuse` or
`Swallow`, is `reload`. Three fields stand for all: one that is checked on the way in,
one that nothing checks, and one that `validate` does. `lapse` remembers that memory
and file have parted in a way the code does not notice.

`Gate` extends it, because the gate reads that object at every notice. `Consider` is
`consider` with all of its rules in order (`Decide`), the bounded memories it keeps and
what it delivers; quiet hours that nobody can read raise and end the pump
(`PumpEnds`). `Release` is `release_held`, a part at a time, the most urgent (`Urgent`)
first, equals in the order in which they were held. `GateRestart` is a restart of the
engine: the gate begins with empty memories, while the histories go on. `heard` says in
which life a notice was told, and `lost` what was held when a life ended.

### Voice

State: `VoiceState`, the ages of the four moments the session remembers, and the
words of the turn. `SpeechFrame` and `SilentFrame` are `on_audio_frame`,
with barge-in, the end of a turn and of the wake window; `SpeechStarted` the
detector's, `Heard` a transcript, `WakeWord`, `ReleaseKey`, `StartSpeaking`,
`StopSpeaking`, `FinishedSpeaking`, `Resume` and `Wake` the rest. Time is counted in
frames.

### Surface

State: a version of what the engine keeps, the loops at work, the websocket and the
queue behind it, and of the window: how far it has opened, the refreshes that wait
for their answers, what it shows part by part, and the orb. `Upgrade` subscribes and
sends the first frame; `Pump` takes from the bounded queue; `Cut` and `NoticesCut`
are a broken connection before and after the window knows. `Receive` is `handleEvent`:
an event makes it `Ask`, and `Serve` answers part by part what is so at that
moment, so that refreshes overlap. `ChangeUntold` is what another process, a
stop of a task without a coroutine and `resume` do: they write rows and emit
nothing. `EngineRestarts` takes loops, queue and answers with it.

## 3. Runs

Every behaviour starts from the states the code starts from, and a run's actions are
all of its parts' actions.

| Run | Question | Result |
|---|---|---|
| `engine_room` | Is the lease table a readers-writers lock that loses no wake-up? Has a task one coroutine, and does the queue move? Does the loop repeat nothing it journaled, tell true evidence, earn its "done", and end? | holds |
| `health_work` | Are faults kept, changes taken up unless their own rebuild raises, healthy providers used again? | holds |
| `kernel_tables` | Does an act happen once, and is its row true? Is what is published told, and what is new handed over in order? Does forgotten stay forgotten, can what is written be read, is a yes one run? | holds |
| `desk_day` | Are notices told once, kept, thrown away, or lost with a restart and not otherwise? Does a life of the engine keep to the hourly limit? Is a turn what was heard, and does listening end? Do edits arrive, and does the window catch up? | holds |
| `request_path` | Does nothing gated run without a fresh yes? Is "verified" earned, by the report and by the registry? Does an effect id act once, do calls stay near the budget and try everybody, do two processes share a task only where a command meddles? | holds |
| `leases_nested` | Does an exclusive lease exclude when actions nest? | violated |
| `approvals_orphan` | Can every blocked task be answered? | violated |
| `supervisor_pending` | Is a pending task waiting for a slot? | violated |
| `supervisor_shutdown` | Is a stopped task one the user stopped? | violated |
| `agentloop_shifting` | Is a skipped step a done step when the planner reuses a key? | violated |
| `health_late` | Is a provider with a good key blamed for another key? | violated |
| `surface_opening` | Does a window that has everything it was sent show whether the agent works? | violated |

**Parts side by side.** `MCEngine`, `MCKernel`, `MCDesk` and `MCRequest` put parts of
the system next to each other that have no variable in common. Their next-state
relation moves one of them and leaves the others at rest in an initial state: the
states of a run are the sum of the parts' states and not the product. Nothing is lost
by that, because every property speaks of one part only, and every part goes through
all of its own behaviours; fairness of a part at rest concerns behaviours in which it
never leaves its initial state for another part's sake, and those in which only
this part moves are among the behaviours checked. `MCDesk` is different in one place:
the gate really does read the settings, so settings and gate move together there;
changes of the settings are played out before the notices are judged (`QuietDay`,
`Settled`), which is what reading the object at each notice comes to.

**Bounds**, and what they make happen (values in the `.cfg` files):

* `Leases`: 3 calls, 2 keys, both modes, every subset of keys - a call that waits for
  two keys with different holders, a reader beside it, and a release that wakes
  one waiter while another arms.
* `Supervisor`: 3 tasks, 1 slot - a queue with an order to get wrong.
* `AgentLoop`: 5 plans of up to 3 steps, `MaxReplans` = 2 (the code's value), 2
  attempts, 2 crashes - a crash inside the life that follows a crash, and the last
  repair.
* `Approvals`: 3 tasks, 2 with one operation, 3 rows, 3 answers - a question answered
  twice, and a second question after the first was spent.
* `Effects`: one act (acts do not interact), two sets of arguments, two callers in one
  process and a third in another - a claim that is swept by the process
  next door while its caller acts.
* `Outbox`: 3 events, 2 tasks, a drain of 2 at a time, a queue of 2, a clock of 2
  readings, 3 events handed to a window or on their way (`MaxHanded`) and 1 lost to
  it (`MaxLost`) - equal times, a clock that is set back, a batch that is broken off,
  an event that is handed over twice with another one between, a queue that overflows, two processes
  that drain at once. The tasks are interchangeable (symmetry).
* `Secrets`: 2 memories, a secret, 2 processes, 2 keys - two first starts at once.
* `Health`: one provider with three rounds and a call, a good and a bad key;
  providers do not interact, and the proofs are for any number.
* `Settings`: 2 writes, 3 fields - an edit between any two stages of a save, or put
  back. `Gate`: 3 notices, 2 messages, a clock of 3 readings, an hour and a window of
  duplicates of 1 tick, memories of 2, a limit of 1 - every memory is full, the hour passes
  and a delivery falls out of it, and a restart finds notices held and the limit reached.
* `Voice`: thresholds of 2, 2 and 3 frames, ages that stop past them, 2 pieces.
* `Surface`: 3 versions, one loop, two refreshes, a queue of 2, a wire of 1 - one
  refresh overtakes another, an event is lost, the wire is full.
* `Answers`: 8 sentences, 4 plans, 3 readings, `MaxSteps` = 2, `Replans` = 2 - a question
  that looks like a command, one that matches two reflexes, a plan of which nothing is
  left, a repair of a measured plan, readings that disagree.
* `Pipeline`: a payment with a secret that cannot be read, an install from anywhere, a
  write to a guarded file, a call that does not fit, under three configurations, one of which
  confirms nothing; each performed twice.
* `Capabilities`: two callers, a capability that acts, one that reads, one that is not
  supported here, two acts of one effect id.
* `Router`: 2 calls, 3 providers, 4 models, `MaxAttempts` = 2, a budget of 2 answers -
  a ranking that puts both models of one vendor first, more providers than attempts, two
  calls admitted before the budget is spent. The two models of one vendor are
  interchangeable and so are the calls (symmetry; `NobodyIsUntried` is an action
  property, and no run with symmetry checks liveness).
* `Fleet`: a server, two commands, two tasks.

The runs that end in a violation each show one statement of a comment or a
document that the code does not keep; `findings` in `PROJECT.json` quotes them.
In short: a nested release frees the outer action's key; a task that joins
another one's question is never resumed; a task cancelled in the queue, or queued
when the process ends, stays pending with nothing behind it; a polite shutdown stops
tasks for good; a reused step key makes a step that never ran count as done; a late
answer about the old key shuts the provider out with the corrected one; the snapshot a
window opens with does not say whether the agent works.

### Fairness

* `Leases`: weak fairness of `Arm`, `Retry` and `Release` of each call. The event
  loop runs whatever is ready, and a handler runs under `wait_for(spec.timeout)`
  with the release in a `finally`. Timeouts of the waits are not assumed, so
  `SleepersWake` is not bought by them. Nothing makes a call eventually *get* its
  lease: the code has no queue, and a writer may starve behind readers.
* `Supervisor`: weak fairness of each task's `Start`, of its leaving the loop, and
  of the delivery of a cancellation. The agent loop ends because its replans are
  bounded and every call it awaits has a timeout (`LivesEnd`). Submits, stops,
  crashes and recoveries are never forced.
* `AgentLoop`: weak fairness of the loop's own steps. The user need not answer,
  and a process that is down need not come back.
* `Health`: weak fairness of the listener's rebuild, which may raise each time, of the
  refresh after it, of the hourly round, of each step of the checks of these two, and of
  ageing. The two loops run for ever, every request has a timeout, and time passes. Edits,
  what is asked for through the API, calls and their ends, and the vendor's recovery are
  never forced. How long it takes is not modelled: an entry
  noted in mid-hour is still fresh at the next round and waits for the one after.
* `Settings`: weak fairness of the poll and of finishing what was begun. `EditsArrive`
  supposes that the file is left alone from some point on.
* `Voice`: the microphone delivers frames. `ListeningEnds` is about behaviours that are
  silent from some point on.
* `Surface`: the engine accepts and serves, the window's timers run, a connection in use
  delivers, and a refresh ends. Nobody has to click and no loop has to end.
  `WindowCatchesUp` supposes that the engine's rows and the network hold still from
  some point on, and that the last refresh did not fail or come late (`missed`).

## 4. Proofs

`LeasesProofs` proves, for every set of calls, keys and holders:

* `TypeCorrect`.
* `ReadersAreCounted` and `WritersAreLive`, nesting or not. Both are inductive
  together with types; the first needs the cardinality of the set of sharers
  after one member has come or gone, proved as lemmas from
  `FiniteSetTheorems`, and the second that only the holder's own release or
  another take changes the writer.
* `LeasesExclude`, under the hypothesis `Flat` (no two calls share a holder):
  exclusion follows from an invariant that ties the table to the leases in
  force (`FlatTable`: a writer leaves no readers beside it, and whoever holds an
  exclusive lease is the writer the table names). The hypothesis is necessary:
  `leases_nested` is the counterexample without it.
* `NoWakeupIsLost`, under `Flat`: the invariant (`FlatWaits`) says that a call
  that is arming or asleep is still blocked by every key it waits for. It is
  inductive because in a flat table a key stops to block only when its row leaves
  the table, and the signal that goes with the row is set for good: the release
  wakes the arming calls as well as the sleeping ones.
* `LeasesImplementReadersWriters`, under `Flat`: the initial states agree, and
  each action is an `Enter`, a `Leave` or a stutter of `ReadersWriters`.

`KernelProofs` proves about `Approvals`, for all tasks, operations and any number of
answers:

* `ApprovalsTypeCorrect`, with the facts about owners and spent rows that the others use
  (`TypesAndOwners`).
* `OneYesIsOneRun`: the invariant says that a row under which a task is cleared or
  handling is spent, answered with yes, and cleared by one task only; that a row
  with a run is spent; and that spent rows are never unspent again.
* `OneMatterAtATime`: `Ask` opens a row only when there is no live one, and
  `AnswerQuestion` revives no spent row.
* `SoleAskersAreAsked`: a row that is answered resumes its owner, and a blocked
  task that shares its operation with nobody owns the pending row.

`SupervisorProofs` proves, for every finite set of tasks and any number of slots:

* `TypeCorrect`: with it, that no slot is given back that was not taken.
* `TasksRunOnce`, `SlotsComeBack`, `BlockedTasksAreIdle`, `OthersAreNotLost` and
  `EndsAreFinal`, all from one inductive invariant (`Inv`). None of them is
  inductive alone: that a task has one coroutine needs that a task queued by
  recovery has none left over (`DownIsEmpty`); that its end is final needs that a
  coroutine only exists for a row that is pending or running (`LiveIsDue`), which
  in turn needs that a coroutine leaving the loop was the task's only one
  (`OnePlace`); that the slots add up needs the latter too. Two lemmas
  carry the queue: what `_launch` appends, and what is left of the line, in which
  order, when a coroutine leaves it from any place.

`AgentLoopProofs` proves, for any plans (shifting keys included), any number of
repairs, attempts and crashes:

* `AgentLoopTypeCorrect`.
* `DoneMeansComplete`: a task is done only when every required step of the plan in
  force is noted as succeeded and some operation really has succeeded. The decision of
  `_finish` reads the evidence and not the plan, so the invariant (`LoopInv`) carries the
  evidence along the plan: the steps behind the position are covered by the evidence at
  their place (`BehindIsCovered`), the position and what is being performed are inside the
  plan (`InsideThePlan`), evidence is whole unless the plan has failed (`WholeOrFailed`),
  and evidence that something succeeded, or a key that is done in the journal, means that
  something did (`NothingFromNothing`). Three lemmas say what moving on, noting a result and
  giving up do to it, and a fourth that rekeying a repaired plan keeps its steps in place.
* `EvidenceIsTrueUnlessKeysShift`, under the hypothesis that there is one meaning of the
  keys that every plan in force agrees with (`KeysMean`): evidence is true because the
  journal is (`BelievedIsTrue`). `agentloop_shifting` is the counterexample without it.
* `WorkIsNotRepeated`, under the hypothesis that every plan in force calls an operation
  by its one name and uses no name twice (`KeysAreSteady`): what has succeeded more often
  than crashes account for is in the journal, or about to be (`SuccessIsKnown`), and what
  is in the journal is known to this life or lies behind it (`DoneIsBehind`). Without the
  hypothesis a plan may name the same work twice, and then it is done twice.
* `StableNamesSuffice` turns that hypothesis about behaviours into one about the planner
  alone: an injective naming of operations that every plan keeps to, no operation twice.
  The plans of `engine_room` are steady as well, by `rekey`'s suffix and not by such names.

`HealthProofs` proves, for any providers, keys and calls:

* `TypeCorrect`, `OnlyLateAnswersMislead` and `RebuildsKeepGuilt` (an action
  property), from one inductive invariant (`Inv`). `KnownIsCurrent` is not
  inductive alone: a rebuild compares fingerprints, and keeps an entry because the
  *fingerprint* did not move. That this says something of the key the provider was
  built with needs `KnownIsSigned`: what is known, and not late, was measured with the key
  that both the provider and its fingerprint have. The two part when a rebuild raises
  between taking over the one and replacing the other.

`KernelProofs` proves about the tables, for any identities, callers, processes and rows:

* `EffectsTypeCorrect`, `ActsHappenOnce`, `RowsTellTheTruth` and `StrandedAreNamed`; and
  `SettlementsStay`, an action property. The invariant says that whoever has been granted an
  act has a row (`ClaimedHasRow`), that an act has one performer at most (`OnePerforms`), and
  what a performer knows of the world is so (`PerformerIsTrue`): the absence of the row, the
  number of acts and the performer's stage are kept in step. Only the insert's key, and
  not the look before it, is what the proof rests on (`EffectsInv`).
* `SecretsTypeCorrect`, `ForgettingIsFinal` and `RowsStayReadable`. The last is not
  inductive alone: it needs that only a process that is up is in the middle of a write
  (`OnlyTheReadyWrite`), that without a race one process at most is making the key, and that
  nobody is once the file is there (`OneMakesTheKey`), and that everybody who is up, and
  every row, then has the key of the file (`OneKeyForAll`).
* `OutboxTypeCorrect` and `PublishedWasTold`: a batch, a window's queue and what a window
  has seen hold committed events only (`OutboxInv`), and what is marked, or about to be
  marked, was told on the bus that drained it (`TellingInv`).
* `PositionsAlwaysRise` and `NewsIsHandedInOrder`, under the hypothesis that one process
  writes events (`OneWriter`). The code is that way, only the service writes them, and the
  theorem needs it: `record` reads the last position before SQLite has taken its write
  lock. Positions rise because what is about to be committed comes after all there is
  (`DraftIsNext`), whatever the clock says. That what is new to a window comes in the order
  of the commits takes an invariant of the drain (what may still be said for the first time
  comes after what was sent, and a batch leaves out nothing that comes before one of its
  own) and one of the window (a first occurrence keeps its order on the way), for every
  process on the table, while others drain, mark and prune. This half (`OrderInv`) holds as
  long as the clock was not set back, because `pending` orders by the stamp first; that
  nothing is lost uncounted (`ArrivalInv`) holds in any case.

`RequestProofs` proves:

* `GatesHold` about `Pipeline`, for any tools and any configurations, changed at any
  moment: a gated call that has passed the policy is waiting for a lease or running
  with a yes it has spent itself (`PassedIsVouched`). Two lemmas say what the policy lets
  through without a question, whatever the configuration.
* `EndsLeaveRows`: every `perform` that ended has left one row of the audit, except for
  the three ends the code lets through without one (a cancellation while it waits for
  a lease, a secret that cannot be decrypted, a stop by an action it performed itself).
* `EffectsHappenOnce` about `Capabilities`, for any capabilities and callers: the
  invariant says that of two calls of an effect id under way one is known as
  overlapping (`OneUnderWay`), and that an act is on record, lost, overlapped or under way
  (`ActedHasTold`, `ActedIsKnown`).
* `EvidenceIsDemanded`: a result that is called verified was earned by the capability
  that is named in it, and so was every record (`ResultsAreEarned`).
* `WorkIsAloneUnlessMeddled` about `Fleet`, for any servers, commands and tasks: a task
  that nobody has meddled with has one process at work on it at most, and none before its
  row is there or after it ended (`OneWorks`).
* `VerifiedMeansEarned` about `Answers`, for any sentences, plans and readings: the
  evidence is a list of what the steps did (`EvidenceIsListed`), and a plan that still
  counts as a reflex's is one, and was never repaired unless something in it failed
  (`ReflexIsWhole`), so that the validators judge the plan the sentence asked for.

* `SpendStaysBounded` about `Router`, for any models, providers and rankings: what is spent,
  and what the paid calls under way may still cost, exceed the budget by less than the
  number of calls (`SpendFits`).
* `EveryProviderIsTried`, an action property: a call fails only after every provider of its
  ranking has failed it, or `MaxAttempts` has cut it off. It rests on what `spread` returns:
  a reordering of the ranking (`SpreadReorders`) in which a provider's first choice precedes
  anybody's second (`KeyIsFirst`), so that the cut takes as many providers as it can
  (`TriedCovers`). With it, `RouterTypeCorrect`.

`DeskProofs` proves:

* about `Voice`, for any thresholds: `VoiceTypeCorrect`; `TurnsAreOneHearing`; and
  `CutsNeedSpeech`, which is not inductive alone: the moment the session remembers as the
  start of speech must not be older than the speech over its voice has been
  (`SpeechIsNotOverrated`).
* about `Surface`, for any sizes of queue and wire, any number of loops, changes and
  refreshes: `SurfaceTypeCorrect` and `QuietWindowsAreTrue`. A connection that is not in
  use carries nothing (`LinkIsClean`), and while one is, a change that the window does not
  show has its news on the way: in the queue, on the wire, in a refresh that has been
  overtaken, or in a last refresh that has read nothing old (`NewsIsOnTheWay`).
* about `Gate`, for any notices, limits and sizes: `GateTypeCorrect` and
  `TheHourIsNotExceeded`. The count of the last hour is over a bounded memory of
  deliveries; the invariant (`LimitInv`) says that this memory is the end of what the
  present life of the engine has told (`DeliveredIsTheLast`), and that lives and times grow
  along the history (`TimesGrow`), so that what the memory has lost is too old to count or
  the limit is reached without it. The history itself spans all lives: the limit is kept in
  each of them, and starts over with the next.
* `OneFateForEach`, under the hypothesis that no two accepted notices are alike to the
  last field, their moment included (`AcceptedDiffer`): the four places where a notice may
  be (told, held, thrown away, lost with a restart) are disjoint and hold each accepted one
  once (`OnePlaceEach`). `OneFateWithRoom` replaces the hypothesis: it holds where the memory
  of recent notices has room for every message, because one that is repeated in its own
  moment is then found in it and refused (`FreshInv`). A restart empties that memory, but it
  takes time, so what comes after it is of another moment. The instance of `desk_day` is of
  that kind.

* about `Settings`, for any number of writes: `SettingsTypeCorrect` and
  `KnownSettingsAreInForce`. That a file is in force when its stamp is known is not
  inductive alone, because a file that is deleted gets the stamp of no file back without
  a write: whenever that is the last stamp known, the defaults must be in force
  (`KnownIsInForce`), and only the file that is not there may have it (`MarksAreWrites`).

`OrderingProofs` holds lemmas the proofs about the drain, the gate and the router cite: for
any finite set and any relation that orders it strictly, `InOrder` is a sequence of its
elements, each of them once, the earlier first (`OrderIsKept`), and the order of a part is
the part of the order (`PartsKeepOrder`).

They rest on the assumptions named in the modules (`LeasesAssumption`,
`ApprovalsAssumption`, `SupervisorAssumption`, `AgentLoopAssumption`, `HealthAssumption`,
`EffectsAssumption`, `SecretsAssumption`, `OutboxAssumption`, `PipelineAssumption`,
`CapabilitiesAssumption`, `FleetAssumption`, `AnswersAssumption`, `RouterAssumption`,
`VoiceAssumption`, `SurfaceAssumption`, `GateAssumption`, `SettingsAssumption`), which only
say what kind of thing the constants are. Every hypothesis named above (`Flat`, `KeysMean`,
`KeysAreSteady`, `OneWriter`, `AcceptedDiffer`) is one that the instance of a passing run
satisfies, `Flat` and `OneWriter` by its constants, the others as TLC finds.

Properties that are proved and need no run of their own: `ReadersCounted`,
`WriterIsLive`, `SlotsReturned`, `BlockedIsIdle`, `TerminalIsFinal`, `SettledStays`,
`EndsAreLogged`, `CutNeedsSpeech`, `WhatIsKnownIsInForce`, and the type invariants.

Every other safety property of a passing run is stated by a theorem. Only
model-checked: all liveness (`SleepersWake`, `QueueMoves`, `LivesEnd`,
`ChangesAreTakenUp`, `HealthyIsUsedAgain`, `EditsArrive`, `ListeningEnds`,
`WindowCatchesUp`), which is out of the prover's reach.

## 5. What the code does that the models bring out

These are not among the findings, because no document says otherwise, nothing in the
program reaches them yet, or a comment says more than it is about; but a reader of the
code should know:

* The agent's state is not announced when a plan fails, a question is answered no, the
  policy forbids or a task is stopped (`agent/loop.py:136-141`, `197-212`); `resume()` and a
  stop of a task without a coroutine write rows without an event.
* Refreshes of the window overlap, the last answer to come wins, and failures are
  swallowed (`store.ts:253`).
* A yes is spent before the lease is waited for; when the wait times out the user is asked
  again. The verdict of the policy is older than the lease.
* `_run` writes RUNNING over a row that another process has stopped; `garis do` says that
  it goes on working, and its process ends with the work (`cli.py:119-121`).
* `reserve` never grants a row that says FAILED, although such a record calls itself
  repeatable. `store.transaction` is not re-entrant: a helper called inside one commits it.
* Two first starts at once make two keys, and the rows written with the one that is in no file
  cannot be read again.
* A hand edit of the settings between the replacement of the file and the look at its stamp is
  never adopted; `apply` overwrites a hand edit that no poll has seen.
* "There is no back door for a nonsense value" (`settings.py:95-96`) is so while the service
  runs: `garis config` saves without validating, and no process validates the file it starts
  with. Once such a value is in force, `apply`, which validates the whole configuration,
  refuses every change that does not also mend it.
* A rebuild of the providers that raises, because the vault cannot be read, has consumed the
  announcement it was made for (`models/pool.py:123-126`), and nothing tries again until
  another change is announced or somebody asks for it: the hourly refresh is named among the
  things that trigger a rebuild (`pool.py:9-13`), but `run` (`pool.py:109-114`) only checks
  the providers there are. If it raises after it has taken over the new fingerprints, what
  the old provider answers from then on survives the next rebuild, which finds nothing
  changed; `KnownIsCurrent` counts such answers as late.
* "Consumers deduplicate on `event_id`" (`kernel/outbox.py:12`): none does. Nothing calls
  `deduplicate` (`outbox.py:154-164`), the pump passes on what comes
  (`api/server.py:289-295`), and the window handles it without a look at the identity
  (`store.ts:155-251`). An event said again after a crash reaches a window twice.
* `pending` orders by the wall clock before the position (`outbox.py:93`,
  `kernel/contracts.py:358`): a clock that is set back turns the events of a task around.
* "Held, not dropped" (`notifications.py:11`; `tests/test_notifications.py:48-49` asserts the
  same of quiet hours) ends with the process: what is held is in memory
  (`notifications.py:94-96`) and gone after a restart. So is what the hour has had: with the
  engine, the hourly limit starts over. `_spend` is in memory as well (`router.py:88`,
  `338-340`), so that the budget of the month is one of the process.
* `POST /api/tasks` submits any sentence as a task (`api/server.py:410-421`), without the
  classification that a message goes through.
* Quiet hours that nobody can read pass `validate` and end the pump of the notices at the
  first one. A critical notice is dropped as a duplicate of one that is held.
* `barge_in` and the wake phrase are copied into the session and do not follow the settings.
* Nothing calls `release_held`, `drop_held`, the gate's `listen`, `purge_expired`,
  `end_session`, `pin` or `vault.rename`, and `app.py:155` builds a voice service that
  nothing feeds: held notices are never told, expired memories never deleted.
* `Performed.verified` does not look at `outcome.uncertain`; "the same effect id is the same
  act" (`capabilities/base.py:123-125`) ends with the process, because the record is in
  memory.

## 6. Not modelled

* Python's own semantics below the level of an `await`: a stretch of code between
  two awaits is one step. SQLite: each statement is one transaction under one
  lock and survives a crash once it returns; between processes a transaction begins at
  its first write.
* Provider adapters, voice engines, audio devices, the tools' effects on the world, the
  ciphers, HTTP parsing and frames, prompts and wording: data or I/O. Where the control
  flow depends on them they are free choices.
* The desktop shell (`main.rs`): threads and a child process in another language, which
  meet the engine in an address only. Its races are listed as a hazard.
* `store.transaction` inside another one: no caller in the program nests them.
* `ModelRouter.stream`, `describe` and `select`; `ApprovalBroker.wait` and
  `expire_older_than`; `prune_finished` and `bump_attempts`; the work contracts of the
  kernel: no caller, or queries.
* Restarts of the engine in `Router`: what is spent and who was at fault start at nothing, as
  in `Init`, so that `SpendIsBounded` is about one life of the process.
* Clocks: the gate's is never set back (`Gate`). The stamp of the settings file is modelled as
  new with every write, while two edits of one size within a tick of a coarse clock look alike
  to `_file_stamp` (`settings.py:134-141`) and the second is not seen.
* The task that the API makes without a conversation, in `Answers`: `StartTask` comes from a
  classified sentence, and no property depends on what it was classified as before.
* The product of parts. What a part leaves open (a handler, a coroutine, an outcome, a
  provider's health, an answer) is a free choice in the others, which covers what the
  other part does; but a property that needs the state of two of them, such as a task
  parked because recovery came before the first measurement of a provider, is not stated.

## 7. Where it could go next

1. `Supervisor` over `AgentLoop` and `Approvals` as one specification with two tasks:
   what an answer resumes, what recovery finds.
2. Two processes that write events (`Writers`), once something calls the outbox: what
   is left of `PositionsRise` without `OneWriter`.
3. The shell's supervisor thread and its reader.
