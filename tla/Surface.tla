------------------------------- MODULE Surface -------------------------------
(***************************************************************************)
(* What the window shows: the websocket of the engine (api/server.py,      *)
(* api/websocket.py), the queue of the event bus behind it (events.py) and *)
(* its requests (api/protocol.py), with the store of the window on top of  *)
(* them (apps/desktop/src/lib/api.ts, store.ts).                           *)
(*                                                                         *)
(* An event carries no data the window keeps, but for the state of the     *)
(* agent: it makes the window ask again for several things at once, and it *)
(* may ask again before it has its answer.  What the engine keeps of its   *)
(* tasks, questions and settings is a version number, and a loop at work   *)
(* is one of a number.                                                     *)
(***************************************************************************)
EXTENDS Naturals, Sequences, SequencesExt

CONSTANTS
  QueueSize,    \* DEFAULT_QUEUE_SIZE
  WireSize,     \* bound: frames on the way before the pump waits in drain()
  MaxVersions,  \* bound: changes of what the engine keeps
  MaxLoops,     \* bound: loops at work
  MaxRefreshes  \* bound: refreshes whose answers have not come

ASSUME SurfaceAssumption ==
  {QueueSize, WireSize, MaxVersions, MaxLoops, MaxRefreshes} \subseteq Nat \ {0}

Versions == 0 .. MaxVersions
\* The state of the engine with its tasks, which two requests ask for and the
\* snapshot carries; and the questions, which it does not.
Parts == {"tasks", "approvals"}
Unread == MaxVersions + 1
Moods == {"busy", "over", "blocked"}        \* agent.state
Topics == {"rows"} \cup Moods
Frames == [topic : Topics, version : {0}] \cup [topic : {"state"}, version : Versions]

VARIABLES
  version,    \* of what the engine keeps
  loops,      \* loops that plan, act or verify
  link,       \* the websocket: "down", "dialed", "open", "cut" (the window does not know yet)
  queue,      \* the subscription's deque
  wire,       \* frames on the way
  opened,     \* the window: "closed", or App's effect: "health" asked, "first"
              \* refresh asked, connection "on"
  refreshes,  \* calls of refresh() that wait for their answers, oldest first
  command,    \* a click has changed something and waits for its answer
  shown,      \* what the window shows, part by part
  orb,        \* agentState
  missed      \* history: since the last refresh was asked for, one failed or came
              \* after a younger one, a change was not announced, or its event was lost

surfaceVars ==
  <<version, loops, link, queue, wire, opened, refreshes, command, shown, orb, missed>>
windowVars == <<opened, refreshes, command, shown, orb>>

SurfaceTypeOK ==
  /\ version \in Versions /\ loops \in 0 .. MaxLoops
  /\ link \in {"down", "dialed", "open", "cut"}
  /\ queue \in Seq([topic : Topics, version : {0}]) /\ Len(queue) <= QueueSize
  /\ wire \in Seq(Frames) /\ Len(wire) <= WireSize + 1
  /\ opened \in {"closed", "health", "first", "on"}
  /\ refreshes \in Seq([read : [Parts -> Versions \cup {Unread}], overtaken : BOOLEAN])
  /\ Len(refreshes) <= MaxRefreshes
  /\ command \in BOOLEAN
  /\ shown \in [Parts -> Versions]
  /\ orb \in Moods \cup {"idle"}
  /\ missed \in BOOLEAN

\* A window that was just opened shows nothing.
Blank == [p \in Parts |-> 0]

SurfaceInit ==
  /\ version = 1 /\ loops = 0
  /\ link = "down" /\ queue = <<>> /\ wire = <<>>
  /\ opened = "closed" /\ refreshes = <<>> /\ command = FALSE
  /\ shown = Blank /\ orb = "idle" /\ missed = FALSE
-----------------------------------------------------------------------------
\* emit(): the subscription of the connection, if there is one, takes each
\* event; a full queue drops its oldest.
Event(topic) == [topic |-> topic, version |-> 0]
Kept(events) ==
  LET all == queue \o events IN
  IF Len(all) > QueueSize THEN SubSeq(all, Len(all) - QueueSize + 1, Len(all)) ELSE all
Emit(events) ==
  IF link = "open"
  THEN /\ queue' = Kept(events)
       /\ missed' = (missed \/ \E i \in 1 .. Len(queue) + Len(events) - QueueSize :
                                 (queue \o events)[i].topic = "rows")
  ELSE UNCHANGED <<queue, missed>>

Grow == version < MaxVersions /\ version' = version + 1

\* A task is submitted, a question asked, a setting changed.
Change ==
  /\ Grow /\ Emit(<<Event("rows")>>)
  /\ UNCHANGED <<loops, link, wire, windowVars>>

\* What another process does to the database is not announced.
ChangeUntold ==
  /\ Grow /\ missed' = TRUE
  /\ UNCHANGED <<loops, link, queue, wire, windowVars>>

\* A task gets its slot: RUNNING, task.started, and the loop says "thinking".
LoopBegins ==
  /\ loops < MaxLoops /\ loops' = loops + 1
  /\ Grow /\ Emit(<<Event("rows"), Event("busy")>>)
  /\ UNCHANGED <<link, wire, windowVars>>

\* The loop's last words, then the row and its event.  It ends without a word
\* when no plan can be made, a question is answered no, the policy forbids or
\* the task is stopped.
LoopEnds(words) ==
  /\ loops > 0 /\ loops' = loops - 1
  /\ Grow /\ Emit(Append(words, Event("rows")))
  /\ UNCHANGED <<link, wire, windowVars>>
-----------------------------------------------------------------------------
\* connect(): the first time, and again after a while once it is closed.
Dial ==
  /\ opened = "on" /\ link = "down" /\ link' = "dialed"
  /\ UNCHANGED <<version, loops, queue, wire, windowVars, missed>>

\* Fault: the bus is subscribed to and nothing is sent.
NoFirstFrame == <<>>

\* state_view(): the version of now.
FirstFrame == << [topic |-> "state", version |-> version] >>

\* _upgrade(): nothing can come between the subscription and the snapshot.
Upgrade ==
  /\ link = "dialed" /\ link' = "open"
  /\ queue' = <<>> /\ wire' = wire \o FirstFrame
  /\ UNCHANGED <<version, loops, windowVars, missed>>

\* pump()
Pump ==
  /\ link = "open" /\ queue # <<>> /\ Len(wire) < WireSize
  /\ wire' = Append(wire, Head(queue)) /\ queue' = Tail(queue)
  /\ UNCHANGED <<version, loops, link, windowVars, missed>>

\* The connection breaks; of the frames on the way the first may still arrive.
Cut ==
  /\ link \in {"dialed", "open"} /\ link' = "cut" /\ queue' = <<>>
  /\ \E n \in 0 .. Len(wire) : wire' = SubSeq(wire, 1, n)
  /\ UNCHANGED <<version, loops, windowVars, missed>>

\* onclose
NoticesCut ==
  /\ link = "cut" /\ wire = <<>> /\ link' = "down"
  /\ UNCHANGED <<version, loops, queue, wire, windowVars, missed>>
-----------------------------------------------------------------------------
\* refresh(): asks for all parts at once.
Ask(calls) ==
  /\ Len(calls) < MaxRefreshes
  /\ refreshes' = Append(calls, [read |-> [p \in Parts |-> Unread], overtaken |-> FALSE])
  /\ missed' = FALSE

\* Fault: a task's event is shown in the chat and no more.
AsksForStateOnly == {"state"}
AsksAgain == {"state", "rows"}

\* handleEvent()
Receive ==
  /\ wire # <<>> /\ wire' = Tail(wire)
  /\ LET frame == Head(wire) IN
     /\ shown' = IF frame.topic = "state"
                 THEN [shown EXCEPT !["tasks"] = frame.version]
                 ELSE shown
     /\ orb' = IF frame.topic \in Moods THEN frame.topic ELSE orb
     /\ IF frame.topic \in AsksAgain THEN Ask(refreshes) ELSE UNCHANGED <<refreshes, missed>>
  /\ UNCHANGED <<version, loops, link, queue, opened, command>>

\* The timer that was set when the agent was done: the orb settles.
OrbSettles ==
  /\ orb = "over" /\ orb' = "idle"
  /\ UNCHANGED <<version, loops, link, queue, wire, opened, refreshes, command, shown, missed>>

\* _serve(): a request is read, dispatched and answered.
Serve(i, part) ==
  /\ refreshes[i].read[part] = Unread
  /\ refreshes' = [refreshes EXCEPT ![i].read[part] = version]
  /\ UNCHANGED <<version, loops, link, queue, wire, opened, command, shown, orb, missed>>

\* The answers that come last are the ones the window keeps: those a younger
\* refresh had overtaken too.
Show(i) ==
  /\ \A p \in Parts : refreshes[i].read[p] # Unread
  /\ shown' = refreshes[i].read
  /\ missed' = (missed \/ refreshes[i].overtaken)
  /\ refreshes' = [j \in 1 .. Len(refreshes) - 1 |->
       IF j < i THEN [refreshes[j] EXCEPT !.overtaken = TRUE] ELSE refreshes[j + 1]]
  /\ UNCHANGED <<version, loops, link, queue, wire, opened, command, orb>>

\* One of the requests fails, and with it the refresh; nobody is told.
RefreshFails(i) ==
  /\ refreshes' = RemoveAt(refreshes, i) /\ missed' = TRUE
  /\ UNCHANGED <<version, loops, link, queue, wire, opened, command, shown, orb>>
-----------------------------------------------------------------------------
Open ==
  /\ opened = "closed" /\ opened' = "health"
  /\ UNCHANGED <<version, loops, link, queue, wire, refreshes, command, shown, orb, missed>>

\* App's effect: is the engine there, a first refresh, then the stream.
HealthAnswers ==
  /\ opened = "health" /\ opened' = "first" /\ Ask(refreshes)
  /\ UNCHANGED <<version, loops, link, queue, wire, command, shown, orb>>
HealthFails ==
  /\ opened = "health" /\ opened' = "on"
  /\ UNCHANGED <<version, loops, link, queue, wire, refreshes, command, shown, orb, missed>>
FirstRefreshEnds ==
  /\ opened = "first" /\ refreshes = <<>> /\ opened' = "on"
  /\ UNCHANGED <<version, loops, link, queue, wire, refreshes, command, shown, orb, missed>>

\* stopTask(), resolveApproval(): the call, then a refresh - unless the answer
\* was lost.  stop() of a task without a coroutine is not announced.
CommandIsDone(told) ==
  /\ opened = "on" /\ ~command /\ command' = TRUE
  /\ Grow
  /\ IF told THEN Emit(<<Event("rows")>>) ELSE missed' = TRUE /\ UNCHANGED queue
  /\ UNCHANGED <<loops, link, wire, opened, refreshes, shown, orb>>
CommandAnswers ==
  /\ command /\ command' = FALSE /\ Ask(refreshes)
  /\ UNCHANGED <<version, loops, link, queue, wire, opened, shown, orb>>
CommandFails ==
  /\ command /\ command' = FALSE
  /\ UNCHANGED <<version, loops, link, queue, wire, opened, refreshes, shown, orb, missed>>

\* The process of the window ends.
Close ==
  /\ opened # "closed" /\ opened' = "closed"
  /\ link' = "down" /\ queue' = <<>> /\ wire' = <<>>
  /\ refreshes' = <<>> /\ command' = FALSE /\ shown' = Blank /\ orb' = "idle"
  /\ missed' = FALSE
  /\ UNCHANGED <<version, loops>>

\* The engine dies and is started again: its loops end, its answers never come.
EngineRestarts ==
  /\ loops' = 0 /\ queue' = <<>>
  /\ link' = IF link = "down" THEN "down" ELSE "cut"
  /\ refreshes' = <<>> /\ command' = FALSE
  /\ missed' = (missed \/ refreshes # <<>>)
  /\ UNCHANGED <<version, wire, opened, shown, orb>>

SurfaceNext ==
  \/ Change \/ ChangeUntold
  \/ LoopBegins
  \/ \E words \in { <<>>, <<Event("over")>>, <<Event("blocked")>> } : LoopEnds(words)
  \/ Dial \/ Upgrade \/ Pump \/ Cut \/ NoticesCut
  \/ Receive \/ OrbSettles
  \/ \E i \in 1 .. Len(refreshes) : (\E p \in Parts : Serve(i, p)) \/ Show(i) \/ RefreshFails(i)
  \/ Open \/ HealthAnswers \/ HealthFails \/ FirstRefreshEnds
  \/ (\E told \in BOOLEAN : CommandIsDone(told)) \/ CommandAnswers \/ CommandFails
  \/ Close \/ EngineRestarts

SurfaceSpec == SurfaceInit /\ [][SurfaceNext]_surfaceVars

\* The engine serves what it is asked, the window runs its timers, and a
\* connection in use delivers.  Nobody has to click, and no loop has to end.
OldestIsServed ==
  /\ refreshes # <<>>
  /\ (\E p \in Parts : Serve(1, p)) \/ Show(1)
SurfaceFairness ==
  /\ WF_surfaceVars(Dial) /\ WF_surfaceVars(Upgrade)
  /\ WF_surfaceVars(Pump) /\ WF_surfaceVars(Receive) /\ WF_surfaceVars(NoticesCut)
  /\ WF_surfaceVars(OldestIsServed)
  /\ WF_surfaceVars(HealthAnswers \/ HealthFails) /\ WF_surfaceVars(FirstRefreshEnds)
-----------------------------------------------------------------------------
\* Everything that was sent has arrived and nothing is asked for.
NothingOnTheWay == link = "open" /\ queue = <<>> /\ wire = <<>>
ShowsWhatIs == \A p \in Parts : shown[p] = version

\* "The engine is the source of truth" (store.ts:4-8): with nothing on the way
\* the window shows what the engine keeps, all parts of it, whatever was
\* cut, restarted or asked for twice - unless the last refresh failed, an older
\* answer came after a younger one, or the change was never announced to it.
QuietWindowIsTrue ==
  NothingOnTheWay /\ refreshes = <<>> /\ ~missed => ShowsWhatIs

\* "The first frame after reconnecting is a full state snapshot, so nothing has
\* to be replayed" (api.ts:443-450): once the engine's rows and the network hold
\* still, the window comes to show them and stays with them.
WindowCatchesUp ==
  /\ <>[][version' = version /\ (link' = "cut" => link = "cut")]_surfaceVars
  /\ <>[](opened # "closed" /\ ~missed)
  => <>[]ShowsWhatIs

\* "Reopening shows the true state because the first WebSocket frame is a full
\* snapshot" (App.tsx:4-6): with nothing on the way the window shows that the
\* agent works exactly when it does.
ShowsWhetherItWorks == NothingOnTheWay => (orb = "busy") = (loops > 0)
=============================================================================
