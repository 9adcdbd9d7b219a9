-------------------------------- MODULE Outbox --------------------------------
(***************************************************************************)
(* The event outbox (kernel/outbox.py), the event bus it publishes on      *)
(* (events.py) and a window that listens to the bus through a WebSocket    *)
(* (api/server.py): from a committed fact to the eyes of the user.         *)
(*                                                                         *)
(* An event is a row of the table event_outbox; its index in log, the      *)
(* order of the commits, stands for its event_id.  Pruned rows stay in log *)
(* as history but are no rows.  Every process that opens the database has  *)
(* its own bus; at most one window listens to each.  Events carry the time *)
(* of the machine's clock, which may be set back.                          *)
(***************************************************************************)
EXTENDS Naturals, Sequences, FiniteSets, SequencesExt, Ordering

CONSTANTS
  Engines,    \* processes that have the database open
  Writers,    \* those of them that write events
  Hosts,      \* those of them that serve a window
  Tasks,
  MaxEvents,  \* bound: events that are ever committed
  MaxTime,    \* bound: readings of the clock
  MaxHanded,  \* bound: events one window is handed or has in its queue
  MaxLost,    \* bound: events one window loses
  Limit,      \* drain(limit)
  QueueSize   \* capacity of a subscription's queue

ASSUME OutboxAssumption ==
  /\ Writers \cup Hosts \subseteq Engines
  /\ {MaxEvents, MaxTime, MaxHanded, MaxLost, Limit, QueueSize} \subseteq Nat \ {0}

VARIABLES
  log,       \* committed events, in the order of their commits
  writing,   \* writing[p]: "no", "open" (a transaction that has written a fact),
             \* "read" (record() has read the last position) or "staged"
  draft,     \* draft[p]: the event p has read a position for
  batch,     \* batch[p]: the events the running drain() still has to emit
  drained,   \* drained[p]: all the events of the running drain()
  told,      \* history: events that were emitted on some bus
  window,    \* window[p]: is a window connected to p's bus?
  queue,     \* queue[p]: Subscription._queue
  dropped,   \* dropped[p]: Subscription.dropped
  sent,      \* history: sent[p]: events emitted on p's bus since it connected
  seen       \* seen[p]: what the window was handed, repetitions included

outboxVars == <<log, writing, draft, batch, drained, told,
                window, queue, dropped, sent, seen>>
writerVars == <<writing, draft>>
drainVars  == <<batch, drained, told>>
windowVars == <<window, queue, dropped, sent, seen>>

Events == 1 .. MaxEvents
Drafts == [task : Tasks, sequence : 1 .. MaxEvents, time : 1 .. MaxTime]
Blank  == [task |-> "none", sequence |-> 1, time |-> 1]

OutboxTypeOK ==
  /\ log \in Seq([task : Tasks, sequence : 1 .. MaxEvents, time : 1 .. MaxTime,
                  state : {"pending", "published", "pruned"}])
  /\ writing \in [Engines -> {"no", "open", "read", "staged"}]
  /\ draft   \in [Engines -> Drafts \cup {Blank}]
  /\ batch   \in [Engines -> Seq(Events)] /\ drained \in [Engines -> Seq(Events)]
  /\ queue   \in [Engines -> Seq(Events)] /\ seen    \in [Engines -> Seq(Events)]
  /\ told \subseteq Events                /\ sent    \in [Engines -> SUBSET Events]
  /\ window \in [Engines -> BOOLEAN]      /\ dropped \in [Engines -> 0 .. MaxLost]

OutboxInit ==
  /\ log     = <<>>
  /\ writing = [p \in Engines |-> "no"]
  /\ draft   = [p \in Engines |-> Blank]
  /\ batch   = [p \in Engines |-> <<>>]
  /\ drained = [p \in Engines |-> <<>>]
  /\ told    = {}
  /\ window  = [p \in Engines |-> FALSE]
  /\ queue   = [p \in Engines |-> <<>>]
  /\ dropped = [p \in Engines |-> 0]
  /\ sent    = [p \in Engines |-> {}]
  /\ seen    = [p \in Engines |-> <<>>]
-----------------------------------------------------------------------------
Rows == {e \in DOMAIN log : log[e].state # "pruned"}
RowsOf(t) == {e \in Rows : log[e].task = t}

\* Fault: COUNT for MAX.
CountSequence(t) == 1 + Cardinality(RowsOf(t))

\* stage(): COALESCE(MAX(sequence), 0) + 1.
NextSequence(t) ==
  1 + (IF RowsOf(t) = {} THEN 0
       ELSE CHOOSE s \in {log[e].sequence : e \in RowsOf(t)} :
              \A e \in RowsOf(t) : log[e].sequence <= s)

\* SQLite has one writer: it has written and not committed yet.
Locked == \E p \in Engines : writing[p] \in {"open", "staged"}
Now == 1 .. MaxTime \* time.time()

Position(p, t) ==
  \E n \in Now : draft' = [draft EXCEPT ![p] =
                     [task |-> t, sequence |-> NextSequence(t), time |-> n]]

\* A caller's transaction that writes its fact first ...
Open(p) ==
  /\ p \in Writers /\ writing[p] = "no" /\ ~Locked
  /\ Len(log) < MaxEvents
  /\ writing' = [writing EXCEPT ![p] = "open"]
  /\ UNCHANGED <<log, draft, drainVars, windowVars>>

\* ... and its event second: stage(conn, ...).
Stage(p, t) ==
  /\ writing[p] = "open"
  /\ Position(p, t)
  /\ writing' = [writing EXCEPT ![p] = "staged"]
  /\ UNCHANGED <<log, drainVars, windowVars>>

\* record() has nothing else to write: no transaction is open when it reads
\* the last position.
RecordRead(p, t) ==
  /\ p \in Writers /\ writing[p] = "no"
  /\ Len(log) < MaxEvents
  /\ Position(p, t)
  /\ writing' = [writing EXCEPT ![p] = "read"]
  /\ UNCHANGED <<log, drainVars, windowVars>>

RecordInsert(p) ==
  /\ writing[p] = "read" /\ ~Locked
  /\ Len(log) < MaxEvents
  /\ writing' = [writing EXCEPT ![p] = "staged"]
  /\ UNCHANGED <<log, draft, drainVars, windowVars>>

Commit(p) ==
  /\ writing[p] = "staged"
  /\ log' = Append(log, [task |-> draft[p].task, sequence |-> draft[p].sequence,
                         time |-> draft[p].time, state |-> "pending"])
  /\ writing' = [writing EXCEPT ![p] = "no"]
  /\ draft'   = [draft EXCEPT ![p] = Blank]
  /\ UNCHANGED <<drainVars, windowVars>>

\* An exception inside transaction(), or the writer's lock not had in time.
Rollback(p) ==
  /\ writing[p] # "no"
  /\ writing' = [writing EXCEPT ![p] = "no"]
  /\ draft'   = [draft EXCEPT ![p] = Blank]
  /\ UNCHANGED <<log, drainVars, windowVars>>
-----------------------------------------------------------------------------
\* Fault: ORDER BY occurred_at alone, and what is of one moment comes in any
\* order, here the last first.
BeforeByTime(d, e) == log[d].time < log[e].time \/ (log[d].time = log[e].time /\ d > e)

\* ORDER BY occurred_at, sequence
Before(d, e) ==
  \/ log[d].time < log[e].time
  \/ log[d].time = log[e].time /\ log[d].sequence < log[e].sequence
  \/ log[d].time = log[e].time /\ log[d].sequence = log[e].sequence /\ d < e

Earlier == {p \in (DOMAIN log) \X (DOMAIN log) : Before(p[1], p[2])}
Unpublished == {e \in Rows : log[e].state = "pending"}
Pending == InOrder(Unpublished, Earlier)

\* drain(): read what is pending, emit it, mark it, in this order.
DrainRead(p) ==
  /\ drained[p] = <<>> /\ Pending # <<>>
  /\ LET first == IF Len(Pending) <= Limit THEN Pending ELSE SubSeq(Pending, 1, Limit) IN
     /\ batch'   = [batch EXCEPT ![p] = first]
     /\ drained' = [drained EXCEPT ![p] = first]
  /\ UNCHANGED <<log, writerVars, told, windowVars>>

\* Subscription._offer(): a full queue loses its oldest event, and says so.
Offer(p, e) ==
  IF ~window[p] THEN UNCHANGED windowVars
  ELSE /\ LET full == Len(queue[p]) = QueueSize IN
          /\ dropped' = [dropped EXCEPT ![p] = IF full THEN @ + 1 ELSE @]
          /\ queue' = [queue EXCEPT ![p] = Append(IF full THEN Tail(@) ELSE @, e)]
       /\ sent' = [sent EXCEPT ![p] = @ \cup {e}]
       /\ UNCHANGED <<window, seen>>

Emit(p) ==
  /\ batch[p] # <<>>
  /\ dropped[p] < MaxLost /\ Len(seen[p]) + Len(queue[p]) < MaxHanded
  /\ Offer(p, Head(batch[p]))
  /\ told'  = told \cup {Head(batch[p])}
  /\ batch' = [batch EXCEPT ![p] = Tail(@)]
  /\ UNCHANGED <<log, writerVars, drained>>

\* Fault: mark first, then publish.
MayMarkEarly(p) == drained[p] # <<>>

\* The UPDATE of every event of the drain, committed; or refused as a whole,
\* and the next drain says them again.
MayMark(p) == drained[p] # <<>> /\ batch[p] = <<>>

Mark(p) ==
  /\ MayMark(p)
  /\ ~Locked
  /\ log' = [e \in DOMAIN log |->
               IF e \in Range(drained[p]) /\ log[e].state = "pending"
               THEN [log[e] EXCEPT !.state = "published"] ELSE log[e]]
  /\ drained' = [drained EXCEPT ![p] = <<>>]
  /\ UNCHANGED <<writerVars, batch, told, windowVars>>

MarkFails(p) ==
  /\ MayMark(p)
  /\ drained' = [drained EXCEPT ![p] = <<>>]
  /\ UNCHANGED <<log, writerVars, batch, told, windowVars>>

\* prune(keep_after)
Prunable(e, cutoff) == log[e].state = "published" /\ log[e].time < cutoff

Prune(cutoff) ==
  /\ ~Locked
  /\ \E e \in DOMAIN log : Prunable(e, cutoff)
  /\ log' = [e \in DOMAIN log |-> IF Prunable(e, cutoff)
                                  THEN [log[e] EXCEPT !.state = "pruned"] ELSE log[e]]
  /\ UNCHANGED <<writerVars, drainVars, windowVars>>
-----------------------------------------------------------------------------
\* drain() does not await: nothing else of its process runs before it is over.
LoopIsFree(p) == drained[p] = <<>>

\* ApiServer._upgrade(): subscribe, then send the current state.
Connect(p) ==
  /\ p \in Hosts /\ ~window[p] /\ LoopIsFree(p)
  /\ window' = [window EXCEPT ![p] = TRUE]
  /\ UNCHANGED <<log, writerVars, drainVars, queue, dropped, sent, seen>>

Forget(p) ==
  /\ window'  = [window EXCEPT ![p] = FALSE]
  /\ queue'   = [queue EXCEPT ![p] = <<>>]
  /\ dropped' = [dropped EXCEPT ![p] = 0]
  /\ sent'    = [sent EXCEPT ![p] = {}]
  /\ seen'    = [seen EXCEPT ![p] = <<>>]

Disconnect(p) ==
  /\ window[p] /\ LoopIsFree(p)
  /\ Forget(p)
  /\ UNCHANGED <<log, writerVars, drainVars>>

\* The pump sends the oldest event of the queue, and the window handles it,
\* whether it is new or not: nobody calls deduplicate().
Deliver(p) ==
  /\ queue[p] # <<>> /\ LoopIsFree(p)
  /\ seen'  = [seen EXCEPT ![p] = Append(@, Head(queue[p]))]
  /\ queue' = [queue EXCEPT ![p] = Tail(@)]
  /\ UNCHANGED <<log, writerVars, drainVars, window, dropped, sent>>

\* A process dies and starts again: what is committed stays, nothing else.
Restart(p) ==
  /\ Forget(p)
  /\ writing' = [writing EXCEPT ![p] = "no"]
  /\ batch'   = [batch EXCEPT ![p] = <<>>]
  /\ drained' = [drained EXCEPT ![p] = <<>>]
  /\ draft'   = [draft EXCEPT ![p] = Blank]
  /\ UNCHANGED <<log, told>>

OutboxNext ==
  \/ \E p \in Engines :
       \/ Open(p) \/ RecordInsert(p) \/ Commit(p) \/ Rollback(p)
       \/ \E t \in Tasks : Stage(p, t) \/ RecordRead(p, t)
       \/ DrainRead(p) \/ Emit(p) \/ Mark(p) \/ MarkFails(p)
       \/ Connect(p) \/ Disconnect(p) \/ Deliver(p) \/ Restart(p)
  \/ \E cutoff \in 1 .. MaxTime : Prune(cutoff)

OutboxSpec == OutboxInit /\ [][OutboxNext]_outboxVars
-----------------------------------------------------------------------------
\* At least once: what is marked as published, or pruned after it, was said on
\* a bus, whoever died at whatever point of a drain (outbox.py:98-104, 134-135).
PublishedIsTold == \A e \in DOMAIN log : log[e].state # "pending" => e \in told

\* "Two events for one task cannot come out with the same position"
\* (outbox.py:54-55): of the rows of a task, the later has the higher one.
PositionsRise ==
  \A d, e \in Rows : d < e /\ log[d].task = log[e].task =>
                       log[d].sequence < log[e].sequence

\* So far no event carries an earlier time than one committed before it.
ClockKeepsGoing == \A d, e \in DOMAIN log : d < e => log[d].time <= log[e].time

\* A window whose queue never overflowed has been handed every event said since
\* it connected that is not still in its queue, and no event is lost without being
\* counted.  It may be handed an event again, after a drain that did not get to
\* its mark; but what is new to it, at whatever place, was committed after all
\* that it has had of the same task, redeliveries and pruning included, as long
\* as the clock was not set back (outbox.py:10-14, 88-97, events.py:50-59).
NewsIsInOrder ==
  \A p \in Engines : window[p] /\ dropped[p] = 0 =>
    /\ sent[p] = Range(seen[p]) \cup Range(queue[p])
    /\ ClockKeepsGoing =>
         \A j \in DOMAIN seen[p] :
           \/ \E i \in 1 .. (j - 1) : seen[p][i] = seen[p][j]
           \/ \A i \in 1 .. (j - 1) :
                log[seen[p][i]].task = log[seen[p][j]].task => seen[p][i] < seen[p][j]
=============================================================================
