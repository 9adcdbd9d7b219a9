--------------------------------- MODULE Gate ---------------------------------
(***************************************************************************)
(* The notification gate (notifications.py): tools and subscriptions raise *)
(* notices, and the gate decides which of them reach the user now, which   *)
(* wait, and which are dropped.  It reads the settings by reference, so a  *)
(* change of the configuration, whoever makes it, is in force at the next  *)
(* notice.  The gate keeps all of this in memory: a restart of the engine  *)
(* forgets it, and the history below does not.                             *)
(*                                                                         *)
(* A message is its fingerprint (source and text).  Importance is 2, below *)
(* the floor of 3 that the settings start with, 3, or 5, critical.         *)
(***************************************************************************)
EXTENDS Settings, Sequences, FiniteSets, SequencesExt, Ordering

CONSTANTS
  Messages,
  Window,        \* DEDUPE_WINDOW_SECONDS
  Hour,          \* 3600
  Cap,           \* max_per_hour; 0 is no limit
  RecentSize,    \* maxlen of _recent
  DeliveredSize, \* maxlen of _delivered_at
  ReleaseLimit,  \* limit of release_held
  MaxNotices,    \* bound: notices raised
  MaxClock       \* bound: the clock

ASSUME GateAssumption ==
  {Window, Hour, RecentSize, DeliveredSize, ReleaseLimit, MaxNotices, MaxClock} \subseteq Nat \ {0}
    /\ Cap \in Nat

Critical == 5
Importances == {3, 5}
Notices == [message : Messages, importance : Importances, at : 0 .. MaxClock]

VARIABLES
  clock,
  night,      \* do the quiet hours, when they can be read, contain this moment?
  gaming,     \* _gaming, while suppress_while_gaming is on
  recent,     \* _recent: the notices whose fingerprints it remembers
  delivered,  \* _delivered_at
  held,       \* _held
  pump,       \* "running", or "dead" once consider() has raised
  life,       \* history: how often the engine was restarted
  raised,     \* history: every notice considered, with what became of it
  heard,      \* history: what the user was told, in order, and in which life
  dropped,    \* history: what drop_held() threw away
  lost        \* history: what was held when the engine was restarted

gateVars ==
  <<clock, night, gaming, recent, delivered, held, pump, life, raised, heard, dropped, lost>>

Verdicts == {"deliver", "hold", "duplicate", "trivial"}

GateTypeOK ==
  /\ clock \in 0 .. MaxClock
  /\ night \in BOOLEAN /\ gaming \in BOOLEAN
  /\ recent \in Seq(Notices) /\ Len(recent) <= RecentSize
  /\ delivered \in Seq(0 .. MaxClock) /\ Len(delivered) <= DeliveredSize
  /\ held \in Seq(Notices)
  /\ pump \in {"running", "dead"}
  /\ life \in 0 .. clock
  /\ raised \in Seq([notice : Notices, verdict : Verdicts])
  /\ heard \in Seq([notice : Notices, late : BOOLEAN, when : 0 .. MaxClock, life : 0 .. MaxClock])
  /\ dropped \subseteq Notices /\ lost \subseteq Notices

GateInit ==
  /\ clock = 0 /\ night = FALSE /\ gaming = FALSE
  /\ recent = <<>> /\ delivered = <<>> /\ held = <<>>
  /\ pump = "running" /\ life = 0 /\ raised = <<>> /\ heard = <<>> /\ dropped = {} /\ lost = {}
-----------------------------------------------------------------------------
\* deque(maxlen = size).append(x)
Push(s, x, size) == LastOf(Append(s, x), size)

\* The same message from the same source, within the window, as far as the
\* gate remembers; how important it was does not count.
IsDuplicate(n) ==
  \E i \in DOMAIN recent :
    recent[i].message = n.message /\ recent[i].at + Window >= n.at

\* Fault: the limit is one too high.
OverLimitByOne(now) ==
  Cap > 0 /\ Cardinality({i \in DOMAIN delivered : delivered[i] + Hour >= now}) > Cap

OverRateLimit(now) ==
  Cap > 0 /\ Cardinality({i \in DOMAIN delivered : delivered[i] + Hour >= now}) >= Cap

Remembers(v) == v \in {"deliver", "hold"}

\* _decide()
Decide(n) ==
  CASE IsDuplicate(n)                    -> "duplicate"
    [] OTHER -> IF n.importance < memory.floor THEN "trivial"
                ELSE IF n.importance >= Critical THEN "deliver"
                ELSE IF night \/ gaming \/ OverRateLimit(n.at) THEN "hold"
                ELSE "deliver"

\* Quiet hours that nobody can read ("99:99" passes validate()) raise, unless
\* an earlier rule has settled the notice.
Raises(n) ==
  /\ memory.hours = "99:99" /\ ~IsDuplicate(n)
  /\ memory.floor <= n.importance /\ n.importance < Critical

\* The user is told something.
Hearing(n, late) == [notice |-> n, late |-> late, when |-> clock, life |-> life]

\* consider(): decide, remember, and speak if the answer is yes.
Consider(n) ==
  LET v == Decide(n) IN
  /\ pump = "running" /\ ~Raises(n)
  /\ Len(raised) < MaxNotices
  /\ raised'    = Append(raised, [notice |-> n, verdict |-> v])
  /\ recent'    = IF Remembers(v) THEN Push(recent, n, RecentSize) ELSE recent
  /\ delivered' = IF v = "deliver" THEN Push(delivered, n.at, DeliveredSize) ELSE delivered
  /\ heard'     = IF v = "deliver" THEN Append(heard, Hearing(n, FALSE)) ELSE heard
  /\ held'      = IF v = "hold" THEN Append(held, n) ELSE held
  /\ UNCHANGED <<clock, night, gaming, pump, life, dropped, lost>>

\* The pump of listen() has no handler for that, and ends.
PumpEnds(n) ==
  /\ pump = "running" /\ Raises(n)
  /\ pump' = "dead"
  /\ UNCHANGED <<clock, night, gaming, recent, delivered, held, life, raised, heard, dropped, lost>>

\* Most important first, and the oldest of those; sorted() leaves what is alike
\* in both in the order it was held in.
MoreUrgent(a, b) ==
  a.importance > b.importance \/ (a.importance = b.importance /\ a.at < b.at)
Sooner ==
  {p \in (DOMAIN held) \X (DOMAIN held) :
     \/ MoreUrgent(held[p[1]], held[p[2]])
     \/ ~MoreUrgent(held[p[2]], held[p[1]]) /\ p[1] < p[2]}
Urgent ==
  LET place == InOrder(DOMAIN held, Sooner) IN
  [r \in {q \in DOMAIN place : q <= ReleaseLimit} |-> held[place[r]]]

\* Fault: everything held is forgotten, also what was over the limit.
RestForgotten(released) == <<>>
Rest(released) == Picked(held, {i \in DOMAIN held : held[i] \notin Range(released)})

\* release_held(): when quiet hours end, a game closes, or the user asks.
Release ==
  /\ held # <<>>
  /\ LET released == Urgent IN
     /\ held'  = Rest(released)
     /\ heard' = heard \o [i \in DOMAIN released |-> Hearing(released[i], TRUE)]
     /\ delivered' = LastOf(delivered \o [i \in DOMAIN released |-> clock], DeliveredSize)
  /\ UNCHANGED <<clock, night, gaming, recent, pump, life, raised, dropped, lost>>

\* drop_held(): the user does not want them.
DropHeld ==
  /\ held # <<>> /\ held' = <<>>
  /\ dropped' = dropped \cup ToSet(held)
  /\ UNCHANGED <<clock, night, gaming, recent, delivered, pump, life, raised, heard, lost>>

\* The world: time passes, the night comes and goes, a game starts or closes.
\* The clock of the machine is taken never to be set back.
gateOwn == <<recent, delivered, held, pump, life, raised, heard, dropped, lost>>
Tick == clock < MaxClock /\ clock' = clock + 1 /\ UNCHANGED <<night, gaming, gateOwn>>
Dusk == night' = ~night /\ UNCHANGED <<clock, gaming, gateOwn>>
SetGaming == gaming' = ~gaming /\ UNCHANGED <<clock, night, gateOwn>>

GateNext ==
  \/ \E m \in Messages, k \in Importances :
       LET n == [message |-> m, importance |-> k, at |-> clock] IN Consider(n) \/ PumpEnds(n)
  \/ Release \/ DropHeld \/ Tick \/ Dusk \/ SetGaming

\* The engine starts anew, which takes its time: nothing of what the gate
\* remembers is persisted, and what it held is never told.
GateRestart ==
  /\ clock < MaxClock /\ clock' = clock + 1 /\ life' = life + 1
  /\ recent' = <<>> /\ delivered' = <<>> /\ held' = <<>> /\ pump' = "running" /\ gaming' = FALSE
  /\ lost' = lost \cup ToSet(held)
  /\ UNCHANGED <<night, raised, heard, dropped>>

\* Whatever the settings do meanwhile: each notice is judged by those it meets.
GateSpec == GateInit /\ [][GateNext \/ GateRestart]_gateVars
-----------------------------------------------------------------------------
Accepted == {i \in DOMAIN raised : raised[i].verdict \in {"deliver", "hold"}}

\* However notices arrive, nights fall and held ones are released: when the
\* user is told something without asking that is not critical, then in the hour
\* up to it the same life of the engine has told no more than the limit.  In an
\* hour with no restart in it that is all there was; a restart forgets what the
\* hour has had, and the limit starts over (notifications.py:95, 149-150, 166-167).
WithinTheLimit ==
  \A j \in DOMAIN heard :
    LET h == heard[j]
        hour == {i \in 1 .. j : heard[i].when + Hour >= h.when /\ heard[i].life = h.life}
    IN  Cap \in 1 .. DeliveredSize /\ ~h.late /\ h.notice.importance < Critical =>
          Cardinality(hour) <= Cap

\* "Held, not dropped" (notifications.py:11) as far as it goes: over all lives of
\* the engine, whatever the gate accepted was told to the user, is still held,
\* was thrown away on request, or was held when the engine was restarted: one of
\* these, and once (notifications.py:96, 156-175).
OnlyRestartsLose ==
  \A i \in Accepted :
    LET n == raised[i].notice
        spoken == {j \in DOMAIN heard : heard[j].notice = n}
        kept == {j \in DOMAIN held : held[j] = n}
        gone == dropped \cap {n}
        forgotten == lost \cap {n}
    IN  Cardinality(spoken) + Cardinality(kept) + Cardinality(gone) + Cardinality(forgotten) = 1
=============================================================================
