------------------------------- MODULE Leases -------------------------------
(***************************************************************************)
(* The in-process lease table (runtime/leases.py), with the executor's use *)
(* of it (runtime/executor.py, steps 5 and 6): every action takes all of   *)
(* its resource keys in one critical section or waits for one of the keys  *)
(* that block it, runs its handler under the lease, and gives the keys     *)
(* back.  A handler may perform another action from inside itself          *)
(* (ToolContext.perform); a task's nested action carries the task's        *)
(* identity, so it asks for a lease under the same holder.                 *)
(*                                                                         *)
(* A call is one pending or running Runtime.perform, and it may be made    *)
(* again once it is over.  The nesting is a constant: Outer[c] is the call *)
(* whose handler makes c.                                                  *)
(***************************************************************************)
EXTENDS Naturals, FiniteSets

CONSTANTS
  Keys,      \* resource keys: "file:...", "app:...", "device:..."
  Calls,     \* calls of Runtime.perform
  Holders,   \* lease holders: task ids, and "action:<id>" outside a task
  HolderOf,  \* HolderOf[c]: the holder under which c asks for its lease
  Outer,     \* Outer[c]: the call whose handler makes c, or NoCall
  NoHolder,
  NoCall

ASSUME LeasesAssumption ==
  /\ IsFiniteSet(Calls)
  /\ HolderOf \in [Calls -> Holders]
  /\ NoHolder \notin Holders
  /\ NoCall \notin Calls
  /\ Outer \in [Calls -> Calls \cup {NoCall}]

Modes  == {"shared", "exclusive"}
LeasePhases == {"idle", "arming", "asleep", "awake", "held"}

VARIABLES
  readers,   \* _KeyState.readers
  writer,    \* _KeyState.writer
  changed,   \* _KeyState.waiters.is_set(); TRUE for a key that is not in the table
  phase,     \* where each call stands in acquire() and in its lease
  keys,      \* the keys a call asked for
  mode,      \* the mode it asked for
  blockers   \* the keys whose change-signals a waiting call listens to

leaseVars == <<readers, writer, changed, phase, keys, mode, blockers>>

LeasesTypeOK ==
  /\ readers  \in [Keys -> Nat]
  /\ writer   \in [Keys -> Holders \cup {NoHolder}]
  /\ changed  \in [Keys -> BOOLEAN]
  /\ phase    \in [Calls -> LeasePhases]
  /\ keys     \in [Calls -> SUBSET Keys]
  /\ mode     \in [Calls -> Modes]
  /\ blockers \in [Calls -> SUBSET Keys]

LeasesInit ==
  /\ readers  = [k \in Keys |-> 0]
  /\ writer   = [k \in Keys |-> NoHolder]
  /\ changed  = [k \in Keys |-> TRUE]
  /\ phase    = [c \in Calls |-> "idle"]
  /\ keys     = [c \in Calls |-> {}]
  /\ mode     = [c \in Calls |-> "shared"]
  /\ blockers = [c \in Calls |-> {}]
-----------------------------------------------------------------------------
Waiting(c) == phase[c] \in {"arming", "asleep", "awake"}
Holds(c, k) == phase[c] = "held" /\ k \in keys[c]

\* Handlers are sequential: a handler that awaits a nested action neither
\* makes another one nor returns until that one is over.
Inner(c) == {d \in Calls : Outer[d] = c}
HandlerIsFree(c) == phase[c] = "held" /\ \A d \in Inner(c) : phase[d] = "idle"

\* Faults: the check forgets the writer; it forgets the readers.
CanTakeBesideWriter(k, m, h) == m = "exclusive" => readers[k] = 0
CanTakeBesideReaders(k, m, h) == writer[k] \in {NoHolder, h}

\* Nobody but h writes the key, and a writer also waits for every reader.
CanTake(k, m, h) ==
  /\ writer[k] \in {NoHolder, h}
  /\ m = "exclusive" => readers[k] = 0

\* A key is free when nobody reads it and nobody writes it; its row then
\* leaves the table.
Free(r, w) == r = 0 /\ w = NoHolder

\* Every key at once: the whole of the loop's successful branch.
Take(c, ks, m) ==
  /\ \A k \in ks : CanTake(k, m, HolderOf[c])
  /\ writer'   = [k \in Keys |-> IF k \in ks /\ m = "exclusive"
                                 THEN HolderOf[c] ELSE writer[k]]
  /\ readers'  = [k \in Keys |-> IF k \in ks /\ m = "shared"
                                 THEN readers[k] + 1 ELSE readers[k]]
  /\ phase'    = [phase EXCEPT ![c] = "held"]
  /\ blockers' = [blockers EXCEPT ![c] = {}]
  /\ UNCHANGED changed

\* None of them: clear the change-signals of the keys that block us and
\* schedule one waiting coroutine for each.
Park(c, ks, m) ==
  LET blocked == {k \in ks : ~CanTake(k, m, HolderOf[c])} IN
  /\ blocked # {}
  /\ changed'  = [k \in Keys |-> changed[k] /\ k \notin blocked]
  /\ phase'    = [phase EXCEPT ![c] = "arming"]
  /\ blockers' = [blockers EXCEPT ![c] = blocked]
  /\ UNCHANGED <<readers, writer>>

\* The critical section of one turn of the loop in acquire().
Turn(c, ks, m) == Take(c, ks, m) \/ Park(c, ks, m)

Request(c) ==
  /\ phase[c] = "idle"
  /\ Outer[c] # NoCall => HandlerIsFree(Outer[c])
  /\ \E ks \in SUBSET Keys, m \in Modes :
       /\ keys' = [keys EXCEPT ![c] = ks]
       /\ mode' = [mode EXCEPT ![c] = m]
       /\ Turn(c, ks, m)

\* The waiting coroutines run for the first time one turn of the event loop
\* after the signals were cleared, and see what was set in between.
Arm(c) ==
  /\ phase[c] = "arming"
  /\ phase' = [phase EXCEPT ![c] = IF \E k \in blockers[c] : changed[k]
                                   THEN "awake" ELSE "asleep"]
  /\ UNCHANGED <<readers, writer, changed, keys, mode, blockers>>

Retry(c) ==
  /\ phase[c] = "awake"
  /\ Turn(c, keys[c], mode[c])
  /\ UNCHANGED <<keys, mode>>

\* LeaseTimeout, or the task is cancelled while it waits.
GiveUp(c) ==
  /\ Waiting(c)
  /\ phase'    = [phase EXCEPT ![c] = "idle"]
  /\ keys'     = [keys EXCEPT ![c] = {}]
  /\ blockers' = [blockers EXCEPT ![c] = {}]
  /\ UNCHANGED <<readers, writer, changed, mode>>

WokenByWriters(c) ==
  {d \in Calls : /\ mode[c] = "exclusive"
                 /\ phase[d] = "asleep" /\ blockers[d] \cap keys[c] # {}}

\* Lease.release: what is left of each key, whose signal is set, and which
\* waiting calls that wakes.  A row that leaves the table keeps its signal
\* set for good, so it also wakes the calls that are not listening yet.
ReadersLeft(c, k) ==
  IF k \in keys[c] /\ mode[c] = "shared" /\ readers[k] > 0
  THEN readers[k] - 1 ELSE readers[k]

WriterLeft(c, k) ==
  IF k \in keys[c] /\ mode[c] = "exclusive" /\ writer[k] = HolderOf[c]
  THEN NoHolder ELSE writer[k]

GivenBack(c) == {k \in keys[c] : ~Free(readers[k], writer[k])}
Dropped(c) == {k \in GivenBack(c) : Free(ReadersLeft(c, k), WriterLeft(c, k))}

Woken(c) ==
  {d \in Calls : \/ phase[d] = "asleep" /\ blockers[d] \cap GivenBack(c) # {}
                 \/ phase[d] = "arming" /\ blockers[d] \cap Dropped(c) # {}}

Release(c) ==
  /\ HandlerIsFree(c)
  /\ readers'  = [k \in Keys |-> ReadersLeft(c, k)]
  /\ writer'   = [k \in Keys |-> WriterLeft(c, k)]
  /\ changed'  = [k \in Keys |-> changed[k] \/ k \in GivenBack(c)]
  /\ phase'    = [d \in Calls |-> IF d = c THEN "idle"
                                  ELSE IF d \in Woken(c) THEN "awake"
                                  ELSE phase[d]]
  /\ keys'     = [keys EXCEPT ![c] = {}]
  /\ UNCHANGED <<mode, blockers>>

LeasesNext ==
  \E c \in Calls :
    \/ Request(c)
    \/ Arm(c)
    \/ Retry(c)
    \/ GiveUp(c)
    \/ Release(c)

LeasesSpec == LeasesInit /\ [][LeasesNext]_leaseVars

\* The event loop runs whatever is ready, and every handler ends: it runs
\* under wait_for(spec.timeout) and the lease is released in a finally.
\* Timeouts of the waits themselves are not assumed to fire.
LeasesFairness ==
  \A c \in Calls : WF_leaseVars(Arm(c)) /\ WF_leaseVars(Retry(c)) /\ WF_leaseVars(Release(c))

LeasesFairSpec == LeasesSpec /\ LeasesFairness
-----------------------------------------------------------------------------
\* Every lease is for one holder only: no handler performs a nested action.
Flat == \A c, d \in Calls : HolderOf[c] = HolderOf[d] => c = d

\* Two leases in force on one key never belong to different holders unless
\* both only read (LeaseMode: "sole writer", "concurrent reads").
Exclusion ==
  \A c, d \in Calls, k \in Keys :
    /\ Holds(c, k) /\ Holds(d, k)
    /\ HolderOf[c] # HolderOf[d]
    => mode[c] = "shared" /\ mode[d] = "shared"

\* The counter in the table is the number of shared leases in force on the
\* key: a reader is never forgotten and never counted twice, so a writer
\* neither enters beside a reader nor waits for one that has gone.
Sharers(k) == {c \in Calls : Holds(c, k) /\ mode[c] = "shared"}

ReadersCounted == \A k \in Keys : readers[k] = Cardinality(Sharers(k))

\* A key never stays locked by a holder with no exclusive lease on it.
WriterIsLive ==
  \A k \in Keys :
    writer[k] # NoHolder =>
      \E c \in Calls : Holds(c, k) /\ mode[c] = "exclusive" /\ HolderOf[c] = writer[k]

\* No lost wake-up: a call that sleeps is blocked by every key it listens
\* to; the release that unblocks one of them wakes it.
NoLostWakeup ==
  \A c \in Calls : phase[c] = "asleep" =>
    /\ blockers[c] # {}
    /\ \A k \in blockers[c] : ~CanTake(k, mode[c], HolderOf[c])

\* Without any timeout firing, a sleeping call is woken: the calls that block
\* it finish, so it looks at the table again.
SleepersWake == \A c \in Calls : phase[c] = "asleep" ~> phase[c] # "asleep"

\* The leases in force, seen as the users of each key.
UsersOf(k) == {[call |-> c, mode |-> mode[c]] : c \in {d \in Calls : Holds(d, k)}}
InUse == [k \in Keys |-> UsersOf(k)]

RW == INSTANCE ReadersWriters WITH users <- InUse

\* The lease table implements readers and writers.
ImplementsReadersWriters == RW!RWSpec
=============================================================================
