------------------------------- MODULE Effects -------------------------------
(***************************************************************************)
(* The effect store (kernel/effects.py): one row for each identity of an   *)
(* act upon the world, by which a repeated or concurrent attempt finds out *)
(* that the act was already claimed, done, or may have been done.          *)
(*                                                                         *)
(* Callers live in processes that share one database file.  Inside a       *)
(* process the lock of store.Database makes reserve() one step; between    *)
(* processes it is two, because SQLite opens the transaction at the INSERT *)
(* and not at the SELECT before it.  A process may die between any two     *)
(* steps; when it starts again it sweeps the reservations it finds.        *)
(*                                                                         *)
(* What a caller does between reserve() and complete() is not in this      *)
(* repository: it acts, or finds that it could not, or cannot tell, and    *)
(* settles the row accordingly.                                            *)
(***************************************************************************)
EXTENDS Naturals, FiniteSets

CONSTANTS
  Ids,        \* effect identities
  Arguments,  \* what an act may be asked for with (their hashes)
  Callers,    \* coroutines that perform effects
  Processes,
  ProcessOf   \* ProcessOf[c]: the process in which c runs

ASSUME EffectsAssumption ==
  /\ ProcessOf \in [Callers -> Processes]
  /\ Ids # {} /\ Arguments # {}

States  == {"absent", "reserved", "done", "failed", "uncertain"}
Settled == {"done", "failed", "uncertain"}
Answers == States \cup {"none", "granted", "refused", "error"}

VARIABLES
  row,       \* row[i]: state of the row, "absent" when there is none
  hash,      \* hash[i]: arguments the row was reserved for, when there is one
  process,   \* process[p]: "down", "sweeping" or "up"
  stranded,  \* stranded[p]: reservations p's sweep has read and not yet marked
  at,        \* at[c]: where c stands
  id,        \* id[c], asked[c]: what c is performing, with which arguments
  asked,
  answer,    \* answer[c]: what reserve() last answered c
  happened   \* happened[i]: how many times the act happened in the world

effectVars == <<row, hash, process, stranded, at, id, asked, answer, happened>>

EffectsTypeOK ==
  /\ row      \in [Ids -> States]
  /\ hash     \in [Ids -> Arguments]
  /\ process  \in [Processes -> {"down", "sweeping", "up"}]
  /\ stranded \in [Processes -> SUBSET Ids]
  /\ at       \in [Callers -> {"idle", "looking", "granted", "acted", "failed"}]
  /\ id       \in [Callers -> Ids]
  /\ asked    \in [Callers -> Arguments]
  /\ answer   \in [Callers -> Answers]
  /\ happened \in [Ids -> Nat]

EffectsInit ==
  /\ row      = [i \in Ids |-> "absent"]
  /\ hash     = [i \in Ids |-> CHOOSE a \in Arguments : TRUE]
  /\ process  = [p \in Processes |-> "down"]
  /\ stranded = [p \in Processes |-> {}]
  /\ at       = [c \in Callers |-> "idle"]
  /\ id       = [c \in Callers |-> CHOOSE i \in Ids : TRUE]
  /\ asked    = [c \in Callers |-> CHOOSE a \in Arguments : TRUE]
  /\ answer   = [c \in Callers |-> "none"]
  /\ happened = [i \in Ids |-> 0]
-----------------------------------------------------------------------------
\* The instance lock: nobody of the same process is inside reserve().
LockIsFree(c) ==
  \A d \in Callers : ProcessOf[d] = ProcessOf[c] => at[d] # "looking"

\* What an existing row answers.  It never grants, not even when it says
\* that the act failed and is repeatable.
Existing(i, a) == IF hash[i] # a THEN "refused" ELSE row[i]

\* reserve(), first statement: SELECT.
Look(c, i, a) ==
  /\ process[ProcessOf[c]] = "up"
  /\ at[c] = "idle"
  /\ LockIsFree(c)
  /\ id'    = [id EXCEPT ![c] = i]
  /\ asked' = [asked EXCEPT ![c] = a]
  /\ \/ /\ row[i] = "absent"
        /\ at'     = [at EXCEPT ![c] = "looking"]
        /\ answer' = [answer EXCEPT ![c] = "none"]
     \/ /\ row[i] # "absent"
        /\ answer' = [answer EXCEPT ![c] = Existing(i, a)]
        /\ UNCHANGED at
  /\ UNCHANGED <<row, hash, process, stranded, happened>>

\* Fault: INSERT OR REPLACE.
KeyIsIgnored(i) == TRUE

\* May the INSERT of this identity go through?  The primary key decides.
KeyIsFree(i) == row[i] = "absent"

\* reserve(), second statement: INSERT and commit, or the primary key says no
\* because another process was faster.
Insert(c) ==
  /\ at[c] = "looking"
  /\ LET i == id[c] IN
     \/ /\ KeyIsFree(i)
        /\ row'    = [row EXCEPT ![i] = "reserved"]
        /\ hash'   = [hash EXCEPT ![i] = asked[c]]
        /\ at'     = [at EXCEPT ![c] = "granted"]
        /\ answer' = [answer EXCEPT ![c] = "granted"]
     \/ /\ ~KeyIsFree(i)
        /\ at'     = [at EXCEPT ![c] = "idle"]
        /\ answer' = [answer EXCEPT ![c] = "error"]
        /\ UNCHANGED <<row, hash>>
  /\ UNCHANGED <<process, stranded, id, asked, happened>>

\* The caller acts, or finds that it could not.
Act(c) ==
  /\ at[c] = "granted"
  /\ at'       = [at EXCEPT ![c] = "acted"]
  /\ happened' = [happened EXCEPT ![id[c]] = @ + 1]
  /\ UNCHANGED <<row, hash, process, stranded, id, asked, answer>>

CannotAct(c) ==
  /\ at[c] = "granted"
  /\ at' = [at EXCEPT ![c] = "failed"]
  /\ UNCHANGED <<row, hash, process, stranded, id, asked, answer, happened>>

\* Fault: complete() does not look at ok.
OutcomeIgnored(c) == "done"

\* complete(ok)
Outcome(c) == IF at[c] = "acted" THEN "done" ELSE "failed"

\* _settle(): an UPDATE that looks at nothing but the identity.
Settle(i, state) == row' = [row EXCEPT ![i] = state]

Complete(c) ==
  /\ at[c] \in {"acted", "failed"}
  /\ Settle(id[c], Outcome(c))
  /\ at' = [at EXCEPT ![c] = "idle"]
  /\ UNCHANGED <<hash, process, stranded, id, asked, answer, happened>>

\* mark_uncertain(), by a caller that cannot tell, because of a timeout.
MarkUncertain(c) ==
  /\ at[c] \in {"acted", "failed"}
  /\ Settle(id[c], "uncertain")
  /\ at' = [at EXCEPT ![c] = "idle"]
  /\ UNCHANGED <<hash, process, stranded, id, asked, answer, happened>>

\* Fault: the sweep looks for the wrong state.
UnsettledMissed == {i \in Ids : row[i] = "uncertain"}

\* sweep_unsettled(), at startup: what is reserved now is read at once ...
Unsettled == {i \in Ids : row[i] = "reserved"}

Start(p) ==
  /\ process[p] = "down"
  /\ stranded' = [stranded EXCEPT ![p] = Unsettled]
  /\ process'  = [process EXCEPT ![p] = "sweeping"]
  /\ UNCHANGED <<row, hash, at, id, asked, answer, happened>>

\* ... and marked one by one, whatever has become of it since.
Sweep(p, i) ==
  /\ i \in stranded[p]
  /\ Settle(i, "uncertain")
  /\ stranded' = [stranded EXCEPT ![p] = @ \ {i}]
  /\ UNCHANGED <<hash, process, at, id, asked, answer, happened>>

Swept(p) ==
  /\ process[p] = "sweeping"
  /\ stranded[p] = {}
  /\ process' = [process EXCEPT ![p] = "up"]
  /\ UNCHANGED <<row, hash, stranded, at, id, asked, answer, happened>>

\* A process dies with everything in its memory; an uncommitted INSERT never
\* was, a committed row stays.
Crash(p) ==
  /\ process[p] # "down"
  /\ process'  = [process EXCEPT ![p] = "down"]
  /\ stranded' = [stranded EXCEPT ![p] = {}]
  /\ at'       = [c \in Callers |-> IF ProcessOf[c] = p THEN "idle" ELSE at[c]]
  /\ answer'   = [c \in Callers |-> IF ProcessOf[c] = p THEN "none" ELSE answer[c]]
  /\ UNCHANGED <<row, hash, id, asked, happened>>

EffectsNext ==
  \/ \E c \in Callers :
       \/ \E i \in Ids, a \in Arguments : Look(c, i, a)
       \/ Insert(c) \/ Act(c) \/ CannotAct(c) \/ Complete(c) \/ MarkUncertain(c)
  \/ \E p \in Processes :
       \/ Start(p) \/ Swept(p) \/ Crash(p)
       \/ \E i \in Ids : Sweep(p, i)

EffectsSpec == EffectsInit /\ [][EffectsNext]_effectVars
-----------------------------------------------------------------------------
\* One identity, one act: however many callers and processes attempt it, die
\* and are started again, it happens at most once (effects.py:1-28, 119-123).
AtMostOnce == \A i \in Ids : happened[i] <= 1

\* What the store says of the world is so, sweeps by other processes and late
\* settlements included: a row that says done means that the act happened, one
\* that says failed means that it did not, and so does the absence of a row.
RowsAreTrue ==
  \A i \in Ids :
    /\ row[i] = "done" => happened[i] > 0
    /\ row[i] \in {"failed", "absent"} => happened[i] = 0

\* A caller is still performing i: its settlement is yet to come.
Performs(c, i) == id[c] = i /\ at[c] \in {"granted", "acted", "failed"}

\* A reservation nobody will settle does not outlive the next start: it has a
\* living caller, or a process is still down or about to mark it uncertain
\* (sweep_unsettled, effects.py:225-243).
StrandedIsNamed ==
  \A i \in Ids : row[i] = "reserved" =>
    \/ \E c \in Callers : Performs(c, i)
    \/ \E p \in Processes : process[p] = "down" \/ i \in stranded[p]

\* A settled row is changed only by a sweep that had read it before it was
\* settled, and then only to uncertain; or by the late settlement of a caller
\* whose reservation such a sweep had marked.  It is never claimed again.
SettledStays ==
  [][\A i \in Ids : row[i] \in Settled /\ row'[i] # row[i] =>
       \/ row'[i] = "uncertain" /\ \E p \in Processes : i \in stranded[p]
       \/ row[i] = "uncertain" /\ \E c \in Callers : Performs(c, i)]_effectVars
=============================================================================
