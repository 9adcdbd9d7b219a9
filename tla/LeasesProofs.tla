---------------------------- MODULE LeasesProofs ----------------------------
(***************************************************************************)
(* Theorems about Leases, for every set of keys and every finite set of    *)
(* calls.  The counter and the writer of a key are exact whatever the      *)
(* nesting; exclusion, the wake-ups and the refinement of ReadersWriters   *)
(* hold when no handler performs a nested action (Flat).                   *)
(***************************************************************************)
EXTENDS Leases, FiniteSetTheorems, TLAPS

\* The variables keep their types.
THEOREM TypeCorrect == LeasesSpec => []LeasesTypeOK
<1>1. LeasesInit => LeasesTypeOK
  BY LeasesAssumption DEF LeasesInit, LeasesTypeOK, LeasePhases, Modes
<1>2. LeasesTypeOK /\ [LeasesNext]_leaseVars => LeasesTypeOK'
  <2> SUFFICES ASSUME LeasesTypeOK, [LeasesNext]_leaseVars PROVE LeasesTypeOK'
    OBVIOUS
  <2> USE LeasesAssumption DEF LeasesTypeOK, LeasePhases, Modes
  <2>1. ASSUME NEW c \in Calls, NEW ks \in SUBSET Keys, NEW m \in Modes, Turn(c, ks, m)
        PROVE  /\ readers'  \in [Keys -> Nat]
               /\ writer'   \in [Keys -> Holders \cup {NoHolder}]
               /\ changed'  \in [Keys -> BOOLEAN]
               /\ phase'    \in [Calls -> LeasePhases]
               /\ blockers' \in [Calls -> SUBSET Keys]
    <3>1. CASE Take(c, ks, m)
      BY <3>1 DEF Take
    <3>2. CASE Park(c, ks, m)
      BY <3>2 DEF Park
    <3>3. QED
      BY <2>1, <3>1, <3>2 DEF Turn
  <2>2. ASSUME NEW c \in Calls, Request(c) PROVE LeasesTypeOK'
    <3>1. PICK ks \in SUBSET Keys, m \in Modes :
            /\ keys' = [keys EXCEPT ![c] = ks]
            /\ mode' = [mode EXCEPT ![c] = m]
            /\ Turn(c, ks, m)
      BY <2>2 DEF Request
    <3>2. QED
      BY <2>1, <3>1
  <2>3. ASSUME NEW c \in Calls, Arm(c) PROVE LeasesTypeOK'
    BY <2>3 DEF Arm
  <2>4. ASSUME NEW c \in Calls, Retry(c) PROVE LeasesTypeOK'
    <3>1. keys[c] \in SUBSET Keys /\ mode[c] \in Modes
      OBVIOUS
    <3>2. QED
      BY <2>1, <2>4, <3>1 DEF Retry
  <2>5. ASSUME NEW c \in Calls, GiveUp(c) PROVE LeasesTypeOK'
    BY <2>5 DEF GiveUp
  <2>6. ASSUME NEW c \in Calls, Release(c) PROVE LeasesTypeOK'
    <3>1. \A k \in Keys : ReadersLeft(c, k) \in Nat
      BY DEF ReadersLeft
    <3>2. \A k \in Keys : WriterLeft(c, k) \in Holders \cup {NoHolder}
      BY DEF WriterLeft
    <3>3. QED
      BY <2>6, <3>1, <3>2 DEF Release
  <2>7. CASE UNCHANGED leaseVars
    BY <2>7 DEF leaseVars
  <2>8. QED
    BY <2>2, <2>3, <2>4, <2>5, <2>6, <2>7 DEF LeasesNext
<1>3. QED
  BY <1>1, <1>2, PTL DEF LeasesSpec
-----------------------------------------------------------------------------
\* What one turn of acquire() changes in a call other than c, and when it
\* leaves the table alone.
LEMMA ParkGrantsNothing ==
  ASSUME LeasesTypeOK, NEW c \in Calls, NEW ks \in SUBSET Keys, NEW m \in Modes,
         phase[c] # "held", Park(c, ks, m), [keys EXCEPT ![c] = ks] = keys',
         [mode EXCEPT ![c] = m] = mode'
  PROVE  /\ readers' = readers /\ writer' = writer
         /\ \A d \in Calls, k \in Keys : Holds(d, k)' <=> Holds(d, k)
         /\ \A d \in Calls : phase[d] = "held" => mode'[d] = mode[d]
BY DEF Park, LeasesTypeOK, Holds, LeasePhases

LEMMA TakeGrants ==
  ASSUME LeasesTypeOK, NEW c \in Calls, NEW ks \in SUBSET Keys, NEW m \in Modes,
         phase[c] # "held", Take(c, ks, m), [keys EXCEPT ![c] = ks] = keys',
         [mode EXCEPT ![c] = m] = mode'
  PROVE  /\ \A k \in Keys : Holds(c, k)' <=> k \in ks
         /\ \A k \in Keys : ~Holds(c, k)
         /\ mode'[c] = m
         /\ \A d \in Calls \ {c}, k \in Keys : Holds(d, k)' <=> Holds(d, k)
         /\ \A d \in Calls \ {c} : mode'[d] = mode[d]
BY DEF Take, LeasesTypeOK, Holds, LeasePhases

LEMMA ReleaseEnds ==
  ASSUME LeasesTypeOK, NEW c \in Calls, Release(c)
  PROVE  /\ \A k \in Keys : ~Holds(c, k)'
         /\ \A k \in Keys : Holds(c, k) <=> k \in keys[c]
         /\ \A d \in Calls \ {c}, k \in Keys : Holds(d, k)' <=> Holds(d, k)
         /\ mode' = mode
<1> USE DEF Release, HandlerIsFree, LeasesTypeOK, Holds, LeasePhases
<1>1. \A d \in Calls \ {c} : phase'[d] = "held" <=> phase[d] = "held"
  BY DEF Woken
<1>2. phase'[c] = "idle" /\ phase[c] = "held"
  OBVIOUS
<1>3. \A d \in Calls \ {c} : keys'[d] = keys[d]
  OBVIOUS
<1>4. QED
  BY <1>1, <1>2, <1>3

\* The steps of LeasesNext as turns of acquire(), quiet steps and releases: what
\* the invariants about the table need to know of a step.
Quiet ==
  /\ readers' = readers /\ writer' = writer
  /\ \A d \in Calls, k \in Keys : Holds(d, k)' <=> Holds(d, k)
  /\ \A d \in Calls : phase[d] = "held" => mode'[d] = mode[d]

Grant(c, ks, m) ==
  /\ phase[c] # "held"
  /\ Take(c, ks, m)
  /\ keys' = [keys EXCEPT ![c] = ks]
  /\ mode' = [mode EXCEPT ![c] = m]

LEMMA StepKinds ==
  ASSUME LeasesTypeOK, [LeasesNext]_leaseVars
  PROVE  \/ Quiet
         \/ \E c \in Calls, ks \in SUBSET Keys, m \in Modes : Grant(c, ks, m)
         \/ \E c \in Calls : Release(c)
<1>1. ASSUME NEW c \in Calls, Request(c)
      PROVE  Quiet \/ \E ks \in SUBSET Keys, m \in Modes : Grant(c, ks, m)
  <2>1. PICK ks \in SUBSET Keys, m \in Modes :
          /\ keys' = [keys EXCEPT ![c] = ks]
          /\ mode' = [mode EXCEPT ![c] = m]
          /\ Turn(c, ks, m)
    BY <1>1 DEF Request
  <2>2. phase[c] # "held"
    BY <1>1 DEF Request
  <2>3. CASE Take(c, ks, m)
    BY <2>1, <2>2, <2>3 DEF Grant
  <2>4. CASE Park(c, ks, m)
    BY <2>1, <2>2, <2>4, ParkGrantsNothing DEF Quiet
  <2>5. QED
    BY <2>1, <2>3, <2>4 DEF Turn
<1>2. ASSUME NEW c \in Calls, Arm(c) PROVE Quiet
  BY <1>2 DEF Arm, Quiet, Holds, LeasesTypeOK, LeasePhases
<1>3. ASSUME NEW c \in Calls, Retry(c)
      PROVE  Quiet \/ \E ks \in SUBSET Keys, m \in Modes : Grant(c, ks, m)
  <2>1. /\ keys[c] \in SUBSET Keys /\ mode[c] \in Modes
        /\ keys' = [keys EXCEPT ![c] = keys[c]]
        /\ mode' = [mode EXCEPT ![c] = mode[c]]
        /\ phase[c] # "held"
    BY <1>3 DEF Retry, LeasesTypeOK
  <2>2. CASE Take(c, keys[c], mode[c])
    BY <2>1, <2>2 DEF Grant
  <2>3. CASE Park(c, keys[c], mode[c])
    BY <2>1, <2>3, ParkGrantsNothing DEF Quiet
  <2>4. QED
    BY <1>3, <2>2, <2>3 DEF Retry, Turn
<1>4. ASSUME NEW c \in Calls, GiveUp(c) PROVE Quiet
  BY <1>4 DEF GiveUp, Waiting, Quiet, Holds, LeasesTypeOK, LeasePhases
<1>5. CASE UNCHANGED leaseVars
  BY <1>5 DEF leaseVars, Quiet, Holds
<1>6. QED
  BY <1>1, <1>2, <1>3, <1>4, <1>5 DEF LeasesNext
-----------------------------------------------------------------------------
\* Whatever the nesting, the reader counter of a key is the number of shared
\* leases in force on it, at every moment of every run.
THEOREM ReadersAreCounted == LeasesSpec => []ReadersCounted
<1>1. LeasesInit => ReadersCounted
  <2> SUFFICES ASSUME LeasesInit, NEW k \in Keys PROVE readers[k] = Cardinality(Sharers(k))
    BY DEF ReadersCounted
  <2>1. Sharers(k) = {}
    BY DEF LeasesInit, Sharers, Holds
  <2>2. QED
    BY <2>1, FS_EmptySet DEF LeasesInit
<1>2. LeasesTypeOK /\ ReadersCounted /\ [LeasesNext]_leaseVars => ReadersCounted'
  <2> SUFFICES ASSUME LeasesTypeOK, ReadersCounted, [LeasesNext]_leaseVars, NEW k \in Keys
               PROVE  readers'[k] = Cardinality(Sharers(k)')
    BY DEF ReadersCounted
  <2>1. readers[k] = Cardinality(Sharers(k)) /\ readers[k] \in Nat
    BY DEF ReadersCounted, LeasesTypeOK
  <2>2. Sharers(k) \in SUBSET Calls /\ IsFiniteSet(Sharers(k))
    BY LeasesAssumption, FS_Subset DEF Sharers
  <2>3. CASE Quiet
    <3>1. Sharers(k)' = Sharers(k)
      BY <2>3 DEF Quiet, Sharers, Holds
    <3>2. QED
      BY <2>1, <2>3, <3>1 DEF Quiet
  <2>4. ASSUME NEW c \in Calls, NEW ks \in SUBSET Keys, NEW m \in Modes, Grant(c, ks, m)
        PROVE  readers'[k] = Cardinality(Sharers(k)')
    <3>1. /\ Holds(c, k)' <=> k \in ks
          /\ ~Holds(c, k)
          /\ mode'[c] = m
          /\ \A d \in Calls \ {c} : Holds(d, k)' <=> Holds(d, k)
          /\ \A d \in Calls \ {c} : mode'[d] = mode[d]
      BY <2>4, TakeGrants DEF Grant
    <3>2. CASE k \in ks /\ m = "shared"
      <4>1. Sharers(k)' = Sharers(k) \cup {c} /\ c \notin Sharers(k)
        BY <3>1, <3>2 DEF Sharers
      <4>2. readers'[k] = readers[k] + 1
        BY <2>4, <3>2 DEF Grant, Take, LeasesTypeOK
      <4>3. QED
        BY <2>1, <2>2, <4>1, <4>2, FS_AddElement
    <3>3. CASE ~(k \in ks /\ m = "shared")
      <4>1. Sharers(k)' = Sharers(k)
        BY <3>1, <3>3 DEF Sharers
      <4>2. readers'[k] = readers[k]
        BY <2>4, <3>3 DEF Grant, Take, LeasesTypeOK
      <4>3. QED
        BY <2>1, <4>1, <4>2
    <3>4. QED
      BY <3>2, <3>3
  <2>5. ASSUME NEW c \in Calls, Release(c)
        PROVE  readers'[k] = Cardinality(Sharers(k)')
    <3>1. /\ ~Holds(c, k)'
          /\ Holds(c, k) <=> k \in keys[c]
          /\ \A d \in Calls \ {c} : Holds(d, k)' <=> Holds(d, k)
          /\ mode' = mode
      BY <2>5, ReleaseEnds
    <3>2. readers'[k] = ReadersLeft(c, k)
      BY <2>5 DEF Release
    <3>3. CASE k \in keys[c] /\ mode[c] = "shared"
      <4>1. Sharers(k)' = Sharers(k) \ {c} /\ c \in Sharers(k)
        BY <3>1, <3>3 DEF Sharers
      <4>2. readers[k] > 0
        BY <2>1, <2>2, <4>1, FS_EmptySet
      <4>3. readers'[k] = readers[k] - 1
        BY <3>2, <3>3, <4>2 DEF ReadersLeft
      <4>4. Cardinality(Sharers(k) \ {c}) = Cardinality(Sharers(k)) - 1
        BY <2>2, <4>1, FS_RemoveElement
      <4>5. QED
        BY <2>1, <4>1, <4>3, <4>4
    <3>4. CASE ~(k \in keys[c] /\ mode[c] = "shared")
      <4>1. Sharers(k)' = Sharers(k)
        BY <3>1, <3>4 DEF Sharers
      <4>2. readers'[k] = readers[k]
        BY <3>2, <3>4 DEF ReadersLeft
      <4>3. QED
        BY <2>1, <4>1, <4>2
    <3>5. QED
      BY <3>3, <3>4
  <2>6. QED
    BY <2>3, <2>4, <2>5, StepKinds
<1>3. QED
  BY <1>1, <1>2, TypeCorrect, PTL DEF LeasesSpec

\* Whatever the nesting, a key is only marked as written while its writer
\* has an exclusive lease on it in force.
THEOREM WritersAreLive == LeasesSpec => []WriterIsLive
<1>1. LeasesInit => WriterIsLive
  BY DEF LeasesInit, WriterIsLive
<1>2. LeasesTypeOK /\ WriterIsLive /\ [LeasesNext]_leaseVars => WriterIsLive'
  <2> SUFFICES ASSUME LeasesTypeOK, WriterIsLive, [LeasesNext]_leaseVars, NEW k \in Keys,
                      writer'[k] # NoHolder
               PROVE  \E c \in Calls : /\ Holds(c, k)' /\ mode'[c] = "exclusive"
                                       /\ HolderOf[c] = writer'[k]
    BY DEF WriterIsLive
  <2>1. CASE Quiet
    BY <2>1 DEF Quiet, WriterIsLive, Holds
  <2>2. ASSUME NEW c \in Calls, NEW ks \in SUBSET Keys, NEW m \in Modes, Grant(c, ks, m)
        PROVE  \E d \in Calls : /\ Holds(d, k)' /\ mode'[d] = "exclusive"
                                /\ HolderOf[d] = writer'[k]
    <3>1. /\ Holds(c, k)' <=> k \in ks
          /\ ~Holds(c, k)
          /\ mode'[c] = m
          /\ \A d \in Calls \ {c} : Holds(d, k)' <=> Holds(d, k)
          /\ \A d \in Calls \ {c} : mode'[d] = mode[d]
      BY <2>2, TakeGrants DEF Grant
    <3>2. writer'[k] = IF k \in ks /\ m = "exclusive" THEN HolderOf[c] ELSE writer[k]
      BY <2>2 DEF Grant, Take
    <3>3. QED
      BY <3>1, <3>2 DEF WriterIsLive
  <2>3. ASSUME NEW c \in Calls, Release(c)
        PROVE  \E d \in Calls : /\ Holds(d, k)' /\ mode'[d] = "exclusive"
                                /\ HolderOf[d] = writer'[k]
    <3>1. /\ Holds(c, k) <=> k \in keys[c]
          /\ \A d \in Calls \ {c} : Holds(d, k)' <=> Holds(d, k)
          /\ mode' = mode
      BY <2>3, ReleaseEnds
    <3>2. writer'[k] = WriterLeft(c, k)
      BY <2>3 DEF Release
    <3>3. writer[k] = writer'[k]
      BY <3>2 DEF WriterLeft
    <3>4. PICK d \in Calls : Holds(d, k) /\ mode[d] = "exclusive" /\ HolderOf[d] = writer[k]
      BY <3>3 DEF WriterIsLive
    <3>5. d # c
      BY <3>1, <3>2, <3>3, <3>4 DEF WriterLeft
    <3>6. QED
      BY <3>1, <3>3, <3>4, <3>5
  <2>4. QED
    BY <2>1, <2>2, <2>3, StepKinds
<1>3. QED
  BY <1>1, <1>2, TypeCorrect, PTL DEF LeasesSpec
-----------------------------------------------------------------------------
\* Without nesting a key has a writer or readers, never both, and a call with
\* an exclusive lease is the writer of each of its keys.
FlatTable ==
  /\ \A k \in Keys : writer[k] # NoHolder => readers[k] = 0
  /\ \A c \in Calls, k \in Keys :
       Holds(c, k) /\ mode[c] = "exclusive" => writer[k] = HolderOf[c]

\* A call that waits is blocked by every key it listens to, also in the turn
\* of the event loop before it listens.
FlatWaits ==
  \A c \in Calls : phase[c] \in {"arming", "asleep"} =>
    /\ blockers[c] # {}
    /\ \A k \in blockers[c] : ~CanTake(k, mode[c], HolderOf[c])

LEMMA FlatTableInvariant ==
  ASSUME Flat
  PROVE  LeasesSpec => []FlatTable
<1>1. LeasesInit => FlatTable
  BY DEF LeasesInit, FlatTable, Holds
<1>2. LeasesTypeOK /\ WriterIsLive /\ FlatTable /\ [LeasesNext]_leaseVars => FlatTable'
  <2> SUFFICES ASSUME LeasesTypeOK, WriterIsLive, FlatTable, [LeasesNext]_leaseVars, NEW k \in Keys
               PROVE  /\ writer'[k] # NoHolder => readers'[k] = 0
                      /\ \A d \in Calls : Holds(d, k)' /\ mode'[d] = "exclusive"
                                            => writer'[k] = HolderOf[d]
    BY DEF FlatTable
  <2>1. CASE Quiet
    BY <2>1 DEF Quiet, FlatTable, Holds
  <2>2. ASSUME NEW c \in Calls, NEW ks \in SUBSET Keys, NEW m \in Modes, Grant(c, ks, m)
        PROVE  /\ writer'[k] # NoHolder => readers'[k] = 0
               /\ \A d \in Calls : Holds(d, k)' /\ mode'[d] = "exclusive"
                                     => writer'[k] = HolderOf[d]
    <3>1. /\ Holds(c, k)' <=> k \in ks
          /\ ~Holds(c, k)
          /\ mode'[c] = m
          /\ \A d \in Calls \ {c} : Holds(d, k)' <=> Holds(d, k)
          /\ \A d \in Calls \ {c} : mode'[d] = mode[d]
      BY <2>2, TakeGrants DEF Grant
    <3>2. /\ writer'[k] = IF k \in ks /\ m = "exclusive" THEN HolderOf[c] ELSE writer[k]
          /\ readers'[k] = IF k \in ks /\ m = "shared" THEN readers[k] + 1 ELSE readers[k]
          /\ k \in ks => CanTake(k, m, HolderOf[c])
      BY <2>2 DEF Grant, Take
    <3>3. writer[k] # HolderOf[c]
      BY <3>1, LeasesAssumption DEF WriterIsLive, Flat
    <3>4. k \in ks => writer[k] = NoHolder
      BY <3>2, <3>3 DEF CanTake
    <3>5. \A d \in Calls \ {c} : HolderOf[d] # HolderOf[c] /\ HolderOf[d] # NoHolder
      BY LeasesAssumption DEF Flat
    <3>6. writer'[k] # NoHolder => readers'[k] = 0
      BY <3>2, <3>4 DEF FlatTable, CanTake, Modes
    <3>7. ASSUME NEW d \in Calls, Holds(d, k)', mode'[d] = "exclusive"
          PROVE  writer'[k] = HolderOf[d]
      BY <3>1, <3>2, <3>4, <3>5, <3>7 DEF FlatTable
    <3>8. QED
      BY <3>6, <3>7
  <2>3. ASSUME NEW c \in Calls, Release(c)
        PROVE  /\ writer'[k] # NoHolder => readers'[k] = 0
               /\ \A d \in Calls : Holds(d, k)' /\ mode'[d] = "exclusive"
                                     => writer'[k] = HolderOf[d]
    <3>1. /\ ~Holds(c, k)'
          /\ \A d \in Calls \ {c} : Holds(d, k)' <=> Holds(d, k)
          /\ mode' = mode
      BY <2>3, ReleaseEnds
    <3>2. readers'[k] = ReadersLeft(c, k) /\ writer'[k] = WriterLeft(c, k)
      BY <2>3 DEF Release
    <3>3. \A d \in Calls \ {c} : HolderOf[d] # HolderOf[c]
      BY DEF Flat
    <3>4. QED
      BY <3>1, <3>2, <3>3 DEF FlatTable, ReadersLeft, WriterLeft
  <2>4. QED
    BY <2>1, <2>2, <2>3, StepKinds
<1>3. QED
  BY <1>1, <1>2, TypeCorrect, WritersAreLive, PTL DEF LeasesSpec

\* When no handler performs a nested action, a writer of a key is alone on it.
THEOREM LeasesExclude ==
  ASSUME Flat
  PROVE  LeasesSpec => []Exclusion
<1>1. LeasesTypeOK /\ ReadersCounted /\ FlatTable => Exclusion
  <2> SUFFICES ASSUME LeasesTypeOK, ReadersCounted, FlatTable,
                      NEW c \in Calls, NEW d \in Calls, NEW k \in Keys,
                      Holds(c, k), Holds(d, k), HolderOf[c] # HolderOf[d],
                      mode[c] = "exclusive"
               PROVE  FALSE
    BY DEF Exclusion, LeasesTypeOK, Modes
  <2>1. writer[k] = HolderOf[c] /\ readers[k] = 0
    BY LeasesAssumption DEF FlatTable
  <2>2. mode[d] = "shared"
    BY <2>1 DEF FlatTable, LeasesTypeOK, Modes
  <2>3. d \in Sharers(k)
    BY <2>2 DEF Sharers
  <2>4. IsFiniteSet(Sharers(k))
    BY LeasesAssumption, FS_Subset DEF Sharers
  <2>5. Cardinality(Sharers(k)) = 0
    BY <2>1 DEF ReadersCounted
  <2>6. QED
    BY <2>3, <2>4, <2>5, FS_EmptySet
<1>2. QED
  BY <1>1, TypeCorrect, ReadersAreCounted, FlatTableInvariant, PTL
-----------------------------------------------------------------------------
\* Every call asks for its lease under the name of a holder.
LEMMA HoldersAreReal == \A c \in Calls : HolderOf[c] # NoHolder
BY LeasesAssumption

\* A turn of acquire() leaves every other waiting call blocked.
LEMMA TurnKeepsBlocked ==
  ASSUME Flat, LeasesTypeOK, FlatWaits,
         NEW c \in Calls, NEW ks \in SUBSET Keys, NEW m \in Modes,
         Turn(c, ks, m),
         keys' = [keys EXCEPT ![c] = ks],
         mode' = [mode EXCEPT ![c] = m]
  PROVE  FlatWaits'
<1> SUFFICES ASSUME NEW d \in Calls, phase'[d] \in {"arming", "asleep"}
             PROVE  /\ blockers'[d] # {}
                    /\ \A k \in blockers'[d] : ~CanTake(k, mode[d], HolderOf[d])'
  BY DEF FlatWaits, CanTake
<1> USE DEF LeasesTypeOK
<1>1. CASE Take(c, ks, m)
  <2>1. d # c
    BY <1>1 DEF Take
  <2>2. /\ phase[d] = phase'[d] /\ blockers'[d] = blockers[d] /\ mode'[d] = mode[d]
        /\ HolderOf[d] # HolderOf[c]
    BY <1>1, <2>1 DEF Take, Flat
  <2>3. ASSUME NEW k \in blockers[d] PROVE ~CanTake(k, mode[d], HolderOf[d])'
    <3>1. ~CanTake(k, mode[d], HolderOf[d]) /\ k \in Keys
      BY <2>2 DEF FlatWaits
    <3>2. k \in ks => CanTake(k, m, HolderOf[c])
      BY <1>1 DEF Take
    <3>3. /\ writer'[k] = IF k \in ks /\ m = "exclusive" THEN HolderOf[c] ELSE writer[k]
          /\ readers'[k] = IF k \in ks /\ m = "shared" THEN readers[k] + 1 ELSE readers[k]
      BY <1>1, <3>1 DEF Take
    <3>4. readers[k] \in Nat
      BY <3>1
    <3>5. CASE writer[k] \notin {NoHolder, HolderOf[d]}
      <4>1. HolderOf[c] # NoHolder
        BY HoldersAreReal
      <4>2. writer'[k] \notin {NoHolder, HolderOf[d]}
        BY <2>2, <3>3, <3>5, <4>1
      <4>3. QED
        BY <4>2 DEF CanTake
    <3>6. CASE mode[d] = "exclusive" /\ readers[k] # 0
      <4>1. readers'[k] # 0
        BY <3>3, <3>4, <3>6
      <4>2. QED
        BY <2>2, <3>6, <4>1 DEF CanTake
    <3>7. QED
      BY <3>1, <3>5, <3>6 DEF CanTake
  <2>4. QED
    BY <2>2, <2>3 DEF FlatWaits
<1>2. CASE Park(c, ks, m)
  <2>1. readers' = readers /\ writer' = writer
    BY <1>2 DEF Park
  <2>2. CASE d = c
    BY <1>2, <2>1, <2>2 DEF Park, CanTake
  <2>3. CASE d # c
    <3>1. phase[d] = phase'[d] /\ blockers'[d] = blockers[d] /\ mode'[d] = mode[d]
      BY <1>2, <2>3 DEF Park
    <3>2. QED
      BY <2>1, <3>1 DEF FlatWaits, CanTake
  <2>4. QED
    BY <2>2, <2>3
<1>3. QED
  BY <1>1, <1>2 DEF Turn

\* A release wakes every call it unblocks.
LEMMA ReleaseKeepsBlocked ==
  ASSUME Flat, LeasesTypeOK, FlatTable, FlatWaits, NEW c \in Calls, Release(c)
  PROVE  FlatWaits'
<1> SUFFICES ASSUME NEW d \in Calls, phase'[d] \in {"arming", "asleep"}
             PROVE  /\ blockers'[d] # {}
                    /\ \A k \in blockers'[d] : ~CanTake(k, mode[d], HolderOf[d])'
  BY DEF FlatWaits, CanTake
<1> USE DEF LeasesTypeOK
<1>1. d # c /\ d \notin Woken(c) /\ phase[d] = phase'[d]
  BY DEF Release
<1>2. blockers' = blockers /\ mode' = mode
  BY DEF Release
<1>3. ASSUME NEW k \in blockers[d] PROVE ~CanTake(k, mode[d], HolderOf[d])'
  <2>1. ~CanTake(k, mode[d], HolderOf[d]) /\ k \in Keys
    BY <1>1 DEF FlatWaits
  <2>2. readers'[k] = ReadersLeft(c, k) /\ writer'[k] = WriterLeft(c, k)
    BY <2>1 DEF Release
  <2>3. readers[k] \in Nat /\ (writer[k] # NoHolder => readers[k] = 0)
    BY <2>1 DEF FlatTable
  <2>4. ~Free(readers[k], writer[k])
    BY <2>1 DEF Free, CanTake
  <2>5. CASE k \notin keys[c]
    BY <1>2, <2>1, <2>2, <2>5 DEF ReadersLeft, WriterLeft, CanTake
  <2>6. CASE k \in keys[c]
    <3>1. phase[d] = "arming" /\ ~Free(ReadersLeft(c, k), WriterLeft(c, k))
      BY <1>1, <2>4, <2>6 DEF Woken, GivenBack, Dropped
    <3>2. CASE writer[k] # NoHolder
      <4>1. WriterLeft(c, k) = writer[k]
        BY <2>3, <3>1, <3>2 DEF Free, ReadersLeft, WriterLeft
      <4>2. readers[k] = 0
        BY <2>3, <3>2
      <4>3. writer[k] \notin {NoHolder, HolderOf[d]}
        BY <2>1, <3>2, <4>2 DEF CanTake
      <4>4. QED
        BY <2>2, <4>1, <4>3 DEF CanTake
    <3>3. CASE writer[k] = NoHolder
      <4>1. WriterLeft(c, k) = NoHolder
        BY <3>3 DEF WriterLeft
      <4>2. ReadersLeft(c, k) # 0
        BY <3>1, <4>1 DEF Free
      <4>3. mode[d] = "exclusive"
        BY <2>1, <3>3 DEF CanTake
      <4>4. QED
        BY <1>2, <2>2, <4>2, <4>3 DEF CanTake
    <3>4. QED
      BY <3>2, <3>3
  <2>7. QED
    BY <2>5, <2>6
<1>4. QED
  BY <1>1, <1>2, <1>3 DEF FlatWaits

\* When no handler performs a nested action, no wake-up is lost: a call
\* sleeps only while every key it listens to blocks it.
THEOREM NoWakeupIsLost ==
  ASSUME Flat
  PROVE  LeasesSpec => []NoLostWakeup
<1>1. LeasesInit => FlatWaits
  BY DEF LeasesInit, FlatWaits
<1>2. LeasesTypeOK /\ FlatTable /\ FlatWaits /\ [LeasesNext]_leaseVars => FlatWaits'
  <2> SUFFICES ASSUME LeasesTypeOK, FlatTable, FlatWaits, [LeasesNext]_leaseVars PROVE FlatWaits'
    OBVIOUS
  <2>1. ASSUME NEW c \in Calls, Request(c) PROVE FlatWaits'
    BY <2>1, TurnKeepsBlocked DEF Request
  <2>2. ASSUME NEW c \in Calls, Arm(c) PROVE FlatWaits'
    BY <2>2 DEF Arm, FlatWaits, CanTake, LeasesTypeOK
  <2>3. ASSUME NEW c \in Calls, Retry(c) PROVE FlatWaits'
    <3>1. /\ keys[c] \in SUBSET Keys /\ mode[c] \in Modes
          /\ keys' = [keys EXCEPT ![c] = keys[c]]
          /\ mode' = [mode EXCEPT ![c] = mode[c]]
      BY <2>3 DEF Retry, LeasesTypeOK
    <3>2. QED
      BY <2>3, <3>1, TurnKeepsBlocked DEF Retry
  <2>4. ASSUME NEW c \in Calls, GiveUp(c) PROVE FlatWaits'
    BY <2>4 DEF GiveUp, FlatWaits, CanTake, LeasesTypeOK
  <2>5. ASSUME NEW c \in Calls, Release(c) PROVE FlatWaits'
    BY <2>5, ReleaseKeepsBlocked
  <2>6. CASE UNCHANGED leaseVars
    BY <2>6 DEF leaseVars, FlatWaits, CanTake
  <2>7. QED
    BY <2>1, <2>2, <2>3, <2>4, <2>5, <2>6 DEF LeasesNext
<1>3. FlatWaits => NoLostWakeup
  BY DEF FlatWaits, NoLostWakeup
<1>4. QED
  BY <1>1, <1>2, <1>3, TypeCorrect, FlatTableInvariant, PTL DEF LeasesSpec
-----------------------------------------------------------------------------
\* A granted request enters, as a reader or as a writer, with all its keys.
LEMMA GrantEnters ==
  ASSUME Flat, LeasesTypeOK, ReadersCounted, WriterIsLive, FlatTable,
         NEW c \in Calls, NEW ks \in SUBSET Keys, NEW m \in Modes, Grant(c, ks, m)
  PROVE  RW!Enter(c, ks, m)
<1>1. /\ \A k \in Keys : Holds(c, k)' <=> k \in ks
      /\ \A k \in Keys : ~Holds(c, k)
      /\ mode'[c] = m
      /\ \A d \in Calls \ {c}, k \in Keys : Holds(d, k)' <=> Holds(d, k)
      /\ \A d \in Calls \ {c} : mode'[d] = mode[d]
  BY TakeGrants DEF Grant
<1>2. ASSUME NEW k \in Keys PROVE \A u \in UsersOf(k) : u.call # c
  BY <1>1 DEF UsersOf
<1>3. ASSUME NEW k \in ks PROVE RW!Compatible(k, m)
  <2>1. CanTake(k, m, HolderOf[c]) /\ k \in Keys
    BY DEF Grant, Take
  <2>2. writer[k] # HolderOf[c]
    BY <1>1, HoldersAreReal DEF WriterIsLive, Flat
  <2>3. writer[k] = NoHolder
    BY <2>1, <2>2 DEF CanTake
  <2>4. \A d \in Calls : Holds(d, k) => mode[d] = "shared"
    BY <2>3, HoldersAreReal DEF FlatTable, LeasesTypeOK, Modes
  <2>5. CASE m = "exclusive"
    <3>1. readers[k] = 0
      BY <2>1, <2>5 DEF CanTake
    <3>2. IsFiniteSet(Sharers(k))
      BY LeasesAssumption, FS_Subset DEF Sharers
    <3>3. Sharers(k) = {}
      BY <2>1, <3>1, <3>2, FS_EmptySet DEF ReadersCounted
    <3>4. UsersOf(k) = {}
      BY <2>4, <3>3 DEF UsersOf, Sharers
    <3>5. QED
      BY <2>1, <2>5, <3>4 DEF RW!Compatible, InUse
  <2>6. CASE m = "shared"
    <3>1. \A u \in UsersOf(k) : u.mode = "shared"
      BY <2>4 DEF UsersOf
    <3>2. QED
      BY <2>1, <2>6, <3>1 DEF RW!Compatible, InUse
  <2>7. QED
    BY <2>5, <2>6 DEF Modes
<1>4. ASSUME NEW k \in Keys
      PROVE  UsersOf(k)' = IF k \in ks THEN UsersOf(k) \cup {[call |-> c, mode |-> m]}
                           ELSE UsersOf(k)
  <2>1. \A d \in Calls \ {c} : Holds(d, k)' <=> Holds(d, k)
    BY <1>1
  <2>2. \A u : u \in UsersOf(k)' <=>
               \/ k \in ks /\ u = [call |-> c, mode |-> m]
               \/ u \in UsersOf(k)
    BY <1>1, <2>1 DEF UsersOf
  <2>3. QED
    BY <2>2
<1>5. InUse' = [k \in Keys |-> IF k \in ks THEN InUse[k] \cup {[call |-> c, mode |-> m]}
                               ELSE InUse[k]]
  BY <1>4 DEF InUse
<1>6. \A k \in Keys : \A u \in InUse[k] : u.call # c
  BY <1>2 DEF InUse
<1>7. QED
  BY <1>3, <1>5, <1>6 DEF RW!Enter

\* A release leaves every key the call used.
LEMMA ReleaseLeaves ==
  ASSUME LeasesTypeOK, NEW c \in Calls, Release(c)
  PROVE  RW!Leave(c)
<1>1. /\ \A k \in Keys : ~Holds(c, k)'
      /\ \A d \in Calls \ {c}, k \in Keys : Holds(d, k)' <=> Holds(d, k)
      /\ mode' = mode
  BY ReleaseEnds
<1>2. ASSUME NEW k \in Keys PROVE UsersOf(k)' = {u \in UsersOf(k) : u.call # c}
  <2>1. \A d \in Calls : Holds(d, k)' <=> Holds(d, k) /\ d # c
    BY <1>1
  <2>2. UsersOf(k)' = {[call |-> d, mode |-> mode[d]] : d \in {e \in Calls : Holds(e, k) /\ e # c}}
    BY <1>1, <2>1 DEF UsersOf
  <2>3. QED
    BY <2>2 DEF UsersOf
<1>3. QED
  BY <1>2 DEF RW!Leave, InUse

\* When no handler performs a nested action, the lease table implements
\* ReadersWriters: all the keys at once, compatible with every other user.
THEOREM LeasesImplementReadersWriters ==
  ASSUME Flat
  PROVE  LeasesSpec => ImplementsReadersWriters
<1>1. LeasesInit => RW!RWInit
  <2> SUFFICES ASSUME LeasesInit PROVE InUse = [k \in Keys |-> {}]
    BY DEF RW!RWInit
  <2>1. \A k \in Keys : UsersOf(k) = {}
    BY DEF LeasesInit, UsersOf, Holds
  <2>2. QED
    BY <2>1 DEF InUse
<1>2. LeasesTypeOK /\ ReadersCounted /\ WriterIsLive /\ FlatTable /\ [LeasesNext]_leaseVars
        => [RW!RWNext]_InUse
  <2> SUFFICES ASSUME LeasesTypeOK, ReadersCounted, WriterIsLive, FlatTable, [LeasesNext]_leaseVars
               PROVE  RW!RWNext \/ InUse' = InUse
    OBVIOUS
  <2>1. CASE Quiet
    <3>1. \A k \in Keys : UsersOf(k)' = UsersOf(k)
      BY <2>1 DEF Quiet, UsersOf, Holds
    <3>2. QED
      BY <3>1 DEF InUse
  <2>2. ASSUME NEW c \in Calls, NEW ks \in SUBSET Keys, NEW m \in Modes, Grant(c, ks, m)
        PROVE  RW!RWNext
    BY <2>2, GrantEnters DEF RW!RWNext, Modes
  <2>3. ASSUME NEW c \in Calls, Release(c) PROVE RW!RWNext
    BY <2>3, ReleaseLeaves DEF RW!RWNext
  <2>4. QED
    BY <2>1, <2>2, <2>3, StepKinds
<1>3. QED
  BY <1>1, <1>2, TypeCorrect, ReadersAreCounted, WritersAreLive, FlatTableInvariant, PTL
     DEF LeasesSpec, ImplementsReadersWriters, RW!RWSpec
=============================================================================
