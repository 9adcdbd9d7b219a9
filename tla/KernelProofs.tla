----------------------------- MODULE KernelProofs -----------------------------
(***************************************************************************)
(* Theorems about what is kept on disk: the effect store (Effects), for    *)
(* any identities, callers and processes; the memory and the vault under   *)
(* their key (Secrets), for any processes, memories, secrets and number of *)
(* keys; the questions to the user (Approvals), for any tasks, operations  *)
(* and rows, any number of answers, stops, resumes and crashes; the event  *)
(* outbox and what is told from it (Outbox), for any tasks and processes,  *)
(* any number of events, drains, prunings and restarts.  No two of them    *)
(* share a variable.                                                       *)
(***************************************************************************)
EXTENDS Effects, Secrets, Approvals, Outbox, OrderingProofs

\* Once claimed, an identity keeps its row for ever; only the claim lets a
\* caller act, and a sweep only marks what was claimed.
ClaimedHasRow ==
  \A i \in Ids : row[i] = "absent" =>
    /\ happened[i] = 0
    /\ \A c \in Callers : ~Performs(c, i)
    /\ \A p \in Processes : i \notin stranded[p]

\* The primary key lets one caller through.
OnePerforms ==
  \A i \in Ids, c, d \in Callers : Performs(c, i) /\ Performs(d, i) => c = d

\* While it performs, nobody but a sweep has settled its row, and the world
\* is as it left it.
PerformerIsTrue ==
  \A c \in Callers, i \in Ids : Performs(c, i) =>
    /\ row[i] \in {"reserved", "uncertain"}
    /\ happened[i] = IF at[c] = "acted" THEN 1 ELSE 0

EffectsInv ==
  /\ EffectsTypeOK
  /\ ClaimedHasRow
  /\ OnePerforms
  /\ PerformerIsTrue
  /\ AtMostOnce
  /\ RowsAreTrue
-----------------------------------------------------------------------------
LEMMA EffectsTypeInit == EffectsInit => EffectsTypeOK
<1>1. /\ (CHOOSE a \in Arguments : TRUE) \in Arguments
      /\ (CHOOSE i \in Ids : TRUE) \in Ids
  BY EffectsAssumption
<1> QED
  BY <1>1 DEF EffectsInit, EffectsTypeOK, States, Answers

LEMMA EffectsTypeStep == EffectsTypeOK /\ [EffectsNext]_effectVars => EffectsTypeOK'
<1> SUFFICES ASSUME EffectsTypeOK, [EffectsNext]_effectVars PROVE EffectsTypeOK'
  OBVIOUS
<1> USE DEF EffectsTypeOK, States, Settled, Answers
<1>1. ASSUME NEW c \in Callers, NEW i \in Ids, NEW a \in Arguments, Look(c, i, a)
      PROVE EffectsTypeOK'
  BY <1>1 DEF Look, Existing
<1>2. ASSUME NEW c \in Callers, Insert(c) PROVE EffectsTypeOK'
  BY <1>2 DEF Insert
<1>3. ASSUME NEW c \in Callers, Act(c) PROVE EffectsTypeOK'
  BY <1>3 DEF Act
<1>4. ASSUME NEW c \in Callers, CannotAct(c) PROVE EffectsTypeOK'
  BY <1>4 DEF CannotAct
<1>5. ASSUME NEW c \in Callers, Complete(c) PROVE EffectsTypeOK'
  BY <1>5 DEF Complete, Settle, Outcome
<1>6. ASSUME NEW c \in Callers, MarkUncertain(c) PROVE EffectsTypeOK'
  BY <1>6 DEF MarkUncertain, Settle
<1>7. ASSUME NEW p \in Processes, Start(p) PROVE EffectsTypeOK'
  BY <1>7 DEF Start, Unsettled
<1>8. ASSUME NEW p \in Processes, Swept(p) PROVE EffectsTypeOK'
  BY <1>8 DEF Swept
<1>9. ASSUME NEW p \in Processes, Crash(p) PROVE EffectsTypeOK'
  BY <1>9 DEF Crash
<1>10. ASSUME NEW p \in Processes, NEW i \in Ids, Sweep(p, i) PROVE EffectsTypeOK'
  BY <1>10 DEF Sweep, Settle
<1>11. CASE UNCHANGED effectVars
  BY <1>11 DEF effectVars
<1> QED
  BY <1>1, <1>2, <1>3, <1>4, <1>5, <1>6, <1>7, <1>8, <1>9, <1>10, <1>11 DEF EffectsNext

LEMMA EffectsInvInit == EffectsInit => EffectsInv
<1>1. EffectsInit => EffectsTypeOK
  BY EffectsTypeInit
<1>2. EffectsInit => ClaimedHasRow /\ OnePerforms /\ PerformerIsTrue
  BY DEF EffectsInit, ClaimedHasRow, OnePerforms, PerformerIsTrue, Performs
<1>3. EffectsInit => AtMostOnce /\ RowsAreTrue
  BY DEF EffectsInit, AtMostOnce, RowsAreTrue
<1> QED
  BY <1>1, <1>2, <1>3 DEF EffectsInv

\* Nobody performs what they did not perform before, but for the caller whose
\* INSERT went through.
LEMMA EffectsInvStep == EffectsInv /\ [EffectsNext]_effectVars => EffectsInv'
<1> SUFFICES ASSUME EffectsInv, [EffectsNext]_effectVars PROVE EffectsInv'
  OBVIOUS
<1>0. EffectsTypeOK'
  BY EffectsTypeStep DEF EffectsInv
<1> DEFINE Rest == ClaimedHasRow /\ OnePerforms /\ PerformerIsTrue /\ AtMostOnce /\ RowsAreTrue
<1> USE <1>0 DEF EffectsInv, EffectsTypeOK, ClaimedHasRow, OnePerforms, PerformerIsTrue, AtMostOnce,
                 RowsAreTrue, Performs
<1>1. ASSUME NEW c \in Callers, NEW i \in Ids, NEW a \in Arguments, Look(c, i, a)
      PROVE Rest'
  BY <1>1 DEF Look
<1>2. ASSUME NEW c \in Callers, Insert(c) PROVE Rest'
  <2>1. CASE KeyIsFree(id[c])
    <3>1. /\ row' = [row EXCEPT ![id[c]] = "reserved"]
          /\ at' = [at EXCEPT ![c] = "granted"]
          /\ UNCHANGED <<id, happened, stranded>>
          /\ row[id[c]] = "absent" /\ id[c] \in Ids
      BY <1>2, <2>1 DEF Insert, KeyIsFree
    <3> QED
      BY <3>1
  <2>2. CASE ~KeyIsFree(id[c])
    BY <1>2, <2>2 DEF Insert
  <2> QED
    BY <2>1, <2>2
<1>3. ASSUME NEW c \in Callers, Act(c) PROVE Rest'
  <2>1. /\ at[c] = "granted" /\ id[c] \in Ids
        /\ row[id[c]] \in {"reserved", "uncertain"} /\ happened[id[c]] = 0
        /\ at'[c] = "acted" /\ \A d \in Callers : d # c => at'[d] = at[d]
        /\ happened'[id[c]] = 1 /\ \A i \in Ids : i # id[c] => happened'[i] = happened[i]
        /\ row' = row /\ id' = id /\ stranded' = stranded
    BY <1>3 DEF Act
  <2>2. ClaimedHasRow' /\ OnePerforms'
    BY <2>1
  <2>3. ASSUME NEW d \in Callers, NEW i \in Ids, Performs(d, i)'
        PROVE  /\ row'[i] \in {"reserved", "uncertain"}
               /\ happened'[i] = IF at'[d] = "acted" THEN 1 ELSE 0
    <3>1. CASE d = c
      BY <2>1, <2>3, <3>1
    <3>2. CASE d # c
      <4>1. Performs(d, i) /\ i # id[c]
        BY <2>1, <2>3, <3>2
      <4> QED
        BY <2>1, <3>2, <4>1
    <3> QED
      BY <3>1, <3>2
  <2>4. AtMostOnce'
    <3> SUFFICES ASSUME NEW i \in Ids PROVE happened'[i] <= 1
      OBVIOUS
    <3>1. happened[i] <= 1
      OBVIOUS
    <3>2. happened'[i] = 1 \/ happened'[i] = happened[i]
      BY <2>1
    <3> QED
      BY <3>1, <3>2
  <2>5. RowsAreTrue'
    BY <2>1
  <2> QED
    BY <2>2, <2>3, <2>4, <2>5
<1>4. ASSUME NEW c \in Callers, CannotAct(c) PROVE Rest'
  <2>1. /\ at[c] = "granted" /\ id[c] \in Ids
        /\ at'[c] = "failed" /\ \A d \in Callers : d # c => at'[d] = at[d]
        /\ row' = row /\ id' = id /\ stranded' = stranded /\ happened' = happened
    BY <1>4 DEF CannotAct
  <2>2. \A d \in Callers, i \in Ids : Performs(d, i)' => Performs(d, i)
    BY <2>1
  <2>3. ClaimedHasRow'
    BY <2>1, <2>2
  <2>4. OnePerforms'
    BY <2>2
  <2>5. ASSUME NEW d \in Callers, NEW i \in Ids, Performs(d, i)'
        PROVE  /\ row'[i] \in {"reserved", "uncertain"}
               /\ happened'[i] = IF at'[d] = "acted" THEN 1 ELSE 0
    <3>1. CASE d = c
      BY <2>1, <2>5, <3>1
    <3>2. CASE d # c
      BY <2>1, <2>2, <2>5, <3>2
    <3> QED
      BY <3>1, <3>2
  <2>6. AtMostOnce' /\ RowsAreTrue'
    BY <2>1
  <2> QED
    BY <2>3, <2>4, <2>5, <2>6
<1>5. ASSUME NEW c \in Callers, Complete(c) PROVE Rest'
  BY <1>5 DEF Complete, Settle, Outcome
<1>6. ASSUME NEW c \in Callers, MarkUncertain(c) PROVE Rest'
  BY <1>6 DEF MarkUncertain, Settle
<1>7. ASSUME NEW p \in Processes, Start(p) PROVE Rest'
  BY <1>7 DEF Start, Unsettled
<1>8. ASSUME NEW p \in Processes, Swept(p) PROVE Rest'
  BY <1>8 DEF Swept
<1>9. ASSUME NEW p \in Processes, Crash(p) PROVE Rest'
  BY <1>9 DEF Crash
<1>10. ASSUME NEW p \in Processes, NEW i \in Ids, Sweep(p, i) PROVE Rest'
  BY <1>10 DEF Sweep, Settle
<1>11. CASE UNCHANGED effectVars
  BY <1>11 DEF effectVars
<1> QED
  BY <1>1, <1>2, <1>3, <1>4, <1>5, <1>6, <1>7, <1>8, <1>9, <1>10, <1>11 DEF EffectsNext

LEMMA EffectsInvariance == EffectsSpec => []EffectsInv
<1> QED
  BY EffectsInvInit, EffectsInvStep, PTL DEF EffectsSpec
-----------------------------------------------------------------------------
\* The rows, the callers and the processes of kernel/effects.py are what
\* Effects says they are, and an act happens a natural number of times.
THEOREM EffectsTypeCorrect == EffectsSpec => []EffectsTypeOK
<1>1. EffectsInv => EffectsTypeOK
  BY DEF EffectsInv
<1> QED
  BY <1>1, EffectsInvariance, PTL

\* However many callers and processes attempt an effect, die and are started
\* again, it happens at most once under its identity (EffectStore.reserve).
THEOREM ActsHappenOnce == EffectsSpec => []AtMostOnce
<1>1. EffectsInv => AtMostOnce
  BY DEF EffectsInv
<1> QED
  BY <1>1, EffectsInvariance, PTL

\* A row that says done or failed is right about the world, and so is the
\* absence of a row (EffectStore.complete, _settle, sweep_unsettled).
THEOREM RowsTellTheTruth == EffectsSpec => []RowsAreTrue
<1>1. EffectsInv => RowsAreTrue
  BY DEF EffectsInv
<1> QED
  BY <1>1, EffectsInvariance, PTL
-----------------------------------------------------------------------------
LEMMA StrandedStep ==
  ASSUME EffectsTypeOK, StrandedIsNamed, [EffectsNext]_effectVars
  PROVE  StrandedIsNamed'
<1> USE DEF EffectsTypeOK, StrandedIsNamed, Performs
<1>1. ASSUME NEW c \in Callers, NEW i \in Ids, NEW a \in Arguments, Look(c, i, a)
      PROVE StrandedIsNamed'
  BY <1>1 DEF Look
<1>2. ASSUME NEW c \in Callers, Insert(c) PROVE StrandedIsNamed'
  BY <1>2 DEF Insert
<1>3. ASSUME NEW c \in Callers, Act(c) PROVE StrandedIsNamed'
  BY <1>3 DEF Act
<1>4. ASSUME NEW c \in Callers, CannotAct(c) PROVE StrandedIsNamed'
  BY <1>4 DEF CannotAct
<1>5. ASSUME NEW c \in Callers, Complete(c) PROVE StrandedIsNamed'
  BY <1>5 DEF Complete, Settle, Outcome
<1>6. ASSUME NEW c \in Callers, MarkUncertain(c) PROVE StrandedIsNamed'
  BY <1>6 DEF MarkUncertain, Settle
<1>7. ASSUME NEW p \in Processes, Start(p) PROVE StrandedIsNamed'
  BY <1>7 DEF Start, Unsettled
<1>8. ASSUME NEW p \in Processes, Swept(p) PROVE StrandedIsNamed'
  BY <1>8 DEF Swept
<1>9. ASSUME NEW p \in Processes, Crash(p) PROVE StrandedIsNamed'
  BY <1>9 DEF Crash
<1>10. ASSUME NEW p \in Processes, NEW i \in Ids, Sweep(p, i) PROVE StrandedIsNamed'
  BY <1>10 DEF Sweep, Settle
<1>11. CASE UNCHANGED effectVars
  BY <1>11 DEF effectVars
<1> QED
  BY <1>1, <1>2, <1>3, <1>4, <1>5, <1>6, <1>7, <1>8, <1>9, <1>10, <1>11 DEF EffectsNext

\* A reservation without a living caller is marked at the next start: some
\* process is down, or is sweeping and has it on its list (sweep_unsettled).
THEOREM StrandedAreNamed == EffectsSpec => []StrandedIsNamed
<1>1. EffectsInit => StrandedIsNamed
  BY DEF EffectsInit, StrandedIsNamed
<1>2. EffectsInv /\ StrandedIsNamed /\ [EffectsNext]_effectVars => StrandedIsNamed'
  BY StrandedStep DEF EffectsInv
<1> QED
  BY <1>1, <1>2, EffectsInvariance, PTL DEF EffectsSpec

\* What is settled stays so, but for a sweep that had read it while it was
\* reserved, and for the caller whose reservation a sweep had marked.
THEOREM SettlementsStay == EffectsSpec => SettledStays
<1> DEFINE Kept == \A i \in Ids : row[i] \in Settled /\ row'[i] # row[i] =>
       \/ row'[i] = "uncertain" /\ \E p \in Processes : i \in stranded[p]
       \/ row[i] = "uncertain" /\ \E c \in Callers : Performs(c, i)
<1>1. ASSUME EffectsInv, EffectsNext PROVE Kept
  <2> USE <1>1 DEF EffectsInv, EffectsTypeOK, PerformerIsTrue, Settled
  <2>1. CASE UNCHANGED row
    BY <2>1
  <2>2. ASSUME NEW c \in Callers, Insert(c) PROVE Kept
    BY <2>2 DEF Insert, KeyIsFree
  <2>3. ASSUME NEW c \in Callers, Complete(c) \/ MarkUncertain(c) PROVE Kept
    <3>1. Performs(c, id[c]) /\ id[c] \in Ids
      BY <2>3 DEF Complete, MarkUncertain, Performs
    <3>2. \A i \in Ids : i # id[c] => row'[i] = row[i]
      BY <2>3 DEF Complete, MarkUncertain, Settle
    <3>3. row[id[c]] \in {"reserved", "uncertain"}
      BY <3>1
    <3> QED
      BY <3>1, <3>2, <3>3
  <2>4. ASSUME NEW p \in Processes, NEW i \in Ids, Sweep(p, i) PROVE Kept
    BY <2>4 DEF Sweep, Settle
  <2> QED
    BY <2>1, <2>2, <2>3, <2>4
       DEF EffectsNext, Look, Act, CannotAct, Start, Swept, Crash
<1>2. EffectsInv /\ [EffectsNext]_effectVars => [Kept]_effectVars
  BY <1>1
<1> QED
  BY <1>2, EffectsInvariance, PTL DEF EffectsSpec, SettledStays
-----------------------------------------------------------------------------
\* Who is up has a key, and only who is up is in the middle of an update or
\* owes a hint.
OnlyTheReadyWrite ==
  \A p \in Machines :
    /\ machine[p].at # "down" => machine[p].key # 0
    /\ editing[p] # NoMemory => machine[p].at = "up"
    /\ \A n \in Secretive : <<p, n>> \in pointing => machine[p].at = "up"

\* Without a race, one process at most is making the key, there is none before
\* it has, what is about to take the file's place is its own, ...
OneMakesTheKey ==
  ~raced =>
    /\ \A p, q \in Making : p = q
    /\ Making # {} => keyFile = 0
    /\ \A p \in Machines : machine[p].at = "writing" => keyDraft = machine[p].key

\* ... and everybody who is up, and every row, has the key of the file.
OneKeyForAll ==
  ~raced =>
    /\ \A p \in Machines : machine[p].at = "up" => keyFile # 0 /\ machine[p].key = keyFile
    /\ \A i \in Memories : note[i] # NoRow => keyFile # 0 /\ note[i].key = keyFile
    /\ \A n \in Secretive : secret[n] \in {0, keyFile}

SecretInv ==
  SecretsTypeOK /\ OnlyTheReadyWrite /\ OneMakesTheKey /\ OneKeyForAll /\ ForgottenStays

LEMMA SecretInit == SecretsInit => SecretInv
<1> SUFFICES ASSUME SecretsInit PROVE SecretInv
  OBVIOUS
<1> USE SecretsAssumption DEF SecretsInit, Absent
<1>1. SecretsTypeOK
  <2>1. machine \in [Machines -> [at : {"down", "making", "writing", "up"}, key : 0 .. MaxKeys]]
    OBVIOUS
  <2>2. {keyFile, keyDraft, keysMade} \subseteq 0 .. MaxKeys /\ secret \in [Secretive -> 0 .. MaxKeys]
    OBVIOUS
  <2>3. /\ note \in [Memories -> Notes \cup {NoRow}]
        /\ editing \in [Machines -> Memories \cup {NoMemory}]
        /\ pointing \subseteq Machines \X Secretive
        /\ forgotten \subseteq Memories /\ raced \in BOOLEAN
    OBVIOUS
  <2> QED
    BY <2>1, <2>2, <2>3 DEF SecretsTypeOK
<1>2. OnlyTheReadyWrite
  BY DEF OnlyTheReadyWrite
<1>3. OneMakesTheKey
  BY DEF OneMakesTheKey, Making
<1>4. OneKeyForAll
  BY DEF OneKeyForAll, NoRow
<1>5. ForgottenStays
  BY DEF ForgottenStays
<1> QED
  BY <1>1, <1>2, <1>3, <1>4, <1>5 DEF SecretInv

\* The key: made, drafted, placed, loaded, and left behind.
LEMMA KeyStep ==
  ASSUME SecretInv, NEW p \in Machines,
         LoadKey(p) \/ MakeKey(p) \/ DraftKey(p) \/ PlaceKey(p) \/ Quit(p)
  PROVE  SecretInv'
<1> USE SecretsAssumption
<1>0. SecretsTypeOK /\ OnlyTheReadyWrite /\ OneMakesTheKey /\ OneKeyForAll /\ ForgottenStays
  BY DEF SecretInv
<1> USE <1>0
<1>1. CASE LoadKey(p)
  <2> USE <1>1 DEF LoadKey, KeyIsMissing, keptVars
  <2>1. SecretsTypeOK'
    BY DEF SecretsTypeOK, Notes, NoRow, Absent
  <2>2. OnlyTheReadyWrite'
    BY DEF SecretsTypeOK, OnlyTheReadyWrite, Absent
  <2>3. OneMakesTheKey'
    BY DEF SecretsTypeOK, OneMakesTheKey, OneKeyForAll, Making, Absent
  <2>4. OneKeyForAll'
    BY DEF SecretsTypeOK, OnlyTheReadyWrite, OneMakesTheKey, OneKeyForAll, Making, NoRow, Absent
  <2>5. ForgottenStays'
    BY DEF SecretsTypeOK, ForgottenStays, NoRow
  <2> QED
    BY <2>1, <2>2, <2>3, <2>4, <2>5 DEF SecretInv
<1>2. CASE MakeKey(p)
  <2> USE <1>2 DEF MakeKey, KeyIsMissing, keptVars
  <2>1. SecretsTypeOK'
    BY DEF SecretsTypeOK, Notes, NoRow, Absent
  <2>2. OnlyTheReadyWrite'
    BY DEF SecretsTypeOK, OnlyTheReadyWrite, Absent
  <2>3. OneMakesTheKey'
    BY DEF SecretsTypeOK, OneMakesTheKey, OneKeyForAll, Making, Absent
  <2>4. OneKeyForAll'
    BY DEF SecretsTypeOK, OnlyTheReadyWrite, OneMakesTheKey, OneKeyForAll, Making, NoRow, Absent
  <2>5. ForgottenStays'
    BY DEF SecretsTypeOK, ForgottenStays, NoRow
  <2> QED
    BY <2>1, <2>2, <2>3, <2>4, <2>5 DEF SecretInv
<1>3. CASE DraftKey(p)
  <2> USE <1>3 DEF DraftKey, keptVars
  <2>1. SecretsTypeOK'
    BY DEF SecretsTypeOK, Notes, NoRow, Absent
  <2>2. OnlyTheReadyWrite'
    BY DEF SecretsTypeOK, OnlyTheReadyWrite, Absent
  <2>3. OneMakesTheKey'
    BY DEF SecretsTypeOK, OneMakesTheKey, OneKeyForAll, Making, Absent
  <2>4. OneKeyForAll'
    BY DEF SecretsTypeOK, OnlyTheReadyWrite, OneMakesTheKey, OneKeyForAll, Making, NoRow, Absent
  <2>5. ForgottenStays'
    BY DEF SecretsTypeOK, ForgottenStays, NoRow
  <2> QED
    BY <2>1, <2>2, <2>3, <2>4, <2>5 DEF SecretInv
<1>4. CASE PlaceKey(p)
  <2> USE <1>4 DEF PlaceKey, keptVars
  <2>1. SecretsTypeOK'
    BY DEF SecretsTypeOK, Notes, NoRow, Absent
  <2>2. OnlyTheReadyWrite'
    BY DEF SecretsTypeOK, OnlyTheReadyWrite, Absent
  <2>3. OneMakesTheKey'
    BY DEF SecretsTypeOK, OneMakesTheKey, OneKeyForAll, Making, Absent
  <2>4. OneKeyForAll'
    BY DEF SecretsTypeOK, OnlyTheReadyWrite, OneMakesTheKey, OneKeyForAll, Making, NoRow, Absent
  <2>5. ForgottenStays'
    BY DEF SecretsTypeOK, ForgottenStays, NoRow
  <2> QED
    BY <2>1, <2>2, <2>3, <2>4, <2>5 DEF SecretInv
<1>5. CASE Quit(p)
  <2> USE <1>5 DEF Quit
  <2>1. SecretsTypeOK'
    BY DEF SecretsTypeOK, Notes, NoRow, Absent
  <2>2. OnlyTheReadyWrite'
    BY DEF SecretsTypeOK, OnlyTheReadyWrite, Absent
  <2>3. OneMakesTheKey'
    BY DEF SecretsTypeOK, OneMakesTheKey, OneKeyForAll, Making, Absent
  <2>4. OneKeyForAll'
    BY DEF SecretsTypeOK, OnlyTheReadyWrite, OneMakesTheKey, OneKeyForAll, Making, NoRow, Absent
  <2>5. ForgottenStays'
    BY DEF SecretsTypeOK, ForgottenStays, NoRow
  <2> QED
    BY <2>1, <2>2, <2>3, <2>4, <2>5 DEF SecretInv
<1> QED
  BY <1>1, <1>2, <1>3, <1>4, <1>5

\* A row is written with the key in hand, ...
LEMMA KeyInHand ==
  ASSUME SecretInv, NEW p \in Machines, machine[p].at = "up"
  PROVE  machine[p].key \in 1 .. MaxKeys
BY SecretsAssumption DEF SecretInv, SecretsTypeOK, OnlyTheReadyWrite

\* ... and never over a forgotten one.
LEMMA Writing ==
  ASSUME SecretInv, NEW p \in Machines, machine[p].at = "up",
         NEW i \in Memories, i \notin forgotten,
         NEW r \in Notes, r.key = machine[p].key, note' = [note EXCEPT ![i] = r],
         UNCHANGED <<keyVars, secret, forgotten>>
  PROVE  /\ note' \in [Memories -> Notes \cup {NoRow}]
         /\ OneMakesTheKey' /\ OneKeyForAll' /\ ForgottenStays'
<1> USE DEF SecretInv, SecretsTypeOK, keyVars
<1>1. note' \in [Memories -> Notes \cup {NoRow}]
  OBVIOUS
<1>2. /\ note'[i] = r
      /\ \A j \in Memories \ {i} : note'[j] = note[j]
  OBVIOUS
<1>3. OneKeyForAll'
  BY <1>2 DEF OneKeyForAll
<1>4. OneMakesTheKey'
  BY DEF OneMakesTheKey, Making
<1>5. ForgottenStays'
  BY <1>2 DEF ForgottenStays
<1> QED
  BY <1>1, <1>3, <1>4, <1>5

LEMMA RowStep ==
  ASSUME SecretInv, NEW p \in Machines,
         \/ \E i \in Memories : Remember(p, i) \/ BeginUpdate(p, i)
         \/ FinishUpdate(p)
         \/ \E n \in Secretive : SetSecret(p, n) \/ WriteHint(p, n) \/ DeleteSecret(p, n)
  PROVE  SecretInv'
<1> USE SecretsAssumption DEF keyVars, Ready
<1>0. SecretsTypeOK /\ OnlyTheReadyWrite /\ OneMakesTheKey /\ OneKeyForAll /\ ForgottenStays
  BY DEF SecretInv
<1> USE <1>0
<1>1. ASSUME NEW i \in Memories, Remember(p, i) PROVE SecretInv'
  <2> USE <1>1 DEF Remember
  <2>1. machine[p].at = "up" /\ machine[p].key \in 1 .. MaxKeys /\ i \notin forgotten
    BY KeyInHand
  <2>2. PICK r \in Notes : r.key = machine[p].key /\ note' = [note EXCEPT ![i] = r]
    BY <2>1 DEF Notes
  <2>3. /\ note' \in [Memories -> Notes \cup {NoRow}]
        /\ OneMakesTheKey' /\ OneKeyForAll' /\ ForgottenStays'
    BY <2>1, <2>2, Writing
  <2>4. SecretsTypeOK'
    BY <2>3 DEF SecretsTypeOK
  <2>5. OnlyTheReadyWrite'
    BY DEF OnlyTheReadyWrite
  <2> QED
    BY <2>3, <2>4, <2>5 DEF SecretInv
<1>2. ASSUME NEW i \in Memories, BeginUpdate(p, i) PROVE SecretInv'
  <2> USE <1>2 DEF BeginUpdate
  <2>1. SecretsTypeOK'
    BY DEF SecretsTypeOK
  <2>2. OnlyTheReadyWrite'
    BY DEF SecretsTypeOK, OnlyTheReadyWrite
  <2>3. OneMakesTheKey'
    BY DEF OneMakesTheKey, Making
  <2>4. OneKeyForAll'
    BY DEF SecretsTypeOK, OneKeyForAll
  <2>5. ForgottenStays'
    BY DEF ForgottenStays
  <2> QED
    BY <2>1, <2>2, <2>3, <2>4, <2>5 DEF SecretInv
<1>3. CASE FinishUpdate(p)
  <2> USE <1>3 DEF FinishUpdate, StillThere
  <2> DEFINE i == editing[p]
  <2>1. machine[p].at = "up" /\ machine[p].key \in 1 .. MaxKeys /\ i \in Memories
    BY KeyInHand DEF SecretsTypeOK, OnlyTheReadyWrite
  <2>2. CASE note[i] = NoRow
    <3>1. note' = note
      BY <2>2
    <3>2. SecretsTypeOK' /\ OnlyTheReadyWrite'
      BY <3>1 DEF SecretsTypeOK, OnlyTheReadyWrite
    <3>3. OneMakesTheKey' /\ OneKeyForAll' /\ ForgottenStays'
      BY <3>1 DEF OneMakesTheKey, Making, OneKeyForAll, ForgottenStays
    <3> QED
      BY <3>2, <3>3 DEF SecretInv
  <2>3. CASE note[i] # NoRow
    <3>1. note[i] \in Notes /\ i \notin forgotten
      BY <2>1, <2>3 DEF SecretsTypeOK, ForgottenStays
    <3>2. PICK scope \in {"session", "permanent"} :
            note' = [note EXCEPT ![i] = [@ EXCEPT !.key = machine[p].key, !.scope = scope]]
      BY <2>3
    <3> DEFINE r == [note[i] EXCEPT !.key = machine[p].key, !.scope = scope]
    <3>3. r \in Notes /\ r.key = machine[p].key
      BY <2>1, <3>1 DEF Notes
    <3>4. note' = [note EXCEPT ![i] = r]
      BY <3>2
    <3> HIDE DEF r
    <3>5. /\ note' \in [Memories -> Notes \cup {NoRow}]
          /\ OneMakesTheKey' /\ OneKeyForAll' /\ ForgottenStays'
      BY <2>1, <3>1, <3>3, <3>4, Writing
    <3>6. SecretsTypeOK'
      BY <3>5 DEF SecretsTypeOK
    <3>7. OnlyTheReadyWrite'
      BY DEF OnlyTheReadyWrite, SecretsTypeOK
    <3> QED
      BY <3>5, <3>6, <3>7 DEF SecretInv
  <2> QED
    BY <2>2, <2>3
<1>4. ASSUME NEW n \in Secretive, SetSecret(p, n) PROVE SecretInv'
  <2> USE <1>4 DEF SetSecret
  <2>1. SecretsTypeOK'
    BY DEF SecretsTypeOK
  <2>2. OnlyTheReadyWrite'
    BY DEF SecretsTypeOK, OnlyTheReadyWrite
  <2>3. OneMakesTheKey'
    BY DEF OneMakesTheKey, Making
  <2>4. OneKeyForAll'
    BY DEF SecretsTypeOK, OneKeyForAll
  <2>5. ForgottenStays'
    BY DEF ForgottenStays
  <2> QED
    BY <2>1, <2>2, <2>3, <2>4, <2>5 DEF SecretInv
<1>5. ASSUME NEW n \in Secretive, WriteHint(p, n) PROVE SecretInv'
  <2> USE <1>5 DEF WriteHint
  <2>1. machine[p].at = "up" /\ machine[p].key \in 1 .. MaxKeys
    BY KeyInHand DEF OnlyTheReadyWrite
  <2>2. PICK i \in Memories, r \in Notes :
          /\ i \notin forgotten
          /\ r.key = machine[p].key /\ note' = [note EXCEPT ![i] = r]
    BY <2>1 DEF Notes
  <2>3. /\ note' \in [Memories -> Notes \cup {NoRow}]
        /\ OneMakesTheKey' /\ OneKeyForAll' /\ ForgottenStays'
    BY <2>1, <2>2, Writing
  <2>4. SecretsTypeOK'
    BY <2>3 DEF SecretsTypeOK
  <2>5. OnlyTheReadyWrite'
    BY DEF OnlyTheReadyWrite
  <2> QED
    BY <2>3, <2>4, <2>5 DEF SecretInv
<1>6. ASSUME NEW n \in Secretive, DeleteSecret(p, n) PROVE SecretInv'
  <2> USE <1>6 DEF DeleteSecret
  <2>1. SecretsTypeOK'
    BY DEF SecretsTypeOK
  <2>2. OnlyTheReadyWrite'
    BY DEF SecretsTypeOK, OnlyTheReadyWrite
  <2>3. OneMakesTheKey'
    BY DEF OneMakesTheKey, Making
  <2>4. OneKeyForAll'
    BY DEF SecretsTypeOK, OneKeyForAll
  <2>5. ForgottenStays'
    BY DEF ForgottenStays
  <2> QED
    BY <2>1, <2>2, <2>3, <2>4, <2>5 DEF SecretInv
<1> QED
  BY <1>1, <1>2, <1>3, <1>4, <1>5, <1>6

\* Whatever is erased is remembered as forgotten.
LEMMA EraseStep ==
  ASSUME SecretInv, NEW S \in SUBSET Memories, Erase(S)
  PROVE  SecretInv'
BY SecretsAssumption
   DEF SecretInv, SecretsTypeOK, OnlyTheReadyWrite, OneMakesTheKey, OneKeyForAll,
       ForgottenStays, NoRow, Making, keyVars, Erase

LEMMA SecretStep == SecretInv /\ [SecretsNext]_secretVars => SecretInv'
<1> SUFFICES ASSUME SecretInv, [SecretsNext]_secretVars PROVE SecretInv'
  OBVIOUS
<1>1. ASSUME NEW p \in Machines, NEW i \in Memories, ForgetOne(p, i) PROVE SecretInv'
  BY <1>1, EraseStep DEF ForgetOne
<1>2. ASSUME NEW p \in Machines, ForgetMatching(p) PROVE SecretInv'
  <2>1. PICK S \in SUBSET {i \in Listed : Reads(p, i)} : Erase(S)
    BY <1>2 DEF ForgetMatching
  <2> QED
    BY <2>1, EraseStep DEF Listed
<1>3. ASSUME NEW p \in Machines, PurgeExpired(p) \/ EndSession(p) PROVE SecretInv'
  <2>1. PICK S \in SUBSET Memories : Erase(S)
    BY <1>3 DEF PurgeExpired, EndSession, Listed
  <2> QED
    BY <2>1, EraseStep
<1>4. CASE UNCHANGED secretVars
  BY <1>4 DEF secretVars, SecretInv, SecretsTypeOK, OnlyTheReadyWrite, OneMakesTheKey,
    OneKeyForAll, ForgottenStays, Making
<1> QED
  BY <1>1, <1>2, <1>3, <1>4, KeyStep, RowStep DEF SecretsNext

LEMMA SecretInvariance == SecretsSpec => []SecretInv
<1> QED
  BY SecretInit, SecretStep, PTL DEF SecretsSpec

\* The key file, what each process has in hand and the rows of memory.py and
\* vault.py are what Secrets says they are.
THEOREM SecretsTypeCorrect == SecretsSpec => []SecretsTypeOK
<1>1. SecretInv => SecretsTypeOK
  BY DEF SecretInv
<1> QED
  BY <1>1, SecretInvariance, PTL

\* However many processes correct, forget and purge at once, a forgotten row is
\* not written again (MemoryStore.update, forget).
THEOREM ForgettingIsFinal == SecretsSpec => []ForgottenStays
<1>1. SecretInv => ForgottenStays
  BY DEF SecretInv
<1> QED
  BY <1>1, SecretInvariance, PTL

\* However many processes start, crash while they make the key, and start
\* again: unless two were making it at once, every row can be read by every one
\* of them (load_or_create_master_key).
THEOREM RowsStayReadable == SecretsSpec => []ReadableUnlessRaced
<1>1. SecretInv => ReadableUnlessRaced
  BY DEF SecretInv, OneKeyForAll, ReadableUnlessRaced, Listed, Reads
<1> QED
  BY <1>1, SecretInvariance, PTL
-----------------------------------------------------------------------------

\* The row of a question names a task that performs that operation.
OwnersAsk ==
  \A r \in Questions : state[r] # "absent" => owner[r] \in Askers /\ OpOf[owner[r]] = op[r]

\* The types, with the owners that make them inductive: an answer resumes the
\* task its row names (api/server.py, _resolve_approval).
THEOREM TypesAndOwners == ApprovalsSpec => [](ApprovalsTypeOK /\ OwnersAsk)
<1> DEFINE AskInv == ApprovalsTypeOK /\ OwnersAsk
<1>1. ApprovalsInit => AskInv
  BY ApprovalsAssumption DEF ApprovalsInit, ApprovalsTypeOK, RowStates, Standings, OwnersAsk
<1>2. AskInv /\ [ApprovalsNext]_approvalVars => AskInv'
  <2> SUFFICES ASSUME ApprovalsTypeOK, OwnersAsk, [ApprovalsNext]_approvalVars
               PROVE  ApprovalsTypeOK' /\ OwnersAsk'
    OBVIOUS
  <2> USE ApprovalsAssumption DEF ApprovalsTypeOK, RowStates, Standings, table, askHistory
  <2>1. ASSUME NEW t \in Askers, SubmitAsker(t) PROVE AskInv'
    BY <2>1 DEF SubmitAsker, OwnersAsk
  <2>2. ASSUME NEW t \in Askers, Refuse(t) PROVE AskInv'
    BY <2>2 DEF Refuse, Latest, Unspent, OwnersAsk
  <2>3. ASSUME NEW t \in Askers, Clear(t) PROVE AskInv'
    BY <2>3 DEF Clear, Latest, Unspent, OwnersAsk
  <2>4. ASSUME NEW t \in Askers, Ask(t) PROVE AskInv'
    BY <2>4 DEF Ask, OpenQuestion, OwnersAsk
  <2>5. ASSUME NEW t \in Askers, StartHandler(t) PROVE AskInv'
    <3>1. started' = [r \in Questions |-> IF r = under[t] THEN started[r] + 1 ELSE started[r]]
      BY <2>5 DEF StartHandler
    <3>2. started' \in [Questions -> Nat]
      BY <3>1
    <3> QED
      BY <2>5, <3>2 DEF StartHandler, OwnersAsk
  <2>6. ASSUME NEW t \in Askers, PerformReturns(t) PROVE AskInv'
    BY <2>6 DEF PerformReturns, OwnersAsk
  <2>7. ASSUME NEW r \in Questions, NEW approved \in BOOLEAN, AnswerQuestion(r, approved) PROVE AskInv'
    <3>1. owner[r] \in Askers
      BY <2>7 DEF AnswerQuestion, OwnersAsk
    <3>2. place' \in [Askers -> Standings]
      BY <2>7, <3>1 DEF AnswerQuestion, Resumed
    <3>3. /\ state' \in [Questions -> RowStates]
          /\ resolvedAt' \in [Questions -> Nat] /\ answers' \in Nat
          /\ saidYes' \in SUBSET Questions
      BY <2>7 DEF AnswerQuestion
    <3>4. OwnersAsk'
      BY <2>7 DEF AnswerQuestion, OwnersAsk
    <3> QED
      BY <2>7, <3>2, <3>3, <3>4 DEF AnswerQuestion
  <2>8. ASSUME NEW t \in Askers, ResumeAsker(t) PROVE AskInv'
    BY <2>8 DEF ResumeAsker, Resumed, OwnersAsk
  <2>9. ASSUME NEW t \in Askers, StopAsker(t) PROVE AskInv'
    BY <2>9 DEF StopAsker, OwnersAsk
  <2>10. CASE CrashOfEngine
    BY <2>10 DEF CrashOfEngine, OwnersAsk
  <2>11. CASE UNCHANGED approvalVars
    BY <2>11 DEF approvalVars, OwnersAsk
  <2> QED
    BY <2>1, <2>2, <2>3, <2>4, <2>5, <2>6, <2>7, <2>8, <2>9, <2>10, <2>11 DEF ApprovalsNext
<1> QED
  BY <1>1, <1>2, PTL DEF ApprovalsSpec

\* The variables keep their types.
THEOREM ApprovalsTypeCorrect == ApprovalsSpec => []ApprovalsTypeOK
  BY TypesAndOwners, PTL
-----------------------------------------------------------------------------
\* A row is spent at most once, before its one run; the task it was spent for
\* is the only one that runs under it.
Cleared(t) == place[t] \in {"cleared", "handling"}

SpentForOne ==
  \A t \in Askers :
    /\ Cleared(t) => under[t] \in Questions
    /\ Cleared(t) => consumed[under[t]] /\ under[t] \in saidYes /\ op[under[t]] = OpOf[t]
    /\ place[t] = "cleared" => started[under[t]] = 0
    /\ ~Cleared(t) => under[t] = NoQuestion
    /\ \A u \in Askers : Cleared(t) /\ Cleared(u) /\ under[t] = under[u] => t = u

RowsAreSane ==
  \A r \in Questions :
    /\ state[r] = "absent" => ~consumed[r]
    /\ state[r] = "approved" => r \in saidYes
    /\ started[r] > 0 => started[r] = 1 /\ consumed[r] /\ r \in saidYes

YesInv == ApprovalsTypeOK /\ SpentForOne /\ RowsAreSane

\* "One yes authorises exactly one execution of exactly this operation": no
\* two runs of a handler under one row, no run without a yes, no run under a
\* yes to another operation; whatever the interleaving of tasks, answers,
\* stops and crashes (runtime/executor.py, _require_approval).
THEOREM OneYesIsOneRun == ApprovalsSpec => []OneYesOneRun
<1>1. ApprovalsInit => SpentForOne /\ RowsAreSane
  BY ApprovalsAssumption DEF ApprovalsInit, SpentForOne, RowsAreSane, Cleared
<1>2. YesInv /\ ApprovalsTypeOK' /\ [ApprovalsNext]_approvalVars => (SpentForOne /\ RowsAreSane)'
  <2> SUFFICES ASSUME YesInv, ApprovalsTypeOK', [ApprovalsNext]_approvalVars
               PROVE  (SpentForOne /\ RowsAreSane)'
    OBVIOUS
  <2> USE ApprovalsAssumption DEF YesInv, table, askHistory
  <2>1. ASSUME NEW t \in Askers,
               \/ SubmitAsker(t) \/ Refuse(t) \/ Ask(t)
               \/ ResumeAsker(t) \/ PerformReturns(t) \/ StopAsker(t)
        PROVE (SpentForOne /\ RowsAreSane)'
    <3>1. /\ UNCHANGED <<started, saidYes>>
          /\ \A r \in Questions :
               consumed[r] => consumed'[r] /\ state'[r] = state[r] /\ op'[r] = op[r]
          /\ \A r \in Questions : state[r] # "absent" => state'[r] = state[r]
          /\ \A r \in Questions : state'[r] = "absent" => consumed'[r] = consumed[r]
          /\ \A r \in Questions : state[r] = "absent" => state'[r] # "approved"
      BY <2>1 DEF SubmitAsker, Refuse, Ask, OpenQuestion, ResumeAsker, Resumed, PerformReturns, StopAsker,
                   Latest, Unspent,
                  RowsAreSane, ApprovalsTypeOK, RowStates
    <3>2. /\ \A u \in Askers \ {t} : place'[u] = place[u] /\ under'[u] = under[u]
          /\ ~Cleared(t)' /\ under'[t] = NoQuestion
      BY <2>1 DEF SubmitAsker, Refuse, Ask, ResumeAsker, Resumed, PerformReturns, StopAsker,
                   Cleared, ApprovalsTypeOK,
                  SpentForOne
    <3>3. SpentForOne'
      BY <3>1, <3>2 DEF SpentForOne, Cleared, ApprovalsTypeOK
    <3>4. RowsAreSane'
      BY <3>1 DEF RowsAreSane, ApprovalsTypeOK, RowStates
    <3> QED
      BY <3>3, <3>4
  <2>2. ASSUME NEW t \in Askers, Clear(t) PROVE (SpentForOne /\ RowsAreSane)'
    <3>1. PICK r \in Questions : /\ state[r] = "approved" /\ op[r] = OpOf[t] /\ ~consumed[r]
                           /\ consumed' = [consumed EXCEPT ![r] = TRUE]
                           /\ under' = [under EXCEPT ![t] = r]
      BY <2>2 DEF Clear, Latest, Unspent
    <3>2. started[r] = 0 /\ r \in saidYes
      BY <3>1 DEF RowsAreSane, ApprovalsTypeOK
    <3>3. UNCHANGED <<state, op, started, saidYes>> /\ place' = [place EXCEPT ![t] = "cleared"]
      BY <2>2 DEF Clear
    <3>4. \A u \in Askers : Cleared(u) => under[u] # r
      BY <3>1 DEF SpentForOne
    <3>5. SpentForOne'
      BY <3>1, <3>2, <3>3, <3>4 DEF SpentForOne, Cleared, ApprovalsTypeOK
    <3>6. RowsAreSane'
      BY <3>1, <3>2, <3>3 DEF RowsAreSane, ApprovalsTypeOK
    <3> QED
      BY <3>5, <3>6
  <2>3. ASSUME NEW t \in Askers, StartHandler(t) PROVE (SpentForOne /\ RowsAreSane)'
    <3>1. /\ place[t] = "cleared" /\ under[t] \in Questions
          /\ consumed[under[t]] /\ under[t] \in saidYes /\ started[under[t]] = 0
      BY <2>3 DEF StartHandler, SpentForOne, Cleared
    <3>2. /\ UNCHANGED <<state, op, consumed, under, saidYes>>
          /\ place' = [place EXCEPT ![t] = "handling"]
          /\ started' = [started EXCEPT ![under[t]] = 1]
      BY <2>3, <3>1 DEF StartHandler, ApprovalsTypeOK
    <3>3. SpentForOne'
      BY <3>1, <3>2 DEF SpentForOne, Cleared, ApprovalsTypeOK
    <3>4. RowsAreSane'
      BY <3>1, <3>2 DEF RowsAreSane, ApprovalsTypeOK
    <3> QED
      BY <3>3, <3>4
  <2>4. ASSUME NEW r \in Questions, NEW approved \in BOOLEAN, AnswerQuestion(r, approved)
        PROVE (SpentForOne /\ RowsAreSane)'
    <3>1. /\ UNCHANGED <<op, consumed, under, started>>
          /\ state[r] # "absent"
          /\ state' = [state EXCEPT ![r] = IF approved THEN "approved" ELSE "denied"]
          /\ saidYes' = IF approved THEN saidYes \cup {r} ELSE saidYes
      BY <2>4 DEF AnswerQuestion
    <3>2. ASSUME NEW t \in Askers
          PROVE place'[t] = place[t] \/ (place[t] = "blocked" /\ place'[t] = "working")
      <4>1. \/ place' = place
            \/ /\ place[owner[r]] = "blocked"
               /\ place' = [place EXCEPT ![owner[r]] = "working"]
        BY <2>4 DEF AnswerQuestion, Resumed
      <4>2. place \in [Askers -> Standings]
        BY DEF ApprovalsTypeOK
      <4> QED
        BY <4>1, <4>2
    <3>3. \A t \in Askers : (Cleared(t)' => place'[t] = place[t]) /\ (Cleared(t) <=> Cleared(t)')
      BY <3>2 DEF Cleared
    <3>4. SpentForOne'
      BY <3>1, <3>2, <3>3 DEF SpentForOne, Cleared
    <3>5. RowsAreSane'
      BY <3>1 DEF RowsAreSane, ApprovalsTypeOK
    <3> QED
      BY <3>4, <3>5
  <2>5. CASE CrashOfEngine
    <3>1. \A t \in Askers : ~Cleared(t)' /\ under'[t] = NoQuestion
      BY <2>5 DEF CrashOfEngine, Cleared, ApprovalsTypeOK
    <3>2. SpentForOne'
      BY <3>1 DEF SpentForOne, Cleared
    <3>3. RowsAreSane'
      BY <2>5 DEF CrashOfEngine, RowsAreSane
    <3> QED
      BY <3>2, <3>3
  <2>6. CASE UNCHANGED approvalVars
    BY <2>6 DEF approvalVars, SpentForOne, RowsAreSane, Cleared
  <2> QED
    BY <2>1, <2>2, <2>3, <2>4, <2>5, <2>6 DEF ApprovalsNext
<1>3. YesInv => OneYesOneRun
  BY DEF YesInv, SpentForOne, RowsAreSane, OneYesOneRun, Cleared
<1> QED
  BY <1>1, <1>2, <1>3, ApprovalsTypeCorrect, PTL DEF ApprovalsSpec, YesInv
-----------------------------------------------------------------------------
\* The rows that still matter for an operation are those asked and not spent.
Matters(r) == state[r] # "absent" /\ ~consumed[r]

MatterInv ==
  /\ \A r \in Questions : state[r] \in {"absent", "pending"} => ~consumed[r]
  /\ \A r, q \in Questions : Matters(r) /\ Matters(q) /\ op[r] = op[q] => r = q

\* An operation never has two questions, two answers, or a question beside an
\* answer in force (runtime/approvals.py, request; executor.py,
\* _require_approval).
THEOREM OneMatterAtATime == ApprovalsSpec => []OneLiveMatter
<1>1. ApprovalsInit => MatterInv
  BY DEF ApprovalsInit, MatterInv, Matters
<1>2. ApprovalsTypeOK /\ MatterInv /\ [ApprovalsNext]_approvalVars => MatterInv'
  <2> SUFFICES ASSUME ApprovalsTypeOK, MatterInv, [ApprovalsNext]_approvalVars PROVE MatterInv'
    OBVIOUS
  <2> USE DEF table, askHistory, Matters
  <2>1. ASSUME NEW t \in Askers,
               \/ SubmitAsker(t) \/ StartHandler(t) \/ PerformReturns(t)
               \/ ResumeAsker(t) \/ StopAsker(t)
        PROVE MatterInv'
    BY <2>1 DEF SubmitAsker, StartHandler, PerformReturns, ResumeAsker, StopAsker, MatterInv
  <2>2. ASSUME NEW t \in Askers, Refuse(t) \/ Clear(t) PROVE MatterInv'
    BY <2>2 DEF Refuse, Clear, Latest, Unspent, MatterInv, ApprovalsTypeOK
  <2>3. ASSUME NEW t \in Askers, Ask(t) PROVE MatterInv'
    <3>1. CASE UNCHANGED <<state, op, owner>>
      BY <2>3, <3>1 DEF Ask, MatterInv
    <3>2. ASSUME NEW r \in Questions, PendingFor(OpOf[t]) = {}, OpenQuestion(r, t) PROVE MatterInv'
      <4>1. \A q \in Questions : Matters(q) => op[q] # OpOf[t]
        BY <2>3, <3>2 DEF Ask, PendingFor, Unspent, ApprovalsTypeOK, RowStates
      <4>2. /\ state' = [state EXCEPT ![r] = "pending"]
            /\ op' = [op EXCEPT ![r] = OpOf[t]]
            /\ consumed' = consumed /\ ~consumed[r]
        BY <2>3, <3>2 DEF Ask, OpenQuestion, MatterInv
      <4> QED
        BY <4>1, <4>2 DEF MatterInv, ApprovalsTypeOK
    <3> QED
      BY <2>3, <3>1, <3>2 DEF Ask
  <2>4. ASSUME NEW r \in Questions, NEW approved \in BOOLEAN, AnswerQuestion(r, approved)
        PROVE  MatterInv'
    BY <2>4 DEF AnswerQuestion, MatterInv, ApprovalsTypeOK
  <2>5. CASE CrashOfEngine
    BY <2>5 DEF CrashOfEngine, MatterInv
  <2>6. CASE UNCHANGED approvalVars
    BY <2>6 DEF approvalVars, MatterInv
  <2> QED
    BY <2>1, <2>2, <2>3, <2>4, <2>5, <2>6 DEF ApprovalsNext
<1>3. MatterInv => OneLiveMatter
  BY DEF MatterInv, Matters, OneLiveMatter, LiveMatters, PendingFor, Unspent
<1> QED
  BY <1>1, <1>2, <1>3, ApprovalsTypeCorrect, PTL DEF ApprovalsSpec
-----------------------------------------------------------------------------
\* A blocked task whose operation nobody else performs waits for a question
\* whose answer resumes it, through stops, late answers and crashes.
THEOREM SoleAskersAreAsked == ApprovalsSpec => []SoleAskerIsAsked
<1> DEFINE AskInv == OwnersAsk /\ SoleAskerIsAsked
<1>1. ApprovalsInit => AskInv
  BY DEF ApprovalsInit, OwnersAsk, SoleAskerIsAsked
<1>2. ApprovalsTypeOK /\ AskInv /\ [ApprovalsNext]_approvalVars => AskInv'
  <2> SUFFICES ASSUME ApprovalsTypeOK, AskInv, [ApprovalsNext]_approvalVars PROVE AskInv'
    OBVIOUS
  <2> USE DEF table, askHistory, IsAsked, PendingFor
  <2>1. ASSUME NEW t \in Askers,
               \/ SubmitAsker(t) \/ Refuse(t) \/ Clear(t) \/ StartHandler(t)
               \/ PerformReturns(t) \/ ResumeAsker(t) \/ StopAsker(t)
        PROVE AskInv'
    <3>1. UNCHANGED <<state, op, owner>>
      BY <2>1 DEF SubmitAsker, Refuse, Clear, StartHandler, PerformReturns, ResumeAsker, StopAsker
    <3>2. \A u \in Askers : place'[u] = "blocked" => place[u] = "blocked"
      BY <2>1 DEF SubmitAsker, Refuse, Clear, StartHandler, PerformReturns, ResumeAsker, Resumed, StopAsker,
                   ApprovalsTypeOK
    <3> QED
      BY <3>1, <3>2 DEF OwnersAsk, SoleAskerIsAsked
  <2>2. ASSUME NEW t \in Askers, Ask(t) PROVE AskInv'
    <3>1. \A u \in Askers : place'[u] = "blocked" => place[u] = "blocked" \/ u = t
      BY <2>2 DEF Ask, ApprovalsTypeOK
    <3>2. CASE PendingFor(OpOf[t]) # {} /\ UNCHANGED <<state, op, owner>>
      BY <2>2, <3>1, <3>2 DEF OwnersAsk, SoleAskerIsAsked
    <3>3. ASSUME NEW r \in Questions, OpenQuestion(r, t) PROVE AskInv'
      <4>1. OwnersAsk'
        BY <3>3 DEF OpenQuestion, OwnersAsk, ApprovalsTypeOK
      <4>2. IsAsked(t)'
        BY <3>3 DEF OpenQuestion, ApprovalsTypeOK
      <4>3. \A u \in Askers : IsAsked(u) => IsAsked(u)'
        BY <3>3 DEF OpenQuestion, ApprovalsTypeOK
      <4> QED
        BY <3>1, <4>1, <4>2, <4>3 DEF SoleAskerIsAsked
    <3> QED
      BY <2>2, <3>2, <3>3 DEF Ask
  <2>3. ASSUME NEW r \in Questions, NEW approved \in BOOLEAN, AnswerQuestion(r, approved) PROVE AskInv'
    <3>1. OwnersAsk'
      BY <2>3 DEF AnswerQuestion, OwnersAsk, ApprovalsTypeOK
    <3>2. /\ owner[r] \in Askers => place'[owner[r]] # "blocked"
          /\ \A u \in Askers : place'[u] = "blocked" => place[u] = "blocked"
      BY <2>3 DEF AnswerQuestion, Resumed, ApprovalsTypeOK
    <3>3. \A u \in Askers : IsAsked(u) => IsAsked(u)' \/ owner[r] = u
      BY <2>3 DEF AnswerQuestion, ApprovalsTypeOK
    <3> QED
      BY <3>1, <3>2, <3>3 DEF SoleAskerIsAsked
  <2>4. CASE CrashOfEngine
    BY <2>4 DEF CrashOfEngine, OwnersAsk, SoleAskerIsAsked, ApprovalsTypeOK
  <2>5. CASE UNCHANGED approvalVars
    BY <2>5 DEF approvalVars, OwnersAsk, SoleAskerIsAsked
  <2> QED
    BY <2>1, <2>2, <2>3, <2>4, <2>5 DEF ApprovalsNext
<1> QED
  BY <1>1, <1>2, ApprovalsTypeCorrect, PTL DEF ApprovalsSpec
-----------------------------------------------------------------------------
\* A transaction that has begun finds room for the row it reads a position for.
LogFits ==
  /\ Len(log) <= MaxEvents
  /\ \A p \in Engines : writing[p] \in {"open", "staged"} => Len(log) < MaxEvents
  /\ \A p, q \in Engines :
       writing[p] \in {"open", "staged"} /\ writing[q] \in {"open", "staged"} => p = q
  /\ \A p \in Engines : writing[p] \in {"read", "staged"} => draft[p] \in Drafts

SequencesFit ==
  /\ \A e \in DOMAIN log : log[e].sequence <= Len(log)
  /\ \A p \in Engines : writing[p] \in {"read", "staged"} => draft[p].sequence <= Len(log) + 1

\* Only what is committed is read, said, sent and seen.
OnlyCommitted ==
  \A p \in Engines :
    /\ batch[p] \in Seq(DOMAIN log) /\ drained[p] \in Seq(DOMAIN log)
    /\ queue[p] \in Seq(DOMAIN log) /\ seen[p] \in Seq(DOMAIN log)
    /\ sent[p] \subseteq DOMAIN log

\* What a drain does not still have to emit, it has emitted.
DrainedIsTold ==
  \A p \in Engines : Range(drained[p]) \subseteq told \cup Range(batch[p])

OutboxInv == OutboxTypeOK /\ LogFits /\ SequencesFit /\ OnlyCommitted

\* COALESCE(MAX(sequence), 0) + 1 is above every position there is.
LEMMA NextSequenceIsNext ==
  ASSUME OutboxTypeOK, SequencesFit, NEW t
  PROVE  /\ NextSequence(t) \in 1 .. (Len(log) + 1)
         /\ \A e \in RowsOf(t) : log[e].sequence < NextSequence(t)
<1> DEFINE S == {log[e].sequence : e \in RowsOf(t)}
<1>1. \A e \in DOMAIN log : log[e].sequence \in 1 .. Len(log) /\ log[e].sequence \in 1 .. MaxEvents
  <2> DEFINE Row == [task : Tasks, sequence : 1 .. MaxEvents, time : 1 .. MaxTime,
                     state : {"pending", "published", "pruned"}]
  <2>1. log \in Seq(Row)
    BY DEF OutboxTypeOK
  <2>2. \A r \in Row : r.sequence \in 1 .. MaxEvents
    OBVIOUS
  <2> HIDE DEF Row
  <2>3. Len(log) \in Nat /\ \A e \in DOMAIN log : log[e] \in Row
    BY <2>1
  <2> QED
    BY <2>2, <2>3, OutboxAssumption DEF SequencesFit
<1>2. \A e \in RowsOf(t) : e \in DOMAIN log
  BY DEF RowsOf, Rows
<1>3. Len(log) \in Nat
  BY DEF OutboxTypeOK
<1>4. CASE RowsOf(t) = {}
  BY <1>3, <1>4 DEF NextSequence
<1>5. CASE RowsOf(t) # {}
  <2>1. S \in SUBSET (1 .. MaxEvents) /\ S # {} /\ S \in SUBSET Nat /\ MaxEvents \in Nat
    BY <1>1, <1>2, <1>5, OutboxAssumption
  <2>2. IsFiniteSet(S)
    <3>1. IsFiniteSet(1 .. MaxEvents)
      BY <2>1, FS_Interval
    <3> HIDE DEF S
    <3> QED
      BY <2>1, <3>1, FS_Subset
  <2> HIDE DEF S
  <2>3. \E m \in S : \A x \in S : x <= m
    BY <2>1, <2>2, HasGreatest
  <2>4. \E m \in S : \A e \in RowsOf(t) : log[e].sequence <= m
    BY <2>3 DEF S
  <2> DEFINE top == CHOOSE s \in S : \A e \in RowsOf(t) : log[e].sequence <= s
  <2>5. top \in S /\ \A e \in RowsOf(t) : log[e].sequence <= top
    BY <2>4
  <2>6. NextSequence(t) = 1 + top
    BY <1>5 DEF NextSequence, S
  <2> HIDE DEF top
  <2>7. top \in 1 .. Len(log)
    BY <1>1, <1>2, <2>5 DEF S
  <2>8. \A e \in RowsOf(t) : log[e].sequence \in Nat
    BY <1>1, <1>2
  <2> QED
    BY <1>3, <2>5, <2>6, <2>7, <2>8
<1> QED
  BY <1>4, <1>5

LogRow == [task : Tasks, sequence : 1 .. MaxEvents, time : 1 .. MaxTime,
           state : {"pending", "published", "pruned"}]

LEMMA RowsAreTyped ==
  ASSUME OutboxTypeOK
  PROVE  /\ log \in Seq(LogRow) /\ Len(log) \in Nat /\ DOMAIN log = 1 .. Len(log)
         /\ \A e \in DOMAIN log : /\ log[e] \in LogRow /\ e \in Nat
                                  /\ log[e].sequence \in Nat /\ log[e].time \in Nat
<1>1. log \in Seq(LogRow)
  BY DEF OutboxTypeOK, LogRow
<1>2. \A r \in LogRow : r.sequence \in Nat /\ r.time \in Nat
  BY OutboxAssumption DEF LogRow
<1> QED
  BY <1>1, <1>2

\* What is pending, in the order it is published in: every such row, once.
LEMMA PendingInOrder ==
  ASSUME OutboxTypeOK
  PROVE  /\ Pending \in Seq(DOMAIN log) /\ Len(Pending) \in Nat
         /\ DOMAIN Pending = 1 .. Len(Pending)
         /\ \A q \in DOMAIN Pending : Pending[q] \in Unpublished
         /\ \A e \in Unpublished : \E q \in DOMAIN Pending : Pending[q] = e
         /\ \A q, r \in DOMAIN Pending : q < r <=> Before(Pending[q], Pending[r])
<1> DEFINE time(e) == log[e].time
           number(e) == log[e].sequence
<1>1. /\ Unpublished \subseteq DOMAIN log /\ Len(log) \in Nat /\ DOMAIN log = 1 .. Len(log)
      /\ \A e \in DOMAIN log : e \in Nat /\ time(e) \in Nat /\ number(e) \in Nat
  BY RowsAreTyped DEF Unpublished, Rows
<1>2. \A d, e \in DOMAIN log :
        <<d, e>> \in Earlier <=> \/ time(d) < time(e)
                                 \/ time(d) = time(e) /\ number(d) < number(e)
                                 \/ time(d) = time(e) /\ number(d) = number(e) /\ d < e
  BY DEF Earlier, Before
<1>3. \A d, e \in DOMAIN log : <<d, e>> \in Earlier <=> Before(d, e)
  BY DEF Earlier
<1> HIDE DEF time, number
<1>4. StrictlyOrders(Earlier, Unpublished)
  <2>1. \A e \in Unpublished : <<e, e>> \notin Earlier
    BY <1>1, <1>2
  <2>2. ASSUME NEW c \in Unpublished, NEW d \in Unpublished, NEW e \in Unpublished,
               <<c, d>> \in Earlier, <<d, e>> \in Earlier
        PROVE  <<c, e>> \in Earlier
    <3>1. /\ c \in Nat /\ time(c) \in Nat /\ number(c) \in Nat /\ c \in DOMAIN log
          /\ d \in Nat /\ time(d) \in Nat /\ number(d) \in Nat /\ d \in DOMAIN log
          /\ e \in Nat /\ time(e) \in Nat /\ number(e) \in Nat /\ e \in DOMAIN log
      BY <1>1
    <3>2. /\ \/ time(c) < time(d)
             \/ time(c) = time(d) /\ number(c) < number(d)
             \/ time(c) = time(d) /\ number(c) = number(d) /\ c < d
          /\ \/ time(d) < time(e)
             \/ time(d) = time(e) /\ number(d) < number(e)
             \/ time(d) = time(e) /\ number(d) = number(e) /\ d < e
      BY <1>2, <2>2, <3>1
    <3>3. \/ time(c) < time(e)
          \/ time(c) = time(e) /\ number(c) < number(e)
          \/ time(c) = time(e) /\ number(c) = number(e) /\ c < e
      BY <3>1, <3>2
    <3> QED
      BY <1>2, <3>1, <3>3
  <2>3. ASSUME NEW d \in Unpublished, NEW e \in Unpublished
        PROVE  d = e \/ <<d, e>> \in Earlier \/ <<e, d>> \in Earlier
    <3>1. /\ d \in Nat /\ time(d) \in Nat /\ number(d) \in Nat
          /\ e \in Nat /\ time(e) \in Nat /\ number(e) \in Nat
          /\ d \in DOMAIN log /\ e \in DOMAIN log
      BY <1>1
    <3> QED
      BY <1>2, <3>1
  <2> QED
    BY <2>1, <2>2, <2>3 DEF StrictlyOrders
<1>5. IsFiniteSet(Unpublished)
  <2>1. IsFiniteSet(1 .. Len(log))
    BY <1>1, FS_Interval
  <2> QED
    BY <1>1, <2>1, FS_Subset
<1>6. /\ Pending \in Seq(Unpublished)
      /\ \A e \in Unpublished : \E q \in DOMAIN Pending : Pending[q] = e
      /\ \A q, r \in DOMAIN Pending : q < r <=> <<Pending[q], Pending[r]>> \in Earlier
  BY <1>4, <1>5, OrderIsKept DEF Pending
<1>7. \A q \in DOMAIN Pending : Pending[q] \in Unpublished /\ Pending[q] \in DOMAIN log
  BY <1>1, <1>6
<1>8. Pending \in Seq(DOMAIN log) /\ Len(Pending) \in Nat /\ DOMAIN Pending = 1 .. Len(Pending)
  BY <1>6, <1>7
<1> QED
  BY <1>3, <1>6, <1>7, <1>8

\* What one drain() takes of it.
First == IF Len(Pending) <= Limit THEN Pending ELSE SubSeq(Pending, 1, Limit)

LEMMA FirstOfPending ==
  ASSUME OutboxTypeOK
  PROVE  /\ First \in Seq(DOMAIN log)
         /\ \A k \in DOMAIN First : k \in DOMAIN Pending /\ First[k] = Pending[k]
         /\ \A k \in DOMAIN First, j \in DOMAIN Pending : j < k => j \in DOMAIN First
<1>1. Pending \in Seq(DOMAIN log) /\ Len(Pending) \in Nat /\ DOMAIN Pending = 1 .. Len(Pending)
  BY PendingInOrder
<1>2. Limit \in Nat /\ Limit >= 1
  BY OutboxAssumption
<1>3. CASE Len(Pending) <= Limit
  BY <1>1, <1>3 DEF First
<1>4. CASE ~(Len(Pending) <= Limit)
  <2>1. First = SubSeq(Pending, 1, Limit) /\ \A k \in 1 .. Limit : k \in 1 .. Len(Pending)
    BY <1>1, <1>2, <1>4 DEF First
  <2>2. \A k \in 1 .. Limit : Pending[k] \in DOMAIN log
    BY <1>1, <2>1
  <2>3. First = [k \in 1 .. Limit |-> Pending[k]]
    BY <1>1, <1>2, <2>1
  <2> QED
    BY <1>1, <1>2, <2>1, <2>2, <2>3
<1> QED
  BY <1>3, <1>4

\* The position a transaction reads is free.
LEMMA PositionIsDraft ==
  ASSUME OutboxInv, NEW p \in Engines, NEW t \in Tasks, Position(p, t), Len(log) < MaxEvents
  PROVE  \E d \in Drafts :
           /\ draft' = [draft EXCEPT ![p] = d] /\ d.sequence <= Len(log) + 1
           /\ \A e \in RowsOf(d.task) : log[e].sequence < d.sequence
<1>1. PICK n \in Now : draft' = [draft EXCEPT ![p] =
                          [task |-> t, sequence |-> NextSequence(t), time |-> n]]
  BY DEF Position
<1> DEFINE d == [task |-> t, sequence |-> NextSequence(t), time |-> n]
<1>2. /\ NextSequence(t) \in 1 .. (Len(log) + 1)
      /\ \A e \in RowsOf(t) : log[e].sequence < NextSequence(t)
  BY NextSequenceIsNext DEF OutboxInv
<1>3. Len(log) \in Nat /\ MaxEvents \in Nat
  BY RowsAreTyped, OutboxAssumption DEF OutboxInv
<1>4. NextSequence(t) \in 1 .. MaxEvents
  BY <1>2, <1>3
<1>5. n \in 1 .. MaxTime
  BY <1>1 DEF Now
<1>6. d \in Drafts /\ d.task = t /\ d.sequence = NextSequence(t)
  BY <1>4, <1>5 DEF Drafts
<1>7. /\ d.sequence <= Len(log) + 1
      /\ \A e \in RowsOf(d.task) : log[e].sequence < d.sequence
  BY <1>2, <1>6
<1> HIDE DEF d
<1> QED
  BY <1>1, <1>6, <1>7 DEF d

Working == {"open", "staged"}
Dirty == {"read", "staged"}

LEMMA WritingKept ==
  ASSUME OutboxInv, NEW p \in Engines, NEW w \in {"no", "open", "read", "staged"},
         NEW d \in Drafts \cup {Blank},
         writing' = [writing EXCEPT ![p] = w], draft' = [draft EXCEPT ![p] = d],
         UNCHANGED <<log, drainVars, windowVars>>,
         w \in Working => Len(log) < MaxEvents
                          /\ \A q \in Engines : q # p => writing[q] \notin Working,
         w \in Dirty => d \in Drafts /\ d.sequence <= Len(log) + 1
  PROVE  OutboxInv'
<1>1. UNCHANGED <<log, batch, drained, told, window, queue, dropped, sent, seen>>
  BY DEF drainVars, windowVars
<1>2. writing \in [Engines -> {"no", "open", "read", "staged"}]
      /\ draft \in [Engines -> Drafts \cup {Blank}]
  BY DEF OutboxInv, OutboxTypeOK
<1>3. /\ writing' \in [Engines -> {"no", "open", "read", "staged"}]
      /\ draft' \in [Engines -> Drafts \cup {Blank}]
      /\ \A q \in Engines : /\ writing'[q] = IF q = p THEN w ELSE writing[q]
                            /\ draft'[q] = IF q = p THEN d ELSE draft[q]
  BY <1>2
<1>4. OutboxTypeOK'
  BY <1>1, <1>3 DEF OutboxInv, OutboxTypeOK
<1>5. LogFits'
  <2>1. \A q \in Engines : writing'[q] \in Working => Len(log) < MaxEvents
    BY <1>3 DEF OutboxInv, LogFits, Working
  <2>2. \A q, r \in Engines : writing'[q] \in Working /\ writing'[r] \in Working => q = r
    BY <1>3 DEF OutboxInv, LogFits, Working
  <2>3. \A q \in Engines : writing'[q] \in Dirty => draft'[q] \in Drafts
    BY <1>3 DEF OutboxInv, LogFits, Dirty
  <2> QED
    BY <1>1, <2>1, <2>2, <2>3 DEF OutboxInv, LogFits, Working, Dirty
<1>6. SequencesFit'
  BY <1>1, <1>3 DEF OutboxInv, SequencesFit, Dirty
<1>7. OnlyCommitted'
  BY <1>1 DEF OutboxInv, OnlyCommitted
<1> QED
  BY <1>4, <1>5, <1>6, <1>7 DEF OutboxInv

\* Reading a position, opening, taking the lock and giving up.
LEMMA WriterStep ==
  ASSUME OutboxInv, NEW p \in Engines,
         \/ Open(p) \/ RecordInsert(p) \/ Rollback(p)
         \/ \E t \in Tasks : Stage(p, t) \/ RecordRead(p, t)
  PROVE  OutboxInv'
<1>1. /\ writing \in [Engines -> {"no", "open", "read", "staged"}]
      /\ draft \in [Engines -> Drafts \cup {Blank}] /\ draft[p] \in Drafts \cup {Blank}
      /\ draft = [draft EXCEPT ![p] = draft[p]]
  BY DEF OutboxInv, OutboxTypeOK
<1>2. CASE Open(p)
  <2>1. /\ writing' = [writing EXCEPT ![p] = "open"] /\ draft' = draft
        /\ Len(log) < MaxEvents /\ \A q \in Engines : writing[q] \notin Working
        /\ UNCHANGED <<log, drainVars, windowVars>>
    BY <1>2 DEF Open, Locked, Working
  <2> QED
    BY <1>1, <2>1, WritingKept DEF Dirty
<1>3. CASE RecordInsert(p)
  <2>1. /\ writing[p] = "read" /\ writing' = [writing EXCEPT ![p] = "staged"] /\ draft' = draft
        /\ Len(log) < MaxEvents /\ \A q \in Engines : writing[q] \notin Working
        /\ UNCHANGED <<log, drainVars, windowVars>>
    BY <1>3 DEF RecordInsert, Locked, Working
  <2>2. draft[p] \in Drafts /\ draft[p].sequence <= Len(log) + 1
    BY <2>1 DEF OutboxInv, LogFits, SequencesFit
  <2> QED
    BY <1>1, <2>1, <2>2, WritingKept
<1>4. CASE Rollback(p)
  <2>1. /\ writing' = [writing EXCEPT ![p] = "no"] /\ draft' = [draft EXCEPT ![p] = Blank]
        /\ UNCHANGED <<log, drainVars, windowVars>>
    BY <1>4 DEF Rollback
  <2> QED
    BY <2>1, WritingKept DEF Working, Dirty
<1>5. ASSUME NEW t \in Tasks, Stage(p, t) PROVE OutboxInv'
  <2>1. /\ writing[p] = "open" /\ writing' = [writing EXCEPT ![p] = "staged"]
        /\ Position(p, t) /\ UNCHANGED <<log, drainVars, windowVars>>
    BY <1>5 DEF Stage
  <2>2. Len(log) < MaxEvents /\ \A q \in Engines : q # p => writing[q] \notin Working
    BY <2>1 DEF OutboxInv, LogFits, Working
  <2>3. PICK d \in Drafts : draft' = [draft EXCEPT ![p] = d] /\ d.sequence <= Len(log) + 1
    BY <2>1, <2>2, PositionIsDraft
  <2> QED
    BY <2>1, <2>2, <2>3, WritingKept
<1>6. ASSUME NEW t \in Tasks, RecordRead(p, t) PROVE OutboxInv'
  <2>1. /\ Len(log) < MaxEvents /\ writing' = [writing EXCEPT ![p] = "read"]
        /\ Position(p, t) /\ UNCHANGED <<log, drainVars, windowVars>>
    BY <1>6 DEF RecordRead
  <2>2. PICK d \in Drafts : draft' = [draft EXCEPT ![p] = d] /\ d.sequence <= Len(log) + 1
    BY <2>1, PositionIsDraft
  <2> QED
    BY <2>1, <2>2, WritingKept DEF Working
<1> QED
  BY <1>2, <1>3, <1>4, <1>5, <1>6

LEMMA SeqGrows ==
  ASSUME NEW S, NEW T, S \subseteq T, NEW s \in Seq(S)
  PROVE  s \in Seq(T)
OBVIOUS

LEMMA CommitStep ==
  ASSUME OutboxInv, NEW p \in Engines, Commit(p)
  PROVE  /\ OutboxInv'
         /\ Len(log') = Len(log) + 1 /\ DOMAIN log' = 1 .. (Len(log) + 1)
         /\ \A e \in DOMAIN log : log'[e] = log[e]
         /\ log'[Len(log) + 1] = [task |-> draft[p].task, sequence |-> draft[p].sequence,
                                  time |-> draft[p].time, state |-> "pending"]
<1> DEFINE new == [task |-> draft[p].task, sequence |-> draft[p].sequence,
                   time |-> draft[p].time, state |-> "pending"]
<1>1. /\ writing[p] = "staged" /\ log' = Append(log, new)
      /\ writing' = [writing EXCEPT ![p] = "no"] /\ draft' = [draft EXCEPT ![p] = Blank]
      /\ UNCHANGED <<batch, drained, told, window, queue, dropped, sent, seen>>
  BY DEF Commit, drainVars, windowVars
<1>2. /\ Len(log) < MaxEvents /\ draft[p] \in Drafts /\ draft[p].sequence <= Len(log) + 1
      /\ \A q \in Engines : writing[q] \in Working => q = p
  BY <1>1 DEF OutboxInv, LogFits, SequencesFit, Working
<1>3. new \in LogRow /\ new.sequence = draft[p].sequence
  BY <1>2 DEF LogRow, Drafts
<1>4. log \in Seq(LogRow) /\ Len(log) \in Nat /\ DOMAIN log = 1 .. Len(log)
      /\ MaxEvents \in Nat /\ \A e \in DOMAIN log : log[e].sequence \in Nat
  BY RowsAreTyped, OutboxAssumption DEF OutboxInv
<1> HIDE DEF new
<1>5. /\ log' \in Seq(LogRow) /\ Len(log') = Len(log) + 1
      /\ DOMAIN log' = 1 .. (Len(log) + 1) /\ log'[Len(log) + 1] = new
      /\ \A e \in DOMAIN log : log'[e] = log[e]
  BY <1>1, <1>3, <1>4
<1>6. /\ writing \in [Engines -> {"no", "open", "read", "staged"}]
      /\ draft \in [Engines -> Drafts \cup {Blank}]
  BY DEF OutboxInv, OutboxTypeOK
<1>7. /\ writing' \in [Engines -> {"no", "open", "read", "staged"}]
      /\ draft' \in [Engines -> Drafts \cup {Blank}]
      /\ \A q \in Engines : /\ writing'[q] = IF q = p THEN "no" ELSE writing[q]
                            /\ draft'[q] = IF q = p THEN Blank ELSE draft[q]
  BY <1>1, <1>6
<1>8. OutboxTypeOK'
  BY <1>1, <1>5, <1>7 DEF OutboxInv, OutboxTypeOK, LogRow
<1>9. LogFits'
  <2>1. \A q \in Engines : writing'[q] \notin Working
    BY <1>2, <1>7 DEF Working
  <2>2. \A q \in Engines : writing'[q] \in Dirty => draft'[q] \in Drafts
    BY <1>7 DEF OutboxInv, LogFits, Dirty
  <2>3. Len(log') <= MaxEvents
    BY <1>2, <1>4, <1>5
  <2> QED
    BY <2>1, <2>2, <2>3 DEF LogFits, Working, Dirty
<1>10. SequencesFit'
  <2>1. \A e \in DOMAIN log' : log'[e].sequence <= Len(log')
    <3>1. \A e \in DOMAIN log' : e \in DOMAIN log \/ e = Len(log) + 1
      BY <1>4, <1>5
    <3>2. \A e \in DOMAIN log : log'[e].sequence <= Len(log')
      BY <1>4, <1>5 DEF OutboxInv, SequencesFit
    <3> QED
      BY <1>2, <1>3, <1>5, <3>1, <3>2
  <2>2. \A q \in Engines : writing'[q] \in Dirty => draft'[q].sequence <= Len(log') + 1
    <3> SUFFICES ASSUME NEW q \in Engines, writing'[q] \in Dirty
                 PROVE  draft'[q].sequence <= Len(log') + 1
      OBVIOUS
    <3>1. draft'[q] = draft[q] /\ writing[q] \in Dirty
      BY <1>7 DEF Dirty
    <3>2. draft[q] \in Drafts /\ draft[q].sequence <= Len(log) + 1
      BY <3>1 DEF OutboxInv, LogFits, SequencesFit, Dirty
    <3>3. draft[q].sequence \in Nat
      BY <3>2, OutboxAssumption DEF Drafts
    <3> QED
      BY <1>4, <1>5, <3>1, <3>2, <3>3
  <2> QED
    BY <2>1, <2>2 DEF SequencesFit, Dirty
<1>11. OnlyCommitted'
  <2>1. DOMAIN log \subseteq DOMAIN log'
    BY <1>4, <1>5
  <2> SUFFICES ASSUME NEW q \in Engines
               PROVE  /\ batch[q] \in Seq(DOMAIN log') /\ drained[q] \in Seq(DOMAIN log')
                      /\ queue[q] \in Seq(DOMAIN log') /\ seen[q] \in Seq(DOMAIN log')
                      /\ sent[q] \subseteq DOMAIN log'
    BY <1>1 DEF OnlyCommitted
  <2> QED
    BY <2>1, SeqGrows DEF OutboxInv, OnlyCommitted
<1> QED
  BY <1>5, <1>8, <1>9, <1>10, <1>11 DEF OutboxInv, new

\* Marking and pruning change the state of rows, forwards, and nothing else.
Restated ==
  /\ log' \in Seq(LogRow) /\ Len(log') = Len(log) /\ DOMAIN log' = DOMAIN log
  /\ \A e \in DOMAIN log :
       /\ log'[e].task = log[e].task /\ log'[e].sequence = log[e].sequence
       /\ log'[e].time = log[e].time
       /\ log'[e].state = "pending" => log[e].state = "pending"
       /\ log[e].state = "pruned" => log'[e].state = "pruned"

LEMMA ChangingStates ==
  ASSUME OutboxTypeOK, NEW C \in SUBSET (DOMAIN log), NEW to \in {"published", "pruned"},
         \A e \in C : log[e].state # "pruned",
         log' = [e \in DOMAIN log |-> IF e \in C THEN [log[e] EXCEPT !.state = to] ELSE log[e]]
  PROVE  Restated
<1>1. Len(log) \in Nat /\ DOMAIN log = 1 .. Len(log) /\ \A e \in DOMAIN log : log[e] \in LogRow
  BY RowsAreTyped
<1>2. \A e \in DOMAIN log : log'[e] = IF e \in C THEN [log[e] EXCEPT !.state = to] ELSE log[e]
  OBVIOUS
<1>3. \A r \in LogRow : LET c == [r EXCEPT !.state = to] IN
        /\ c \in LogRow /\ c.task = r.task /\ c.sequence = r.sequence /\ c.time = r.time
        /\ c.state = to
  BY DEF LogRow
<1>4. \A e \in DOMAIN log :
        /\ log'[e] \in LogRow
        /\ log'[e].task = log[e].task /\ log'[e].sequence = log[e].sequence
        /\ log'[e].time = log[e].time
        /\ log'[e].state = "pending" => log[e].state = "pending"
        /\ log[e].state = "pruned" => log'[e].state = "pruned"
  BY <1>1, <1>2, <1>3
<1>5. log' = [e \in 1 .. Len(log) |-> log'[e]]
  BY <1>1
<1>6. log' \in Seq(LogRow) /\ Len(log') = Len(log) /\ DOMAIN log' = DOMAIN log
  BY <1>1, <1>4, <1>5
<1> QED
  BY <1>4, <1>6 DEF Restated

LEMMA MarkRestates ==
  ASSUME OutboxTypeOK, NEW p \in Engines, Mark(p)
  PROVE  Restated
<1> DEFINE C == {e \in DOMAIN log : e \in Range(drained[p]) /\ log[e].state = "pending"}
<1>1. log' = [e \in DOMAIN log |-> IF e \in C THEN [log[e] EXCEPT !.state = "published"] ELSE log[e]]
  BY DEF Mark
<1>2. C \in SUBSET (DOMAIN log) /\ \A e \in C : log[e].state # "pruned"
  OBVIOUS
<1> HIDE DEF C
<1> QED
  BY <1>1, <1>2, ChangingStates

LEMMA PruneRestates ==
  ASSUME OutboxTypeOK, NEW cutoff, Prune(cutoff)
  PROVE  Restated
<1> DEFINE C == {e \in DOMAIN log : Prunable(e, cutoff)}
<1>1. log' = [e \in DOMAIN log |-> IF e \in C THEN [log[e] EXCEPT !.state = "pruned"] ELSE log[e]]
  BY DEF Prune
<1>2. C \in SUBSET (DOMAIN log) /\ \A e \in C : log[e].state # "pruned"
  BY DEF Prunable
<1> HIDE DEF C
<1> QED
  BY <1>1, <1>2, ChangingStates

WritersOnlyStop ==
  /\ writing' \in [Engines -> {"no", "open", "read", "staged"}]
  /\ draft' \in [Engines -> Drafts \cup {Blank}]
  /\ \A q \in Engines : \/ writing'[q] = "no"
                        \/ writing'[q] = writing[q] /\ draft'[q] = draft[q]

LEMMA WritersStay ==
  ASSUME OutboxInv, UNCHANGED writerVars
  PROVE  WritersOnlyStop
BY DEF OutboxInv, OutboxTypeOK, writerVars, WritersOnlyStop

LEMMA CommittedTypes ==
  ASSUME OutboxInv
  PROVE  /\ batch \in [Engines -> Seq(DOMAIN log)] /\ drained \in [Engines -> Seq(DOMAIN log)]
         /\ queue \in [Engines -> Seq(DOMAIN log)] /\ seen \in [Engines -> Seq(DOMAIN log)]
         /\ sent \in [Engines -> SUBSET (DOMAIN log)] /\ told \subseteq Events
         /\ window \in [Engines -> BOOLEAN] /\ dropped \in [Engines -> 0 .. MaxLost]
         /\ DOMAIN log \subseteq Events
<1>1. DOMAIN log \subseteq Events
  BY RowsAreTyped, OutboxAssumption DEF OutboxInv, LogFits, Events
<1> QED
  BY <1>1 DEF OutboxInv, OutboxTypeOK, OnlyCommitted

\* Draining, marking, pruning, sending and seeing, and dying.
LEMMA DrainingKept ==
  ASSUME OutboxInv, WritersOnlyStop, log' = log \/ Restated,
         batch' \in [Engines -> Seq(DOMAIN log)], drained' \in [Engines -> Seq(DOMAIN log)],
         queue' \in [Engines -> Seq(DOMAIN log)], seen' \in [Engines -> Seq(DOMAIN log)],
         sent' \in [Engines -> SUBSET (DOMAIN log)], told' \subseteq Events,
         window' \in [Engines -> BOOLEAN], dropped' \in [Engines -> 0 .. MaxLost]
  PROVE  OutboxInv'
<1>1. /\ log' \in Seq(LogRow) /\ Len(log') = Len(log) /\ DOMAIN log' = DOMAIN log
      /\ \A e \in DOMAIN log : log'[e].sequence = log[e].sequence
  BY RowsAreTyped DEF OutboxInv, Restated
<1>2. DOMAIN log \subseteq Events /\ \A s \in Seq(DOMAIN log) : s \in Seq(Events)
  BY CommittedTypes, SeqGrows
<1>3. /\ batch' \in [Engines -> Seq(Events)] /\ drained' \in [Engines -> Seq(Events)]
      /\ queue' \in [Engines -> Seq(Events)] /\ seen' \in [Engines -> Seq(Events)]
      /\ sent' \in [Engines -> SUBSET Events]
  BY <1>2
<1>4. OutboxTypeOK'
  BY <1>1, <1>3 DEF OutboxTypeOK, WritersOnlyStop, LogRow
<1>5. LogFits'
  <2>1. \A q \in Engines : writing'[q] \in Working => writing[q] \in Working
    BY DEF WritersOnlyStop, Working
  <2>2. \A q \in Engines : writing'[q] \in Dirty => writing[q] \in Dirty /\ draft'[q] = draft[q]
    BY DEF WritersOnlyStop, Dirty
  <2> QED
    BY <1>1, <2>1, <2>2 DEF OutboxInv, LogFits, Working, Dirty
<1>6. SequencesFit'
  <2>1. \A q \in Engines : writing'[q] \in Dirty => writing[q] \in Dirty /\ draft'[q] = draft[q]
    BY DEF WritersOnlyStop, Dirty
  <2> QED
    BY <1>1, <2>1 DEF OutboxInv, SequencesFit, Dirty
<1>7. OnlyCommitted'
  <2> SUFFICES ASSUME NEW q \in Engines
               PROVE  /\ batch'[q] \in Seq(DOMAIN log) /\ drained'[q] \in Seq(DOMAIN log)
                      /\ queue'[q] \in Seq(DOMAIN log) /\ seen'[q] \in Seq(DOMAIN log)
                      /\ sent'[q] \subseteq DOMAIN log
    BY <1>1 DEF OnlyCommitted
  <2> QED
    OBVIOUS
<1> QED
  BY <1>4, <1>5, <1>6, <1>7 DEF OutboxInv

LEMMA HeadAndTail ==
  ASSUME NEW S, NEW s \in Seq(S), s # <<>>
  PROVE  /\ Head(s) \in S /\ Tail(s) \in Seq(S) /\ Len(Tail(s)) = Len(s) - 1 /\ Head(s) = s[1]
         /\ Len(s) \in Nat /\ Len(s) >= 1
         /\ \A i \in 1 .. (Len(s) - 1) : Tail(s)[i] = s[i + 1]
         /\ Range(s) = {Head(s)} \cup Range(Tail(s))
<1>1. /\ Head(s) \in S /\ Tail(s) \in Seq(S) /\ Len(Tail(s)) = Len(s) - 1 /\ Head(s) = s[1]
      /\ Len(s) \in Nat /\ Len(s) >= 1
      /\ \A i \in 1 .. (Len(s) - 1) : Tail(s)[i] = s[i + 1]
  OBVIOUS
<1>2. DOMAIN s = 1 .. Len(s) /\ DOMAIN Tail(s) = 1 .. (Len(s) - 1)
  BY <1>1
<1>3. Range(s) \subseteq {Head(s)} \cup Range(Tail(s))
  <2> SUFFICES ASSUME NEW i \in 1 .. Len(s), i # 1 PROVE s[i] \in Range(Tail(s))
    BY <1>1, <1>2 DEF Range
  <2>1. i - 1 \in 1 .. (Len(s) - 1) /\ Tail(s)[i - 1] = s[(i - 1) + 1] /\ (i - 1) + 1 = i
    BY <1>1
  <2> QED
    BY <1>2, <2>1 DEF Range
<1>4. {Head(s)} \cup Range(Tail(s)) \subseteq Range(s)
  <2>1. \A i \in 1 .. (Len(s) - 1) : i + 1 \in 1 .. Len(s)
    BY <1>1
  <2> QED
    BY <1>1, <1>2, <2>1 DEF Range
<1> QED
  BY <1>1, <1>3, <1>4

LEMMA AppendAdds ==
  ASSUME NEW S, NEW s \in Seq(S), NEW e \in S
  PROVE  Append(s, e) \in Seq(S) /\ Range(Append(s, e)) = Range(s) \cup {e}
<1>1. DOMAIN Append(s, e) = 1 .. (Len(s) + 1) /\ Append(s, e)[Len(s) + 1] = e
      /\ Append(s, e) \in Seq(S) /\ Len(s) \in Nat /\ DOMAIN s = 1 .. Len(s)
      /\ \A i \in 1 .. Len(s) : Append(s, e)[i] = s[i]
  OBVIOUS
<1>2. 1 .. (Len(s) + 1) = (1 .. Len(s)) \cup {Len(s) + 1}
  BY <1>1
<1> QED
  BY <1>1, <1>2 DEF Range

\* One event is emitted: what becomes of the window of that bus.
LEMMA OfferKeeps ==
  ASSUME OutboxInv, NEW p \in Engines, batch[p] # <<>>, dropped[p] < MaxLost,
         Offer(p, Head(batch[p]))
  PROVE  /\ queue' \in [Engines -> Seq(DOMAIN log)] /\ seen' \in [Engines -> Seq(DOMAIN log)]
         /\ sent' \in [Engines -> SUBSET (DOMAIN log)]
         /\ window' = window /\ seen' = seen
         /\ dropped' \in [Engines -> 0 .. MaxLost]
         /\ \A q \in Engines :
              q # p => queue'[q] = queue[q] /\ dropped'[q] = dropped[q] /\ sent'[q] = sent[q]
         /\ ~window[p] => UNCHANGED <<queue, dropped, sent>>
         /\ window[p] /\ dropped'[p] = 0 =>
              dropped[p] = 0 /\ queue'[p] = Append(queue[p], Head(batch[p]))
         /\ window[p] => sent'[p] = sent[p] \cup {Head(batch[p])}
<1> DEFINE e == Head(batch[p])
           full == Len(queue[p]) = QueueSize
<1>1. /\ queue \in [Engines -> Seq(DOMAIN log)] /\ seen \in [Engines -> Seq(DOMAIN log)]
      /\ sent \in [Engines -> SUBSET (DOMAIN log)] /\ batch[p] \in Seq(DOMAIN log)
      /\ dropped \in [Engines -> 0 .. MaxLost] /\ MaxLost \in Nat
  BY CommittedTypes, OutboxAssumption
<1>2. e \in DOMAIN log
  BY <1>1, HeadAndTail
<1> HIDE DEF e
<1>3. CASE ~window[p]
  <2>1. UNCHANGED <<window, queue, dropped, sent, seen>>
    BY <1>3 DEF Offer, windowVars
  <2> QED
    BY <1>1, <1>3, <2>1
<1>4. CASE window[p]
  <2>1. /\ dropped' = [dropped EXCEPT ![p] = IF full THEN dropped[p] + 1 ELSE dropped[p]]
        /\ queue' = [queue EXCEPT ![p] = Append(IF full THEN Tail(queue[p]) ELSE queue[p], e)]
        /\ sent' = [sent EXCEPT ![p] = sent[p] \cup {e}]
        /\ window' = window /\ seen' = seen
    BY <1>4 DEF Offer, e
  <2>2. (IF full THEN dropped[p] + 1 ELSE dropped[p]) \in 0 .. MaxLost
    BY <1>1
  <2>3. full => queue[p] # <<>>
    BY OutboxAssumption
  <2>4. queue[p] \in Seq(DOMAIN log) /\ (full => Tail(queue[p]) \in Seq(DOMAIN log))
    BY <1>1, <2>3
  <2>5. Append(IF full THEN Tail(queue[p]) ELSE queue[p], e) \in Seq(DOMAIN log)
    BY <1>2, <2>4
  <2>6. dropped' \in [Engines -> 0 .. MaxLost]
        /\ \A q \in Engines : q # p => dropped'[q] = dropped[q]
        /\ (dropped'[p] = 0 => ~full /\ dropped[p] = 0)
    BY <1>1, <2>1, <2>2
  <2>7. queue' \in [Engines -> Seq(DOMAIN log)]
        /\ \A q \in Engines : q # p => queue'[q] = queue[q]
        /\ queue'[p] = Append(IF full THEN Tail(queue[p]) ELSE queue[p], e)
    BY <1>1, <2>1, <2>5
  <2>8. sent' \in [Engines -> SUBSET (DOMAIN log)] /\ sent'[p] = sent[p] \cup {e}
        /\ \A q \in Engines : q # p => sent'[q] = sent[q]
    BY <1>1, <1>2, <2>1
  <2> HIDE DEF full
  <2> QED
    BY <1>1, <1>4, <2>1, <2>6, <2>7, <2>8 DEF e
<1> QED
  BY <1>3, <1>4

LEMMA ForgetClears ==
  ASSUME OutboxInv, NEW p \in Engines, Forget(p)
  PROVE  /\ queue' \in [Engines -> Seq(DOMAIN log)] /\ seen' \in [Engines -> Seq(DOMAIN log)]
         /\ sent' \in [Engines -> SUBSET (DOMAIN log)]
         /\ window' \in [Engines -> BOOLEAN] /\ dropped' \in [Engines -> 0 .. MaxLost]
         /\ ~window'[p] /\ queue'[p] = <<>> /\ sent'[p] = {} /\ seen'[p] = <<>>
         /\ \A q \in Engines :
              q # p => /\ window'[q] = window[q] /\ queue'[q] = queue[q]
                       /\ dropped'[q] = dropped[q] /\ sent'[q] = sent[q] /\ seen'[q] = seen[q]
<1>1. /\ queue \in [Engines -> Seq(DOMAIN log)] /\ seen \in [Engines -> Seq(DOMAIN log)]
      /\ sent \in [Engines -> SUBSET (DOMAIN log)] /\ window \in [Engines -> BOOLEAN]
      /\ dropped \in [Engines -> 0 .. MaxLost] /\ MaxLost \in Nat
  BY CommittedTypes, OutboxAssumption
<1>2. /\ window' = [window EXCEPT ![p] = FALSE] /\ queue' = [queue EXCEPT ![p] = <<>>]
      /\ dropped' = [dropped EXCEPT ![p] = 0] /\ sent' = [sent EXCEPT ![p] = {}]
      /\ seen' = [seen EXCEPT ![p] = <<>>]
  BY DEF Forget
<1>3. <<>> \in Seq(DOMAIN log) /\ 0 \in 0 .. MaxLost
  BY <1>1
<1> QED
  BY <1>1, <1>2, <1>3

LEMMA OutboxInitial == OutboxInit => OutboxInv /\ DrainedIsTold /\ PublishedIsTold
<1> SUFFICES ASSUME OutboxInit PROVE OutboxInv /\ DrainedIsTold /\ PublishedIsTold
  OBVIOUS
<1>1. /\ log = <<>> /\ writing = [p \in Engines |-> "no"] /\ draft = [p \in Engines |-> Blank]
      /\ batch = [p \in Engines |-> <<>>] /\ drained = [p \in Engines |-> <<>>] /\ told = {}
      /\ window = [p \in Engines |-> FALSE] /\ queue = [p \in Engines |-> <<>>]
      /\ dropped = [p \in Engines |-> 0] /\ sent = [p \in Engines |-> {}]
      /\ seen = [p \in Engines |-> <<>>]
  BY DEF OutboxInit
<1>2. MaxEvents \in Nat /\ 0 < MaxEvents /\ MaxLost \in Nat /\ 0 \in 0 .. MaxLost
  BY OutboxAssumption
<1>3. OutboxTypeOK
  BY <1>1, <1>2 DEF OutboxTypeOK
<1>4. LogFits /\ SequencesFit /\ OnlyCommitted
  BY <1>1, <1>2 DEF LogFits, SequencesFit, OnlyCommitted
<1>5. DrainedIsTold /\ PublishedIsTold
  BY <1>1 DEF DrainedIsTold, PublishedIsTold, Range
<1> QED
  BY <1>3, <1>4, <1>5 DEF OutboxInv

\* Reading what is pending and saying it, marking it or not, pruning.
LEMMA DrainStep ==
  ASSUME OutboxInv, NEW p \in Engines, DrainRead(p) \/ Emit(p) \/ Mark(p) \/ MarkFails(p)
  PROVE  OutboxInv'
<1>1. /\ batch \in [Engines -> Seq(DOMAIN log)] /\ drained \in [Engines -> Seq(DOMAIN log)]
      /\ queue \in [Engines -> Seq(DOMAIN log)] /\ seen \in [Engines -> Seq(DOMAIN log)]
      /\ sent \in [Engines -> SUBSET (DOMAIN log)] /\ told \subseteq Events
      /\ window \in [Engines -> BOOLEAN] /\ dropped \in [Engines -> 0 .. MaxLost]
      /\ DOMAIN log \subseteq Events /\ <<>> \in Seq(DOMAIN log)
  BY CommittedTypes
<1>2. CASE DrainRead(p)
  <2>1. /\ batch' = [batch EXCEPT ![p] = First] /\ drained' = [drained EXCEPT ![p] = First]
        /\ UNCHANGED <<log, told, window, queue, dropped, sent, seen>> /\ UNCHANGED writerVars
    BY <1>2 DEF DrainRead, First, windowVars
  <2>2. First \in Seq(DOMAIN log)
    BY FirstOfPending DEF OutboxInv
  <2>3. batch' \in [Engines -> Seq(DOMAIN log)] /\ drained' \in [Engines -> Seq(DOMAIN log)]
    BY <1>1, <2>1, <2>2
  <2> QED
    BY <1>1, <2>1, <2>3, WritersStay, DrainingKept
<1>3. CASE Emit(p)
  <2>1. /\ batch[p] # <<>> /\ dropped[p] < MaxLost /\ Offer(p, Head(batch[p]))
        /\ told' = told \cup {Head(batch[p])} /\ batch' = [batch EXCEPT ![p] = Tail(batch[p])]
        /\ UNCHANGED <<log, drained>> /\ UNCHANGED writerVars
    BY <1>3 DEF Emit
  <2>2. Head(batch[p]) \in DOMAIN log /\ Tail(batch[p]) \in Seq(DOMAIN log)
    BY <1>1, <2>1, HeadAndTail
  <2>3. batch' \in [Engines -> Seq(DOMAIN log)] /\ told' \subseteq Events
    BY <1>1, <2>1, <2>2
  <2>4. /\ queue' \in [Engines -> Seq(DOMAIN log)] /\ seen' \in [Engines -> Seq(DOMAIN log)]
        /\ sent' \in [Engines -> SUBSET (DOMAIN log)] /\ window' = window
        /\ dropped' \in [Engines -> 0 .. MaxLost]
    BY <2>1, OfferKeeps
  <2> QED
    BY <1>1, <2>1, <2>3, <2>4, WritersStay, DrainingKept
<1>4. CASE Mark(p)
  <2>1. /\ drained' = [drained EXCEPT ![p] = <<>>] /\ UNCHANGED writerVars
        /\ UNCHANGED <<batch, told, window, queue, dropped, sent, seen>>
    BY <1>4 DEF Mark, windowVars
  <2>2. drained' \in [Engines -> Seq(DOMAIN log)]
    BY <1>1, <2>1
  <2>3. Restated
    BY <1>4, MarkRestates DEF OutboxInv
  <2> QED
    BY <1>1, <2>1, <2>2, <2>3, WritersStay, DrainingKept
<1>5. CASE MarkFails(p)
  <2>1. /\ drained' = [drained EXCEPT ![p] = <<>>] /\ UNCHANGED writerVars
        /\ UNCHANGED <<log, batch, told, window, queue, dropped, sent, seen>>
    BY <1>5 DEF MarkFails, windowVars
  <2>2. drained' \in [Engines -> Seq(DOMAIN log)]
    BY <1>1, <2>1
  <2> QED
    BY <1>1, <2>1, <2>2, WritersStay, DrainingKept
<1> QED
  BY <1>2, <1>3, <1>4, <1>5

\* What happens to a window, and to a process that dies.
LEMMA WindowStep ==
  ASSUME OutboxInv, NEW p \in Engines, Connect(p) \/ Disconnect(p) \/ Deliver(p) \/ Restart(p)
  PROVE  OutboxInv'
<1>1. /\ batch \in [Engines -> Seq(DOMAIN log)] /\ drained \in [Engines -> Seq(DOMAIN log)]
      /\ queue \in [Engines -> Seq(DOMAIN log)] /\ seen \in [Engines -> Seq(DOMAIN log)]
      /\ sent \in [Engines -> SUBSET (DOMAIN log)] /\ told \subseteq Events
      /\ window \in [Engines -> BOOLEAN] /\ dropped \in [Engines -> 0 .. MaxLost]
      /\ DOMAIN log \subseteq Events /\ <<>> \in Seq(DOMAIN log)
  BY CommittedTypes
<1>2. CASE Connect(p)
  <2>1. /\ window' = [window EXCEPT ![p] = TRUE] /\ UNCHANGED writerVars
        /\ UNCHANGED <<log, batch, drained, told, queue, dropped, sent, seen>>
    BY <1>2 DEF Connect, drainVars
  <2>2. window' \in [Engines -> BOOLEAN]
    BY <1>1, <2>1
  <2> QED
    BY <1>1, <2>1, <2>2, WritersStay, DrainingKept
<1>3. CASE Disconnect(p)
  <2>1. Forget(p) /\ UNCHANGED <<log, batch, drained, told>> /\ UNCHANGED writerVars
    BY <1>3 DEF Disconnect, drainVars
  <2> QED
    BY <1>1, <2>1, ForgetClears, WritersStay, DrainingKept
<1>4. CASE Deliver(p)
  <2>1. /\ queue[p] # <<>> /\ seen' = [seen EXCEPT ![p] = Append(seen[p], Head(queue[p]))]
        /\ queue' = [queue EXCEPT ![p] = Tail(queue[p])]
        /\ UNCHANGED <<log, batch, drained, told, window, dropped, sent>> /\ UNCHANGED writerVars
    BY <1>4 DEF Deliver, drainVars
  <2>2. Head(queue[p]) \in DOMAIN log /\ Tail(queue[p]) \in Seq(DOMAIN log)
    BY <1>1, <2>1, HeadAndTail
  <2>3. Append(seen[p], Head(queue[p])) \in Seq(DOMAIN log)
    BY <1>1, <2>2, AppendAdds
  <2>4. queue' \in [Engines -> Seq(DOMAIN log)] /\ seen' \in [Engines -> Seq(DOMAIN log)]
    BY <1>1, <2>1, <2>2, <2>3
  <2> QED
    BY <1>1, <2>1, <2>4, WritersStay, DrainingKept
<1>5. CASE Restart(p)
  <2>1. /\ Forget(p) /\ writing' = [writing EXCEPT ![p] = "no"]
        /\ batch' = [batch EXCEPT ![p] = <<>>] /\ drained' = [drained EXCEPT ![p] = <<>>]
        /\ draft' = [draft EXCEPT ![p] = Blank] /\ UNCHANGED <<log, told>>
    BY <1>5 DEF Restart
  <2>2. batch' \in [Engines -> Seq(DOMAIN log)] /\ drained' \in [Engines -> Seq(DOMAIN log)]
    BY <1>1, <2>1
  <2>3. WritersOnlyStop
    BY <2>1 DEF WritersOnlyStop, OutboxInv, OutboxTypeOK
  <2> QED
    BY <1>1, <2>1, <2>2, <2>3, ForgetClears, DrainingKept
<1> QED
  BY <1>2, <1>3, <1>4, <1>5

LEMMA OutboxInductive == OutboxInv /\ [OutboxNext]_outboxVars => OutboxInv'
<1> SUFFICES ASSUME OutboxInv, [OutboxNext]_outboxVars PROVE OutboxInv'
  OBVIOUS
<1>1. ASSUME NEW p \in Engines,
             \/ Open(p) \/ RecordInsert(p) \/ Commit(p) \/ Rollback(p)
             \/ \E t \in Tasks : Stage(p, t) \/ RecordRead(p, t)
             \/ DrainRead(p) \/ Emit(p) \/ Mark(p) \/ MarkFails(p)
             \/ Connect(p) \/ Disconnect(p) \/ Deliver(p) \/ Restart(p)
      PROVE  OutboxInv'
  <2>1. CASE Commit(p)
    BY <2>1, CommitStep
  <2> QED
    BY <1>1, <2>1, WriterStep, DrainStep, WindowStep
<1>2. ASSUME NEW cutoff \in 1 .. MaxTime, Prune(cutoff) PROVE OutboxInv'
  <2>1. Restated
    BY <1>2, PruneRestates DEF OutboxInv
  <2>2. /\ UNCHANGED writerVars
        /\ UNCHANGED <<batch, drained, told, window, queue, dropped, sent, seen>>
    BY <1>2 DEF Prune, drainVars, windowVars
  <2> QED
    BY <2>1, <2>2, CommittedTypes, WritersStay, DrainingKept
<1>3. CASE UNCHANGED outboxVars
  <2>1. /\ UNCHANGED <<writing, draft>> /\ log' = log
        /\ UNCHANGED <<batch, drained, told, window, queue, dropped, sent, seen>>
    BY <1>3 DEF outboxVars
  <2>2. UNCHANGED writerVars
    BY <2>1 DEF writerVars
  <2> QED
    BY <2>1, <2>2, CommittedTypes, WritersStay, DrainingKept
<1> QED
  BY <1>1, <1>2, <1>3 DEF OutboxNext

LEMMA OutboxInvariant == OutboxSpec => []OutboxInv
<1>1. OutboxInit => OutboxInv
  BY OutboxInitial
<1> QED
  BY <1>1, OutboxInductive, PTL DEF OutboxSpec

\* The table, the drains and the windows keep their types; so a position never
\* exceeds the events there are.
THEOREM OutboxTypeCorrect == OutboxSpec => []OutboxTypeOK
<1>1. OutboxInv => OutboxTypeOK
  BY DEF OutboxInv
<1> QED
  BY <1>1, OutboxInvariant, PTL
-----------------------------------------------------------------------------
TellingInv == DrainedIsTold /\ PublishedIsTold

LEMMA TellingInductive ==
  ASSUME OutboxInv, OutboxInv', TellingInv, [OutboxNext]_outboxVars
  PROVE  TellingInv'
<1>1. /\ batch \in [Engines -> Seq(DOMAIN log)] /\ drained \in [Engines -> Seq(DOMAIN log)]
  BY CommittedTypes
<1>2. ASSUME UNCHANGED <<log, batch, drained, told>> PROVE TellingInv'
  BY <1>2 DEF TellingInv, DrainedIsTold, PublishedIsTold
<1>3. ASSUME NEW p \in Engines, Commit(p) PROVE TellingInv'
  <2>1. /\ DOMAIN log' = 1 .. (Len(log) + 1) /\ \A e \in DOMAIN log : log'[e] = log[e]
        /\ log'[Len(log) + 1].state = "pending"
    <3> DEFINE new == [task |-> draft[p].task, sequence |-> draft[p].sequence,
                       time |-> draft[p].time, state |-> "pending"]
    <3>1. /\ DOMAIN log' = 1 .. (Len(log) + 1) /\ \A e \in DOMAIN log : log'[e] = log[e]
          /\ log'[Len(log) + 1] = new
      BY <1>3, CommitStep
    <3>2. new.state = "pending"
      OBVIOUS
    <3> HIDE DEF new
    <3> QED
      BY <3>1, <3>2
  <2>2. \A e \in DOMAIN log' : e \in DOMAIN log \/ e = Len(log) + 1
    BY <2>1, RowsAreTyped DEF OutboxInv
  <2>3. UNCHANGED <<batch, drained, told>>
    BY <1>3 DEF Commit, drainVars
  <2>4. PublishedIsTold'
    BY <2>1, <2>2, <2>3 DEF TellingInv, PublishedIsTold
  <2> QED
    BY <2>3, <2>4 DEF TellingInv, DrainedIsTold
<1>4. ASSUME NEW p \in Engines, DrainRead(p) PROVE TellingInv'
  <2>1. /\ batch' = [batch EXCEPT ![p] = First] /\ drained' = [drained EXCEPT ![p] = First]
        /\ UNCHANGED <<log, told>>
    BY <1>4 DEF DrainRead, First
  <2>2. \A q \in Engines : /\ batch'[q] = IF q = p THEN First ELSE batch[q]
                          /\ drained'[q] = IF q = p THEN First ELSE drained[q]
    BY <1>1, <2>1
  <2> QED
    BY <2>1, <2>2 DEF TellingInv, DrainedIsTold, PublishedIsTold
<1>5. ASSUME NEW p \in Engines, Emit(p) PROVE TellingInv'
  <2>1. /\ batch[p] # <<>> /\ told' = told \cup {Head(batch[p])}
        /\ batch' = [batch EXCEPT ![p] = Tail(batch[p])] /\ UNCHANGED <<log, drained>>
    BY <1>5 DEF Emit
  <2>2. \A q \in Engines : batch'[q] = IF q = p THEN Tail(batch[p]) ELSE batch[q]
    BY <1>1, <2>1
  <2>3. Range(batch[p]) = {Head(batch[p])} \cup Range(Tail(batch[p]))
    BY <1>1, <2>1, HeadAndTail
  <2> QED
    BY <2>1, <2>2, <2>3 DEF TellingInv, DrainedIsTold, PublishedIsTold
<1>6. ASSUME NEW p \in Engines, Mark(p) \/ MarkFails(p) PROVE TellingInv'
  <2>1. /\ batch[p] = <<>> /\ drained' = [drained EXCEPT ![p] = <<>>] /\ UNCHANGED <<batch, told>>
    BY <1>6 DEF Mark, MarkFails, MayMark
  <2>2. \A q \in Engines : drained'[q] = IF q = p THEN <<>> ELSE drained[q]
    BY <1>1, <2>1
  <2>3. Range(<<>>) = {}
    BY DEF Range
  <2>4. DrainedIsTold'
    BY <2>1, <2>2, <2>3 DEF TellingInv, DrainedIsTold
  <2>5. Range(drained[p]) \subseteq told
    BY <2>1, <2>3 DEF TellingInv, DrainedIsTold
  <2>6. PublishedIsTold'
    <3>1. CASE Mark(p)
      <4>1. log' = [e \in DOMAIN log |->
                      IF e \in Range(drained[p]) /\ log[e].state = "pending"
                      THEN [log[e] EXCEPT !.state = "published"] ELSE log[e]]
        BY <3>1 DEF Mark
      <4> QED
        BY <2>1, <2>5, <4>1 DEF TellingInv, PublishedIsTold
    <3>2. CASE MarkFails(p)
      BY <2>1, <3>2 DEF MarkFails, TellingInv, PublishedIsTold
    <3> QED
      BY <1>6, <3>1, <3>2
  <2> QED
    BY <2>4, <2>6 DEF TellingInv
<1>7. ASSUME NEW cutoff \in 1 .. MaxTime, Prune(cutoff) PROVE TellingInv'
  <2>1. /\ UNCHANGED <<batch, drained, told>>
        /\ log' = [e \in DOMAIN log |-> IF Prunable(e, cutoff)
                                       THEN [log[e] EXCEPT !.state = "pruned"] ELSE log[e]]
    BY <1>7 DEF Prune, drainVars
  <2>2. PublishedIsTold'
    BY <2>1 DEF TellingInv, PublishedIsTold, Prunable
  <2> QED
    BY <2>1, <2>2 DEF TellingInv, DrainedIsTold
<1>8. ASSUME NEW p \in Engines,
             \/ Open(p) \/ RecordInsert(p) \/ Rollback(p)
             \/ \E t \in Tasks : Stage(p, t) \/ RecordRead(p, t)
             \/ Connect(p) \/ Disconnect(p) \/ Deliver(p)
      PROVE  TellingInv'
  <2>1. UNCHANGED <<log, batch, drained, told>>
    BY <1>8 DEF Open, RecordInsert, Rollback, Stage, RecordRead, Connect, Disconnect, Deliver,
                drainVars
  <2> QED
    BY <1>2, <2>1
<1>9. ASSUME NEW p \in Engines, Restart(p) PROVE TellingInv'
  <2>1. /\ batch' = [batch EXCEPT ![p] = <<>>] /\ drained' = [drained EXCEPT ![p] = <<>>]
        /\ UNCHANGED <<log, told>>
    BY <1>9 DEF Restart
  <2>2. \A q \in Engines : /\ batch'[q] = IF q = p THEN <<>> ELSE batch[q]
                          /\ drained'[q] = IF q = p THEN <<>> ELSE drained[q]
    BY <1>1, <2>1
  <2> QED
    BY <2>1, <2>2 DEF TellingInv, DrainedIsTold, PublishedIsTold
<1>10. CASE UNCHANGED outboxVars
  BY <1>2, <1>10 DEF outboxVars
<1> QED
  BY <1>3, <1>4, <1>5, <1>6, <1>7, <1>8, <1>9, <1>10 DEF OutboxNext

\* At least once: what is marked as published, or pruned after it, was said on
\* a bus, whoever died at whatever point of a drain (outbox.py:98-104, 134-135).
THEOREM PublishedWasTold == OutboxSpec => []PublishedIsTold
<1>1. OutboxInit => TellingInv
  BY OutboxInitial DEF TellingInv
<1>2. TellingInv => PublishedIsTold
  BY DEF TellingInv
<1> QED
  BY <1>1, <1>2, OutboxInvariant, TellingInductive, PTL DEF OutboxSpec
-----------------------------------------------------------------------------
\* One process writes events (the service), so nobody reads a last position
\* between another's reading of it and its commit.
OneWriter == \A p, q \in Writers : p = q

WritersWrite == \A p \in Engines : writing[p] # "no" => p \in Writers

\* What is about to be committed comes after all there is of its task.
DraftIsNext ==
  \A p \in Engines : writing[p] \in Dirty =>
    /\ draft[p] \in Drafts
    /\ \A e \in RowsOf(draft[p].task) : log[e].sequence < draft[p].sequence

RiseInv == WritersWrite /\ DraftIsNext /\ PositionsRise

\* Rows that only change state keep all of this.
LEMMA RiseRestated ==
  ASSUME OutboxInv, RiseInv, WritersOnlyStop, log' = log \/ Restated
  PROVE  RiseInv'
<1>1. /\ DOMAIN log' = DOMAIN log
      /\ \A e \in DOMAIN log :
           /\ log'[e].task = log[e].task /\ log'[e].sequence = log[e].sequence
           /\ log'[e].time = log[e].time
           /\ log[e].state = "pruned" => log'[e].state = "pruned"
  BY DEF Restated
<1>2. Rows' \subseteq Rows
  BY <1>1 DEF Rows
<1>3. \A t : \A e \in RowsOf(t)' : e \in RowsOf(t) /\ e \in DOMAIN log
  BY <1>1, <1>2 DEF RowsOf, Rows
<1>4. WritersWrite'
  BY DEF RiseInv, WritersWrite, WritersOnlyStop
<1>6. PositionsRise'
  <2>1. \A e \in Rows' : e \in Rows /\ e \in DOMAIN log
    BY <1>2 DEF Rows
  <2> QED
    BY <1>1, <2>1 DEF RiseInv, PositionsRise
<1>7. DraftIsNext'
  <2> SUFFICES ASSUME NEW p \in Engines, writing'[p] \in Dirty
               PROVE  /\ draft'[p] \in Drafts
                      /\ \A e \in RowsOf(draft[p].task)' : log'[e].sequence < draft'[p].sequence
    BY DEF DraftIsNext
  <2>1. writing[p] \in Dirty /\ draft'[p] = draft[p]
    BY DEF WritersOnlyStop, Dirty
  <2>2. /\ draft[p] \in Drafts
        /\ \A e \in RowsOf(draft[p].task) : log[e].sequence < draft[p].sequence
    BY <2>1 DEF RiseInv, DraftIsNext
  <2>3. \A e \in RowsOf(draft[p].task)' : e \in RowsOf(draft[p].task) /\ e \in DOMAIN log
    BY <1>3, <2>1
  <2> QED
    BY <1>1, <2>1, <2>2, <2>3
<1> QED
  BY <1>4, <1>6, <1>7 DEF RiseInv

\* The only writer commits: its row is the last of its task.
LEMMA RiseCommitted ==
  ASSUME OneWriter, OutboxInv, RiseInv, NEW p \in Engines, Commit(p)
  PROVE  RiseInv'
<1> DEFINE new == [task |-> draft[p].task, sequence |-> draft[p].sequence,
                   time |-> draft[p].time, state |-> "pending"]
           n == Len(log) + 1
<1>1. /\ DOMAIN log' = 1 .. n /\ \A e \in DOMAIN log : log'[e] = log[e]
      /\ log'[n] = new
  BY CommitStep
<1>2. new.task = draft[p].task /\ new.sequence = draft[p].sequence
  OBVIOUS
<1> HIDE DEF new
<1>3. /\ Len(log) \in Nat /\ DOMAIN log = 1 .. Len(log)
      /\ \A e \in DOMAIN log : e \in Nat /\ log[e].sequence \in Nat
  BY RowsAreTyped DEF OutboxInv
<1>4. /\ writing[p] = "staged" /\ writing' = [writing EXCEPT ![p] = "no"]
      /\ writing \in [Engines -> {"no", "open", "read", "staged"}]
  BY DEF Commit, OutboxInv, OutboxTypeOK
<1>5. \A q \in Engines : writing'[q] = "no"
  <2>1. \A q \in Engines : writing[q] # "no" => q = p
    BY <1>4 DEF RiseInv, WritersWrite, OneWriter
  <2> QED
    BY <1>4, <2>1
<1>6. \A e \in RowsOf(new.task) : log[e].sequence < new.sequence
  BY <1>2, <1>4 DEF RiseInv, DraftIsNext, Dirty
<1>8. \A e \in 1 .. n : e \in Nat /\ (e \in DOMAIN log \/ e = n) /\ n \notin DOMAIN log
  BY <1>3
<1> HIDE DEF n
<1>9. WritersWrite' /\ DraftIsNext'
  BY <1>5 DEF WritersWrite, DraftIsNext, Dirty
<1>11. PositionsRise'
  <2> SUFFICES ASSUME NEW d \in Rows', NEW e \in Rows', d < e, log'[d].task = log'[e].task
               PROVE  log'[d].sequence < log'[e].sequence
    BY DEF PositionsRise
  <2>1. d \in 1 .. n /\ e \in 1 .. n
    BY <1>1 DEF Rows
  <2>2. d \in DOMAIN log
    BY <1>3, <1>8, <2>1 DEF n
  <2>3. d \in Rows /\ log'[d] = log[d]
    BY <1>1, <2>2 DEF Rows
  <2>4. CASE e \in DOMAIN log
    <3>1. e \in Rows /\ log'[e] = log[e]
      BY <1>1, <2>4 DEF Rows
    <3> QED
      BY <2>3, <3>1 DEF RiseInv, PositionsRise
  <2>5. CASE e = n
    <3>1. log[d].task = new.task
      BY <1>1, <2>3, <2>5
    <3>2. d \in RowsOf(new.task)
      BY <2>3, <3>1 DEF RowsOf
    <3> QED
      BY <1>1, <1>6, <2>3, <2>5, <3>2
  <2> QED
    BY <1>8, <2>1, <2>4, <2>5
<1> QED
  BY <1>9, <1>11 DEF RiseInv

\* A position is read, a transaction begun, a lock taken, or all given up.
LEMMA RiseWritten ==
  ASSUME OutboxInv, RiseInv, NEW p \in Engines,
         \/ Open(p) \/ RecordInsert(p) \/ Rollback(p)
         \/ \E t \in Tasks : Stage(p, t) \/ RecordRead(p, t)
  PROVE  RiseInv'
<1>1. /\ writing \in [Engines -> {"no", "open", "read", "staged"}]
      /\ draft \in [Engines -> Drafts \cup {Blank}]
  BY DEF OutboxInv, OutboxTypeOK
<1>2. log' = log
  BY DEF Open, RecordInsert, Rollback, Stage, RecordRead
<1>3. PICK w : /\ writing' = [writing EXCEPT ![p] = w]
               /\ w # "no" => p \in Writers
  <2>1. Open(p) => writing' = [writing EXCEPT ![p] = "open"] /\ p \in Writers
    BY DEF Open
  <2>2. RecordInsert(p) => writing' = [writing EXCEPT ![p] = "staged"] /\ p \in Writers
    BY DEF RecordInsert, RiseInv, WritersWrite
  <2>3. Rollback(p) => writing' = [writing EXCEPT ![p] = "no"]
    BY DEF Rollback
  <2>4. \A t : Stage(p, t) => writing' = [writing EXCEPT ![p] = "staged"] /\ p \in Writers
    BY DEF Stage, RiseInv, WritersWrite
  <2>5. \A t : RecordRead(p, t) => writing' = [writing EXCEPT ![p] = "read"] /\ p \in Writers
    BY DEF RecordRead
  <2> QED
    BY <2>1, <2>2, <2>3, <2>4, <2>5
<1>4. WritersWrite' /\ PositionsRise'
  <2>1. WritersWrite'
    BY <1>1, <1>3 DEF RiseInv, WritersWrite
  <2> QED
    BY <1>2, <2>1 DEF RiseInv, PositionsRise, Rows
<1>5. \A t : RowsOf(t)' = RowsOf(t)
  BY <1>2 DEF RowsOf, Rows
<1>6. ASSUME NEW q \in Engines, q # p, writing'[q] \in Dirty
      PROVE  writing[q] \in Dirty /\ draft'[q] = draft[q]
  <2>1. writing'[q] = writing[q]
    BY <1>1, <1>3, <1>6
  <2>2. draft'[q] = draft[q]
    BY <1>1, <1>6 DEF Open, RecordInsert, Rollback, Stage, RecordRead, Position
  <2> QED
    BY <1>6, <2>1, <2>2
<1>7. ASSUME writing'[p] \in Dirty
      PROVE  /\ draft'[p] \in Drafts
             /\ \A e \in RowsOf(draft'[p].task) : log[e].sequence < draft'[p].sequence
  <2>1. CASE RecordInsert(p)
    <3>1. writing[p] = "read" /\ draft' = draft
      BY <2>1 DEF RecordInsert
    <3> QED
      BY <3>1 DEF RiseInv, DraftIsNext, Dirty
  <2>2. CASE Open(p) \/ Rollback(p)
    BY <1>1, <1>7, <2>2 DEF Open, Rollback, Dirty
  <2>3. ASSUME NEW t \in Tasks, Stage(p, t) \/ RecordRead(p, t)
        PROVE  \E d \in Drafts : /\ draft' = [draft EXCEPT ![p] = d]
                                 /\ \A e \in RowsOf(d.task) : log[e].sequence < d.sequence
    <3>1. Position(p, t) /\ Len(log) < MaxEvents
      BY <2>3 DEF Stage, RecordRead, OutboxInv, LogFits
    <3> QED
      BY <3>1, PositionIsDraft
  <2> QED
    BY <1>1, <2>1, <2>2, <2>3
<1>8. DraftIsNext'
  <2> SUFFICES ASSUME NEW q \in Engines, writing'[q] \in Dirty
               PROVE  /\ draft'[q] \in Drafts
                      /\ \A e \in RowsOf(draft'[q].task) : log[e].sequence < draft'[q].sequence
    BY <1>2, <1>5 DEF DraftIsNext
  <2>1. CASE q = p
    BY <1>7, <2>1
  <2>2. CASE q # p
    BY <1>6, <2>2 DEF RiseInv, DraftIsNext
  <2> QED
    BY <2>1, <2>2
<1> QED
  BY <1>4, <1>8 DEF RiseInv

LEMMA RiseInductive ==
  ASSUME OneWriter, OutboxInv, RiseInv, [OutboxNext]_outboxVars
  PROVE  RiseInv'
<1>1. ASSUME NEW p \in Engines, DrainRead(p) \/ Emit(p) \/ Mark(p) \/ MarkFails(p)
      PROVE  RiseInv'
  <2>1. UNCHANGED writerVars
    BY <1>1 DEF DrainRead, Emit, Mark, MarkFails
  <2>2. log' = log \/ Restated
    <3>1. Mark(p) => Restated
      BY MarkRestates DEF OutboxInv
    <3> QED
      BY <1>1, <3>1 DEF DrainRead, Emit, MarkFails
  <2> QED
    BY <2>1, <2>2, WritersStay, RiseRestated
<1>2. ASSUME NEW p \in Engines, Connect(p) \/ Disconnect(p) \/ Deliver(p) PROVE RiseInv'
  <2>1. UNCHANGED writerVars /\ log' = log
    BY <1>2 DEF Connect, Disconnect, Deliver
  <2> QED
    BY <2>1, WritersStay, RiseRestated
<1>3. ASSUME NEW p \in Engines, Restart(p) PROVE RiseInv'
  <2>1. writing' = [writing EXCEPT ![p] = "no"] /\ draft' = [draft EXCEPT ![p] = Blank] /\ log' = log
    BY <1>3 DEF Restart
  <2>2. WritersOnlyStop
    BY <2>1 DEF WritersOnlyStop, OutboxInv, OutboxTypeOK
  <2> QED
    BY <2>1, <2>2, RiseRestated
<1>4. ASSUME NEW cutoff \in 1 .. MaxTime, Prune(cutoff) PROVE RiseInv'
  <2>1. Restated
    BY <1>4, PruneRestates DEF OutboxInv
  <2>2. UNCHANGED writerVars
    BY <1>4 DEF Prune
  <2> QED
    BY <2>1, <2>2, WritersStay, RiseRestated
<1>5. CASE UNCHANGED outboxVars
  <2>1. UNCHANGED writerVars /\ log' = log
    BY <1>5 DEF outboxVars, writerVars
  <2> QED
    BY <2>1, WritersStay, RiseRestated
<1> QED
  BY <1>1, <1>2, <1>3, <1>4, <1>5, RiseWritten, RiseCommitted DEF OutboxNext

LEMMA RiseInvariant ==
  ASSUME OneWriter
  PROVE  OutboxSpec => []RiseInv
<1>1. OutboxInit => RiseInv
  BY DEF OutboxInit, RiseInv, WritersWrite, DraftIsNext, PositionsRise, Rows, Dirty
<1>2. OutboxInv /\ RiseInv /\ [OutboxNext]_outboxVars => RiseInv'
  BY RiseInductive
<1> QED
  BY <1>1, <1>2, OutboxInvariant, PTL DEF OutboxSpec

\* "Two events for one task cannot come out with the same position"
\* (outbox.py:54-55): of the rows of a task the later has the higher one, as
\* long as one process writes events.
THEOREM PositionsAlwaysRise ==
  ASSUME OneWriter
  PROVE  OutboxSpec => []PositionsRise
<1>1. RiseInv => PositionsRise
  BY DEF RiseInv
<1> QED
  BY <1>1, RiseInvariant, PTL
-----------------------------------------------------------------------------
SameTask(d, e) == log[d].task = log[e].task

NoWindowNoNews(p) == ~window[p] => sent[p] = {} /\ queue[p] = <<>> /\ seen[p] = <<>>
NoDrainNoBatch(p) == drained[p] = <<>> => batch[p] = <<>>
BatchAscends(p) ==
  \A k, l \in DOMAIN batch[p] :
    k < l /\ SameTask(batch[p][k], batch[p][l]) => batch[p][k] < batch[p][l]

\* Nothing that can still be said comes, in its task, before what was sent ...
BatchIsNotLate(p) ==
  \A e \in Range(batch[p]), f \in sent[p] : SameTask(e, f) /\ e < f => e \in sent[p]
PendingIsNotLate(p) ==
  \A e \in Unpublished, f \in sent[p] : SameTask(e, f) /\ e < f => e \in sent[p]
\* ... or before what is about to be.
BatchIsComplete(p) ==
  window[p] => \A k \in DOMAIN batch[p], e \in Unpublished :
                 SameTask(e, batch[p][k]) /\ e < batch[p][k] =>
                   e \in sent[p] \/ \E j \in DOMAIN batch[p] : j < k /\ batch[p][j] = e

DrainInv(p) ==
  /\ NoWindowNoNews(p) /\ NoDrainNoBatch(p) /\ BatchAscends(p)
  /\ BatchIsNotLate(p) /\ PendingIsNotLate(p) /\ BatchIsComplete(p)

\* Of one task the window sees what comes first first, and so does its queue.
SentArrives(p) == sent[p] = Range(seen[p]) \cup Range(queue[p])
SeenIsComplete(p) ==
  \A f \in Range(seen[p]), d \in sent[p] : SameTask(d, f) /\ d < f => d \in Range(seen[p])
QueueIsComplete(p) ==
  \A i \in DOMAIN queue[p], d \in sent[p] :
    SameTask(d, queue[p][i]) /\ d < queue[p][i] =>
      d \in Range(seen[p]) \/ \E j \in DOMAIN queue[p] : j < i /\ queue[p][j] = d
SeenAscends(p) ==
  \A j \in DOMAIN seen[p] :
    \/ \E i \in 1 .. (j - 1) : seen[p][i] = seen[p][j]
    \/ \A i \in 1 .. (j - 1) : SameTask(seen[p][i], seen[p][j]) => seen[p][i] < seen[p][j]

WindowInv(p) ==
  dropped[p] = 0 => SentArrives(p) /\ SeenIsComplete(p) /\ QueueIsComplete(p) /\ SeenAscends(p)

OrderInv == \A p \in Engines : DrainInv(p) /\ WindowInv(p)

\* Within a task the order of the drain is that of the commits, as long as the
\* clock keeps going.
LEMMA TaskOrder ==
  ASSUME OutboxInv, RiseInv, ClockKeepsGoing,
         NEW d \in Unpublished, NEW e \in Unpublished, SameTask(d, e)
  PROVE  Before(d, e) <=> d < e
<1>1. /\ d \in Rows /\ e \in Rows /\ d \in Nat /\ e \in Nat
      /\ d \in DOMAIN log /\ e \in DOMAIN log
      /\ log[d].time \in Nat /\ log[d].sequence \in Nat
      /\ log[e].time \in Nat /\ log[e].sequence \in Nat
  BY RowsAreTyped DEF OutboxInv, Unpublished, Rows
<1>2. /\ d < e => log[d].time <= log[e].time /\ log[d].sequence < log[e].sequence
      /\ e < d => log[e].time <= log[d].time /\ log[e].sequence < log[d].sequence
  BY <1>1 DEF RiseInv, ClockKeepsGoing, PositionsRise, SameTask
<1> QED
  BY <1>1, <1>2 DEF Before

\* Rows come at the end and change state forwards.
Evolves ==
  /\ \A e \in DOMAIN log : log'[e].task = log[e].task
  /\ \A e \in Unpublished' : e \in Unpublished \/ (e \in Nat /\ \A d \in DOMAIN log : d < e)

\* Nothing happens on the bus of p, unless its drain ends.
Quiet(p) ==
  /\ drained'[p] = <<>> => batch[p] = <<>>
  /\ batch'[p] = batch[p] /\ window'[p] = window[p] /\ queue'[p] = queue[p]
  /\ dropped'[p] = dropped[p] /\ sent'[p] = sent[p] /\ seen'[p] = seen[p]

LEMMA OrderStays ==
  ASSUME OutboxInv, NEW p \in Engines, DrainInv(p), WindowInv(p), Evolves, Quiet(p)
  PROVE  DrainInv(p)' /\ WindowInv(p)'
<1>0. /\ drained'[p] = <<>> => batch[p] = <<>>
      /\ batch'[p] = batch[p] /\ window'[p] = window[p] /\ queue'[p] = queue[p]
      /\ dropped'[p] = dropped[p] /\ sent'[p] = sent[p] /\ seen'[p] = seen[p]
  BY DEF Quiet
<1>1. /\ batch[p] \in Seq(DOMAIN log) /\ queue[p] \in Seq(DOMAIN log)
      /\ seen[p] \in Seq(DOMAIN log) /\ sent[p] \subseteq DOMAIN log
  BY DEF OutboxInv, OnlyCommitted
<1>2. /\ \A k \in DOMAIN batch[p] : batch[p][k] \in DOMAIN log
      /\ \A k \in DOMAIN queue[p] : queue[p][k] \in DOMAIN log
      /\ \A k \in DOMAIN seen[p] : seen[p][k] \in DOMAIN log
  BY <1>1
<1>3. Range(batch[p]) \subseteq DOMAIN log /\ Range(seen[p]) \subseteq DOMAIN log
  BY <1>2 DEF Range
<1>4. \A d, e \in DOMAIN log : SameTask(d, e)' <=> SameTask(d, e)
  BY DEF Evolves, SameTask
<1>5. \A e \in Unpublished', f \in DOMAIN log : e < f => e \in Unpublished /\ e \in DOMAIN log
  BY RowsAreTyped DEF OutboxInv, Evolves, Unpublished, Rows
<1>6. NoWindowNoNews(p)' /\ NoDrainNoBatch(p)'
  BY <1>0 DEF DrainInv, NoWindowNoNews, NoDrainNoBatch
<1>7. BatchAscends(p)' /\ BatchIsNotLate(p)'
  BY <1>0, <1>1, <1>2, <1>3, <1>4 DEF DrainInv, BatchAscends, BatchIsNotLate
<1>8. PendingIsNotLate(p)'
  BY <1>0, <1>1, <1>4, <1>5 DEF DrainInv, PendingIsNotLate
<1>9. BatchIsComplete(p)'
  BY <1>0, <1>2, <1>4, <1>5 DEF DrainInv, BatchIsComplete
<1>10. WindowInv(p)'
  <2>1. SentArrives(p) => SentArrives(p)'
    BY <1>0 DEF SentArrives
  <2>2. SeenIsComplete(p) => SeenIsComplete(p)'
    BY <1>0, <1>1, <1>3, <1>4 DEF SeenIsComplete
  <2>3. QueueIsComplete(p) => QueueIsComplete(p)'
    BY <1>0, <1>1, <1>2, <1>4 DEF QueueIsComplete
  <2>4. SeenAscends(p) => SeenAscends(p)'
    <3>1. \A j \in DOMAIN seen[p] : \A i \in 1 .. (j - 1) : i \in DOMAIN seen[p]
      BY <1>1
    <3> QED
      BY <1>0, <1>2, <1>4, <3>1 DEF SeenAscends
  <2> QED
    BY <1>0, <2>1, <2>2, <2>3, <2>4 DEF WindowInv
<1> QED
  BY <1>6, <1>7, <1>8, <1>9, <1>10 DEF DrainInv

LEMMA RestatedEvolves ==
  ASSUME OutboxInv, log' = log \/ Restated
  PROVE  Evolves
<1>1. /\ DOMAIN log' = DOMAIN log
      /\ \A e \in DOMAIN log : /\ log'[e].task = log[e].task
                               /\ log'[e].state = "pending" => log[e].state = "pending"
  BY DEF Restated
<1> QED
  BY <1>1 DEF Evolves, Unpublished, Rows

LEMMA CommitEvolves ==
  ASSUME OutboxInv, NEW p \in Engines, Commit(p)
  PROVE  Evolves
<1>1. /\ DOMAIN log' = 1 .. (Len(log) + 1) /\ \A e \in DOMAIN log : log'[e] = log[e]
  BY CommitStep
<1>2. Len(log) \in Nat /\ DOMAIN log = 1 .. Len(log)
  BY RowsAreTyped DEF OutboxInv
<1>3. ASSUME NEW e \in Unpublished'
      PROVE  e \in Unpublished \/ (e \in Nat /\ \A d \in DOMAIN log : d < e)
  <2>1. e \in 1 .. (Len(log) + 1) /\ log'[e].state = "pending"
    BY <1>1 DEF Unpublished, Rows
  <2>2. CASE e \in DOMAIN log
    BY <1>1, <2>1, <2>2 DEF Unpublished, Rows
  <2>3. CASE e \notin DOMAIN log
    BY <1>2, <2>1, <2>3
  <2> QED
    BY <2>2, <2>3
<1> QED
  BY <1>1, <1>3 DEF Evolves

\* A drain takes the first of what is pending: of each task, what comes first.
LEMMA OrderRead ==
  ASSUME OutboxInv, RiseInv, ClockKeepsGoing,
         NEW p \in Engines, DrainInv(p), WindowInv(p), DrainRead(p)
  PROVE  DrainInv(p)' /\ WindowInv(p)'
<1>1. /\ batch' = [batch EXCEPT ![p] = First] /\ drained' = [drained EXCEPT ![p] = First]
      /\ UNCHANGED <<log, window, queue, dropped, sent, seen>>
  BY DEF DrainRead, First, windowVars
<1>2. batch'[p] = First /\ drained'[p] = First
  BY <1>1, CommittedTypes
<1>3. /\ \A k \in DOMAIN First : k \in DOMAIN Pending /\ First[k] = Pending[k]
      /\ \A k \in DOMAIN First, j \in DOMAIN Pending : j < k => j \in DOMAIN First
      /\ \A q \in DOMAIN Pending : Pending[q] \in Unpublished
      /\ \A e \in Unpublished : \E q \in DOMAIN Pending : Pending[q] = e
      /\ \A q, r \in DOMAIN Pending : q < r <=> Before(Pending[q], Pending[r])
  BY FirstOfPending, PendingInOrder DEF OutboxInv
<1>4. Unpublished' = Unpublished /\ \A d, e : SameTask(d, e)' <=> SameTask(d, e)
  BY <1>1 DEF Unpublished, Rows, SameTask
<1>5. \A k \in DOMAIN First : First[k] \in Unpublished
  BY <1>3
<1>6. NoWindowNoNews(p)' /\ NoDrainNoBatch(p)'
  BY <1>1, <1>2 DEF DrainInv, NoWindowNoNews, NoDrainNoBatch
<1>7. BatchAscends(p)'
  <2> SUFFICES ASSUME NEW k \in DOMAIN First, NEW l \in DOMAIN First, k < l,
                      SameTask(First[k], First[l])
               PROVE  First[k] < First[l]
    BY <1>2, <1>4 DEF BatchAscends
  <2>1. Before(First[k], First[l])
    BY <1>3
  <2> QED
    BY <1>5, <2>1, TaskOrder
<1>8. BatchIsNotLate(p)'
  <2>1. Range(First) \subseteq Unpublished
    BY <1>5 DEF Range
  <2> QED
    BY <1>1, <1>2, <1>4, <2>1 DEF DrainInv, PendingIsNotLate, BatchIsNotLate
<1>9. PendingIsNotLate(p)'
  BY <1>1, <1>4 DEF DrainInv, PendingIsNotLate
<1>10. BatchIsComplete(p)'
  <2> SUFFICES ASSUME NEW k \in DOMAIN First, NEW e \in Unpublished,
                      SameTask(e, First[k]), e < First[k]
               PROVE  \E j \in DOMAIN First : j < k /\ First[j] = e
    BY <1>2, <1>4 DEF BatchIsComplete
  <2>1. Before(e, First[k])
    BY <1>5, TaskOrder
  <2>2. PICK q \in DOMAIN Pending : Pending[q] = e
    BY <1>3
  <2>3. q < k
    BY <1>3, <2>1, <2>2
  <2> QED
    BY <1>3, <2>2, <2>3
<1>11. WindowInv(p)'
  BY <1>1, <1>4 DEF WindowInv, SentArrives, SeenIsComplete, QueueIsComplete, SeenAscends
<1> QED
  BY <1>6, <1>7, <1>8, <1>9, <1>10, <1>11 DEF DrainInv

\* An event is said: nothing of its task that may still come is before it.
LEMMA OrderEmitted ==
  ASSUME OutboxInv, NEW p \in Engines, DrainInv(p), WindowInv(p), Emit(p)
  PROVE  DrainInv(p)' /\ WindowInv(p)'
<1> DEFINE b == batch[p]
           h == Head(b)
<1>1. /\ b # <<>> /\ dropped[p] < MaxLost /\ Offer(p, h)
      /\ batch' = [batch EXCEPT ![p] = Tail(b)] /\ UNCHANGED <<log, drained>>
  BY DEF Emit
<1>2. b \in Seq(DOMAIN log) /\ batch'[p] = Tail(b)
  BY <1>1, CommittedTypes
<1>3. /\ window' = window /\ seen' = seen
      /\ ~window[p] => UNCHANGED <<queue, dropped, sent>>
      /\ window[p] /\ dropped'[p] = 0 => dropped[p] = 0 /\ queue'[p] = Append(queue[p], h)
      /\ window[p] => sent'[p] = sent[p] \cup {h}
  BY <1>1, OfferKeeps
<1>4. /\ h \in DOMAIN log /\ h = b[1] /\ Len(b) \in Nat /\ Len(b) >= 1
      /\ DOMAIN b = 1 .. Len(b) /\ DOMAIN Tail(b) = 1 .. (Len(b) - 1)
      /\ \A i \in 1 .. (Len(b) - 1) : Tail(b)[i] = b[i + 1] /\ i + 1 \in DOMAIN b
      /\ Range(b) = {h} \cup Range(Tail(b))
  BY <1>1, <1>2, HeadAndTail
<1>5. Unpublished' = Unpublished /\ \A d, e : SameTask(d, e)' <=> SameTask(d, e)
  BY <1>1 DEF Unpublished, Rows, SameTask
<1>6. \A k \in DOMAIN b : b[k] \in DOMAIN log /\ b[k] \in Nat
  BY <1>2, RowsAreTyped DEF OutboxInv
<1>7. \A e \in DOMAIN log : e \in Nat
  BY RowsAreTyped DEF OutboxInv
<1> HIDE DEF h
<1>8. BatchAscends(p)'
  <2> SUFFICES ASSUME NEW k \in 1 .. (Len(b) - 1), NEW l \in 1 .. (Len(b) - 1), k < l,
                      SameTask(b[k + 1], b[l + 1])
               PROVE  b[k + 1] < b[l + 1]
    BY <1>2, <1>4, <1>5 DEF BatchAscends
  <2>1. k + 1 \in DOMAIN b /\ l + 1 \in DOMAIN b /\ k + 1 < l + 1
    BY <1>4
  <2> QED
    BY <2>1 DEF DrainInv, BatchAscends
\* What is left of the batch is after the event, if it is of the same task.
<1>9. ASSUME NEW e \in Range(Tail(b)), SameTask(e, h) PROVE ~(e < h) /\ e \in DOMAIN log
  <2>1. PICK i \in 1 .. (Len(b) - 1) : e = b[i + 1]
    BY <1>4 DEF Range
  <2>2. i + 1 \in DOMAIN b /\ 1 \in DOMAIN b /\ 1 < i + 1
    BY <1>4
  <2>3. SameTask(b[1], b[i + 1])
    BY <1>4, <1>9, <2>1 DEF SameTask
  <2>4. b[1] < b[i + 1]
    BY <2>2, <2>3 DEF DrainInv, BatchAscends
  <2> QED
    BY <1>4, <1>6, <2>1, <2>2, <2>4
<1>10. \A e \in Unpublished : SameTask(e, h) /\ e < h /\ window[p] => e \in sent[p]
  <2> SUFFICES ASSUME NEW e \in Unpublished, SameTask(e, h), e < h, window[p] PROVE e \in sent[p]
    OBVIOUS
  <2>1. 1 \in DOMAIN b /\ \A j \in DOMAIN b : ~(j < 1)
    BY <1>4
  <2> QED
    BY <1>4, <2>1 DEF DrainInv, BatchIsComplete
<1>11. CASE ~window[p]
  <2>1. sent'[p] = {} /\ sent[p] = {} /\ UNCHANGED <<queue, dropped, sent, seen, window, drained>>
    BY <1>1, <1>3, <1>11 DEF DrainInv, NoWindowNoNews
  <2>2. NoWindowNoNews(p)'
    BY <2>1 DEF DrainInv, NoWindowNoNews
  <2>3. NoDrainNoBatch(p)'
    BY <1>1, <2>1 DEF DrainInv, NoDrainNoBatch
  <2>4. BatchIsNotLate(p)' /\ PendingIsNotLate(p)' /\ BatchIsComplete(p)'
    BY <1>11, <2>1 DEF BatchIsNotLate, PendingIsNotLate, BatchIsComplete
  <2>5. WindowInv(p)'
    BY <1>5, <2>1 DEF WindowInv, SentArrives, SeenIsComplete, QueueIsComplete, SeenAscends
  <2> QED
    BY <1>8, <2>2, <2>3, <2>4, <2>5 DEF DrainInv
<1>12. CASE window[p]
  <2>1. sent'[p] = sent[p] \cup {h} /\ window'[p]
    BY <1>3, <1>12
  <2>2. NoWindowNoNews(p)' /\ NoDrainNoBatch(p)'
    BY <1>1, <2>1 DEF DrainInv, NoWindowNoNews, NoDrainNoBatch
  <2>3. BatchIsNotLate(p)'
    BY <1>2, <1>4, <1>5, <1>9, <2>1 DEF DrainInv, BatchIsNotLate
  <2>4. PendingIsNotLate(p)'
    BY <1>5, <1>10, <1>12, <2>1 DEF DrainInv, PendingIsNotLate
  <2>5. BatchIsComplete(p)'
    <3> SUFFICES ASSUME NEW k \in DOMAIN Tail(b), NEW e \in Unpublished,
                        SameTask(e, Tail(b)[k]), e < Tail(b)[k]
                 PROVE  \/ e \in sent'[p]
                        \/ \E j \in DOMAIN Tail(b) : j < k /\ Tail(b)[j] = e
      BY <1>2, <1>5 DEF BatchIsComplete
    <3>1. CASE e \in sent[p] \/ e = h
      BY <2>1, <3>1
    <3>2. CASE e \notin sent[p] /\ e # h
      <4>1. k \in 1 .. (Len(b) - 1) /\ Tail(b)[k] = b[k + 1] /\ k + 1 \in DOMAIN b
        BY <1>4
      <4>2. PICK j \in DOMAIN b : j < k + 1 /\ b[j] = e
        BY <1>12, <3>2, <4>1 DEF DrainInv, BatchIsComplete
      <4>3. j # 1
        BY <1>4, <3>2, <4>2
      <4>4. j - 1 \in 1 .. (Len(b) - 1) /\ j - 1 < k /\ (j - 1) + 1 = j
        <5>1. j \in 1 .. Len(b) /\ j < k + 1 /\ k \in 1 .. (Len(b) - 1) /\ Len(b) \in Nat
          BY <1>4, <4>1, <4>2
        <5> HIDE DEF b
        <5> QED
          BY <4>3, <5>1
      <4> QED
        BY <1>4, <4>2, <4>4
    <3> QED
      BY <3>1, <3>2
  <2>6. ASSUME dropped'[p] = 0
        PROVE  SentArrives(p)' /\ SeenIsComplete(p)' /\ QueueIsComplete(p)' /\ SeenAscends(p)'
    <3> DEFINE q == queue[p]
    <3>1. /\ queue'[p] = Append(q, h) /\ SentArrives(p) /\ SeenIsComplete(p)
          /\ QueueIsComplete(p) /\ SeenAscends(p)
      BY <1>3, <1>12, <2>6 DEF WindowInv
    <3>2. q \in Seq(DOMAIN log)
      BY CommittedTypes
    <3>3. /\ Len(q) \in Nat /\ DOMAIN q = 1 .. Len(q) /\ DOMAIN queue'[p] = 1 .. (Len(q) + 1)
          /\ queue'[p][Len(q) + 1] = h /\ \A i \in DOMAIN q : queue'[p][i] = q[i]
          /\ \A i \in DOMAIN q : q[i] \in DOMAIN log
      BY <3>1, <3>2
    <3>4. \A i \in 1 .. (Len(q) + 1) : i \in DOMAIN q \/ i = Len(q) + 1
      BY <3>3
    <3>5. Range(queue'[p]) = Range(q) \cup {h}
      BY <3>3, <3>4 DEF Range
    <3>6. SentArrives(p)'
      BY <1>3, <2>1, <3>1, <3>5 DEF SentArrives
    <3>7. SeenAscends(p)'
      BY <1>3, <1>5, <3>1 DEF SeenAscends
    \* Said again, it is no news.
    <3>8. ASSUME NEW f \in sent[p], SameTask(h, f), h < f PROVE h \in sent[p]
      <4>1. h \in Range(b)
        BY <1>4
      <4> QED
        BY <3>8, <4>1 DEF DrainInv, BatchIsNotLate
    <3>9. SeenIsComplete(p)'
      <4> SUFFICES ASSUME NEW f \in Range(seen[p]), NEW d \in sent[p] \cup {h},
                          SameTask(d, f), d < f
                   PROVE  d \in Range(seen[p])
        BY <1>3, <1>5, <2>1 DEF SeenIsComplete
      <4>1. f \in sent[p]
        BY <3>1 DEF SentArrives
      <4>2. d \in sent[p]
        BY <3>8, <4>1
      <4> QED
        BY <3>1, <4>2 DEF SeenIsComplete
    <3>10. QueueIsComplete(p)'
      <4> SUFFICES ASSUME NEW i \in 1 .. (Len(q) + 1), NEW d \in sent[p] \cup {h},
                          SameTask(d, queue'[p][i]), d < queue'[p][i]
                   PROVE  \/ d \in Range(seen[p])
                          \/ \E j \in 1 .. (Len(q) + 1) : j < i /\ queue'[p][j] = d
        BY <1>3, <1>5, <2>1, <3>3 DEF QueueIsComplete
      <4>1. CASE i \in DOMAIN q
        <5>1. queue'[p][i] = q[i] /\ q[i] \in sent[p]
          BY <3>1, <3>3, <4>1 DEF SentArrives, Range
        <5>2. d \in sent[p]
          BY <3>8, <5>1
        <5>3. d \in Range(seen[p]) \/ \E j \in DOMAIN q : j < i /\ q[j] = d
          BY <3>1, <4>1, <5>1, <5>2 DEF QueueIsComplete
        <5>4. \A j \in DOMAIN q : j \in 1 .. (Len(q) + 1) /\ queue'[p][j] = q[j]
          BY <3>3
        <5> QED
          BY <5>3, <5>4
      <4>2. CASE i = Len(q) + 1
        <5>1. queue'[p][i] = h /\ h \in Nat
          BY <1>4, <1>7, <3>3, <4>2
        <5>2. d # h
          BY <5>1
        <5>3. d \in Range(seen[p]) \/ d \in Range(q)
          BY <3>1, <5>2 DEF SentArrives
        <5>4. \A j \in DOMAIN q : j \in 1 .. (Len(q) + 1) /\ j < i /\ queue'[p][j] = q[j]
          BY <3>3, <4>2
        <5> QED
          BY <5>3, <5>4 DEF Range
      <4> QED
        BY <3>4, <4>1, <4>2
    <3> QED
      BY <3>6, <3>7, <3>9, <3>10
  <2> QED
    BY <1>8, <2>2, <2>3, <2>4, <2>5, <2>6 DEF DrainInv, WindowInv
<1> QED
  BY <1>11, <1>12

\* The window is handed the oldest event of its queue: what it had already, or
\* something that is the last of its task.
LEMMA OrderDelivered ==
  ASSUME OutboxInv, NEW p \in Engines, DrainInv(p), WindowInv(p), Deliver(p)
  PROVE  DrainInv(p)' /\ WindowInv(p)'
<1> DEFINE q == queue[p]
           s == seen[p]
           h == Head(q)
<1>1. /\ q # <<>> /\ seen' = [seen EXCEPT ![p] = Append(s, h)]
      /\ queue' = [queue EXCEPT ![p] = Tail(q)]
      /\ UNCHANGED <<log, batch, drained, window, dropped, sent>>
  BY DEF Deliver, drainVars
<1>2. q \in Seq(DOMAIN log) /\ s \in Seq(DOMAIN log) /\ queue'[p] = Tail(q) /\ seen'[p] = Append(s, h)
  BY <1>1, CommittedTypes
<1>3. /\ h \in DOMAIN log /\ h = q[1] /\ Len(q) \in Nat /\ Len(q) >= 1
      /\ DOMAIN q = 1 .. Len(q) /\ DOMAIN Tail(q) = 1 .. (Len(q) - 1)
      /\ \A i \in 1 .. (Len(q) - 1) : Tail(q)[i] = q[i + 1] /\ i + 1 \in DOMAIN q
      /\ Range(q) = {h} \cup Range(Tail(q))
  BY <1>1, <1>2, HeadAndTail
<1> HIDE DEF h
<1>4. Range(Append(s, h)) = Range(s) \cup {h}
  <2>1. s \in Seq(DOMAIN log) /\ h \in DOMAIN log
    BY <1>2, <1>3
  <2> HIDE DEF s
  <2> QED
    BY <2>1, AppendAdds
<1>5. Unpublished' = Unpublished /\ \A d, e : SameTask(d, e)' <=> SameTask(d, e)
  BY <1>1 DEF Unpublished, Rows, SameTask
<1>6. NoWindowNoNews(p)'
  BY <1>1 DEF DrainInv, NoWindowNoNews
<1>7. NoDrainNoBatch(p)' /\ BatchAscends(p)'
  BY <1>1, <1>5 DEF DrainInv, NoDrainNoBatch, BatchAscends
<1>8. BatchIsNotLate(p)' /\ PendingIsNotLate(p)' /\ BatchIsComplete(p)'
  BY <1>1, <1>5 DEF DrainInv, BatchIsNotLate, PendingIsNotLate, BatchIsComplete
<1>9. ASSUME dropped[p] = 0
      PROVE  SentArrives(p)' /\ SeenIsComplete(p)' /\ QueueIsComplete(p)' /\ SeenAscends(p)'
  <2>1. SentArrives(p) /\ SeenIsComplete(p) /\ QueueIsComplete(p) /\ SeenAscends(p)
    BY <1>9 DEF WindowInv
  <2>2. SentArrives(p)'
    BY <1>1, <1>2, <1>3, <1>4, <2>1 DEF SentArrives
  <2>3. SeenIsComplete(p)'
    <3> SUFFICES ASSUME NEW f \in Range(s) \cup {h}, NEW d \in sent[p], SameTask(d, f), d < f
                 PROVE  d \in Range(s)
      BY <1>1, <1>2, <1>4, <1>5 DEF SeenIsComplete
    <3>1. CASE f \in Range(s)
      BY <2>1, <3>1 DEF SeenIsComplete
    <3>2. CASE f = h
      <4>1. 1 \in DOMAIN q /\ \A j \in DOMAIN q : ~(j < 1)
        BY <1>3
      <4> QED
        BY <1>3, <2>1, <3>2, <4>1 DEF QueueIsComplete
    <3> QED
      BY <3>1, <3>2
  <2>4. QueueIsComplete(p)'
    <3>0. ASSUME NEW i \in DOMAIN Tail(q), NEW d \in sent[p],
                 SameTask(d, Tail(q)[i]), d < Tail(q)[i]
          PROVE  \/ d \in Range(Append(s, h))
                 \/ \E j \in DOMAIN Tail(q) : j < i /\ Tail(q)[j] = d
      <4>1. CASE d \in Range(s) \/ d = h
        BY <1>4, <4>1
      <4>2. CASE d \notin Range(s) /\ d # h
        <5>1. i \in 1 .. (Len(q) - 1) /\ Tail(q)[i] = q[i + 1] /\ i + 1 \in DOMAIN q
          BY <1>3
        <5>2. SameTask(d, q[i + 1]) /\ d < q[i + 1]
          BY <3>0, <5>1
        <5>3. PICK j \in DOMAIN q : j < i + 1 /\ q[j] = d
          BY <2>1, <4>2, <5>1, <5>2 DEF QueueIsComplete
        <5>4. j # 1
          BY <1>3, <4>2, <5>3
        <5>5. j - 1 \in 1 .. (Len(q) - 1) /\ j - 1 < i /\ (j - 1) + 1 = j
          <6>1. j \in 1 .. Len(q) /\ j < i + 1 /\ i \in 1 .. (Len(q) - 1) /\ Len(q) \in Nat
            BY <1>3, <5>1, <5>3
          <6> HIDE DEF q
          <6> QED
            BY <5>4, <6>1
        <5> QED
          BY <1>3, <5>3, <5>5
      <4> QED
        BY <4>1, <4>2
    <3>1. \A i \in DOMAIN Tail(q), d \in sent[p] :
            SameTask(d, Tail(q)[i]) /\ d < Tail(q)[i] =>
              \/ d \in Range(Append(s, h))
              \/ \E j \in DOMAIN Tail(q) : j < i /\ Tail(q)[j] = d
      BY <3>0, Zenon
    <3>2. \A i \in DOMAIN queue'[p], d \in sent'[p] :
            SameTask(d, queue'[p][i]) /\ d < queue'[p][i] =>
              \/ d \in Range(seen'[p])
              \/ \E j \in DOMAIN queue'[p] : j < i /\ queue'[p][j] = d
      <4>1. queue'[p] = Tail(q) /\ seen'[p] = Append(s, h) /\ sent'[p] = sent[p]
        BY <1>1, <1>2
      <4> HIDE DEF q, s
      <4> QED
        BY <3>1, <4>1
    <3> QED
      BY <1>5, <3>2 DEF QueueIsComplete
  <2>5. SeenAscends(p)'
    <3>1. /\ seen'[p] = Append(s, h) /\ Len(s) \in Nat /\ DOMAIN s = 1 .. Len(s)
          /\ DOMAIN seen'[p] = 1 .. (Len(s) + 1) /\ seen'[p][Len(s) + 1] = h
          /\ \A i \in DOMAIN s : seen'[p][i] = s[i] /\ s[i] \in DOMAIN log
      <4>1. seen'[p] = Append(s, h) /\ s \in Seq(DOMAIN log)
        BY <1>2
      <4> HIDE DEF s
      <4> QED
        BY <4>1
    <3> SUFFICES ASSUME NEW j \in 1 .. (Len(s) + 1)
                 PROVE  \/ \E i \in 1 .. (j - 1) : seen'[p][i] = seen'[p][j]
                        \/ \A i \in 1 .. (j - 1) : SameTask(seen'[p][i], seen'[p][j]) =>
                                                     seen'[p][i] < seen'[p][j]
      BY <1>5, <3>1 DEF SeenAscends
    <3>2. \A i \in 1 .. (j - 1) : i \in DOMAIN s /\ seen'[p][i] = s[i]
      BY <3>1
    <3>3. CASE j \in DOMAIN s
      BY <2>1, <3>1, <3>2, <3>3 DEF SeenAscends
    <3>4. CASE j = Len(s) + 1 /\ h \in Range(s)
      BY <3>1, <3>4 DEF Range
    <3>5. CASE j = Len(s) + 1 /\ h \notin Range(s)
      <4> SUFFICES ASSUME NEW i \in 1 .. (j - 1), SameTask(seen'[p][i], seen'[p][j])
                   PROVE  seen'[p][i] < seen'[p][j]
        OBVIOUS
      <4>1. seen'[p][i] = s[i] /\ seen'[p][j] = h /\ s[i] \in Range(s) /\ s[i] \in DOMAIN log
        BY <3>1, <3>2, <3>5 DEF Range
      <4>2. SameTask(h, s[i]) /\ h \in sent[p]
        BY <1>3, <2>1, <4>1 DEF SameTask, SentArrives
      <4>3. ~(h < s[i]) /\ h # s[i]
        BY <2>1, <3>5, <4>1, <4>2 DEF SeenIsComplete
      <4>4. h \in Nat /\ s[i] \in Nat
        BY <1>3, <4>1, RowsAreTyped DEF OutboxInv
      <4> QED
        BY <4>1, <4>3, <4>4
    <3> QED
      BY <3>1, <3>3, <3>4, <3>5
  <2> QED
    BY <2>2, <2>3, <2>4, <2>5
<1>10. dropped'[p] = dropped[p]
  BY <1>1
<1> QED
  BY <1>6, <1>7, <1>8, <1>9, <1>10 DEF DrainInv, WindowInv

\* A window opens on a bus that is at rest.
LEMMA OrderConnected ==
  ASSUME OutboxInv, NEW p \in Engines, DrainInv(p), WindowInv(p), Connect(p)
  PROVE  DrainInv(p)' /\ WindowInv(p)'
<1>1. /\ ~window[p] /\ drained[p] = <<>>
      /\ UNCHANGED <<log, batch, drained, queue, dropped, sent, seen>>
  BY DEF Connect, LoopIsFree, drainVars
<1>2. window'[p]
  BY CommittedTypes DEF Connect
<1>3. batch[p] = <<>> /\ sent[p] = {} /\ queue[p] = <<>> /\ seen[p] = <<>>
  BY <1>1 DEF DrainInv, NoDrainNoBatch, NoWindowNoNews
<1>4. DrainInv(p)'
  BY <1>1, <1>2, <1>3 DEF DrainInv, NoDrainNoBatch, NoWindowNoNews, BatchAscends, BatchIsNotLate,
                          PendingIsNotLate, BatchIsComplete, Range
<1>5. WindowInv(p)'
  BY <1>1, <1>3 DEF WindowInv, SentArrives, SeenIsComplete, QueueIsComplete, SeenAscends, Range
<1> QED
  BY <1>4, <1>5

\* It closes, or its process dies: nothing is left of it.
LEMMA OrderCleared ==
  ASSUME NEW p \in Engines, batch'[p] = <<>>, ~window'[p], queue'[p] = <<>>, sent'[p] = {},
         seen'[p] = <<>>
  PROVE  DrainInv(p)' /\ WindowInv(p)'
<1>1. DrainInv(p)'
  BY DEF DrainInv, NoDrainNoBatch, NoWindowNoNews, BatchAscends, BatchIsNotLate,
         PendingIsNotLate, BatchIsComplete, Range
<1>2. WindowInv(p)'
  BY DEF WindowInv, SentArrives, SeenIsComplete, QueueIsComplete, SeenAscends, Range
<1> QED
  BY <1>1, <1>2

\* What a process does, it does to its own drain and its own window.
LEMMA OthersAreQuiet ==
  ASSUME OutboxInv, NEW p \in Engines, NEW q \in Engines, p # q, NoDrainNoBatch(q),
         \/ DrainRead(p) \/ Emit(p) \/ Mark(p) \/ MarkFails(p)
         \/ Connect(p) \/ Disconnect(p) \/ Deliver(p) \/ Restart(p)
  PROVE  Quiet(q)
<1>1. drained[q] = <<>> => batch[q] = <<>>
  BY DEF NoDrainNoBatch
<1>2. CASE DrainRead(p)
  <2>1. UNCHANGED <<window, queue, dropped, sent, seen>>
    BY <1>2 DEF DrainRead, windowVars
  <2>2. batch'[q] = batch[q] /\ drained'[q] = drained[q]
    BY <1>2, CommittedTypes DEF DrainRead
  <2> QED
    BY <1>1, <2>1, <2>2 DEF Quiet
<1>3. CASE Emit(p)
  <2>1. /\ batch[p] # <<>> /\ dropped[p] < MaxLost /\ Offer(p, Head(batch[p]))
        /\ drained' = drained /\ batch' = [batch EXCEPT ![p] = Tail(batch[p])]
    BY <1>3 DEF Emit
  <2>2. /\ window' = window /\ seen' = seen
        /\ queue'[q] = queue[q] /\ dropped'[q] = dropped[q] /\ sent'[q] = sent[q]
    BY <2>1, OfferKeeps
  <2>3. batch'[q] = batch[q]
    BY <2>1, CommittedTypes
  <2> QED
    BY <1>1, <2>1, <2>2, <2>3 DEF Quiet
<1>4. CASE Mark(p) \/ MarkFails(p)
  <2>1. /\ UNCHANGED <<batch, window, queue, dropped, sent, seen>>
        /\ drained' = [drained EXCEPT ![p] = <<>>]
    BY <1>4 DEF Mark, MarkFails, windowVars
  <2>2. drained'[q] = drained[q]
    BY <2>1, CommittedTypes
  <2> QED
    BY <1>1, <2>1, <2>2 DEF Quiet
<1>5. CASE Connect(p)
  <2>1. /\ UNCHANGED <<batch, drained, queue, dropped, sent, seen>>
        /\ window' = [window EXCEPT ![p] = TRUE]
    BY <1>5 DEF Connect, drainVars
  <2>2. window'[q] = window[q]
    BY <2>1, CommittedTypes
  <2> QED
    BY <1>1, <2>1, <2>2 DEF Quiet
<1>6. CASE Disconnect(p) \/ Restart(p)
  <2>1. Forget(p)
    BY <1>6 DEF Disconnect, Restart
  <2>2. batch'[q] = batch[q] /\ drained'[q] = drained[q]
    BY <1>6, CommittedTypes DEF Disconnect, Restart, drainVars
  <2> QED
    BY <1>1, <2>1, <2>2, ForgetClears DEF Quiet
<1>7. CASE Deliver(p)
  <2>1. /\ UNCHANGED <<batch, drained, window, dropped, sent>>
        /\ seen' = [seen EXCEPT ![p] = Append(seen[p], Head(queue[p]))]
        /\ queue' = [queue EXCEPT ![p] = Tail(queue[p])]
    BY <1>7 DEF Deliver, drainVars
  <2>2. queue'[q] = queue[q] /\ seen'[q] = seen[q]
    BY <2>1, CommittedTypes
  <2> QED
    BY <1>1, <2>1, <2>2 DEF Quiet
<1> QED
  BY <1>2, <1>3, <1>4, <1>5, <1>6, <1>7

\* Whoever writes, the windows do not notice before a drain.
LEMMA WritersAreQuiet ==
  ASSUME NEW q \in Engines, NoDrainNoBatch(q), UNCHANGED drainVars, UNCHANGED windowVars
  PROVE  Quiet(q)
BY DEF NoDrainNoBatch, Quiet, drainVars, windowVars

LEMMA OrderOfOne ==
  ASSUME OutboxInv, RiseInv, ClockKeepsGoing, NEW p \in Engines, DrainInv(p), WindowInv(p),
         \/ DrainRead(p) \/ Emit(p) \/ Mark(p) \/ MarkFails(p)
         \/ Connect(p) \/ Disconnect(p) \/ Deliver(p) \/ Restart(p)
  PROVE  Evolves /\ DrainInv(p)' /\ WindowInv(p)'
<1>1. Evolves
  <2>1. Mark(p) => Restated
    BY MarkRestates DEF OutboxInv
  <2>2. ~Mark(p) => log' = log
    BY DEF DrainRead, Emit, MarkFails, Connect, Disconnect, Deliver, Restart
  <2> QED
    BY <2>1, <2>2, RestatedEvolves
<1>2. CASE Mark(p) \/ MarkFails(p)
  <2>1. batch[p] = <<>> /\ UNCHANGED <<batch, window, queue, dropped, sent, seen>>
    BY <1>2 DEF Mark, MarkFails, MayMark, windowVars
  <2>2. Quiet(p)
    BY <2>1 DEF Quiet
  <2> QED
    BY <1>1, <2>2, OrderStays
<1>3. CASE Disconnect(p) \/ Restart(p)
  <2>1. Forget(p)
    BY <1>3 DEF Disconnect, Restart
  <2>2. batch'[p] = <<>>
    <3>1. Disconnect(p) => drained[p] = <<>> /\ batch' = batch
      BY DEF Disconnect, LoopIsFree, drainVars
    <3>2. Restart(p) => batch'[p] = <<>>
      BY CommittedTypes DEF Restart
    <3> QED
      BY <1>3, <3>1, <3>2 DEF DrainInv, NoDrainNoBatch
  <2> QED
    BY <1>1, <2>1, <2>2, ForgetClears, OrderCleared
<1> QED
  BY <1>1, <1>2, <1>3, OrderRead, OrderEmitted, OrderConnected, OrderDelivered

LEMMA OrderInductive ==
  ASSUME OutboxInv, RiseInv, ClockKeepsGoing, OrderInv, [OutboxNext]_outboxVars
  PROVE  OrderInv'
<1>1. \A q \in Engines : DrainInv(q) /\ WindowInv(q) /\ NoDrainNoBatch(q)
  BY DEF OrderInv, DrainInv
<1>2. ASSUME NEW p \in Engines,
             \/ DrainRead(p) \/ Emit(p) \/ Mark(p) \/ MarkFails(p)
             \/ Connect(p) \/ Disconnect(p) \/ Deliver(p) \/ Restart(p)
      PROVE  OrderInv'
  <2>1. Evolves /\ DrainInv(p)' /\ WindowInv(p)'
    BY <1>1, <1>2, OrderOfOne
  <2>2. ASSUME NEW q \in Engines, q # p PROVE DrainInv(q)' /\ WindowInv(q)'
    BY <1>1, <1>2, <2>1, <2>2, OthersAreQuiet, OrderStays
  <2> QED
    BY <2>1, <2>2 DEF OrderInv
<1>3. ASSUME Evolves, UNCHANGED drainVars, UNCHANGED windowVars PROVE OrderInv'
  <2> SUFFICES ASSUME NEW q \in Engines PROVE DrainInv(q)' /\ WindowInv(q)'
    BY DEF OrderInv
  <2> QED
    BY <1>1, <1>3, WritersAreQuiet, OrderStays
<1>4. ASSUME NEW p \in Engines,
             \/ Open(p) \/ RecordInsert(p) \/ Commit(p) \/ Rollback(p)
             \/ \E t \in Tasks : Stage(p, t) \/ RecordRead(p, t)
      PROVE  OrderInv'
  <2>1. UNCHANGED drainVars /\ UNCHANGED windowVars
    BY <1>4 DEF Open, RecordInsert, Commit, Rollback, Stage, RecordRead
  <2>2. ~Commit(p) => log' = log
    BY <1>4 DEF Open, RecordInsert, Rollback, Stage, RecordRead
  <2> QED
    BY <1>3, <2>1, <2>2, CommitEvolves, RestatedEvolves
<1>5. ASSUME NEW cutoff \in 1 .. MaxTime, Prune(cutoff) PROVE OrderInv'
  <2>1. Restated
    BY <1>5, PruneRestates DEF OutboxInv
  <2>2. UNCHANGED drainVars /\ UNCHANGED windowVars
    BY <1>5 DEF Prune
  <2> QED
    BY <1>3, <2>1, <2>2, RestatedEvolves
<1>6. CASE UNCHANGED outboxVars
  <2>1. log' = log /\ UNCHANGED drainVars /\ UNCHANGED windowVars
    BY <1>6 DEF outboxVars, drainVars, windowVars
  <2> QED
    BY <1>3, <2>1, RestatedEvolves
<1> QED
  BY <1>2, <1>4, <1>5, <1>6 DEF OutboxNext

\* No row changes its time: what is in order had always been.
LEMMA ClockWasGoing ==
  ASSUME OutboxInv, [OutboxNext]_outboxVars, ClockKeepsGoing'
  PROVE  ClockKeepsGoing
<1>1. \A e \in DOMAIN log : e \in DOMAIN log' /\ log'[e].time = log[e].time
  <2>1. CASE Restated
    BY <2>1 DEF Restated
  <2>2. ASSUME NEW p \in Engines, Commit(p)
        PROVE  \A e \in DOMAIN log : e \in DOMAIN log' /\ log'[e] = log[e]
    <3>1. DOMAIN log' = 1 .. (Len(log) + 1) /\ \A e \in DOMAIN log : log'[e] = log[e]
      BY <2>2, CommitStep
    <3>2. DOMAIN log = 1 .. Len(log) /\ Len(log) \in Nat
      BY RowsAreTyped DEF OutboxInv
    <3> QED
      BY <3>1, <3>2
  <2>3. ASSUME NEW p \in Engines, Mark(p) PROVE Restated
    BY <2>3, MarkRestates DEF OutboxInv
  <2>4. ASSUME NEW cutoff \in 1 .. MaxTime, Prune(cutoff) PROVE Restated
    BY <2>4, PruneRestates DEF OutboxInv
  <2>5. CASE log' = log
    BY <2>5
  <2>6. \/ log' = log \/ \E p \in Engines : Commit(p) \/ Mark(p)
        \/ \E cutoff \in 1 .. MaxTime : Prune(cutoff)
    BY DEF OutboxNext, outboxVars, Open, RecordInsert, Rollback, Stage, RecordRead, DrainRead,
           Emit, MarkFails, Connect, Disconnect, Deliver, Restart
  <2> QED
    BY <2>1, <2>2, <2>3, <2>4, <2>5, <2>6
<1> QED
  BY <1>1 DEF ClockKeepsGoing

\* What is said arrives, whatever the clock does.
ArrivalInv(p) ==
  NoWindowNoNews(p) /\ NoDrainNoBatch(p) /\ (dropped[p] = 0 => SentArrives(p))

LEMMA ArrivalStays ==
  ASSUME NEW p \in Engines, ArrivalInv(p), Quiet(p)
  PROVE  ArrivalInv(p)'
BY DEF ArrivalInv, NoWindowNoNews, NoDrainNoBatch, SentArrives, Quiet

LEMMA ArrivalOfOne ==
  ASSUME OutboxInv, NEW p \in Engines, ArrivalInv(p),
         \/ DrainRead(p) \/ Emit(p) \/ Mark(p) \/ MarkFails(p)
         \/ Connect(p) \/ Disconnect(p) \/ Deliver(p) \/ Restart(p)
  PROVE  ArrivalInv(p)'
<1>1. CASE DrainRead(p)
  <2>1. batch'[p] = First /\ drained'[p] = First /\ UNCHANGED <<window, queue, dropped, sent, seen>>
    BY <1>1, CommittedTypes DEF DrainRead, First, windowVars
  <2> QED
    BY <2>1 DEF ArrivalInv, NoWindowNoNews, NoDrainNoBatch, SentArrives
<1>2. CASE Emit(p)
  <2>1. /\ batch[p] # <<>> /\ dropped[p] < MaxLost /\ Offer(p, Head(batch[p])) /\ drained' = drained
    BY <1>2 DEF Emit
  <2>2. /\ window' = window /\ seen' = seen
        /\ ~window[p] => UNCHANGED <<queue, dropped, sent>>
        /\ window[p] /\ dropped'[p] = 0 =>
             dropped[p] = 0 /\ queue'[p] = Append(queue[p], Head(batch[p]))
        /\ window[p] => sent'[p] = sent[p] \cup {Head(batch[p])}
    BY <2>1, OfferKeeps
  <2>3. batch[p] \in Seq(DOMAIN log) /\ queue[p] \in Seq(DOMAIN log)
    BY CommittedTypes
  <2>4. Range(Append(queue[p], Head(batch[p]))) = Range(queue[p]) \cup {Head(batch[p])}
    BY <2>1, <2>3, HeadAndTail, AppendAdds
  <2>5. drained[p] # <<>>
    BY <2>1 DEF ArrivalInv, NoDrainNoBatch
  <2>6. NoWindowNoNews(p)' /\ NoDrainNoBatch(p)'
    BY <2>1, <2>2, <2>5 DEF ArrivalInv, NoWindowNoNews, NoDrainNoBatch
  <2>7. dropped'[p] = 0 => SentArrives(p)'
    BY <2>2, <2>4 DEF ArrivalInv, SentArrives
  <2> QED
    BY <2>6, <2>7 DEF ArrivalInv
<1>3. CASE Mark(p) \/ MarkFails(p)
  BY <1>3 DEF Mark, MarkFails, MayMark, windowVars, ArrivalInv, NoWindowNoNews, NoDrainNoBatch,
              SentArrives
<1>4. CASE Connect(p)
  <2>1. window'[p] /\ UNCHANGED <<batch, drained, queue, dropped, sent, seen>>
    BY <1>4, CommittedTypes DEF Connect, drainVars
  <2> QED
    BY <2>1 DEF ArrivalInv, NoWindowNoNews, NoDrainNoBatch, SentArrives
<1>5. CASE Disconnect(p) \/ Restart(p)
  <2>1. ~window'[p] /\ queue'[p] = <<>> /\ sent'[p] = {} /\ seen'[p] = <<>>
    BY <1>5, ForgetClears DEF Disconnect, Restart
  <2>2. batch'[p] = <<>>
    BY <1>5, CommittedTypes DEF Disconnect, Restart, LoopIsFree, drainVars, ArrivalInv,
                                NoDrainNoBatch
  <2> QED
    BY <2>1, <2>2 DEF ArrivalInv, NoWindowNoNews, NoDrainNoBatch, SentArrives, Range
<1>6. CASE Deliver(p)
  <2>1. /\ queue[p] # <<>> /\ queue[p] \in Seq(DOMAIN log) /\ seen[p] \in Seq(DOMAIN log)
        /\ seen'[p] = Append(seen[p], Head(queue[p])) /\ queue'[p] = Tail(queue[p])
        /\ UNCHANGED <<batch, drained, window, dropped, sent>>
    BY <1>6, CommittedTypes DEF Deliver, drainVars
  <2>2. window[p]
    BY <2>1 DEF ArrivalInv, NoWindowNoNews
  <2>3. Head(queue[p]) \in DOMAIN log /\ Range(queue[p]) = {Head(queue[p])} \cup Range(Tail(queue[p]))
    BY <2>1, HeadAndTail
  <2>4. Range(seen'[p]) = Range(seen[p]) \cup {Head(queue[p])}
    BY <2>1, <2>3, AppendAdds
  <2> QED
    BY <2>1, <2>2, <2>3, <2>4 DEF ArrivalInv, NoWindowNoNews, NoDrainNoBatch, SentArrives
<1> QED
  BY <1>1, <1>2, <1>3, <1>4, <1>5, <1>6

LEMMA ArrivalInductive ==
  ASSUME OutboxInv, \A q \in Engines : ArrivalInv(q), [OutboxNext]_outboxVars
  PROVE  \A q \in Engines : ArrivalInv(q)'
<1>1. \A q \in Engines : ArrivalInv(q) /\ NoDrainNoBatch(q)
  BY DEF ArrivalInv
<1>2. ASSUME NEW p \in Engines, NEW q \in Engines,
             \/ DrainRead(p) \/ Emit(p) \/ Mark(p) \/ MarkFails(p)
             \/ Connect(p) \/ Disconnect(p) \/ Deliver(p) \/ Restart(p)
      PROVE  ArrivalInv(q)'
  BY <1>1, <1>2, ArrivalOfOne, OthersAreQuiet, ArrivalStays
<1>3. ASSUME NEW q \in Engines, UNCHANGED drainVars, UNCHANGED windowVars PROVE ArrivalInv(q)'
  BY <1>1, <1>3, WritersAreQuiet, ArrivalStays
<1>4. ASSUME NEW p \in Engines,
             \/ Open(p) \/ RecordInsert(p) \/ Commit(p) \/ Rollback(p)
             \/ \E t \in Tasks : Stage(p, t) \/ RecordRead(p, t)
      PROVE  UNCHANGED drainVars /\ UNCHANGED windowVars
  BY <1>4 DEF Open, RecordInsert, Commit, Rollback, Stage, RecordRead
<1>5. ASSUME NEW cutoff \in 1 .. MaxTime, Prune(cutoff)
      PROVE  UNCHANGED drainVars /\ UNCHANGED windowVars
  BY <1>5 DEF Prune
<1>6. CASE UNCHANGED outboxVars
  <2>1. UNCHANGED drainVars /\ UNCHANGED windowVars
    BY <1>6 DEF outboxVars, drainVars, windowVars
  <2> QED
    BY <1>3, <2>1
<1> QED
  BY <1>2, <1>3, <1>4, <1>5, <1>6 DEF OutboxNext

NewsInv == (ClockKeepsGoing => OrderInv) /\ \A p \in Engines : ArrivalInv(p)

\* A window whose queue never overflowed has been handed every event said since
\* it connected that is not still in its queue.  What is new to it was committed
\* after all that it has had of the same task, whatever was said twice, marked
\* late, pruned or interrupted, as long as one process writes events and the
\* clock is not set back (outbox.py:10-14, 88-97, events.py:50-59).
THEOREM NewsIsHandedInOrder ==
  ASSUME OneWriter
  PROVE  OutboxSpec => []NewsIsInOrder
<1>1. OutboxInit => NewsInv
  <2> SUFFICES ASSUME OutboxInit, NEW p \in Engines
               PROVE  DrainInv(p) /\ WindowInv(p) /\ ArrivalInv(p)
    BY DEF NewsInv, OrderInv
  <2>1. /\ batch[p] = <<>> /\ queue[p] = <<>> /\ seen[p] = <<>> /\ sent[p] = {}
        /\ ~window[p]
    BY DEF OutboxInit
  <2>2. DrainInv(p)
    BY <2>1 DEF DrainInv, NoDrainNoBatch, NoWindowNoNews, BatchAscends, BatchIsNotLate,
                PendingIsNotLate, BatchIsComplete, Range
  <2>3. WindowInv(p)
    BY <2>1 DEF WindowInv, SentArrives, SeenIsComplete, QueueIsComplete, SeenAscends, Range
  <2> QED
    BY <2>2, <2>3 DEF ArrivalInv, DrainInv, WindowInv
<1>2. OutboxInv /\ RiseInv /\ NewsInv /\ [OutboxNext]_outboxVars => NewsInv'
  BY OrderInductive, ClockWasGoing, ArrivalInductive DEF NewsInv
<1>3. NewsInv => NewsIsInOrder
  BY DEF NewsInv, OrderInv, ArrivalInv, WindowInv, SentArrives, SeenAscends, SameTask,
         NewsIsInOrder
<1> QED
  BY <1>1, <1>2, <1>3, OutboxInvariant, RiseInvariant, PTL DEF OutboxSpec
=============================================================================
