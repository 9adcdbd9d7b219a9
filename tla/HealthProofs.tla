----------------------------- MODULE HealthProofs -----------------------------
(***************************************************************************)
(* Theorems about Health, for any providers, keys and calls.               *)
(***************************************************************************)
EXTENDS Health, TLAPS

\* What is not late was found with the key that the provider and its fingerprint
\* both have, which a rebuild that raises may have made two.
KnownIsSigned ==
  \A n \in Names : states[n].status # "unknown" /\ ~states[n].late =>
                     states[n].about = live[n] /\ states[n].about = signed[n]

Inv == TypeOK /\ KnownIsSigned

\* What an answer records has its type, and is late if it is about another key.
LEMMA Recording ==
  ASSUME Inv, NEW n \in Names, NEW k \in Keys, NEW s \in Statuses, Record(n, k, s),
         UNCHANGED <<live, signed>>
  PROVE  states' \in [Names -> Known] /\ KnownIsSigned'
<1> DEFINE late == k # live[n] \/ k # signed[n]
           new == [status |-> s, fresh |-> TRUE, about |-> k, late |-> late]
<1>1. states' = [states EXCEPT ![n] = new] /\ new.about = k /\ new.late = late
  BY DEF Record
<1>2. new \in Known
  <2>1. late \in BOOLEAN
    OBVIOUS
  <2> HIDE DEF late
  <2> QED
    BY <2>1 DEF Known
<1> HIDE DEF new
<1>3. states' \in [Names -> Known]
      /\ \A m \in Names : states'[m] = IF m = n THEN new ELSE states[m]
  BY <1>1, <1>2 DEF Inv, TypeOK
<1>4. ~new.late => new.about = live[n] /\ new.about = signed[n]
  BY <1>1
<1>5. KnownIsSigned'
  BY <1>3, <1>4 DEF Inv, KnownIsSigned
<1> QED
  BY <1>3, <1>5

\* A step that neither measures nor rebuilds changes nothing of what is known.
LEMMA Forgetless ==
  ASSUME Inv, UNCHANGED <<signed, live, states>>
  PROVE  KnownIsSigned'
BY DEF Inv, KnownIsSigned

\* Every state of the checks of one round is of the right type.
LEMMA Gathering ==
  ASSUME TypeOK, NEW r \in Rounds, NEW stage \in {"queued", "forced"}, Gather(r, stage)
  PROVE  checks' \in [Rounds -> [Names -> Pending \cup {Nothing}]]
<1> DEFINE round == [n \in Names |->
       IF live[n] = NoKey THEN Nothing ELSE [stage |-> stage, key |-> live[n]]]
<1>1. round \in [Names -> Pending \cup {Nothing}]
  BY DEF TypeOK, Pending
<1>2. checks' = [checks EXCEPT ![r] = round]
  BY DEF Gather
<1> HIDE DEF round
<1> QED
  BY <1>1, <1>2 DEF TypeOK

\* A process starts without signatures and without measurements.
LEMMA InitInv == Init => Inv
<1> SUFFICES ASSUME Init PROVE Inv
  OBVIOUS
<1>1. Unknown \in Known
  BY DEF Unknown, Known, Statuses
<1>2. TypeOK
  BY <1>1 DEF Init, TypeOK
<1>3. KnownIsSigned
  BY DEF Init, KnownIsSigned, Unknown
<1> QED
  BY <1>2, <1>3 DEF Inv

\* A rebuild, one that raises after signing too, forgets what it has to: what
\* stays known of a provider was found with the key that its fingerprint has kept.
LEMMA RebuildInv ==
  ASSUME Inv, NEW r \in Rounds,
         Rebuild(r) \/ RaisesBeforeSigning(r) \/ RaisesAfterSigning(r)
  PROVE  Inv'
<1>1. /\ due' \in BOOLEAN /\ missed' \in BOOLEAN /\ UNCHANGED <<config, checks, calls, well>>
      /\ refreshing' = refreshing \cup {r} \/ refreshing' = refreshing
  BY DEF Rebuild, RaisesBeforeSigning, RaisesAfterSigning, Raises, Undertakes, Inv, TypeOK
<1>2. CASE RaisesBeforeSigning(r)
  <2>1. UNCHANGED <<signed, live, states>>
    BY <1>2 DEF RaisesBeforeSigning, Raises
  <2>2. TypeOK'
    BY <1>1, <2>1 DEF Inv, TypeOK
  <2> QED
    BY <2>1, <2>2, Forgetless DEF Inv
<1>3. CASE Rebuild(r) \/ RaisesAfterSigning(r)
  <2>1. /\ states' = [n \in Names |-> IF signed[n] = config[n] THEN states[n] ELSE Unknown]
        /\ signed' = config /\ live' \in {config, live}
    BY <1>3 DEF Rebuild, RaisesAfterSigning, Raises, Forget
  <2>2. Unknown \in Known
    BY DEF Unknown, Known, Statuses
  <2>3. TypeOK'
    BY <1>1, <2>1, <2>2 DEF Inv, TypeOK
  <2>4. ASSUME NEW n \in Names, states'[n].status # "unknown", ~states'[n].late
        PROVE  states'[n].about = live'[n] /\ states'[n].about = signed'[n]
    <3>1. states'[n] # Unknown
      BY <2>4 DEF Unknown
    <3>2. signed[n] = config[n] /\ states'[n] = states[n]
      BY <2>1, <3>1
    <3>3. states[n].about = live[n] /\ states[n].about = signed[n]
      BY <2>4, <3>2 DEF Inv, KnownIsSigned
    <3> QED
      BY <2>1, <3>2, <3>3
  <2>5. KnownIsSigned'
    BY <2>4 DEF KnownIsSigned
  <2> QED
    BY <2>3, <2>5 DEF Inv
<1> QED
  BY <1>2, <1>3

\* Every step keeps the invariant.
LEMMA NextInv == Inv /\ [Next]_vars => Inv'
<1> SUFFICES ASSUME Inv, [Next]_vars PROVE Inv'
  OBVIOUS
<1>1. ASSUME NEW r \in Rounds,
             Rebuild(r) \/ RaisesBeforeSigning(r) \/ RaisesAfterSigning(r)
      PROVE  Inv'
  BY <1>1, RebuildInv
<1>2. ASSUME NEW r \in Rounds, RefreshRebuilt(r) PROVE Inv'
  <2>1. UNCHANGED <<config, signed, live, states, due, missed, calls, well>>
    BY <1>2 DEF RefreshRebuilt, Gather
  <2>2. checks' \in [Rounds -> [Names -> Pending \cup {Nothing}]]
    BY <1>2, Gathering DEF RefreshRebuilt, Inv
  <2>3. TypeOK'
    BY <1>2, <2>1, <2>2 DEF RefreshRebuilt, Inv, TypeOK
  <2> QED
    BY <2>1, <2>3, Forgetless DEF Inv
<1>3. ASSUME RefreshHourly \/ RefreshForced PROVE Inv'
  <2>1. UNCHANGED <<config, signed, live, states, due, missed, refreshing, calls, well>>
    BY <1>3 DEF RefreshHourly, RefreshForced, Gather
  <2>2. checks' \in [Rounds -> [Names -> Pending \cup {Nothing}]]
    BY <1>3, Gathering DEF RefreshHourly, RefreshForced, Inv, Rounds
  <2>3. TypeOK'
    BY <2>1, <2>2 DEF Inv, TypeOK
  <2> QED
    BY <2>1, <2>3, Forgetless DEF Inv
<1>4. ASSUME NEW r \in Rounds, NEW n \in Names, Check(r, n) PROVE Inv'
  <2> DEFINE sent == [stage |-> "sent", key |-> checks[r][n].key]
  <2>1. UNCHANGED <<config, signed, live, states, due, missed, refreshing, calls, well>>
    BY <1>4 DEF Check
  <2>2. checks[r][n] \in Pending
    BY <1>4 DEF Check, Inv, TypeOK
  <2>3. sent \in Pending
    BY <2>2 DEF Pending
  <2>4. PICK c \in {sent, Nothing} : checks' = [checks EXCEPT ![r][n] = c]
    BY <1>4 DEF Check
  <2> HIDE DEF sent
  <2>5. checks' \in [Rounds -> [Names -> Pending \cup {Nothing}]]
    BY <2>3, <2>4 DEF Inv, TypeOK
  <2>6. TypeOK'
    BY <2>1, <2>5 DEF Inv, TypeOK
  <2> QED
    BY <2>1, <2>6, Forgetless DEF Inv
<1>5. ASSUME NEW r \in Rounds, NEW n \in Names, Answer(r, n) PROVE Inv'
  <2>1. /\ UNCHANGED <<config, signed, live, due, missed, refreshing, calls, well>>
        /\ checks' = [checks EXCEPT ![r][n] = Nothing]
    BY <1>5 DEF Answer
  <2>2. checks[r][n].key \in Keys
    BY <1>5 DEF Answer, Inv, TypeOK, Pending
  <2>3. PICK s \in Verdicts(n, checks[r][n].key) : Record(n, checks[r][n].key, s)
    BY <1>5 DEF Answer
  <2>4. s \in Statuses
    BY DEF Verdicts, Statuses
  <2>5. /\ states' \in [Names -> Known]
        /\ KnownIsSigned'
    BY <2>1, <2>2, <2>3, <2>4, Recording
  <2>6. TypeOK'
    BY <2>1, <2>5 DEF Inv, TypeOK
  <2> QED
    BY <2>5, <2>6 DEF Inv
<1>6. ASSUME NEW c \in Calls, NoteFailure(c) PROVE Inv'
  <2>1. /\ UNCHANGED <<config, signed, live, due, missed, refreshing, checks, well>>
        /\ calls' = [calls EXCEPT ![c] = Nothing]
    BY <1>6 DEF NoteFailure
  <2>2. calls[c].name \in Names /\ calls[c].key \in Keys
    BY <1>6 DEF NoteFailure, Inv, TypeOK, Asking
  <2>3. PICK s \in (Verdicts(calls[c].name, calls[c].key) \cup {"faulty"}) \ {"online"} :
          Record(calls[c].name, calls[c].key, s)
    BY <1>6 DEF NoteFailure
  <2>4. s \in Statuses
    BY DEF Verdicts, Statuses
  <2>5. /\ states' \in [Names -> Known]
        /\ KnownIsSigned'
    BY <2>1, <2>2, <2>3, <2>4, Recording
  <2>6. TypeOK'
    BY <2>1, <2>5 DEF Inv, TypeOK
  <2> QED
    BY <2>5, <2>6 DEF Inv
<1>7. ASSUME NEW c \in Calls, NEW n \in Names, Ask(c, n) PROVE Inv'
  <2>1. TypeOK'
    BY <1>7 DEF Ask, Usable, Inv, TypeOK, Asking
  <2> QED
    BY <1>7, <2>1, Forgetless DEF Ask, Inv
<1>8. ASSUME NEW c \in Calls, Complete(c) PROVE Inv'
  <2>1. TypeOK'
    BY <1>8 DEF Complete, Inv, TypeOK
  <2> QED
    BY <1>8, <2>1, Forgetless DEF Complete, Inv
<1>9. ASSUME NEW n \in Names, NEW k \in Keys \cup {NoKey}, Edit(n, k) \/ EditElsewhere(n, k)
      PROVE  Inv'
  <2>1. TypeOK'
    BY <1>9 DEF Edit, EditElsewhere, Inv, TypeOK
  <2> QED
    BY <1>9, <2>1, Forgetless DEF Edit, EditElsewhere, Inv
<1>10. ASSUME NEW n \in Names, Vendor(n) PROVE Inv'
  <2>1. TypeOK'
    BY <1>10 DEF Vendor, Inv, TypeOK
  <2> QED
    BY <1>10, <2>1, Forgetless DEF Vendor, Inv
<1>11. ASSUME NEW n \in Names, Age(n) \/ Lift(n) PROVE Inv'
  <2>1. UNCHANGED <<config, signed, live, due, missed, refreshing, checks, calls, well>>
    BY <1>11 DEF Age, Lift
  <2> DEFINE older  == [states[n] EXCEPT !.fresh = FALSE]
             opener == [states[n] EXCEPT !.status = "lifted"]
  <2>2. states[n] \in Known
    BY DEF Inv, TypeOK
  <2>3. PICK s \in Known :
          /\ states' = [states EXCEPT ![n] = s]
          /\ s.about = states[n].about /\ s.late = states[n].late
          /\ s.status = "unknown" <=> states[n].status = "unknown"
    <3>1. CASE Age(n)
      <4>1. /\ older \in Known /\ older.about = states[n].about /\ older.late = states[n].late
            /\ older.status = states[n].status
        BY <2>2 DEF Known
      <4>2. states' = [states EXCEPT ![n] = older]
        BY <3>1 DEF Age
      <4> QED
        BY <4>1, <4>2
    <3>2. CASE Lift(n)
      <4>1. /\ opener \in Known /\ opener.about = states[n].about /\ opener.late = states[n].late
            /\ opener.status = "lifted"
        BY <2>2 DEF Known, Statuses
      <4>2. states' = [states EXCEPT ![n] = opener] /\ states[n].status = "rate_limit"
        BY <3>2 DEF Lift
      <4> QED
        BY <4>1, <4>2
    <3> QED
      BY <1>11, <3>1, <3>2
  <2> HIDE DEF older, opener
  <2>5. /\ states' \in [Names -> Known]
        /\ \A m \in Names : /\ states'[m].about = states[m].about
                            /\ states'[m].late = states[m].late
                            /\ states'[m].status = "unknown" <=> states[m].status = "unknown"
    BY <2>3 DEF Inv, TypeOK
  <2>6. TypeOK'
    BY <2>1, <2>5 DEF Inv, TypeOK
  <2>7. KnownIsSigned'
    BY <2>1, <2>5 DEF Inv, KnownIsSigned
  <2> QED
    BY <2>6, <2>7 DEF Inv
<1>12. CASE UNCHANGED vars
  BY <1>12 DEF vars, Inv, TypeOK, KnownIsSigned
<1> QED
  BY <1>1, <1>2, <1>3, <1>4, <1>5, <1>6, <1>7, <1>8, <1>9, <1>10, <1>11, <1>12 DEF Next

\* The inductive invariant holds throughout.
LEMMA Invariance == Spec => []Inv
  BY InitInv, NextInv, PTL DEF Spec
-----------------------------------------------------------------------------
\* The providers, what is known of them and the checks in flight have their
\* types; no check is ever made of a provider that was not built.
THEOREM TypeCorrect == Spec => []TypeOK
<1>1. Inv => TypeOK
  BY DEF Inv
<1> QED
  BY <1>1, Invariance, PTL

\* A rebuild leaves nothing known that was found with another key, nor does one
\* that raises: only an answer that came too late can tell of one.
THEOREM OnlyLateAnswersMislead == Spec => []KnownIsCurrent
<1>1. Inv => KnownIsCurrent
  BY DEF Inv, KnownIsSigned, KnownIsCurrent, TypeOK, Known
<1> QED
  BY <1>1, Invariance, PTL

\* A rebuild with the same configuration acquits nobody.
THEOREM RebuildsKeepGuilt == Spec => GuiltIsKept
<1> DEFINE Kept == \A n \in Names :
      Guilty(n) /\ states'[n].status = "unknown" => signed'[n] # signed[n]
<1>1. Inv /\ [Next]_vars => [Kept]_vars
  <2> SUFFICES ASSUME Inv, Next, NEW n \in Names, Guilty(n), states'[n].status = "unknown"
               PROVE  signed'[n] # signed[n]
    BY DEF Kept
  <2>1. states[n].status # "unknown"
    BY DEF Guilty
  <2>2. ASSUME NEW r \in Rounds, Rebuild(r) \/ RaisesAfterSigning(r)
        PROVE  signed'[n] # signed[n]
    BY <2>1, <2>2 DEF Rebuild, RaisesAfterSigning, Raises, Forget
  <2>3. ASSUME NEW m \in Names, NEW k, NEW s \in {"online", "faulty", "rate_limit"},
               Record(m, k, s)
        PROVE  FALSE
    BY <2>1, <2>3 DEF Record, Inv, TypeOK
  <2>4. ASSUME NEW r \in Rounds, NEW m \in Names, Answer(r, m) PROVE FALSE
    BY <2>3, <2>4 DEF Answer, Verdicts
  <2>5. ASSUME NEW c \in Calls, NoteFailure(c) PROVE FALSE
    <3>1. calls[c].name \in Names
      BY <2>5 DEF NoteFailure, Inv, TypeOK, Asking
    <3> QED
      BY <2>3, <2>5, <3>1 DEF NoteFailure, Verdicts
  <2>6. ASSUME NEW m \in Names, Age(m) \/ Lift(m) PROVE FALSE
    BY <2>1, <2>6 DEF Age, Lift, Inv, TypeOK, Known
  <2>7. CASE UNCHANGED states
    BY <2>1, <2>7
  <2> QED
    BY <2>2, <2>4, <2>5, <2>6, <2>7
       DEF Next, RaisesBeforeSigning, RefreshRebuilt, RefreshHourly, RefreshForced, Gather, Check, Ask,
           Complete, Edit, EditElsewhere, Vendor
<1> QED
  BY <1>1, Invariance, PTL DEF Spec, GuiltIsKept
=============================================================================
