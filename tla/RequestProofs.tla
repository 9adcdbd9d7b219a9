---------------------------- MODULE RequestProofs ----------------------------
(***************************************************************************)
(* Theorems about the path of an action (Pipeline), for any calls, tools   *)
(* and settings, about the capabilities (Capabilities), for any callers,   *)
(* capabilities and effect ids, about the processes on one task table      *)
(* (Fleet), for any of them, about what is claimed to a person (Answers),  *)
(* for any sentences, plans and readings, and about the calls to models    *)
(* (Router), for any models, providers, rankings and budget.  No two of    *)
(* them share a variable.                                                  *)
(***************************************************************************)
EXTENDS Answers, Pipeline, Capabilities, Fleet, Router, OrderingProofs

Gated(c) == ToolOf[c].effects \cap NonNegotiable # {} \/ ~ToolOf[c].reversible

\* A call past the policy has been judged by settings that may have changed
\* since; what was judged then holds on: the effects that are not negotiable
\* do not depend on the settings.
PassedIsVouched ==
  \A c \in Calls : phase[c] # "idle" => ~ToolOf[c].guarded /\ (Gated(c) => c \in vouched)

UnderWayIsUnlogged ==
  \A c \in Calls : phase[c] # "idle" => rows[c] = 0

PathInv == PipelineTypeOK /\ PassedIsVouched /\ UnderWayIsUnlogged /\ EndsAreLogged
-----------------------------------------------------------------------------
\* What the policy lets through alone is neither guarded nor gated.
LEMMA AllowedIsHarmless ==
  ASSUME NEW c \in Calls, NEW a \in Configs, Evaluate(a, ToolOf[c]) = "allow"
  PROVE  ~ToolOf[c].guarded /\ ~Gated(c)
<1>1. NonNegotiable \subseteq ConfirmEffects(a)
  BY DEF ConfirmEffects
<1>2. ~ToolOf[c].guarded
  <2> SUFFICES ASSUME ToolOf[c].guarded PROVE FALSE
    OBVIOUS
  <2>1. Evaluate(a, ToolOf[c]) = "deny"
    BY DEF Evaluate
  <2> QED
    BY <2>1
<1>3. ~(ConfirmEffects(a) \cap ToolOf[c].effects # {} \/ ~ToolOf[c].reversible)
  BY <1>2 DEF Evaluate
<1> QED
  BY <1>1, <1>2, <1>3 DEF Gated

LEMMA ConfirmedIsNotGuarded ==
  ASSUME NEW c \in Calls, NEW a \in Configs, Evaluate(a, ToolOf[c]) = "confirm"
  PROVE  ~ToolOf[c].guarded
<1> QED
  BY DEF Evaluate

LEMMA PathInit == PipelineInit => PathInv
<1>1. PipelineInit => PipelineTypeOK
  BY PipelineAssumption DEF PipelineInit, PipelineTypeOK, Endings
<1>2. PipelineInit => PassedIsVouched /\ UnderWayIsUnlogged /\ EndsAreLogged
  BY DEF PipelineInit, PassedIsVouched, UnderWayIsUnlogged, EndsAreLogged
<1> QED
  BY <1>1, <1>2 DEF PathInv

\* A perform that ends before its lease: one row, and no vouching left.
LEMMA EndsAtOnce ==
  ASSUME PathInv, NEW c \in Calls, Begin(c), NEW how \in Endings \ {"left"}, EndsWith(c, how),
         answer' \in [Calls -> {"none", "pending", "approved", "denied"}]
  PROVE  PathInv'
<1> USE DEF PathInv, PipelineTypeOK, Begin, EndsWith
<1>1. PipelineTypeOK'
  <2>1. performs[c] + 1 \in 0 .. MaxPerforms
    BY PipelineAssumption
  <2>2. performs' \in [Calls -> 0 .. MaxPerforms] /\ rows' \in [Calls -> Nat]
    BY <2>1
  <2> QED
    BY <2>2
<1>2. PassedIsVouched' /\ UnderWayIsUnlogged'
  BY DEF PassedIsVouched, UnderWayIsUnlogged, Gated
<1>3. EndsAreLogged'
  BY DEF EndsAreLogged
<1> QED
  BY <1>1, <1>2, <1>3

\* A perform that ends after it: a row, unless the call just left.
LEMMA EndsLater ==
  ASSUME PathInv, NEW c \in Calls, phase[c] # "idle", NEW how \in Endings, End(c, how)
  PROVE  PathInv'
<1> USE DEF PathInv, PipelineTypeOK, End, RowsOf
<1>1. PipelineTypeOK'
  OBVIOUS
<1>2. PassedIsVouched' /\ UnderWayIsUnlogged'
  BY DEF PassedIsVouched, UnderWayIsUnlogged, Gated
<1>3. EndsAreLogged'
  BY DEF EndsAreLogged, UnderWayIsUnlogged
<1> QED
  BY <1>1, <1>2, <1>3

LEMMA PathProceeds ==
  ASSUME PathInv, NEW c \in Calls, Proceed(c)
  PROVE  PathInv'
<1> USE DEF PathInv, PipelineTypeOK, Begin, Proceed
<1>1. PipelineTypeOK'
  BY PipelineAssumption DEF Endings
<1>2. ~ToolOf[c].guarded /\ (Gated(c) => c \in vouched')
  BY AllowedIsHarmless, ConfirmedIsNotGuarded DEF Verdict
<1>3. PassedIsVouched'
  BY <1>2 DEF PassedIsVouched, Gated
<1>4. UnderWayIsUnlogged' /\ EndsAreLogged'
  BY DEF UnderWayIsUnlogged, EndsAreLogged
<1> QED
  BY <1>1, <1>3, <1>4

LEMMA PathStep == PathInv /\ [PipelineNext]_pipelineVars => PathInv'
<1> SUFFICES ASSUME PathInv, [PipelineNext]_pipelineVars PROVE PathInv'
  OBVIOUS
<1>1. ASSUME NEW c \in Calls, RejectInvalid(c) \/ Deny(c) PROVE PathInv'
  BY <1>1, EndsAtOnce DEF RejectInvalid, Deny, PathInv, PipelineTypeOK, Endings
<1>2. ASSUME NEW c \in Calls, RejectByUser(c) \/ AskUser(c) PROVE PathInv'
  BY <1>2, EndsAtOnce DEF RejectByUser, AskUser, PathInv, PipelineTypeOK, Endings
<1>3. ASSUME NEW c \in Calls, Proceed(c) PROVE PathInv'
  BY <1>3, PathProceeds
<1>4. ASSUME NEW c \in Calls, Acquire(c) PROVE PathInv'
  BY <1>4 DEF Acquire, PathInv, PipelineTypeOK, PassedIsVouched, UnderWayIsUnlogged,
              EndsAreLogged, Gated
<1>5. ASSUME NEW c \in Calls, LeaseTimeout(c) \/ CancelWaiting(c) PROVE PathInv'
  BY <1>5, EndsLater DEF LeaseTimeout, CancelWaiting, Endings
<1>6. ASSUME NEW c \in Calls, MissingSecret(c) \/ UnreadableSecret(c) PROVE PathInv'
  BY <1>6, EndsLater DEF MissingSecret, UnreadableSecret, Endings
<1>7. ASSUME NEW c \in Calls, Finish(c) \/ Fail(c) \/ Cancel(c) \/ NestedStop(c) PROVE PathInv'
  BY <1>7, EndsLater DEF Finish, Fail, Cancel, NestedStop, HasSecrets, Endings
<1>8. ASSUME NEW c \in Calls, AnswerTo(c) PROVE PathInv'
  BY <1>8 DEF AnswerTo, PathInv, PipelineTypeOK, PassedIsVouched, UnderWayIsUnlogged,
              EndsAreLogged, Gated
<1>9. CASE Configure \/ UNCHANGED pipelineVars
  BY <1>9 DEF Configure, pipelineVars, PathInv, PipelineTypeOK, PassedIsVouched,
              UnderWayIsUnlogged, EndsAreLogged, Gated
<1> QED
  BY <1>1, <1>2, <1>3, <1>4, <1>5, <1>6, <1>7, <1>8, <1>9 DEF PipelineNext

LEMMA PathInvariance == PipelineSpec => []PathInv
<1> QED
  BY PathInit, PathStep, PTL DEF PipelineSpec

\* Whatever the user sets and whenever, no handler whose effects are not
\* negotiable or whose work cannot be undone runs without a yes that was spent
\* for this perform, and nothing guarded runs at all (policy.py, executor.py).
THEOREM GatesHold == PipelineSpec => []GatedIsVouched
<1>1. PathInv => GatedIsVouched
  BY DEF PathInv, PassedIsVouched, GatedIsVouched, Gated
<1> QED
  BY <1>1, PathInvariance, PTL

\* A perform that has ended has left one audit row, unless it left without a
\* word in one of the three ways that RowsOf names (executor.py, audit.py).
THEOREM EndsLeaveRows == PipelineSpec => []EndsAreLogged
<1>1. PathInv => EndsAreLogged
  BY DEF PathInv
<1> QED
  BY <1>1, PathInvariance, PTL
-----------------------------------------------------------------------------
Results == {NoResult} \cup [offer : Offers, outcome : Outcomes, verdict : Verdicts]

CallsTyped ==
  /\ standing \in [Callers -> {"free", "running", "checking"}]
  /\ call \in [Callers -> [offer : Offers, effect : Ids]]
  /\ outcome \in [Callers -> Outcomes]
  /\ result \in [Callers -> Results] /\ performed \in [EffectIds -> Results]
  /\ acts \in [EffectIds -> 0 .. MaxActs]
  /\ overlapped \subseteq EffectIds /\ lost \subseteq EffectIds

\* What perform() returns or keeps as verified has the evidence it declares.
Earned(r) ==
  r # NoResult /\ r.verdict.ok /\ r.verdict.checked =>
    /\ r.outcome.ok /\ Declared[r.offer].evidence # {}
    /\ Declared[r.offer].evidence \subseteq r.outcome.evidence
ResultsAreEarned ==
  /\ \A c \in Callers : Earned(result[c])
  /\ \A e \in EffectIds : Earned(performed[e])

\* Of an effect that never overlapped, one call at most is under way; ...
OneUnderWay ==
  \A e \in EffectIds \ overlapped : \A c, d \in UnderWay(e) : c = d

\* ... and while nothing of it was lost either, a call under way has not acted
\* unless it has told so, ...
ActedHasTold ==
  \A e \in EffectIds \ (overlapped \cup lost) : \A c \in UnderWay(e) :
    acts[e] > 0 =>
      standing[c] = "checking" /\ outcome[c].ok /\ ~Declared[call[c].offer].reads

\* ... what was done is on record or about to be, and it was done once.
ActedIsKnown ==
  \A e \in EffectIds \ (overlapped \cup lost) :
    /\ acts[e] <= 1
    /\ acts[e] > 0 => performed[e] # NoResult \/ UnderWay(e) # {}

CapabilityInv ==
  CallsTyped /\ ResultsAreEarned /\ OneUnderWay /\ ActedHasTold /\ ActedIsKnown
-----------------------------------------------------------------------------
LEMMA APerformanceIsAResult ==
  ASSUME NEW o \in Offers, NEW out \in Outcomes, NEW verdict \in Verdicts
  PROVE  Performed(o, out, verdict) \in Results /\ Performed(o, out, verdict) # NoResult
<1>1. "verdict" \in DOMAIN Performed(o, out, verdict)
  BY DEF Performed
<1>2. "verdict" \notin DOMAIN NoResult
  BY DEF NoResult
<1> QED
  BY <1>1, <1>2 DEF Results, Performed

LEMMA TheJudgeWantsEvidence ==
  ASSUME NEW o \in Offers, NEW out \in Outcomes
  PROVE  /\ Judged(o, out) \in Verdicts
         /\ Earned(Performed(o, out, Judged(o, out)))
<1>1. Judged(o, out) \in Verdicts
  BY DEF Judged, Verdicts, Outcomes
<1>2. Judged(o, out).ok => out.ok /\ Declared[o].evidence # {} /\ Missing(o, out) = {}
  BY DEF Judged, Outcomes
<1>3. Missing(o, out) = {} => Declared[o].evidence \subseteq out.evidence
  BY DEF Missing
<1> QED
  BY <1>1, <1>2, <1>3 DEF Earned, Performed

LEMMA ARefusalIsNoClaim ==
  ASSUME NEW o \in Offers
  PROVE  Performed(o, NotRun, Refusal) \in Results /\ Earned(Performed(o, NotRun, Refusal))
<1>1. NotRun \in Outcomes /\ Refusal \in Verdicts /\ ~Refusal.ok
  BY DEF NotRun, Refusal, Outcomes, Verdicts
<1> QED
  BY <1>1, APerformanceIsAResult DEF Earned, Performed

LEMMA NobodyIsUnderWay ==
  ASSUME standing = [c \in Callers |-> "free"], NEW e
  PROVE  UnderWay(e) = {}
<1> QED
  BY DEF UnderWay

LEMMA NoCallIsACall ==
  NoCall \in [offer : Offers, effect : Ids] /\ NoCall.effect \notin EffectIds
<1>1. (CHOOSE o \in Offers : TRUE) \in Offers
  BY CapabilitiesAssumption
<1> QED
  BY <1>1, CapabilitiesAssumption DEF NoCall, Ids

LEMMA CapabilityInit == CapabilitiesInit => CapabilityInv
<1> SUFFICES ASSUME CapabilitiesInit PROVE CapabilityInv
  OBVIOUS
<1>1. CallsTyped
  <2>1. NotRun \in Outcomes
    BY DEF NotRun, Outcomes
  <2>2. 0 \in 0 .. MaxActs
    BY CapabilitiesAssumption
  <2> QED
    BY <2>1, <2>2, NoCallIsACall DEF CapabilitiesInit, CallsTyped, Results
<1>2. ResultsAreEarned
  BY DEF CapabilitiesInit, ResultsAreEarned, Earned
<1>3. OneUnderWay /\ ActedHasTold /\ ActedIsKnown
  BY NobodyIsUnderWay
     DEF CapabilitiesInit, OneUnderWay, ActedHasTold, ActedIsKnown
<1> QED
  BY <1>1, <1>2, <1>3 DEF CapabilityInv

\* What perform() answers before it calls an executor touches no effect.
LEMMA Answering ==
  ASSUME CapabilityInv, NEW c \in Callers, NEW r \in Results, Earned(r), Returns(c, r),
         UNCHANGED <<standing, call, outcome, performed, acts, overlapped, lost>>
  PROVE  CapabilityInv'
<1> USE DEF CapabilityInv, Returns
<1>1. CallsTyped'
  BY DEF CallsTyped
<1>2. ResultsAreEarned'
  BY DEF ResultsAreEarned, CallsTyped, Earned
<1>3. OneUnderWay' /\ ActedHasTold' /\ ActedIsKnown'
  BY DEF OneUnderWay, ActedHasTold, ActedIsKnown, UnderWay
<1> QED
  BY <1>1, <1>2, <1>3

LEMMA Executing ==
  ASSUME CapabilityInv, NEW c \in Callers, NEW o \in Offers, NEW e \in Ids, Execute(c, o, e)
  PROVE  CapabilityInv'
<1> USE DEF CapabilityInv
<1>1. CallsTyped'
  BY DEF Execute, CallsTyped, Ids, Results
<1>2. ResultsAreEarned'
  BY DEF Execute, ResultsAreEarned, CallsTyped, Earned
<1>3. \A f \in EffectIds : UnderWay(f)' = IF f = e THEN UnderWay(f) \cup {c} ELSE UnderWay(f)
  BY DEF Execute, UnderWay, CallsTyped
<1>4. \A f \in EffectIds \ overlapped' : f = e => UnderWay(f) = {}
  BY CapabilitiesAssumption DEF Execute
<1>5. OneUnderWay'
  BY <1>3, <1>4 DEF OneUnderWay, Execute
<1>6. ASSUME NEW f \in EffectIds \ (overlapped' \cup lost'), f = e PROVE acts[f] = 0
  <2>1. f \in EffectIds \ (overlapped \cup lost) /\ performed[f] = NoResult
    BY <1>6, CapabilitiesAssumption DEF Execute, Recorded
  <2>2. UnderWay(f) = {}
    BY <1>4, <1>6
  <2> QED
    BY <2>1, <2>2 DEF ActedIsKnown, CallsTyped
<1>7. ActedHasTold'
  <2> SUFFICES ASSUME NEW f \in EffectIds \ (overlapped' \cup lost'), NEW d \in UnderWay(f)',
                      acts'[f] > 0
               PROVE  /\ standing'[d] = "checking" /\ outcome'[d].ok
                      /\ ~Declared[call'[d].offer].reads
    BY DEF ActedHasTold
  <2>1. f # e
    BY <1>6 DEF Execute
  <2>2. d # c /\ d \in UnderWay(f)
    BY <1>3, <2>1 DEF UnderWay, Execute, CallsTyped
  <2> QED
    BY <2>2 DEF ActedHasTold, Execute, CallsTyped, UnderWay
<1>8. ActedIsKnown'
  BY <1>3 DEF ActedIsKnown, Execute
<1> QED
  BY <1>1, <1>2, <1>5, <1>7, <1>8

\* What the executor has told is on its way to the verifier.  Its act counts,
\* if the capability does not only read; before it told, it had not acted.
LEMMA ActsOnce ==
  ASSUME CapabilityInv, NEW c \in Callers, standing[c] = "running", Acts(c)
  PROVE  /\ acts' \in [EffectIds -> 0 .. MaxActs]
         /\ \A e \in EffectIds : acts'[e] # acts[e] =>
              c \in UnderWay(e) /\ ~Declared[call[c].offer].reads
         /\ \A e \in EffectIds \ (overlapped \cup lost) :
              c \in UnderWay(e) => acts[e] = 0 /\ acts'[e] <= 1
<1> USE DEF CapabilityInv, CallsTyped
<1>1. \A e \in EffectIds \ (overlapped \cup lost) : c \in UnderWay(e) => acts[e] = 0
  BY DEF ActedHasTold
<1>2. CASE call[c].effect \in EffectIds /\ ~Declared[call[c].offer].reads
  <2>1. /\ acts[call[c].effect] < MaxActs
        /\ acts' = [acts EXCEPT ![call[c].effect] = @ + 1]
    BY <1>2 DEF Acts
  <2>2. acts[call[c].effect] + 1 \in 0 .. MaxActs
    BY <1>2, <2>1, CapabilitiesAssumption
  <2>3. c \in UnderWay(call[c].effect)
    BY DEF UnderWay
  <2> QED
    BY <1>1, <1>2, <2>1, <2>2, <2>3
<1>3. CASE ~(call[c].effect \in EffectIds /\ ~Declared[call[c].offer].reads)
  BY <1>1, <1>3 DEF Acts
<1> QED
  BY <1>2, <1>3

LEMMA Telling ==
  ASSUME CapabilityInv, NEW c \in Callers, standing[c] = "running",
         NEW out \in Outcomes, outcome' = [outcome EXCEPT ![c] = out],
         standing' = [standing EXCEPT ![c] = "checking"],
         \/ Acts(c) /\ (out.ok \/ Loses(c))
         \/ UNCHANGED acts,
         Loses(c) \/ UNCHANGED lost,
         UNCHANGED <<call, result, performed, overlapped>>
  PROVE  CapabilityInv'
<1> USE DEF CapabilityInv
<1>1. \A e \in EffectIds : UnderWay(e)' = UnderWay(e)
  BY DEF UnderWay, CallsTyped
<1>2. lost \subseteq lost' /\ lost' \subseteq EffectIds
  BY DEF Loses, CallsTyped
<1>3. CallsTyped'
  BY <1>2, ActsOnce DEF CallsTyped
<1>4. ResultsAreEarned'
  BY DEF ResultsAreEarned, Earned
<1>5. OneUnderWay'
  BY <1>1 DEF OneUnderWay
<1>6. ASSUME NEW e \in EffectIds \ (overlapped' \cup lost'), NEW d \in UnderWay(e)', acts'[e] > 0
      PROVE  /\ standing'[d] = "checking" /\ outcome'[d].ok
             /\ ~Declared[call'[d].offer].reads
  <2>1. e \in EffectIds \ (overlapped \cup lost) /\ d \in UnderWay(e)
    BY <1>1, <1>2, <1>6
  <2>2. CASE acts'[e] = acts[e]
    <3>1. d # c /\ d \in Callers
      BY <1>6, <2>1, <2>2 DEF ActedHasTold, UnderWay
    <3> QED
      BY <1>6, <2>1, <2>2, <3>1 DEF ActedHasTold, CallsTyped
  <2>3. CASE acts'[e] # acts[e]
    <3>1. c \in UnderWay(e) /\ ~Declared[call[c].offer].reads /\ Acts(c)
      BY <2>3, ActsOnce
    <3>2. call[c].effect = e
      BY <3>1 DEF UnderWay
    <3>3. ~Loses(c)
      BY <1>6, <3>1, <3>2 DEF Loses
    <3>4. out.ok
      BY <2>3, <3>3
    <3>5. d = c
      BY <2>1, <3>1 DEF OneUnderWay
    <3> QED
      BY <3>1, <3>4, <3>5 DEF CallsTyped
  <2> QED
    BY <2>2, <2>3
<1>7. ActedIsKnown'
  <2> SUFFICES ASSUME NEW e \in EffectIds \ (overlapped \cup lost)
               PROVE  /\ acts'[e] <= 1
                      /\ acts'[e] > 0 => performed[e] # NoResult \/ UnderWay(e) # {}
    BY <1>1, <1>2 DEF ActedIsKnown
  <2>1. CASE acts'[e] = acts[e]
    BY <2>1 DEF ActedIsKnown
  <2>2. CASE acts'[e] # acts[e]
    BY <2>2, ActsOnce
  <2> QED
    BY <2>1, <2>2
<1> QED
  BY <1>3, <1>4, <1>5, <1>6, <1>7 DEF ActedHasTold

LEMMA OneLess ==
  ASSUME CallsTyped, NEW c \in Callers, Leaves(c), NEW e \in EffectIds
  PROVE  UnderWay(e)' = UnderWay(e) \ {c}
<1> QED
  BY NoCallIsACall DEF Leaves, UnderWay, CallsTyped

\* A call goes, with its effect recorded, or never having acted, or with the
\* loss on the books.
LEMMA Leaving ==
  ASSUME CapabilityInv, NEW c \in Callers, standing[c] # "free", Leaves(c),
         CallsTyped', ResultsAreEarned', overlapped' = overlapped, lost \subseteq lost',
         \A e \in EffectIds \ (overlapped \cup lost') :
           /\ acts'[e] = acts[e]
           /\ performed[e] # NoResult => performed'[e] # NoResult
           /\ c \in UnderWay(e) /\ acts[e] > 0 => performed'[e] # NoResult
  PROVE  CapabilityInv'
<1> USE DEF CapabilityInv
<1>1. \A e \in EffectIds : UnderWay(e)' = UnderWay(e) \ {c}
  BY OneLess
<1>2. OneUnderWay'
  BY <1>1 DEF OneUnderWay
<1>3. \A d \in Callers : d # c =>
        standing'[d] = standing[d] /\ call'[d] = call[d] /\ outcome'[d] = outcome[d]
  BY DEF Leaves, CallsTyped
<1>4. ActedHasTold'
  <2> SUFFICES ASSUME NEW e \in EffectIds \ (overlapped' \cup lost'), NEW d \in UnderWay(e)',
                      acts'[e] > 0
               PROVE  /\ standing'[d] = "checking" /\ outcome'[d].ok
                      /\ ~Declared[call'[d].offer].reads
    BY DEF ActedHasTold
  <2>1. d # c /\ d \in Callers /\ d \in UnderWay(e)
    BY <1>1 DEF UnderWay
  <2> QED
    BY <1>3, <2>1 DEF ActedHasTold
<1>5. ActedIsKnown'
  <2> SUFFICES ASSUME NEW e \in EffectIds \ (overlapped \cup lost')
               PROVE  /\ acts[e] <= 1
                      /\ acts[e] > 0 => performed'[e] # NoResult \/ UnderWay(e) \ {c} # {}
    BY <1>1 DEF ActedIsKnown
  <2>1. acts[e] <= 1 /\ (acts[e] > 0 => performed[e] # NoResult \/ UnderWay(e) # {})
    BY DEF ActedIsKnown
  <2> QED
    BY <2>1
<1> QED
  BY <1>2, <1>4, <1>5

LEMMA Concluding ==
  ASSUME CapabilityInv, NEW c \in Callers, Conclude(c)
  PROVE  CapabilityInv'
<1> DEFINE done == Performed(call[c].offer, outcome[c], Judged(call[c].offer, outcome[c]))
<1> USE DEF CapabilityInv
<1>1. done \in Results /\ done # NoResult /\ Earned(done)
  BY TheJudgeWantsEvidence, APerformanceIsAResult DEF CallsTyped
<1>2. /\ result' = [result EXCEPT ![c] = done]
      /\ performed' = IF call[c].effect # NoEffect /\ outcome[c].ok
                      THEN [performed EXCEPT ![call[c].effect] = done] ELSE performed
      /\ call[c].effect \in EffectIds \cup {NoEffect}
      /\ UNCHANGED <<acts, overlapped, lost>>
  BY DEF Conclude, Returns, CallsTyped, Ids
<1> HIDE DEF done
<1>3. CallsTyped'
  <2>1. NotRun \in Outcomes
    BY DEF NotRun, Outcomes
  <2> QED
    BY <1>1, <1>2, <2>1, NoCallIsACall DEF CallsTyped, Conclude, Leaves
<1>4. ResultsAreEarned'
  <2>1. \A d \in Callers : result'[d] = done \/ result'[d] = result[d]
    BY <1>2 DEF CallsTyped
  <2>2. \A e \in EffectIds : performed'[e] = done \/ performed'[e] = performed[e]
    BY <1>2 DEF CallsTyped
  <2>3. (\A d \in Callers : Earned(result'[d])) /\ (\A e \in EffectIds : Earned(performed'[e]))
    BY <1>1, <2>1, <2>2 DEF ResultsAreEarned
  <2> QED
    BY <2>3 DEF ResultsAreEarned, Earned
<1>5. ASSUME NEW e \in EffectIds \ (overlapped \cup lost')
      PROVE  /\ performed[e] # NoResult => performed'[e] # NoResult
             /\ c \in UnderWay(e) /\ acts[e] > 0 => performed'[e] # NoResult
  <2>1. performed'[e] = done \/ performed'[e] = performed[e]
    BY <1>2 DEF CallsTyped
  <2>2. ASSUME c \in UnderWay(e), acts[e] > 0 PROVE performed'[e] = done
    <3>1. outcome[c].ok /\ call[c].effect = e
      BY <1>2, <2>2 DEF ActedHasTold, UnderWay
    <3> QED
      BY <1>2, <3>1, CapabilitiesAssumption DEF CallsTyped
  <2> QED
    BY <1>1, <2>1, <2>2
<1> QED
  BY <1>2, <1>3, <1>4, <1>5, Leaving DEF Conclude

LEMMA Abandoning ==
  ASSUME CapabilityInv, NEW c \in Callers, Abandon(c)
  PROVE  CapabilityInv'
<1> USE DEF CapabilityInv
<1>1. lost \subseteq lost' /\ lost' \subseteq EffectIds
  BY DEF Abandon, Loses, CallsTyped
<1>2. acts' \in [EffectIds -> 0 .. MaxActs]
  BY ActsOnce DEF Abandon, CallsTyped
<1>3. CallsTyped'
  <2>1. NotRun \in Outcomes
    BY DEF NotRun, Outcomes
  <2> QED
    BY <1>1, <1>2, <2>1, NoCallIsACall DEF CallsTyped, Abandon, Leaves
<1>4. ResultsAreEarned'
  BY DEF ResultsAreEarned, Earned, Abandon
<1>5. ASSUME NEW e \in EffectIds \ (overlapped \cup lost')
      PROVE  acts'[e] = acts[e] /\ ~(c \in UnderWay(e) /\ acts[e] > 0)
  <2>1. e \in EffectIds \ (overlapped \cup lost)
    BY <1>1
  <2>2. CASE standing[c] = "running" /\ Acts(c) /\ Loses(c)
    <3>1. acts'[e] = acts[e]
      <4>1. SUFFICES ASSUME acts'[e] # acts[e] PROVE FALSE
        OBVIOUS
      <4>2. c \in UnderWay(e) /\ ~Declared[call[c].offer].reads
        BY <2>2, <4>1, ActsOnce
      <4>3. call[c].effect = e
        BY <4>2 DEF UnderWay
      <4> QED
        BY <2>2, <4>2, <4>3 DEF Loses
    <3> QED
      BY <2>1, <2>2, <3>1 DEF ActedHasTold
  <2>3. CASE standing[c] = "checking" /\ outcome[c].ok /\ Loses(c) /\ UNCHANGED acts
    <3>1. SUFFICES ASSUME c \in UnderWay(e), acts[e] > 0 PROVE FALSE
      BY <2>3
    <3>2. ~Declared[call[c].offer].reads /\ call[c].effect = e
      BY <2>1, <3>1 DEF ActedHasTold, UnderWay
    <3> QED
      BY <2>3, <3>2 DEF Loses
  <2>4. CASE standing[c] # "free" /\ ~outcome[c].ok /\ UNCHANGED <<acts, lost>>
    BY <2>1, <2>4 DEF ActedHasTold
  <2> QED
    BY <2>2, <2>3, <2>4 DEF Abandon
<1> QED
  BY <1>1, <1>3, <1>4, <1>5, Leaving DEF Abandon

LEMMA Restarting ==
  ASSUME CapabilityInv, Restart
  PROVE  CapabilityInv'
<1> USE DEF CapabilityInv, Restart
<1>1. CallsTyped'
  <2>1. NotRun \in Outcomes
    BY DEF NotRun, Outcomes
  <2> QED
    BY <2>1, NoCallIsACall DEF CallsTyped, Results
<1>2. ResultsAreEarned'
  BY DEF ResultsAreEarned, Earned
<1>3. \A e : UnderWay(e)' = {}
  BY DEF UnderWay
<1>4. OneUnderWay' /\ ActedHasTold'
  BY <1>3 DEF OneUnderWay, ActedHasTold
<1>5. ActedIsKnown'
  BY DEF ActedIsKnown, CallsTyped
<1> QED
  BY <1>1, <1>2, <1>4, <1>5

LEMMA CapabilityStep == CapabilityInv /\ [CapabilitiesNext]_capabilityVars => CapabilityInv'
<1> SUFFICES ASSUME CapabilityInv, [CapabilitiesNext]_capabilityVars PROVE CapabilityInv'
  OBVIOUS
<1>1. ASSUME NEW c \in Callers, NEW o \in Offers, NEW e \in Ids,
             RefuseHere(c, o, e) \/ RefuseArguments(c, o, e)
      PROVE  CapabilityInv'
  BY <1>1, ARefusalIsNoClaim, Answering DEF RefuseHere, RefuseArguments
<1>2. ASSUME NEW c \in Callers, NEW o \in Offers, NEW e \in Ids, Replay(c, o, e)
      PROVE  CapabilityInv'
  <2>1. e \in EffectIds
    BY <1>2 DEF Replay, Recorded, Ids
  <2>2. performed[e] \in Results /\ Earned(performed[e])
    BY <2>1 DEF CapabilityInv, CallsTyped, ResultsAreEarned
  <2> QED
    BY <1>2, <2>2, Answering DEF Replay
<1>3. ASSUME NEW c \in Callers, NEW o \in Offers, NEW e \in Ids, Execute(c, o, e)
      PROVE  CapabilityInv'
  BY <1>3, Executing
<1>4. ASSUME NEW c \in Callers, Succeed(c) \/ FailCleanly(c) PROVE CapabilityInv'
  <2>1. \A seen \in SUBSET Measured, ok \in BOOLEAN :
          LET out == [ok |-> ok, evidence |-> seen, uncertain |-> FALSE]
          IN  out \in Outcomes /\ out.ok = ok
    BY DEF Outcomes
  <2>2. PICK out \in Outcomes :
          /\ outcome' = [outcome EXCEPT ![c] = out]
          /\ (Acts(c) /\ out.ok) \/ UNCHANGED acts
    <3>1. CASE Succeed(c)
      BY <2>1, <3>1 DEF Succeed
    <3>2. CASE FailCleanly(c)
      BY <2>1, <3>2 DEF FailCleanly
    <3> QED
      BY <1>4, <3>1, <3>2
  <2> QED
    BY <1>4, <2>2, Telling DEF Succeed, FailCleanly
<1>5. ASSUME NEW c \in Callers, Raise(c) PROVE CapabilityInv'
  <2>1. /\ call[c].offer \in Offers
        /\ [ok |-> FALSE, evidence |-> {}, uncertain |-> ~Declared[call[c].offer].reads] \in Outcomes
    BY CapabilitiesAssumption DEF CapabilityInv, CallsTyped, Outcomes
  <2> QED
    BY <1>5, <2>1, Telling DEF Raise
<1>6. ASSUME NEW c \in Callers, Conclude(c) PROVE CapabilityInv'
  BY <1>6, Concluding
<1>7. ASSUME NEW c \in Callers, Abandon(c) PROVE CapabilityInv'
  BY <1>7, Abandoning
<1>8. ASSUME Restart PROVE CapabilityInv'
  BY <1>8, Restarting
<1>9. CASE UNCHANGED capabilityVars
  BY <1>9 DEF capabilityVars, CapabilityInv, CallsTyped, ResultsAreEarned, Earned,
              OneUnderWay, ActedHasTold, ActedIsKnown, UnderWay
<1> QED
  BY <1>1, <1>2, <1>3, <1>4, <1>5, <1>6, <1>7, <1>8, <1>9 DEF CapabilitiesNext

LEMMA CapabilityInvariance == CapabilitiesSpec => []CapabilityInv
<1> QED
  BY CapabilityInit, CapabilityStep, PTL DEF CapabilitiesSpec

\* An effect happens once under its id, but for overlapping calls and acts that
\* went unrecorded, for any number of callers, capabilities and ids
\* (CapabilityRegistry.perform).
THEOREM EffectsHappenOnce == CapabilitiesSpec => []OnceUnlessLost
<1>1. CapabilityInv => OnceUnlessLost
  BY DEF CapabilityInv, ActedIsKnown, OnceUnlessLost, CallsTyped
<1> QED
  BY <1>1, CapabilityInvariance, PTL

\* Nothing that is run, replayed or refused is called verified without all of
\* the evidence its capability declares (evidence_verifier, missing_evidence).
THEOREM EvidenceIsDemanded == CapabilitiesSpec => []VerifiedHasEvidence
<1>1. CapabilityInv => VerifiedHasEvidence
  BY DEF CapabilityInv, ResultsAreEarned, Earned, VerifiedHasEvidence
<1> QED
  BY <1>1, CapabilityInvariance, PTL
-----------------------------------------------------------------------------
\* A task nobody has meddled with has one process at work on it at most, and
\* none once its row says that it ended or before it says that it began.
OneWorks ==
  \A t \in Jobs \ meddled :
    /\ \A p, q \in Workers(t) : p = q
    /\ entry[t] \in Ended \cup {"absent"} => Workers(t) = {}

FleetInv == FleetTypeOK /\ OneWorks

LEMMA FleetStarts == FleetInit => FleetInv
BY DEF FleetInit, FleetInv, FleetTypeOK, OneWorks, NoWork, Workers

LEMMA FleetTypeStep == FleetTypeOK /\ [FleetNext]_fleetVars => FleetTypeOK'
<1> SUFFICES ASSUME FleetTypeOK, [FleetNext]_fleetVars PROVE FleetTypeOK'
  OBVIOUS
<1> DEFINE Works == [Jobs -> {"none", "queued", "running"}]
<1>0. \A p \in Processes, f \in Works :
        work' = [work EXCEPT ![p] = f] => work' \in [Processes -> Works]
  BY DEF FleetTypeOK
<1>1. ASSUME NEW p \in Processes, NEW T, Launched(p, T) PROVE work' \in [Processes -> Works]
  <2> DEFINE f == [t \in Jobs |->
               IF t \in T /\ work[p][t] = "none" THEN "queued" ELSE work[p][t]]
  <2>1. f \in Works
    BY DEF FleetTypeOK
  <2>2. work' = [work EXCEPT ![p] = f]
    BY <1>1 DEF Launched, FleetTypeOK
  <2> HIDE DEF f
  <2> QED
    BY <2>1, <2>2, <1>0
<1>2. ASSUME NEW p \in Processes, NEW t \in Jobs, NEW s \in {"none", "running"},
             work' = [work EXCEPT ![p][t] = s]
      PROVE  work' \in [Processes -> Works]
  <2>1. [work[p] EXCEPT ![t] = s] \in Works
    BY DEF FleetTypeOK
  <2> QED
    BY <2>1, <1>0, <1>2
<1>3. ASSUME NEW p \in Processes, Exit(p)
      PROVE  /\ work' \in [Processes -> Works]
             /\ doing' \in [Processes -> {"off", "serving", "do", "answer"}]
             /\ waitsFor' \in [Processes -> SUBSET Jobs]
  BY <1>3 DEF Exit, NoWork, FleetTypeOK
<1>4. ASSUME NEW t \in Jobs, NEW s \in Open \cup Ended, Enter(t, s)
      PROVE  entry' \in [Jobs -> {"absent"} \cup Open \cup Ended]
  BY <1>4 DEF Enter, FleetTypeOK
<1>5. {"pending", "running", "blocked"} \subseteq Open /\ {"stopped", "finished", "failed"} \subseteq Ended
  BY DEF Open, Ended
<1>6. ASSUME NEW p \in Processes, NEW T \in SUBSET Jobs, Meddles(p, T) PROVE meddled' \subseteq Jobs
  BY <1>6 DEF Meddles, FleetTypeOK
<1>6a. ASSUME NEW p \in Processes, NEW t \in Jobs, NEW what \in {"do", "answer"},
              Command(p, what, t)
       PROVE  /\ doing' \in [Processes -> {"off", "serving", "do", "answer"}]
              /\ waitsFor' \in [Processes -> SUBSET Jobs]
  <2>1. doing' \in [Processes -> {"off", "serving", "do", "answer"}]
    BY <1>6a DEF Command, FleetTypeOK
  <2>2. waitsFor' \in [Processes -> SUBSET Jobs]
    BY <1>6a DEF Command, FleetTypeOK
  <2> QED
    BY <2>1, <2>2
<1> HIDE DEF Works
<1>7. ASSUME NEW p \in Processes, Serve(p) PROVE FleetTypeOK'
  BY <1>1, <1>6, <1>7 DEF Serve, LeftRunning, FleetTypeOK, Works
<1>8. ASSUME NEW p \in Processes, Interrupted(p) PROVE FleetTypeOK'
  <2>1. PICK T \in SUBSET Jobs :
          /\ entry' = [t \in Jobs |-> IF t \in T THEN "stopped" ELSE entry[t]]
          /\ Meddles(p, T)
    BY <1>8 DEF Interrupted
  <2>2. entry' \in [Jobs -> {"absent"} \cup Open \cup Ended]
    BY <2>1, <1>5 DEF FleetTypeOK
  <2>3. meddled' \subseteq Jobs
    BY <2>1, <1>6
  <2> QED
    BY <2>2, <2>3, <1>3, <1>8 DEF Interrupted, FleetTypeOK, Works
<1>9. ASSUME NEW p \in Processes, NEW t \in Jobs, Submit(p, t) \/ Do(p, t) PROVE FleetTypeOK'
  <2>1. Launched(p, {t}) /\ Enter(t, "pending") /\ meddled' = meddled
    BY <1>9 DEF Submit, Do, Accept
  <2>2. /\ doing' \in [Processes -> {"off", "serving", "do", "answer"}]
        /\ waitsFor' \in [Processes -> SUBSET Jobs]
    BY <1>6a, <1>9 DEF Submit, Do, FleetTypeOK
  <2>3. work' \in [Processes -> Works] /\ entry' \in [Jobs -> {"absent"} \cup Open \cup Ended]
    BY <2>1, <1>1, <1>4, <1>5
  <2> QED
    BY <2>1, <2>2, <2>3 DEF FleetTypeOK, Works
<1>10. ASSUME NEW p \in Processes, NEW t \in Jobs, Resume(p, t) \/ Answer(p, t) PROVE FleetTypeOK'
  <2>1. Launched(p, {t}) /\ Enter(t, "pending") /\ Meddles(p, {t})
    BY <1>10 DEF Resume, Answer, Reenter
  <2>2. /\ doing' \in [Processes -> {"off", "serving", "do", "answer"}]
        /\ waitsFor' \in [Processes -> SUBSET Jobs]
    BY <1>6a, <1>10 DEF Resume, Answer, FleetTypeOK
  <2>3. work' \in [Processes -> Works] /\ entry' \in [Jobs -> {"absent"} \cup Open \cup Ended]
    BY <2>1, <1>1, <1>4, <1>5
  <2> QED
    BY <2>1, <2>2, <2>3, <1>6 DEF FleetTypeOK, Works
<1>11. ASSUME NEW p \in Processes, NEW t \in Jobs,
              CancelOwn(p, t) \/ StopRow(p, t) \/ Run(p, t) \/ Return(p, t)
       PROVE  FleetTypeOK'
  <2>1. /\ UNCHANGED <<doing, waitsFor>>
        /\ meddled' = meddled \/ Meddles(p, {t})
    BY <1>11 DEF CancelOwn, StopRow, Run, Return
  <2>2. work' = work \/ \E s \in {"none", "running"} : work' = [work EXCEPT ![p][t] = s]
    BY <1>11 DEF CancelOwn, StopRow, Run, Return
  <2>3. entry' = entry \/ \E s \in Open \cup Ended : Enter(t, s)
    BY <1>5, <1>11 DEF CancelOwn, StopRow, Run, Return
  <2>4. work' \in [Processes -> Works]
    BY <2>2, <1>2 DEF FleetTypeOK, Works
  <2>5. entry' \in [Jobs -> {"absent"} \cup Open \cup Ended]
    BY <2>3, <1>4 DEF FleetTypeOK
  <2>6. meddled' \subseteq Jobs
    BY <2>1, <1>6 DEF FleetTypeOK
  <2> QED
    BY <2>1, <2>4, <2>5, <2>6 DEF FleetTypeOK, Works
<1>12. ASSUME NEW p \in Processes, NEW t \in Jobs, Reported(p, t) \/ StillWorking(p, t)
       PROVE  FleetTypeOK'
  BY <1>3, <1>12 DEF Reported, StillWorking, FleetTypeOK, Works
<1>13. CASE UNCHANGED fleetVars
  BY <1>13 DEF fleetVars, FleetTypeOK
<1> QED
  BY <1>7, <1>8, <1>9, <1>10, <1>11, <1>12, <1>13 DEF FleetNext

\* What p launches makes it a worker, and nobody else.
LEMMA Launching ==
  ASSUME FleetTypeOK, NEW p \in Processes, NEW T \in SUBSET Jobs, Launched(p, T), NEW t \in Jobs
  PROVE  Workers(t)' = IF t \in T THEN Workers(t) \cup {p} ELSE Workers(t)
<1>1. \A q \in Processes \ {p} : work'[q] = work[q]
  BY DEF Launched, FleetTypeOK
<1>2. work'[p][t] # "none" <=> work[p][t] # "none" \/ t \in T
  BY DEF Launched, FleetTypeOK
<1> QED
  BY <1>1, <1>2 DEF Workers

\* Whoever works on a task that another process touches has been meddled with.
LEMMA Touching ==
  ASSUME FleetInv, NEW p \in Processes, NEW T \in SUBSET Jobs, Launched(p, T), Meddles(p, T),
         \A t \in Jobs : IF t \in T THEN entry'[t] \in {"pending", "running"}
                                    ELSE entry'[t] = entry[t]
  PROVE  OneWorks'
<1> SUFFICES ASSUME NEW t \in Jobs \ meddled'
             PROVE  /\ \A q, r \in Workers(t)' : q = r
                    /\ entry'[t] \in Ended \cup {"absent"} => Workers(t)' = {}
  BY DEF OneWorks
<1>1. t \notin meddled /\ (t \in T => Workers(t) \ {p} = {})
  BY DEF Meddles
<1>2. Workers(t)' = IF t \in T THEN Workers(t) \cup {p} ELSE Workers(t)
  BY Launching DEF FleetInv
<1> QED
  BY <1>1, <1>2 DEF FleetInv, OneWorks, Ended

LEMMA FleetStep == FleetInv /\ [FleetNext]_fleetVars => FleetInv'
<1> SUFFICES ASSUME FleetInv, [FleetNext]_fleetVars PROVE OneWorks'
  BY FleetTypeStep DEF FleetInv
<1> USE DEF FleetInv
<1>1. ASSUME NEW p \in Processes, Serve(p) PROVE OneWorks'
  <2>1. /\ LeftRunning \in SUBSET Jobs
        /\ Launched(p, LeftRunning) /\ Meddles(p, LeftRunning)
        /\ \A t \in Jobs : IF t \in LeftRunning THEN entry'[t] \in {"pending", "running"}
                                                ELSE entry'[t] = entry[t]
    BY <1>1 DEF Serve, LeftRunning
  <2> QED
    BY <2>1, Touching
<1>2. ASSUME NEW p \in Processes, Interrupted(p) PROVE OneWorks'
  <2>1. PICK T \in SUBSET Jobs :
          /\ entry' = [t \in Jobs |-> IF t \in T THEN "stopped" ELSE entry[t]]
          /\ Meddles(p, T)
          /\ Exit(p)
    BY <1>2 DEF Interrupted
  <2>2. \A t \in Jobs : Workers(t)' = Workers(t) \ {p}
    BY <2>1 DEF Exit, NoWork, Workers, FleetTypeOK
  <2> QED
    BY <2>1, <2>2 DEF OneWorks, Meddles, Ended
<1>3. ASSUME NEW p \in Processes, NEW t \in Jobs, Submit(p, t) \/ Do(p, t) PROVE OneWorks'
  <2>1. entry[t] = "absent" /\ Launched(p, {t}) /\ meddled' = meddled
    BY <1>3 DEF Submit, Do, Accept
  <2>2. entry' = [entry EXCEPT ![t] = "pending"]
    BY <1>3 DEF Submit, Do, Accept, Enter
  <2>3. Workers(t)' = Workers(t) \cup {p}
    BY <2>1, Launching
  <2>4. \A u \in Jobs \ {t} : Workers(u)' = Workers(u)
    BY <2>1, Launching
  <2> QED
    BY <2>1, <2>2, <2>3, <2>4 DEF OneWorks, FleetTypeOK, Ended
<1>4. ASSUME NEW p \in Processes, NEW t \in Jobs, Resume(p, t) \/ Answer(p, t) PROVE OneWorks'
  <2>1. /\ Launched(p, {t}) /\ Meddles(p, {t})
        /\ \A u \in Jobs : IF u \in {t} THEN entry'[u] \in {"pending", "running"}
                                        ELSE entry'[u] = entry[u]
    BY <1>4 DEF Resume, Answer, Reenter, Enter, FleetTypeOK
  <2> QED
    BY <2>1, Touching
<1>5. ASSUME NEW p \in Processes, NEW t \in Jobs, CancelOwn(p, t) PROVE OneWorks'
  <2>1. /\ p \in Workers(t) /\ Workers(t)' = Workers(t) \ {p}
        /\ \A u \in Jobs \ {t} : Workers(u)' = Workers(u) /\ entry'[u] = entry[u]
    BY <1>5 DEF CancelOwn, Workers, Enter, FleetTypeOK
  <2>2. entry'[t] \in {"stopped", entry[t]}
    BY <1>5 DEF CancelOwn, Enter, FleetTypeOK
  <2> QED
    BY <1>5, <2>1, <2>2 DEF CancelOwn, OneWorks, Meddles
<1>6. ASSUME NEW p \in Processes, NEW t \in Jobs, StopRow(p, t) PROVE OneWorks'
  <2>1. p \notin Workers(t) /\ \A u \in Jobs : Workers(u)' = Workers(u)
    BY <1>6 DEF StopRow, NoCoroutine, Workers
  <2>2. \A u \in Jobs \ {t} : entry'[u] = entry[u]
    BY <1>6 DEF StopRow, Enter, FleetTypeOK
  <2> QED
    BY <1>6, <2>1, <2>2 DEF StopRow, OneWorks, Meddles
<1>7. ASSUME NEW p \in Processes, NEW t \in Jobs, Run(p, t) PROVE OneWorks'
  <2>1. \A u \in Jobs : Workers(u)' = Workers(u)
    BY <1>7 DEF Run, Workers, FleetTypeOK
  <2>2. entry' = [entry EXCEPT ![t] = "running"] /\ meddled' = meddled
    BY <1>7 DEF Run, Enter
  <2> QED
    BY <2>1, <2>2 DEF OneWorks, FleetTypeOK, Ended
<1>8. ASSUME NEW p \in Processes, NEW t \in Jobs, Return(p, t) PROVE OneWorks'
  <2>1. /\ p \in Workers(t) /\ Workers(t)' = Workers(t) \ {p}
        /\ \A u \in Jobs \ {t} : Workers(u)' = Workers(u) /\ entry'[u] = entry[u]
    BY <1>8 DEF Return, Workers, Enter, FleetTypeOK
  <2> QED
    BY <1>8, <2>1 DEF Return, OneWorks
<1>9. ASSUME NEW p \in Processes, NEW t \in Jobs, Reported(p, t) \/ StillWorking(p, t)
      PROVE OneWorks'
  <2>1. Exit(p) /\ UNCHANGED <<entry, meddled>>
    BY <1>9 DEF Reported, StillWorking
  <2>2. \A u \in Jobs : Workers(u)' \subseteq Workers(u)
    BY <2>1 DEF Exit, NoWork, Workers, FleetTypeOK
  <2> QED
    BY <2>1, <2>2 DEF OneWorks
<1>10. CASE UNCHANGED fleetVars
  BY <1>10 DEF fleetVars, OneWorks, Workers
<1> QED
  BY <1>1, <1>2, <1>3, <1>4, <1>5, <1>6, <1>7, <1>8, <1>9, <1>10 DEF FleetNext

LEMMA FleetInvariance == FleetSpec => []FleetInv
<1> QED
  BY FleetStarts, FleetStep, PTL DEF FleetSpec

\* For any servers, commands and tasks, each launching, stopping and recovering
\* what it likes on one table: a task that no process touched while another one
\* worked on it is worked on by one of them, and by none once it ended
\* (TaskSupervisor, cmd_do, cmd_stop, cmd_approve).
THEOREM WorkIsAloneUnlessMeddled == FleetSpec => []AloneUnlessMeddled
<1>1. ASSUME FleetInv PROVE AloneUnlessMeddled
  <2> SUFFICES ASSUME NEW t \in Jobs \ meddled
               PROVE  Cardinality(Workers(t)) <= 1 /\ (entry[t] \in Ended => Workers(t) = {})
    BY DEF AloneUnlessMeddled
  <2>1. entry[t] \in Ended => Workers(t) = {}
    BY <1>1 DEF FleetInv, OneWorks
  <2>2. CASE Workers(t) = {}
    BY <2>1, <2>2, FS_EmptySet
  <2>3. CASE Workers(t) # {}
    <3>1. PICK p : p \in Workers(t)
      BY <2>3
    <3>2. Workers(t) = {p}
      BY <1>1, <3>1 DEF FleetInv, OneWorks
    <3>3. Cardinality({p}) = 1
      BY FS_Singleton
    <3> QED
      BY <2>1, <3>2, <3>3
  <2> QED
    BY <2>2, <2>3
<1> QED
  BY <1>1, FleetInvariance, PTL
-----------------------------------------------------------------------------
\* Evidence is a sequence; before there is a plan nothing was repaired.
EvidenceIsListed ==
  /\ evidence \in Seq({evidence[i] : i \in DOMAIN evidence})
  /\ stage \in {"asking", "planning"} => replans = 0

\* A plan that still counts as a reflex's is one, and it was never repaired: the
\* planner that had no repair leaves a failure behind.
ReflexIsWhole ==
  origin = "reflex" /\ stage \in {"working", "repairing", "verifying"} =>
    /\ Instinct(said) # <<>>
    /\ stage = "working" => replans = 0
    /\ stage = "verifying" => replans = 0 \/ Are("failed") # {}

AnswersInv == EvidenceIsListed /\ ReflexIsWhole /\ VerifiedIsEarned

LEMMA ClaimsStart == AnswersInit => AnswersInv
<1> SUFFICES ASSUME AnswersInit PROVE AnswersInv
  OBVIOUS
<1>1. stage = "idle" /\ evidence = <<>>
  BY DEF AnswersInit
<1>2. evidence \in Seq({evidence[i] : i \in DOMAIN evidence})
  BY <1>1
<1> QED
  BY <1>1, <1>2 DEF AnswersInv, EvidenceIsListed, ReflexIsWhole, VerifiedIsEarned

\* A step's end is noted after those before it.
LEMMA Listing ==
  ASSUME EvidenceIsListed, NEW r, NEW reading, StepEnds(r, reading)
  PROVE  /\ evidence' \in Seq({evidence'[i] : i \in DOMAIN evidence'})
         /\ Are(r)' # {}
<1> DEFINE x == Result(r, reading)
           S == {evidence[i] : i \in DOMAIN evidence} \cup {x}
<1>1. evidence \in Seq(S) /\ evidence' = Append(evidence, x)
  BY DEF EvidenceIsListed, StepEnds
<1>2. x.result = r /\ x \in S
  BY DEF Result
<1> HIDE DEF x, S
<1>3. /\ evidence' \in Seq(S)
      /\ Len(evidence') \in DOMAIN evidence'
      /\ evidence'[Len(evidence')] = x
  BY <1>1, <1>2
<1>4. evidence' \in Seq({evidence'[i] : i \in DOMAIN evidence'})
  BY <1>3
<1> QED
  BY <1>2, <1>3, <1>4 DEF Are

\* What a report says of itself, ...
LEMMA Reporting ==
  ASSUME NEW met, NEW checked, Report(met, checked)
  PROVE  stage' = "told" /\ (told'.verified => met /\ checked)
BY Zenon DEF Report, Tell, Say

\* ... and what is told by anybody but the verifier is not called verified.
LEMMA Chatting ==
  ASSUME NEW kind, Tell(Say(kind, "none", FALSE))
  PROVE  stage' = "told" /\ ~told'.verified
BY Zenon DEF Tell, Say

\* What the verifier's model leaves: a report, checked only by a verdict that counts.
LEMMA Judging ==
  ASSUME NEW j, AskVerifier(j)
  PROVE  stage' = "told" /\ (told'.verified => Counts(j) /\ j.ok)
<1>1. (Counts(j) /\ Report(j.ok, TRUE)) \/ (~Counts(j) /\ Report(TRUE, FALSE))
  BY Zenon DEF AskVerifier
<1>2. CASE Counts(j) /\ Report(j.ok, TRUE)
  <2>1. stage' = "told" /\ (told'.verified => j.ok /\ TRUE)
    BY <1>2, Zenon DEF Report, Tell, Say
  <2> QED
    BY <1>2, <2>1
<1>3. CASE Report(TRUE, FALSE)
  <2>1. stage' = "told" /\ ~told'.verified
    BY <1>3, Reporting
  <2> QED
    BY <2>1
<1> QED
  BY <1>1, <1>2, <1>3

LEMMA Claiming ==
  ASSUME AnswersInv, [AnswersNext]_answersVars
  PROVE  AnswersInv'
<1> USE DEF AnswersInv, Goes
<1>1. ASSUME NEW s \in Sentences, Reply(s) \/ AskTheModel(s) \/ StartTask(s) PROVE AnswersInv'
  <2>1. evidence' = <<>> /\ replans' = 0 /\ stage' \in {"told", "asking", "planning"}
    BY <1>1, Chatting DEF Reply, AskTheModel, StartTask, Hear
  <2>2. stage' = "told" => ~told'.verified
    BY <1>1, Chatting DEF Reply, AskTheModel, StartTask
  <2>3. evidence' \in Seq({evidence'[i] : i \in DOMAIN evidence'})
    BY <2>1
  <2> QED
    BY <2>1, <2>2, <2>3 DEF EvidenceIsListed, ReflexIsWhole, VerifiedIsEarned
<1>2. CASE ModelDecides \/ NoPlan \/ StepParks
  <2>1. /\ \/ stage' = "told" /\ ~told'.verified
           \/ stage' = "planning" /\ stage = "asking"
        /\ UNCHANGED <<said, origin, steps, evidence, replans, judge>>
    BY <1>2, Chatting DEF ModelDecides, NoPlan, StepParks
  <2> QED
    BY <2>1 DEF EvidenceIsListed, ReflexIsWhole, VerifiedIsEarned
<1>3. CASE PlanByInstinct
  BY <1>3 DEF PlanByInstinct, EvidenceIsListed, ReflexIsWhole, VerifiedIsEarned
<1>4. ASSUME NEW p \in Plans, PlanByModel(p) \/ Repair(p) PROVE AnswersInv'
  BY <1>4 DEF PlanByModel, Repair, EvidenceIsListed, ReflexIsWhole, VerifiedIsEarned
<1>5. ASSUME NEW r \in Readings, StepSucceeds(r) PROVE AnswersInv'
  BY <1>5, Listing DEF StepSucceeds, EvidenceIsListed, ReflexIsWhole, VerifiedIsEarned
<1>6. CASE StepFails
  <2>1. stage = "working" /\ UNCHANGED <<said, origin, judge, told>>
    BY <1>6 DEF StepFails
  <2>2. CASE StepEnds("skipped", NoReading) /\ UNCHANGED <<replans, stage>>
    BY <2>1, <2>2, Listing DEF EvidenceIsListed, ReflexIsWhole, VerifiedIsEarned
  <2>3. CASE stage' = "repairing" /\ UNCHANGED <<evidence, steps>>
    BY <2>1, <2>3 DEF EvidenceIsListed, ReflexIsWhole, VerifiedIsEarned
  <2>4. CASE StepEnds("failed", NoReading) /\ stage' = "verifying" /\ UNCHANGED replans
    BY <2>1, <2>4, Listing DEF EvidenceIsListed, ReflexIsWhole, VerifiedIsEarned
  <2> QED
    BY <1>6, <2>2, <2>3, <2>4 DEF StepFails
<1>7. CASE NoRepair
  BY <1>7, Listing DEF NoRepair, EvidenceIsListed, ReflexIsWhole, VerifiedIsEarned
<1>8. CASE EndOfPlan
  BY <1>8 DEF EndOfPlan, EvidenceIsListed, ReflexIsWhole, VerifiedIsEarned
<1>9. CASE RefuseByRules \/ Unchecked
  <2>1. /\ stage' = "told" /\ ~told'.verified
        /\ UNCHANGED <<said, origin, steps, evidence, replans, judge>>
    BY <1>9, Reporting DEF RefuseByRules, Unchecked
  <2> QED
    BY <2>1 DEF EvidenceIsListed, ReflexIsWhole, VerifiedIsEarned
<1>10. CASE CheckReflex
  <2>1. /\ stage' = "told" /\ Are("failed") = {} /\ Are("ok") # {}
        /\ stage = "verifying" /\ origin = "reflex"
        /\ told'.verified => \A i \in Are("ok") : Sound(evidence[i].tool, evidence[i].reading)
        /\ UNCHANGED <<said, origin, steps, evidence, replans, judge>>
    BY <1>10, Reporting DEF CheckReflex, MayCheck
  <2>2. Instinct(said) # <<>> /\ replans = 0
    BY <2>1 DEF ReflexIsWhole
  <2>3. Are("failed")' = Are("failed") /\ Are("ok")' = Are("ok") /\ Instinct(said)' = Instinct(said)
    BY <2>1 DEF Are
  <2> QED
    BY <2>1, <2>2, <2>3 DEF EvidenceIsListed, ReflexIsWhole, VerifiedIsEarned
<1>11. ASSUME NEW j \in Judges, AskVerifier(j) PROVE AnswersInv'
  <2>1. stage' = "told" /\ (told'.verified => Counts(j) /\ j.ok)
    BY <1>11, Judging
  <2>2. /\ Are("failed") = {} /\ Are("ok") # {} /\ judge' = j
        /\ UNCHANGED <<said, origin, steps, evidence, replans>>
    BY <1>11, Zenon DEF AskVerifier, MayCheck
  <2>3. Are("failed")' = Are("failed") /\ Are("ok")' = Are("ok")
    BY <2>2 DEF Are
  <2>4. VerifiedIsEarned'
    BY <2>1, <2>2, <2>3, Zenon DEF VerifiedIsEarned, Counts
  <2> QED
    BY <2>1, <2>2, <2>4 DEF EvidenceIsListed, ReflexIsWhole
<1>12. CASE UNCHANGED answersVars
  BY <1>12 DEF answersVars, EvidenceIsListed, ReflexIsWhole, VerifiedIsEarned, Are
<1> QED
  BY <1>1, <1>2, <1>3, <1>4, <1>5, <1>6, <1>7, <1>8, <1>9, <1>10, <1>11, <1>12 DEF AnswersNext

\* For any sentences, plans and readings, repaired as often as the code likes:
\* what is called verified was measured and found sound by a reflex's validator
\* from beginning to end, or seen by a real model that said so (verify.check,
\* Verification.verified).
THEOREM VerifiedMeansEarned == AnswersSpec => []VerifiedIsEarned
<1>1. AnswersInv => VerifiedIsEarned
  BY DEF AnswersInv
<1> QED
  BY <1>1, ClaimsStart, Claiming, PTL DEF AnswersSpec
-----------------------------------------------------------------------------
\* A later choice of the same provider has a later turn; the first turn is that
\* of the choice which no other of its provider precedes.
LEMMA TurnsRise ==
  ASSUME NEW choices, NEW i \in Nat, i >= 1
  PROVE  /\ Turn(choices, i) \in Nat /\ Turn(choices, i) >= 1
         /\ \A j \in 1 .. (i - 1) : Alike(choices, j, i) => Turn(choices, j) < Turn(choices, i)
         /\ (\A j \in 1 .. (i - 1) : ~Alike(choices, j, i)) => Turn(choices, i) = 1
<1> DEFINE Up(n) == {j \in 1 .. n : Alike(choices, j, n)}
<1>1. \A n \in Nat : /\ IsFiniteSet(Up(n)) /\ Cardinality(Up(n)) \in Nat
                     /\ Turn(choices, n) = Cardinality(Up(n))
  <2> SUFFICES ASSUME NEW n \in Nat
               PROVE  IsFiniteSet(Up(n)) /\ Cardinality(Up(n)) \in Nat
    BY DEF Turn
  <2>1. IsFiniteSet(1 .. n) /\ Up(n) \in SUBSET (1 .. n)
    BY FS_Interval
  <2> QED
    BY <2>1, FS_Subset, FS_CardinalityType
<1>2. \A n \in Nat : n >= 1 => n \in Up(n)
  BY DEF Alike
<1>3. Turn(choices, i) \in Nat /\ Turn(choices, i) >= 1
  <2>1. Up(i) # {}
    BY <1>2
  <2>2. Cardinality(Up(i)) # 0
    BY <1>1, <2>1, FS_EmptySet
  <2> QED
    BY <1>1, <2>2
<1>4. ASSUME NEW j \in 1 .. (i - 1), Alike(choices, j, i)
      PROVE  Turn(choices, j) < Turn(choices, i)
  <2>1. Up(j) \in SUBSET Up(i)
    BY <1>4 DEF Alike
  <2>2. i \in Up(i) /\ i \notin Up(j)
    BY <1>2
  <2>3. Up(j) # Up(i)
    BY <2>2
  <2>4. IsFiniteSet(Up(i)) /\ Cardinality(Up(i)) \in Nat /\ Cardinality(Up(j)) \in Nat
        /\ Turn(choices, i) = Cardinality(Up(i)) /\ Turn(choices, j) = Cardinality(Up(j))
    BY <1>1
  <2> HIDE DEF Up
  <2>5. Cardinality(Up(j)) <= Cardinality(Up(i)) /\ Cardinality(Up(j)) # Cardinality(Up(i))
    BY <2>1, <2>3, <2>4, FS_Subset
  <2> QED
    BY <2>4, <2>5
<1>5. ASSUME \A j \in 1 .. (i - 1) : ~Alike(choices, j, i) PROVE Turn(choices, i) = 1
  <2>1. \A j \in 1 .. i : j = i \/ j \in 1 .. (i - 1)
    OBVIOUS
  <2>2. Up(i) = {i}
    BY <1>2, <1>5, <2>1
  <2>3. Cardinality({i}) = 1
    BY FS_Singleton
  <2>4. Turn(choices, i) = Cardinality(Up(i))
    BY <1>1
  <2> QED
    BY <2>2, <2>3, <2>4
<1> QED
  BY <1>3, <1>4, <1>5

\* Every provider of a ranking has a first choice in it.
LEMMA KeyIsFirst ==
  ASSUME NEW choices, NEW i \in Nat, i >= 1
  PROVE  /\ Key(choices, i) \in 1 .. i /\ Alike(choices, Key(choices, i), i)
         /\ Turn(choices, Key(choices, i)) = 1
<1> DEFINE S == {j \in 1 .. i : Alike(choices, j, i)}
           T == {n \in 0 .. i : \E j \in S : n = i - j}
<1>1. IsFiniteSet(T) /\ T \in SUBSET Nat
  <2>1. IsFiniteSet(0 .. i) /\ T \in SUBSET (0 .. i)
    BY FS_Interval
  <2>2. IsFiniteSet(T)
    BY <2>1, FS_Subset
  <2> QED
    BY <2>1, <2>2
<1>2. 0 \in T
  BY DEF Alike
<1>3. PICK m \in T : \A n \in T : n <= m
  <2> HIDE DEF T
  <2> QED
    BY <1>1, <1>2, HasGreatest
<1>4. PICK k \in S : m = i - k
  BY <1>3
<1>5. \A j \in S : k <= j
  <2> SUFFICES ASSUME NEW j \in S PROVE k <= j
    OBVIOUS
  <2>1. i - j \in T
    OBVIOUS
  <2>2. i - j <= i - k
    BY <1>3, <1>4, <2>1
  <2>3. j \in Nat /\ k \in Nat
    OBVIOUS
  <2> QED
    BY <2>2, <2>3
<1>6. k \in 1 .. i /\ Alike(choices, k, i)
  BY <1>4
<1>7. \A j \in 1 .. (k - 1) : ~Alike(choices, j, k)
  <2> SUFFICES ASSUME NEW j \in 1 .. (k - 1), Alike(choices, j, k) PROVE FALSE
    OBVIOUS
  <2>1. j \in S
    BY <1>6 DEF Alike
  <2> QED
    BY <1>5, <1>6, <2>1
<1>8. Turn(choices, k) = 1
  BY <1>6, <1>7, TurnsRise
<1>9. \E j \in 1 .. i : Alike(choices, j, i) /\ Turn(choices, j) = 1
  BY <1>6, <1>8
<1> QED
  BY <1>9 DEF Key

LEMMA AheadOrders ==
  ASSUME NEW choices \in Seq(Models)
  PROVE  StrictlyOrders(Ahead(choices), DOMAIN choices)
<1>1. DOMAIN choices = 1 .. Len(choices) /\ Len(choices) \in Nat
  OBVIOUS
<1>2. \A i \in DOMAIN choices :
        /\ i \in Nat /\ i >= 1 /\ Turn(choices, i) \in Nat /\ Key(choices, i) \in Nat
        /\ Alike(choices, Key(choices, i), i)
  <2> SUFFICES ASSUME NEW i \in DOMAIN choices
               PROVE  /\ i \in Nat /\ i >= 1 /\ Turn(choices, i) \in Nat /\ Key(choices, i) \in Nat
                      /\ Alike(choices, Key(choices, i), i)
    OBVIOUS
  <2>1. i \in Nat /\ i >= 1
    BY <1>1
  <2>2. Key(choices, i) \in 1 .. i
    BY <2>1, KeyIsFirst
  <2>3. Key(choices, i) \in Nat
    BY <2>1, <2>2
  <2> QED
    BY <2>1, <2>3, TurnsRise, KeyIsFirst
<1>3. \A x, y \in DOMAIN choices :
        <<x, y>> \in Ahead(choices) <=>
          \/ Turn(choices, x) < Turn(choices, y)
          \/ Turn(choices, x) = Turn(choices, y) /\ Key(choices, x) < Key(choices, y)
  BY DEF Ahead
<1>4. ASSUME NEW x \in DOMAIN choices, NEW y \in DOMAIN choices,
             Turn(choices, x) = Turn(choices, y), Key(choices, x) = Key(choices, y)
      PROVE  x = y
  <2>1. Alike(choices, x, y) /\ Alike(choices, y, x)
    BY <1>2, <1>4 DEF Alike
  <2>2. ~(x < y)
    <3>1. x < y => x \in 1 .. (y - 1)
      BY <1>2
    <3> QED
      BY <1>2, <1>4, <2>1, <3>1, TurnsRise
  <2>3. ~(y < x)
    <3>1. y < x => y \in 1 .. (x - 1)
      BY <1>2
    <3> QED
      BY <1>2, <1>4, <2>1, <3>1, TurnsRise
  <2> QED
    BY <1>2, <2>2, <2>3
<1>5. \A x \in DOMAIN choices : <<x, x>> \notin Ahead(choices)
  BY <1>2, <1>3
<1>6. \A x, y, z \in DOMAIN choices :
        <<x, y>> \in Ahead(choices) /\ <<y, z>> \in Ahead(choices) => <<x, z>> \in Ahead(choices)
  BY <1>2, <1>3
<1>7. \A x, y \in DOMAIN choices :
        x = y \/ <<x, y>> \in Ahead(choices) \/ <<y, x>> \in Ahead(choices)
  <2> SUFFICES ASSUME NEW x \in DOMAIN choices, NEW y \in DOMAIN choices
               PROVE  x = y \/ <<x, y>> \in Ahead(choices) \/ <<y, x>> \in Ahead(choices)
    OBVIOUS
  <2>1. /\ Turn(choices, x) \in Nat /\ Turn(choices, y) \in Nat
        /\ Key(choices, x) \in Nat /\ Key(choices, y) \in Nat
    BY <1>2
  <2>2. \/ Turn(choices, x) = Turn(choices, y) /\ Key(choices, x) = Key(choices, y)
        \/ Turn(choices, x) = Turn(choices, y) /\ Key(choices, x) < Key(choices, y)
        \/ Turn(choices, x) = Turn(choices, y) /\ Key(choices, y) < Key(choices, x)
        \/ Turn(choices, x) < Turn(choices, y) \/ Turn(choices, y) < Turn(choices, x)
    BY <2>1
  <2> QED
    BY <1>3, <1>4, <2>2
<1> QED
  BY <1>5, <1>6, <1>7 DEF StrictlyOrders

\* spread() reorders, and puts the first choice of every provider first.
LEMMA SpreadReorders ==
  ASSUME NEW choices \in Seq(Models), IsFiniteSet(ProvidersOf(choices))
  PROVE  /\ Cardinality(ProvidersOf(choices)) \in Nat
         /\ \A r \in DOMAIN choices : \E i \in DOMAIN choices : Spread(choices)[r] = choices[i]
         /\ DOMAIN Spread(choices) = DOMAIN choices
         /\ \A i \in DOMAIN choices : Turn(choices, i) = 1 =>
              \E r \in DOMAIN choices : /\ r <= Cardinality(ProvidersOf(choices))
                                        /\ Spread(choices)[r] = choices[i]
<1> DEFINE S == DOMAIN choices
           A == Ahead(choices)
           s == InOrder(S, A)
           P == ProvidersOf(choices)
           First1 == {i \in S : Turn(choices, i) = 1}
<1>1. S = 1 .. Len(choices) /\ Len(choices) \in Nat
  OBVIOUS
<1>2. IsFiniteSet(S) /\ Cardinality(S) = Len(choices)
  BY <1>1, FS_Interval
<1>3. StrictlyOrders(A, S)
  BY AheadOrders
<1>4. /\ s \in Seq(S) /\ Len(s) = Cardinality(S)
      /\ \A x \in S : Place(x, S, A) + 1 \in DOMAIN s /\ s[Place(x, S, A) + 1] = x
  <2> HIDE DEF S, A
  <2> QED
    BY <1>2, <1>3, OrderIsKept
<1>5. DOMAIN s = S
  <2> HIDE DEF s
  <2> QED
    BY <1>1, <1>2, <1>4
<1>6. \A r \in S : s[r] \in S /\ Spread(choices)[r] = choices[s[r]]
  <2>1. \A r \in S : Spread(choices)[r] = choices[s[r]]
    BY DEF Spread
  <2> HIDE DEF s
  <2> QED
    BY <1>4, <1>5, <2>1
<1>7. DOMAIN Spread(choices) = S
  BY DEF Spread
\* Each first turn is of another provider.
<1>8. /\ IsFiniteSet(First1) /\ Cardinality(First1) \in Nat
      /\ Cardinality(P) \in Nat /\ Cardinality(First1) <= Cardinality(P)
  <2> DEFINE f == [i \in First1 |-> ProviderOf[choices[i]]]
  <2>1. f \in [First1 -> P]
    BY DEF ProvidersOf
  <2>2. ASSUME NEW x \in First1, NEW y \in First1, f[x] = f[y] PROVE x = y
    <3>1. x \in Nat /\ y \in Nat /\ x >= 1 /\ y >= 1 /\ Turn(choices, x) = 1 /\ Turn(choices, y) = 1
      BY <1>1
    <3>2. Alike(choices, x, y) /\ Alike(choices, y, x)
      BY <2>2 DEF Alike
    <3>3. ~(x < y)
      <4>1. x < y => x \in 1 .. (y - 1)
        BY <3>1
      <4> QED
        BY <3>1, <3>2, <4>1, TurnsRise
    <3>4. ~(y < x)
      <4>1. y < x => y \in 1 .. (x - 1)
        BY <3>1
      <4> QED
        BY <3>1, <3>2, <4>1, TurnsRise
    <3> QED
      BY <3>1, <3>3, <3>4
  <2>3. f \in Injection(First1, P)
    BY <2>1, <2>2 DEF Injection, IsInjective
  <2> HIDE DEF f, First1, P
  <2>4. IsFiniteSet(P)
    BY DEF P
  <2> QED
    BY <2>3, <2>4, FS_Injection, FS_CardinalityType
<1>9. ASSUME NEW i \in S, Turn(choices, i) = 1
      PROVE  \E r \in S : r <= Cardinality(P) /\ Spread(choices)[r] = choices[i]
  <2> DEFINE before == {y \in S : <<y, i>> \in A}
  <2>1. before \in SUBSET First1 /\ i \in First1 /\ i \notin before
    <3>1. \A y \in S : y \in Nat /\ y >= 1
      BY <1>1
    <3>2. \A y \in S : Turn(choices, y) \in Nat /\ Turn(choices, y) >= 1
      BY <3>1, TurnsRise
    <3>3. \A y \in before : Turn(choices, y) = 1
      BY <1>9, <3>2 DEF Ahead
    <3>4. i \notin before
      BY <1>3 DEF StrictlyOrders
    <3> QED
      BY <1>9, <3>3, <3>4
  <2>2. Place(i, S, A) = Cardinality(before)
    BY DEF Place
  <2> HIDE DEF before, First1, S, A, P, s
  <2>3. before # First1
    BY <2>1
  <2>4. /\ IsFiniteSet(before) /\ Cardinality(before) \in Nat
        /\ Cardinality(before) <= Cardinality(First1)
        /\ Cardinality(before) # Cardinality(First1)
    BY <1>8, <2>1, <2>3, FS_Subset, FS_CardinalityType
  <2>5. Place(i, S, A) + 1 <= Cardinality(P)
    BY <1>8, <2>2, <2>4
  <2>6. Place(i, S, A) + 1 \in S /\ s[Place(i, S, A) + 1] = i
    BY <1>4, <1>5
  <2> QED
    BY <1>6, <2>5, <2>6
<1> QED
  BY <1>6, <1>7, <1>8, <1>9

\* What is tried is of the ranking, of every provider of it.
LEMMA TriedCovers ==
  ASSUME NEW T \in SUBSET Models, NEW choices \in Seq(T), choices # <<>>
  PROVE  /\ Tried(choices) \in Seq(T) /\ Len(Tried(choices)) >= 1
         /\ ProvidersOf(Tried(choices)) = ProvidersOf(choices)
<1> DEFINE P == ProvidersOf(choices)
           n == SmallerOf(Attempts(choices), Len(choices))
           all == Spread(choices)
<1>1. DOMAIN choices = 1 .. Len(choices) /\ Len(choices) \in Nat /\ Len(choices) >= 1
      /\ choices \in Seq(Models)
  OBVIOUS
<1>2. IsFiniteSet(P)
  <2>1. IsFiniteSet(DOMAIN choices)
    BY <1>1, FS_Interval
  <2> DEFINE f == [i \in DOMAIN choices |-> ProviderOf[choices[i]]]
  <2>2. f \in Surjection(DOMAIN choices, P)
    BY DEF ProvidersOf, Surjection
  <2> HIDE DEF f, P
  <2> QED
    BY <2>1, <2>2, FS_Surjection
<1>3. /\ Cardinality(P) \in Nat
      /\ \A r \in DOMAIN choices : \E i \in DOMAIN choices : all[r] = choices[i]
      /\ DOMAIN all = DOMAIN choices
      /\ \A i \in DOMAIN choices : Turn(choices, i) = 1 =>
           \E r \in DOMAIN choices : r <= Cardinality(P) /\ all[r] = choices[i]
  BY <1>1, <1>2, SpreadReorders
<1>4. all \in Seq(T) /\ Len(all) = Len(choices)
  <2>1. all = [r \in 1 .. Len(choices) |-> all[r]]
    BY <1>1 DEF Spread
  <2>2. \A r \in 1 .. Len(choices) : all[r] \in T
    BY <1>1, <1>3
  <2> HIDE DEF all
  <2> QED
    BY <1>1, <2>1, <2>2
<1>5. /\ Attempts(choices) \in Nat /\ Attempts(choices) >= 1
      /\ Attempts(choices) >= Cardinality(P)
  <2>1. MaxAttempts \in Nat /\ MaxAttempts >= 1
    BY RouterAssumption
  <2>2. Attempts(choices) = IF Cardinality(P) > MaxAttempts THEN Cardinality(P) ELSE MaxAttempts
    BY DEF Attempts
  <2> HIDE DEF P
  <2> QED
    BY <1>3, <2>1, <2>2
<1>6. n \in Nat /\ n >= 1 /\ n <= Len(choices)
      /\ \A r \in 1 .. Len(choices) : r <= Cardinality(P) => r <= n
  <2>1. n = IF Attempts(choices) < Len(choices) THEN Attempts(choices) ELSE Len(choices)
    BY DEF SmallerOf
  <2> HIDE DEF n, P
  <2> QED
    BY <1>1, <1>3, <1>5, <2>1
<1>7. Tried(choices) = SubSeq(all, 1, n)
  BY DEF Tried
<1>8. /\ Tried(choices) \in Seq(T) /\ Len(Tried(choices)) = n
      /\ DOMAIN Tried(choices) = 1 .. n
      /\ \A r \in 1 .. n : Tried(choices)[r] = all[r]
  <2> HIDE DEF all, n
  <2>1. SubSeq(all, 1, n) \in Seq(T) /\ Len(SubSeq(all, 1, n)) = n
        /\ \A r \in 1 .. n : SubSeq(all, 1, n)[r] = all[r]
    BY <1>1, <1>4, <1>6
  <2> QED
    BY <1>6, <1>7, <2>1
<1>9. ProvidersOf(Tried(choices)) \subseteq P
  <2> SUFFICES ASSUME NEW r \in 1 .. n PROVE ProviderOf[all[r]] \in P
    BY <1>8 DEF ProvidersOf
  <2>1. r \in DOMAIN choices
    BY <1>1, <1>6
  <2> QED
    BY <1>3, <2>1 DEF ProvidersOf
<1>10. P \subseteq ProvidersOf(Tried(choices))
  <2> SUFFICES ASSUME NEW i \in DOMAIN choices
               PROVE  ProviderOf[choices[i]] \in ProvidersOf(Tried(choices))
    BY DEF ProvidersOf
  <2>1. i \in Nat /\ i >= 1
    BY <1>1
  <2> DEFINE k == Key(choices, i)
  <2>2. k \in 1 .. i /\ Alike(choices, k, i) /\ Turn(choices, k) = 1
    BY <2>1, KeyIsFirst
  <2>3. k \in DOMAIN choices
    BY <1>1, <2>1, <2>2
  <2>4. PICK r \in DOMAIN choices : r <= Cardinality(P) /\ all[r] = choices[k]
    BY <1>3, <2>2, <2>3
  <2>5. r \in 1 .. n
    BY <1>1, <1>6, <2>4
  <2>6. Tried(choices)[r] = choices[k] /\ r \in DOMAIN Tried(choices)
    BY <1>8, <2>4, <2>5
  <2>7. ProviderOf[choices[k]] = ProviderOf[choices[i]]
    BY <2>2 DEF Alike
  <2> QED
    BY <2>6, <2>7 DEF ProvidersOf
<1> QED
  BY <1>6, <1>8, <1>9, <1>10
-----------------------------------------------------------------------------
NotAskingNotFailed == \A c \in Prompts : progress[c] # "asking" => failed[c] = 0

OrderCovers ==
  \A c \in Prompts : progress[c] = "asking" => ProvidersOf(order[c]) = ProvidersOf(ranked[c])

\* Calls that may still be answered by a model that is paid for.
MayPay(c) ==
  progress[c] = "asking" /\ \E i \in DOMAIN order[c] : i > failed[c] /\ order[c][i] \notin Local
Paying == {c \in Prompts : MayPay(c)}

SpendFits == Budget # 0 => spend + Cardinality(Paying) <= Budget + Cardinality(Prompts) - 1

RouterInv == RouterTypeOK /\ NotAskingNotFailed /\ OrderCovers /\ SpendFits

LEMMA RouterStarts == RouterInit => RouterInv
<1> SUFFICES ASSUME RouterInit PROVE RouterInv
  OBVIOUS
<1>1. RouterTypeOK /\ NotAskingNotFailed /\ OrderCovers
  BY DEF RouterInit, RouterTypeOK, NotAskingNotFailed, OrderCovers
<1>2. SpendFits
  <2>1. Paying = {} /\ spend = 0
    BY DEF RouterInit, Paying, MayPay
  <2>2. Cardinality({}) = 0 /\ Cardinality(Prompts) \in Nat /\ Budget \in Nat
    BY FS_EmptySet, FS_CardinalityType, RouterAssumption
  <2> QED
    BY <2>1, <2>2 DEF SpendFits
<1> QED
  BY <1>1, <1>2 DEF RouterInv

\* A ranking is a sequence of what fits.
LEMMA RankingIsOfFit ==
  ASSUME NEW Fit \in SUBSET Models, NEW ranking \in SetToSeqs(Fit)
  PROVE  ranking \in Seq(Fit) /\ (Fit # {} => ranking # <<>>)
<1>1. IsFiniteSet(Fit)
  BY FS_Subset, RouterAssumption
<1>2. Cardinality(Fit) \in Nat /\ (Fit # {} => Cardinality(Fit) # 0)
  BY <1>1, FS_CardinalityType, FS_EmptySet
<1>3. ranking \in [1 .. Cardinality(Fit) -> Fit]
  BY DEF SetToSeqs
<1> QED
  BY <1>2, <1>3

\* The order of a call that is offered nothing is empty.
LEMMA NothingIsTried == Tried(<<>>) = <<>>
<1>1. Len(Spread(<<>>)) = 0 /\ Spread(<<>>) = <<>>
  BY DEF Spread
<1>2. SmallerOf(Attempts(<<>>), Len(<<>>)) \in {Attempts(<<>>), 0}
  BY DEF SmallerOf
<1>3. ProvidersOf(<<>>) = {}
  BY DEF ProvidersOf
<1>4. Attempts(<<>>) = MaxAttempts
  <2>1. Cardinality(ProvidersOf(<<>>)) = 0
    BY <1>3, FS_EmptySet
  <2>2. MaxAttempts \in Nat
    BY RouterAssumption
  <2> QED
    BY <2>1, <2>2 DEF Attempts
<1>5. SmallerOf(Attempts(<<>>), Len(<<>>)) = 0
  BY <1>4, RouterAssumption DEF SmallerOf
<1> QED
  BY <1>1, <1>5 DEF Tried

\* A step that lets nobody new pay, and spends what one no longer can.
LEMMA SpendSettles ==
  ASSUME RouterInv, Paying' \subseteq Paying, spend' \in Nat,
         \/ spend' = spend
         \/ spend' = spend + 1 /\ Paying' # Paying
  PROVE  SpendFits'
<1>1. IsFiniteSet(Prompts) /\ Budget \in Nat
  BY RouterAssumption
<1>2. IsFiniteSet(Paying)
  BY <1>1, FS_Subset DEF Paying
<1>3. /\ IsFiniteSet(Paying') /\ Cardinality(Paying') <= Cardinality(Paying)
      /\ Paying' # Paying => Cardinality(Paying') # Cardinality(Paying)
  BY <1>2, FS_Subset
<1>4. Cardinality(Paying') \in Nat /\ Cardinality(Paying) \in Nat /\ Cardinality(Prompts) \in Nat
  BY <1>1, <1>2, <1>3, FS_CardinalityType
<1>5. spend \in Nat
  BY DEF RouterInv, RouterTypeOK
<1>6. Budget # 0 => spend + Cardinality(Paying) <= Budget + Cardinality(Prompts) - 1
  BY DEF RouterInv, SpendFits
<1>7. Budget # 0 => spend' + Cardinality(Paying') <= Budget + Cardinality(Prompts) - 1
  BY <1>1, <1>3, <1>4, <1>5, <1>6
<1> QED
  BY <1>7 DEF SpendFits

\* A call is ranked, and will try somebody of every provider it could use; it
\* may pay only if there is budget left.
LEMMA RouterCompletes ==
  ASSUME RouterInv, NEW c \in Prompts, Complete(c)
  PROVE  RouterInv'
<1>0. PICK Fit \in SUBSET Fitting : \E ranking \in SetToSeqs(Fit) :
        /\ ranked' = [ranked EXCEPT ![c] = ranking]
        /\ order'  = [order EXCEPT ![c] = Tried(ranking)]
        /\ progress'  = [progress EXCEPT ![c] = IF Fit = {} THEN "failed" ELSE "asking"]
  BY DEF Complete
<1>1. PICK ranking \in SetToSeqs(Fit) :
        /\ ranked' = [ranked EXCEPT ![c] = ranking]
        /\ order'  = [order EXCEPT ![c] = Tried(ranking)]
        /\ progress'  = [progress EXCEPT ![c] = IF Fit = {} THEN "failed" ELSE "asking"]
  BY <1>0
<1>2. progress[c] # "asking" /\ UNCHANGED <<usable, spend, failed>>
  BY DEF Complete
<1>3. Fit \in SUBSET Models /\ (OverBudget => Fit \subseteq Local)
  BY DEF Fitting
<1>4. ranking \in Seq(Fit) /\ (Fit # {} => ranking # <<>>)
  BY <1>3, RankingIsOfFit
<1>5. /\ Tried(ranking) \in Seq(Fit)
      /\ Fit # {} => Len(Tried(ranking)) >= 1 /\ ProvidersOf(Tried(ranking)) = ProvidersOf(ranking)
  <2>1. CASE ranking = <<>>
    BY <1>4, <2>1, NothingIsTried
  <2>2. CASE ranking # <<>>
    BY <1>3, <1>4, <2>2, TriedCovers
  <2> QED
    BY <2>1, <2>2
<1>6. ranking \in Seq(Models) /\ Tried(ranking) \in Seq(Models)
  BY <1>3, <1>4, <1>5
<1>7. /\ progress \in [Prompts -> {"idle", "asking", "answered", "failed"}]
      /\ ranked \in [Prompts -> Seq(Models)] /\ order \in [Prompts -> Seq(Models)]
      /\ failed[c] = 0
  BY <1>2 DEF RouterInv, RouterTypeOK, NotAskingNotFailed
<1>8. /\ order'[c] = Tried(ranking) /\ ranked'[c] = ranking
      /\ progress'[c] = (IF Fit = {} THEN "failed" ELSE "asking")
      /\ \A d \in Prompts : d # c => /\ order'[d] = order[d] /\ ranked'[d] = ranked[d]
                                     /\ progress'[d] = progress[d]
  BY <1>1, <1>7
<1>9. RouterTypeOK'
  <2>0. Fit # {} => failed'[c] < Len(order'[c])
    <3>1. Len(Tried(ranking)) \in Nat
      BY <1>5
    <3> QED
      BY <1>2, <1>5, <1>7, <1>8, <3>1
  <2>1. \A d \in Prompts : progress'[d] = "asking" => failed'[d] < Len(order'[d])
    BY <1>2, <1>8, <2>0 DEF RouterInv, RouterTypeOK
  <2> QED
    BY <1>1, <1>2, <1>6, <2>1 DEF RouterInv, RouterTypeOK
<1>10. NotAskingNotFailed'
  BY <1>2, <1>7, <1>8 DEF RouterInv, NotAskingNotFailed
<1>11. OrderCovers'
  <2>1. \A d \in Prompts : progress'[d] = "asking" => ProvidersOf(order'[d]) = ProvidersOf(ranked'[d])
    BY <1>5, <1>8 DEF RouterInv, OrderCovers
  <2> QED
    BY <2>1 DEF OrderCovers, ProvidersOf
<1>12. SpendFits'
  <2>1. CASE OverBudget
    <3>1. \A i \in DOMAIN Tried(ranking) : Tried(ranking)[i] \in Local
      BY <1>3, <1>5, <2>1
    <3>2. ~MayPay(c)'
      BY <1>8, <3>1 DEF MayPay
    <3>3. \A d \in Prompts : d # c => (MayPay(d)' <=> MayPay(d))
      BY <1>2, <1>8 DEF MayPay
    <3>4. Paying' \subseteq Paying
      BY <3>2, <3>3 DEF Paying
    <3>5. spend' = spend /\ spend \in Nat
      BY <1>2 DEF RouterInv, RouterTypeOK
    <3> QED
      BY <3>4, <3>5, SpendSettles
  <2>2. CASE ~OverBudget
    <3>1. Paying' \in SUBSET Prompts
      BY DEF Paying
    <3>2. /\ Cardinality(Paying') <= Cardinality(Prompts) /\ Cardinality(Prompts) \in Nat
          /\ Cardinality(Paying') \in Nat
      BY <3>1, FS_Subset, FS_CardinalityType, RouterAssumption
    <3>3. spend \in Nat /\ Budget \in Nat /\ (Budget # 0 => spend < Budget) /\ spend' = spend
      BY <1>2, <2>2, RouterAssumption DEF RouterInv, RouterTypeOK, OverBudget
    <3>4. Budget # 0 => spend' + Cardinality(Paying') <= Budget + Cardinality(Prompts) - 1
      BY <3>2, <3>3
    <3> QED
      BY <3>4 DEF SpendFits
  <2> QED
    BY <2>1, <2>2
<1> QED
  BY <1>9, <1>10, <1>11, <1>12 DEF RouterInv

\* A call that is over has been charged for at most once.
LEMMA RouterEnds ==
  ASSUME RouterInv, NEW c \in Prompts, progress[c] = "asking",
         NEW how \in {"answered", "failed"}, Over(c, how), usable' \in SUBSET Providers,
         \/ spend' = spend
         \/ spend' = spend + 1 /\ MayPay(c)
  PROVE  RouterInv'
<1>1. /\ progress \in [Prompts -> {"idle", "asking", "answered", "failed"}]
      /\ ranked \in [Prompts -> Seq(Models)] /\ order \in [Prompts -> Seq(Models)]
      /\ failed \in [Prompts -> Nat] /\ spend \in Nat
  BY DEF RouterInv, RouterTypeOK
<1>2. /\ progress' = [progress EXCEPT ![c] = how] /\ ranked' = [ranked EXCEPT ![c] = <<>>]
      /\ order' = [order EXCEPT ![c] = <<>>] /\ failed' = [failed EXCEPT ![c] = 0]
  BY DEF Over
<1>3. /\ progress'[c] = how /\ failed'[c] = 0
      /\ \A d \in Prompts : d # c => /\ order'[d] = order[d] /\ ranked'[d] = ranked[d]
                                     /\ progress'[d] = progress[d] /\ failed'[d] = failed[d]
  BY <1>1, <1>2
<1>4. RouterTypeOK'
  <2>1. \A d \in Prompts : progress'[d] = "asking" => failed'[d] < Len(order'[d])
    BY <1>3 DEF RouterInv, RouterTypeOK
  <2>2. <<>> \in Seq(Models) /\ spend' \in Nat
    BY <1>1
  <2> QED
    BY <1>1, <1>2, <2>1, <2>2 DEF RouterInv, RouterTypeOK
<1>5. NotAskingNotFailed' /\ OrderCovers'
  <2>1. \A d \in Prompts : progress'[d] = "asking" => ProvidersOf(order'[d]) = ProvidersOf(ranked'[d])
    BY <1>3 DEF RouterInv, OrderCovers
  <2>2. OrderCovers'
    BY <2>1 DEF OrderCovers, ProvidersOf
  <2> QED
    BY <1>3, <2>2 DEF RouterInv, NotAskingNotFailed
<1>6. SpendFits'
  <2>1. ~MayPay(c)' /\ \A d \in Prompts : d # c => (MayPay(d)' <=> MayPay(d))
    BY <1>3 DEF MayPay
  <2>2. Paying' \subseteq Paying /\ (MayPay(c) => Paying' # Paying)
    BY <2>1 DEF Paying
  <2> QED
    BY <1>1, <2>2, SpendSettles
<1> QED
  BY <1>4, <1>5, <1>6 DEF RouterInv

LEMMA RouterGoesOn ==
  ASSUME RouterInv, NEW c \in Prompts, progress[c] = "asking", ~LastFails(c),
         failed' = [failed EXCEPT ![c] = failed[c] + 1], usable' \in SUBSET Providers,
         UNCHANGED <<spend, progress, ranked, order>>
  PROVE  RouterInv'
<1>1. /\ progress \in [Prompts -> {"idle", "asking", "answered", "failed"}]
      /\ order \in [Prompts -> Seq(Models)]
      /\ failed \in [Prompts -> Nat] /\ spend \in Nat /\ failed[c] < Len(order[c])
  BY DEF RouterInv, RouterTypeOK
<1>2. failed' \in [Prompts -> Nat] /\ failed'[c] = failed[c] + 1
      /\ \A d \in Prompts : d # c => failed'[d] = failed[d]
  BY <1>1
<1>3. failed'[c] < Len(order[c])
  <2>1. failed[c] + 1 # Len(order[c]) /\ Len(order[c]) \in Nat /\ failed[c] \in Nat
    BY <1>1 DEF LastFails
  <2> QED
    BY <1>1, <1>2, <2>1
<1>4. RouterTypeOK'
  <2>1. \A d \in Prompts : progress'[d] = "asking" => failed'[d] < Len(order'[d])
    BY <1>2, <1>3 DEF RouterInv, RouterTypeOK
  <2> QED
    BY <1>2, <2>1 DEF RouterInv, RouterTypeOK
<1>5. NotAskingNotFailed' /\ OrderCovers'
  <2>1. NotAskingNotFailed'
    BY <1>2 DEF RouterInv, NotAskingNotFailed
  <2>2. \A d \in Prompts : progress'[d] = "asking" => ProvidersOf(order'[d]) = ProvidersOf(ranked'[d])
    BY DEF RouterInv, OrderCovers
  <2>3. OrderCovers'
    BY <2>2 DEF OrderCovers, ProvidersOf
  <2> QED
    BY <2>1, <2>3
<1>6. SpendFits'
  <2>1. \A d \in Prompts : MayPay(d)' => MayPay(d)
    <3> SUFFICES ASSUME NEW d \in Prompts, progress[d] = "asking", NEW i \in DOMAIN order[d],
                        i > failed'[d], order[d][i] \notin Local
                 PROVE  i > failed[d]
      BY DEF MayPay
    <3>1. order[d] \in Seq(Models) /\ failed[d] \in Nat
      BY <1>1
    <3>2. i \in Nat
      BY <3>1
    <3>3. failed'[d] = failed[d] \/ failed'[d] = failed[d] + 1
      BY <1>2
    <3> QED
      BY <3>1, <3>2, <3>3
  <2>2. Paying' \subseteq Paying
    BY <2>1 DEF Paying
  <2> QED
    BY <1>1, <2>2, SpendSettles
<1> QED
  BY <1>4, <1>5, <1>6 DEF RouterInv

LEMMA RouterStep == RouterInv /\ [RouterNext]_routerVars => RouterInv'
<1> SUFFICES ASSUME RouterInv, [RouterNext]_routerVars PROVE RouterInv'
  OBVIOUS
<1>1. usable \in SUBSET Providers
  BY DEF RouterInv, RouterTypeOK
<1>2. ASSUME NEW c \in Prompts, ModelAnswers(c) PROVE RouterInv'
  <2>1. /\ progress[c] = "asking" /\ Over(c, "answered") /\ usable' = usable
        /\ spend' = IF Asked(c) \in Local THEN spend ELSE spend + 1
    BY <1>2 DEF ModelAnswers
  <2>2. Asked(c) \notin Local => MayPay(c)
    <3>1. /\ order[c] \in Seq(Models) /\ failed[c] \in Nat /\ failed[c] < Len(order[c])
      BY <2>1 DEF RouterInv, RouterTypeOK
    <3>2. failed[c] + 1 \in DOMAIN order[c] /\ failed[c] + 1 > failed[c]
      BY <3>1
    <3> QED
      BY <2>1, <3>2 DEF MayPay, Asked
  <2> QED
    BY <1>1, <2>1, <2>2, RouterEnds
<1>3. ASSUME NEW c \in Prompts, ModelFails(c) PROVE RouterInv'
  <2>1. /\ progress[c] = "asking" /\ usable' \in SUBSET Providers /\ spend' = spend
    BY <1>1, <1>3 DEF ModelFails
  <2>2. CASE LastFails(c)
    <3>1. Over(c, "failed")
      BY <1>3, <2>2 DEF ModelFails
    <3> QED
      BY <2>1, <3>1, RouterEnds
  <2>3. CASE ~LastFails(c)
    <3>1. /\ failed' = [failed EXCEPT ![c] = failed[c] + 1]
          /\ UNCHANGED <<spend, progress, ranked, order>>
      BY <1>3, <2>3 DEF ModelFails
    <3> QED
      BY <2>1, <2>3, <3>1, RouterGoesOn
  <2> QED
    BY <2>2, <2>3
<1>4. CASE ProvidersChange \/ UNCHANGED routerVars
  <2>1. usable' \in SUBSET Providers /\ UNCHANGED <<spend, progress, ranked, order, failed>>
    BY <1>1, <1>4 DEF ProvidersChange, routerVars
  <2>2. RouterTypeOK' /\ NotAskingNotFailed'
    BY <2>1 DEF RouterInv, RouterTypeOK, NotAskingNotFailed
  <2>3. OrderCovers'
    <3>1. \A d \in Prompts : progress'[d] = "asking" => ProvidersOf(order'[d]) = ProvidersOf(ranked'[d])
      BY <2>1 DEF RouterInv, OrderCovers
    <3> QED
      BY <3>1 DEF OrderCovers, ProvidersOf
  <2>4. Paying' = Paying
    BY <2>1 DEF Paying, MayPay
  <2>5. SpendFits'
    BY <2>1, <2>4 DEF RouterInv, SpendFits
  <2> QED
    BY <2>2, <2>3, <2>5 DEF RouterInv
<1> QED
  BY <1>2, <1>3, <1>4, RouterCompletes DEF RouterNext

LEMMA RouterInvariance == RouterSpec => []RouterInv
<1> QED
  BY RouterStarts, RouterStep, PTL DEF RouterSpec

\* Every call is in one of its states, and one that is asking has somebody left
\* to ask.
THEOREM RouterTypeCorrect == RouterSpec => []RouterTypeOK
<1>1. RouterInv => RouterTypeOK
  BY DEF RouterInv
<1> QED
  BY <1>1, RouterInvariance, PTL

\* However many calls run at once, only those that were ranked while a cent was
\* left exceed the budget, each by its own answer (router.py, _over_budget and
\* _record).
THEOREM SpendStaysBounded == RouterSpec => []SpendIsBounded
<1>1. RouterInv => SpendIsBounded
  <2> SUFFICES ASSUME RouterInv, Budget # 0 PROVE spend <= Budget + Cardinality(Prompts) - 1
    BY DEF SpendIsBounded
  <2>1. Paying \in SUBSET Prompts
    BY DEF Paying
  <2>2. Cardinality(Paying) \in Nat /\ Cardinality(Prompts) \in Nat
    BY <2>1, FS_Subset, FS_CardinalityType, RouterAssumption
  <2>3. spend \in Nat /\ Budget \in Nat
        /\ spend + Cardinality(Paying) <= Budget + Cardinality(Prompts) - 1
    BY RouterAssumption DEF RouterInv, RouterTypeOK, SpendFits
  <2> QED
    BY <2>2, <2>3
<1> QED
  BY <1>1, RouterInvariance, PTL

\* "Every distinct provider is tried before any repeat", and there are attempts
\* for all of them: a call fails only when every provider it could use has
\* failed it (router.py, spread and complete).
THEOREM EveryProviderIsTried == RouterSpec => NobodyIsUntried
<1>1. ASSUME RouterInv, [RouterNext]_routerVars, NEW c \in Prompts,
             progress[c] = "asking", progress'[c] = "failed"
      PROVE  ProvidersOf(SubSeq(order[c], 1, failed[c] + 1)) = ProvidersOf(ranked[c])
  <2>1. /\ progress \in [Prompts -> {"idle", "asking", "answered", "failed"}]
        /\ order[c] \in Seq(Models)
    BY <1>1 DEF RouterInv, RouterTypeOK
  <2>2. ASSUME NEW d \in Prompts, Complete(d) PROVE FALSE
    <3>1. d # c /\ \E s \in {"failed", "asking"} : progress' = [progress EXCEPT ![d] = s]
      BY <1>1, <2>2 DEF Complete
    <3> QED
      BY <1>1, <2>1, <3>1
  <2>3. ASSUME NEW d \in Prompts, ModelAnswers(d) PROVE FALSE
    <3>1. progress' = [progress EXCEPT ![d] = "answered"]
      BY <2>3 DEF ModelAnswers, Over
    <3> QED
      BY <1>1, <2>1, <3>1
  <2>4. ~UNCHANGED progress
    BY <1>1
  <2>5. PICK d \in Prompts : ModelFails(d)
    BY <1>1, <2>2, <2>3, <2>4 DEF RouterNext, ProvidersChange, routerVars
  <2>6. LastFails(d) /\ progress' = [progress EXCEPT ![d] = "failed"]
    BY <2>4, <2>5 DEF ModelFails, Over
  <2>7. d = c
    BY <1>1, <2>1, <2>6
  <2>8. SubSeq(order[c], 1, failed[c] + 1) = order[c]
    <3>1. failed[c] + 1 = Len(order[c])
      BY <2>6, <2>7 DEF LastFails
    <3> QED
      BY <2>1, <3>1
  <2> QED
    BY <1>1, <2>8 DEF RouterInv, OrderCovers
<1>2. RouterInv /\ [RouterNext]_routerVars =>
        [\A c \in Prompts :
           progress[c] = "asking" /\ progress'[c] = "failed"
             => ProvidersOf(SubSeq(order[c], 1, failed[c] + 1)) = ProvidersOf(ranked[c])]_routerVars
  BY <1>1
<1> QED
  BY <1>2, RouterInvariance, PTL DEF RouterSpec, NobodyIsUntried
=============================================================================
