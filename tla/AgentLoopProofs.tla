--------------------------- MODULE AgentLoopProofs ---------------------------
(***************************************************************************)
(* Theorems about AgentLoop, for any operations and any plans, those in    *)
(* which a key changes its meaning included, and any number of repairs,    *)
(* attempts and crashes.                                                   *)
(***************************************************************************)
EXTENDS AgentLoop, FiniteSetTheorems, TLAPS

Findings == [op : Ops, result : {"ok", "skipped", "failed"}]
Something == \E o \in Ops : runs[o] > 0

\* The evidence of a step is by its position in the plan.
Covered(i) == evidence[i].result = "ok" \/ (evidence[i].result = "skipped" /\ plan[i].optional)

LifeTyped ==
  /\ plan \in Seq(PlanSteps)
  /\ evidence \in Seq(Findings)
  /\ AgentLoopTypeOK

\* While steps are worked off, what lies behind the index is covered, ...
BehindIsCovered ==
  stage \in {"working", "performing", "performed", "repairing"} =>
    Len(evidence) = index - 1 /\ \A i \in 1 .. (index - 1) : Covered(i)
InsideThePlan ==
  stage \in {"performing", "performed", "repairing"} => index <= Len(plan)

\* ... and what the verifier is given is the whole plan, or has a failure in it.
WholeOrFailed ==
  /\ stage = "verifying" =>
       \/ Len(evidence) = Len(plan) /\ \A i \in 1 .. Len(plan) : Covered(i)
       \/ \E i \in DOMAIN evidence : evidence[i].result = "failed"
  /\ stage = "done" =>
       /\ Len(evidence) = Len(plan) /\ \A i \in 1 .. Len(plan) : Covered(i)
       /\ \E i \in DOMAIN evidence : evidence[i].result = "ok"

\* Nothing is written down, believed or claimed before something has happened.
NothingFromNothing ==
  \/ stage = "performed" \/ completed # {}
  \/ \E k \in DOMAIN journal : journal[k] = "done"
  \/ \E i \in DOMAIN evidence : evidence[i].result = "ok"
  => Something

LoopInv ==
  LifeTyped /\ BehindIsCovered /\ InsideThePlan /\ WholeOrFailed /\ NothingFromNothing
-----------------------------------------------------------------------------
\* rekey changes keys and nothing else.
LEMMA RekeyingKeeps ==
  ASSUME NEW p \in Seq(PlanSteps)
  PROVE  /\ Rekeyed(p) \in Seq(PlanSteps)
         /\ Len(Rekeyed(p)) = Len(p)
         /\ \A i \in 1 .. Len(p) : Rekeyed(p)[i].optional = p[i].optional
         /\ \A i \in 1 .. Len(p) : Rekeyed(p)[i].op = p[i].op
<1> DEFINE same(i) == {j \in 1 .. (i - 1) : p[j].key = p[i].key}
<1>1. Len(p) \in Nat /\ DOMAIN p = 1 .. Len(p) /\ \A i \in 1 .. Len(p) : p[i] \in PlanSteps
  OBVIOUS
<1>2. ASSUME NEW i \in 1 .. Len(p) PROVE Cardinality(same(i)) + 1 \in Nat
  <2>1. IsFiniteSet(1 .. (i - 1))
    BY <1>1, FS_Interval
  <2>2. IsFiniteSet(same(i))
    BY <2>1, FS_Subset
  <2> QED
    BY <2>2, FS_CardinalityType
<1>3. ASSUME NEW i \in 1 .. Len(p)
      PROVE  /\ Rekeyed(p)[i] \in PlanSteps /\ Rekeyed(p)[i].optional = p[i].optional
             /\ Rekeyed(p)[i].op = p[i].op
  <2>1. Rekeyed(p)[i] = IF same(i) = {} THEN p[i]
                        ELSE [p[i] EXCEPT !.key = Append(@, Cardinality(same(i)) + 1)]
    BY <1>1 DEF Rekeyed
  <2>2. p[i].key \in Seq(STRING \cup Nat)
    BY <1>1 DEF PlanSteps
  <2>3. Append(p[i].key, Cardinality(same(i)) + 1) \in Seq(STRING \cup Nat)
    BY <1>2, <2>2
  <2> QED
    BY <1>1, <2>1, <2>3 DEF PlanSteps
<1>4. Rekeyed(p) = [i \in 1 .. Len(p) |-> Rekeyed(p)[i]]
  BY <1>1 DEF Rekeyed
<1> HIDE DEF same
<1>5. Rekeyed(p) \in [1 .. Len(p) -> PlanSteps]
  BY <1>3, <1>4
<1> QED
  BY <1>1, <1>3, <1>5

LEMMA LoopInit == AgentLoopInit => LoopInv
<1> SUFFICES ASSUME AgentLoopInit PROVE LoopInv
  OBVIOUS
<1> USE AgentLoopAssumption DEF AgentLoopInit
<1>1. LifeTyped
  BY DEF LifeTyped, AgentLoopTypeOK, Stages, Parked
<1>2. BehindIsCovered /\ InsideThePlan /\ WholeOrFailed
  BY DEF BehindIsCovered, InsideThePlan, WholeOrFailed
<1>3. NothingFromNothing
  BY DEF NothingFromNothing
<1> QED
  BY <1>1, <1>2, <1>3 DEF LoopInv

\* A step that changes neither the plan nor what is known of it.
LEMMA Moving ==
  ASSUME LoopInv, UNCHANGED <<plan, evidence, index, completed>>, AgentLoopTypeOK',
         stage' \in {"working", "performing", "performed", "repairing"} =>
           stage \in {"working", "performing", "performed", "repairing"},
         stage' \in {"performing", "performed", "repairing"} => index <= Len(plan),
         stage' = "verifying" => stage = "working" /\ index = Len(plan) + 1,
         stage' = "done" => stage = "verifying" /\ MayBeDone,
         \A o \in Ops : runs'[o] >= runs[o],
         stage' = "performed" => Something',
         \A k \in DOMAIN journal' : journal'[k] = "done" => Something
  PROVE  LoopInv'
<1> USE DEF LoopInv
<1>1. LifeTyped'
  BY DEF LifeTyped
<1>2. \A i : Covered(i)' <=> Covered(i)
  BY DEF Covered
<1>3. BehindIsCovered' /\ InsideThePlan'
  BY <1>2 DEF BehindIsCovered, InsideThePlan
<1>4. WholeOrFailed'
  <2>1. Len(plan) \in Nat /\ index \in Nat /\ DOMAIN evidence = 1 .. Len(evidence)
    BY DEF LifeTyped, AgentLoopTypeOK
  <2>2. stage' = "verifying" => Len(evidence) = Len(plan) /\ \A i \in 1 .. Len(plan) : Covered(i)
    BY <2>1 DEF BehindIsCovered
  <2>3. stage' = "done" =>
          /\ Len(evidence) = Len(plan) /\ \A i \in 1 .. Len(plan) : Covered(i)
          /\ \E i \in DOMAIN evidence : evidence[i].result = "ok"
    BY DEF WholeOrFailed, MayBeDone
  <2> QED
    BY <1>2, <2>2, <2>3 DEF WholeOrFailed
<1>5. Something => Something'
  BY DEF Something, LifeTyped, AgentLoopTypeOK
<1>6. NothingFromNothing'
  BY <1>5 DEF NothingFromNothing
<1> QED
  BY <1>1, <1>3, <1>4, <1>6

\* A step of the plan is behind: its finding is noted and the index moves on.
LEMMA Noting ==
  ASSUME LoopInv, stage \in {"working", "performing", "performed"}, index <= Len(plan),
         NEW finding \in Findings, evidence' = Append(evidence, finding),
         finding.result = "ok" \/ (finding.result = "skipped" /\ Step.optional),
         finding.result = "ok" => Something,
         index' = index + 1, stage' = "working", AgentLoopTypeOK',
         \A k \in DOMAIN journal' : journal'[k] = "done" => Something,
         UNCHANGED <<plan, completed, runs>>
  PROVE  LoopInv'
<1> USE DEF LoopInv
<1>1. /\ Len(plan) \in Nat /\ index \in Nat \ {0}
      /\ Len(evidence) = index - 1 /\ Len(evidence) \in Nat
      /\ \A i \in 1 .. (index - 1) : Covered(i)
  BY DEF LifeTyped, AgentLoopTypeOK, BehindIsCovered
<1>2. /\ evidence' \in Seq(Findings) /\ Len(evidence') = index
      /\ \A i \in 1 .. (index - 1) : evidence'[i] = evidence[i]
      /\ evidence'[index] = finding
  BY <1>1 DEF LifeTyped
<1>3. LifeTyped'
  BY <1>2 DEF LifeTyped
<1>4. \A i \in 1 .. index : Covered(i)'
  BY <1>1, <1>2 DEF Covered, Step
<1>5. BehindIsCovered' /\ InsideThePlan' /\ WholeOrFailed'
  BY <1>1, <1>2, <1>4 DEF BehindIsCovered, InsideThePlan, WholeOrFailed
<1>6. NothingFromNothing'
  <2>1. ASSUME NEW i \in DOMAIN evidence', evidence'[i].result = "ok" PROVE Something
    <3>1. i \in 1 .. index
      BY <1>1, <1>2, <2>1
    <3>2. CASE i = index
      BY <1>2, <2>1, <3>2
    <3>3. CASE i # index
      <4>1. i \in DOMAIN evidence /\ evidence[i].result = "ok"
        BY <1>1, <1>2, <2>1, <3>1, <3>3 DEF LifeTyped
      <4> QED
        BY <4>1 DEF NothingFromNothing
    <3> QED
      BY <3>2, <3>3
  <2> QED
    BY <2>1 DEF NothingFromNothing, Something
<1> QED
  BY <1>3, <1>5, <1>6

\* The loop gives up: the verifier will find the failure.
LEMMA GivingUp ==
  ASSUME LoopInv, stage \in {"performing", "repairing"}, GivesUp, AgentLoopTypeOK',
         \A k \in DOMAIN journal' : journal'[k] = "done" => Something,
         UNCHANGED <<plan, completed, runs>>
  PROVE  LoopInv'
<1> USE DEF LoopInv, GivesUp, Goes
<1>1. Step \in PlanSteps /\ Failed(Step.op) \in Findings
  <2>1. index \in 1 .. Len(plan)
    BY DEF LifeTyped, AgentLoopTypeOK, InsideThePlan
  <2>2. Step \in PlanSteps
    BY <2>1 DEF LifeTyped, Step
  <2> QED
    BY <2>2 DEF PlanSteps, Failed, Findings
<1>2. /\ evidence' \in Seq(Findings) /\ Len(evidence') = Len(evidence) + 1
      /\ Len(evidence) \in Nat /\ evidence'[Len(evidence) + 1] = Failed(Step.op)
      /\ \A i \in 1 .. Len(evidence) : evidence'[i] = evidence[i]
  BY <1>1 DEF LifeTyped
<1>3. LifeTyped' /\ BehindIsCovered' /\ InsideThePlan'
  BY <1>2 DEF LifeTyped, BehindIsCovered, InsideThePlan
<1>4. WholeOrFailed'
  <2>1. Len(evidence) + 1 \in DOMAIN evidence'
    BY <1>2
  <2>2. evidence'[Len(evidence) + 1].result = "failed"
    BY <1>2 DEF Failed
  <2> QED
    BY <2>1, <2>2 DEF WholeOrFailed
<1>5. NothingFromNothing'
  <2>1. ASSUME NEW i \in DOMAIN evidence', evidence'[i].result = "ok" PROVE Something
    <3>1. i \in 1 .. Len(evidence) + 1
      BY <1>2, <2>1
    <3>2. i # Len(evidence) + 1
      BY <1>2, <2>1 DEF Failed
    <3>3. i \in DOMAIN evidence /\ evidence[i].result = "ok"
      BY <1>2, <2>1, <3>1, <3>2 DEF LifeTyped
    <3> QED
      BY <3>3 DEF NothingFromNothing
  <2> QED
    BY <2>1 DEF NothingFromNothing, Something
<1> QED
  BY <1>3, <1>4, <1>5
\* The journal knows more keys, never fewer.
LEMMA JournalGrows ==
  ASSUME AgentLoopTypeOK, NEW k, NEW s \in StepStates, journal' = Journaled(k, s)
  PROVE  /\ DOMAIN journal \subseteq DOMAIN journal'
         /\ \A j \in DOMAIN journal' : journal'[j] \in StepStates
         /\ \A j \in DOMAIN journal' :
              journal'[j] = "done" => s = "done" \/ (j \in DOMAIN journal /\ journal[j] = "done")
BY DEF Journaled, AgentLoopTypeOK

LEMMA StepIsTyped ==
  ASSUME LifeTyped, index <= Len(plan)
  PROVE  /\ index \in 1 .. Len(plan) /\ Step \in PlanSteps
         /\ Step.op \in Ops /\ Step.optional \in BOOLEAN
         /\ {Ok(Step.op), Skipped(Step.op), Failed(Step.op)} \subseteq Findings
<1>1. index \in 1 .. Len(plan)
  BY DEF LifeTyped, AgentLoopTypeOK
<1>2. Step \in PlanSteps
  BY <1>1 DEF LifeTyped, Step
<1> QED
  BY <1>1, <1>2 DEF PlanSteps, Ok, Skipped, Failed, Findings

LEMMA LoopTypeStep == LoopInv /\ [AgentLoopNext]_loopVars => AgentLoopTypeOK'
<1> SUFFICES ASSUME LoopInv, [AgentLoopNext]_loopVars PROVE AgentLoopTypeOK'
  OBVIOUS
<1> USE AgentLoopAssumption DEF LoopInv, Goes, Stages, Parked, StepStates
<1>1. /\ AgentLoopTypeOK /\ plan \in Seq(PlanSteps) /\ Len(plan) \in Nat
      /\ index \in Nat
  BY DEF LifeTyped, AgentLoopTypeOK
<1>2. ASSUME NEW q \in Seq(PlanSteps) PROVE \A i \in DOMAIN q : q[i].op \in Ops
  <2>1. \A i \in DOMAIN q : q[i] \in PlanSteps
    BY <1>2
  <2> QED
    BY <2>1 DEF PlanSteps
<1>3. CASE MakePlan
  <2>1. PICK p \in Plans : plan' = Rekeyed(p)
    BY <1>3 DEF MakePlan
  <2>2. plan' \in Seq(PlanSteps) /\ Len(plan') \in Nat
    BY <2>1, RekeyingKeeps
  <2> QED
    BY <1>1, <1>2, <1>3, <2>2 DEF MakePlan, AgentLoopTypeOK, Done, history
<1>4. CASE NoPlan \/ RetryStep \/ ParkStep \/ EndOfPlan \/ Verify \/ ResumeLife
  BY <1>1, <1>4 DEF NoPlan, RetryStep, ParkStep, EndOfPlan, Verify, ResumeLife,
                    AgentLoopTypeOK, life, history
<1>5. CASE SkipStep
  BY <1>1, <1>5 DEF SkipStep, AgentLoopTypeOK, history
<1>6. CASE StepStarted
  <2>1. journal' = Journaled(Step.key, "running")
    BY <1>6 DEF StepStarted
  <2>2. /\ DOMAIN journal \subseteq DOMAIN journal'
        /\ \A j \in DOMAIN journal' : journal'[j] \in StepStates
    BY <1>1, <2>1, JournalGrows
  <2> QED
    BY <1>1, <1>6, <2>2 DEF StepStarted, AgentLoopTypeOK, history
<1>7. CASE Succeed
  <2>1. Step.op \in Ops
    BY <1>7, StepIsTyped DEF Succeed, InsideThePlan
  <2>2. runs' \in [Ops -> Nat]
    BY <1>1, <1>7, <2>1 DEF Succeed, AgentLoopTypeOK
  <2> QED
    BY <1>1, <1>7, <2>2 DEF Succeed, AgentLoopTypeOK, life
<1>8. CASE StepFinished
  <2>1. journal' = Journaled(Step.key, "done")
    BY <1>8 DEF StepFinished
  <2>2. /\ DOMAIN journal \subseteq DOMAIN journal'
        /\ \A j \in DOMAIN journal' : journal'[j] \in StepStates
    BY <1>1, <2>1, JournalGrows
  <2>3. index <= Len(plan)
    BY <1>8 DEF StepFinished, InsideThePlan
  <2> QED
    BY <1>1, <1>8, <2>2, <2>3 DEF StepFinished, AgentLoopTypeOK, history
<1>9. CASE StepFails
  <2>1. journal' = Journaled(Step.key, "failed")
    BY <1>9 DEF StepFails
  <2>2. /\ DOMAIN journal \subseteq DOMAIN journal'
        /\ \A j \in DOMAIN journal' : journal'[j] \in StepStates
    BY <1>1, <2>1, JournalGrows
  <2>3. index <= Len(plan)
    BY <1>9 DEF StepFails, InsideThePlan
  <2>4. /\ UNCHANGED <<plan, completed, attempt, interrupts, runs, unjournaled>>
        /\ stage' \in Stages /\ index' \in {index, index + 1} /\ replans' \in 0 .. MaxReplans
    BY <1>1, <1>9 DEF StepFails, SkipOptional, AskForRepair, GivesUp, AgentLoopTypeOK, history
  <2> QED
    BY <1>1, <2>2, <2>3, <2>4 DEF AgentLoopTypeOK
<1>10. CASE Repair
  <2>1. PICK p \in Plans : plan' = Rekeyed(Prefix \o p)
    BY <1>10 DEF Repair, Repairs
  <2>2. index <= Len(plan)
    BY <1>10 DEF Repair, InsideThePlan
  <2>3. Prefix \in Seq(PlanSteps) /\ Len(Prefix) = index - 1
    BY <1>1, <2>2 DEF Prefix, AgentLoopTypeOK
  <2>4. Prefix \o p \in Seq(PlanSteps) /\ Len(Prefix \o p) >= index - 1
    BY <1>1, <2>3
  <2>5. plan' \in Seq(PlanSteps) /\ Len(plan') = Len(Prefix \o p)
    BY <2>1, <2>4, RekeyingKeeps
  <2>6. Len(plan') \in Nat /\ Len(plan') >= index - 1
    BY <2>4, <2>5
  <2> QED
    BY <1>1, <1>2, <1>10, <2>5, <2>6 DEF Repair, AgentLoopTypeOK, history
<1>11. CASE NoRepair
  BY <1>1, <1>11 DEF NoRepair, GivesUp, AgentLoopTypeOK, history
<1>12. CASE Interrupt
  <2>1. stage = "performed" => Step.op \in Ops
    BY StepIsTyped DEF InsideThePlan
  <2>2. unjournaled' \in [Ops -> Nat]
    BY <1>1, <1>12, <2>1 DEF Interrupt, AgentLoopTypeOK
  <2> QED
    BY <1>1, <1>12, <2>2 DEF Interrupt, AgentLoopTypeOK, life
<1>13. CASE RecoverLife
  BY <1>1, <1>13 DEF RecoverLife, ResetRunning, AgentLoopTypeOK, life, history
<1>14. CASE UNCHANGED loopVars
  BY <1>1, <1>14 DEF loopVars, life, history, AgentLoopTypeOK
<1> QED
  BY <1>3, <1>4, <1>5, <1>6, <1>7, <1>8, <1>9, <1>10, <1>11, <1>12, <1>13, <1>14
     DEF AgentLoopNext, Works
LEMMA LoopStep == LoopInv /\ [AgentLoopNext]_loopVars => LoopInv'
<1> SUFFICES ASSUME LoopInv, [AgentLoopNext]_loopVars PROVE LoopInv'
  OBVIOUS
<1>1. AgentLoopTypeOK'
  BY LoopTypeStep
<1>2. /\ LifeTyped /\ AgentLoopTypeOK /\ plan \in Seq(PlanSteps) /\ Len(plan) \in Nat
      /\ index \in 1 .. (Len(plan) + 1)
      /\ \A o \in Ops : runs[o] \in Nat
  BY DEF LoopInv, LifeTyped, AgentLoopTypeOK
<1>3. \A k \in DOMAIN journal : journal[k] = "done" => Something
  BY DEF LoopInv, NothingFromNothing
<1>4. completed # {} => Something
  BY DEF LoopInv, NothingFromNothing
<1>5. stage \in {"performing", "performed", "repairing"} => index <= Len(plan)
  BY DEF LoopInv, InsideThePlan
<1> USE DEF Goes
<1>6. CASE MakePlan
  <2>1. PICK p \in Plans : plan' = Rekeyed(p)
    BY <1>6 DEF MakePlan
  <2>2. plan' \in Seq(PlanSteps)
    BY <2>1, RekeyingKeeps, AgentLoopAssumption
  <2>3. LifeTyped'
    BY <1>1, <1>6, <2>2 DEF MakePlan, LifeTyped
  <2>4. BehindIsCovered' /\ InsideThePlan' /\ WholeOrFailed'
    BY <1>6 DEF MakePlan, BehindIsCovered, InsideThePlan, WholeOrFailed
  <2>5. (completed' # {} => Something) /\ Something' = Something
    BY <1>3, <1>6 DEF MakePlan, Done, Something, history
  <2>6. NothingFromNothing'
    BY <1>3, <1>6, <2>5 DEF MakePlan, NothingFromNothing
  <2> QED
    BY <2>3, <2>4, <2>6 DEF LoopInv
<1>7. CASE NoPlan \/ RetryStep \/ ParkStep \/ EndOfPlan \/ Verify \/ ResumeLife
  <2>1. UNCHANGED <<plan, evidence, index, completed, runs, journal>>
    BY <1>7 DEF NoPlan, RetryStep, ParkStep, EndOfPlan, Verify, ResumeLife, life, history
  <2>2. /\ stage' \in {"working", "performing", "performed", "repairing"} =>
             stage = "performing" /\ stage' = "performing"
        /\ stage' = "verifying" => stage = "working" /\ index > Len(plan)
        /\ stage' = "done" => stage = "verifying" /\ MayBeDone
    BY <1>7 DEF NoPlan, RetryStep, ParkStep, EndOfPlan, Verify, ResumeLife
  <2> QED
    BY <1>1, <1>2, <1>3, <1>5, <2>1, <2>2, Moving
<1>8. CASE SkipStep
  <2>1. Ok(Step.op) \in Findings
    BY <1>2, <1>8, StepIsTyped DEF SkipStep
  <2>2. Ok(Step.op).result = "ok" /\ Something
    BY <1>4, <1>8 DEF Ok, SkipStep
  <2> QED
    BY <1>1, <1>3, <1>8, <2>1, <2>2, Noting DEF SkipStep, history
<1>9. CASE StepStarted
  <2>1. \A k \in DOMAIN journal' : journal'[k] = "done" => Something
    BY <1>2, <1>3, <1>9, JournalGrows DEF StepStarted, StepStates
  <2> QED
    BY <1>1, <1>2, <1>9, <2>1, Moving DEF StepStarted, history
<1>10. CASE Succeed
  <2>1. Step.op \in Ops
    BY <1>2, <1>5, <1>10, StepIsTyped DEF Succeed
  <2>2. \A o \in Ops : runs'[o] >= runs[o]
    BY <1>2, <1>10, <2>1 DEF Succeed, AgentLoopTypeOK
  <2>3. runs'[Step.op] > 0
    BY <1>2, <1>10, <2>1 DEF Succeed, AgentLoopTypeOK
  <2>4. Something'
    BY <2>1, <2>3 DEF Something
  <2> QED
    BY <1>1, <1>3, <1>5, <1>10, <2>2, <2>4, Moving DEF Succeed, life
<1>11. CASE StepFinished
  <2>1. Ok(Step.op) \in Findings /\ index <= Len(plan)
    BY <1>2, <1>5, <1>11, StepIsTyped DEF StepFinished
  <2>2. Ok(Step.op).result = "ok" /\ Something
    BY <1>11 DEF Ok, StepFinished, LoopInv, NothingFromNothing
  <2> QED
    BY <1>1, <1>11, <2>1, <2>2, Noting DEF StepFinished, history
<1>12. CASE StepFails
  <2>1. /\ journal' = Journaled(Step.key, "failed") /\ stage = "performing"
        /\ UNCHANGED <<plan, completed, runs>>
    BY <1>12 DEF StepFails, history
  <2>2. \A k \in DOMAIN journal' : journal'[k] = "done" => Something
    BY <1>2, <1>3, <2>1, JournalGrows DEF StepStates
  <2>3. CASE SkipOptional
    <3>1. Skipped(Step.op) \in Findings /\ index <= Len(plan)
      BY <1>2, <1>5, <2>1, StepIsTyped
    <3>2. Skipped(Step.op).result = "skipped"
      BY DEF Skipped
    <3> QED
      BY <1>1, <2>1, <2>2, <2>3, <3>1, <3>2, Noting DEF SkipOptional
  <2>4. CASE AskForRepair
    BY <1>1, <1>2, <1>5, <2>1, <2>2, <2>4, Moving DEF AskForRepair
  <2>5. CASE GivesUp
    BY <1>1, <2>1, <2>2, <2>5, GivingUp
  <2> QED
    BY <1>12, <2>3, <2>4, <2>5 DEF StepFails
<1>13. CASE Repair
  <2>1. PICK p \in Plans : plan' = Rekeyed(Prefix \o p)
    BY <1>13 DEF Repair, Repairs
  <2>2. /\ Prefix \in Seq(PlanSteps) /\ Len(Prefix) = index - 1
        /\ \A i \in 1 .. (index - 1) : Prefix[i] = plan[i]
    BY <1>2 DEF Prefix
  <2>3. /\ Prefix \o p \in Seq(PlanSteps) /\ index - 1 <= Len(Prefix \o p)
        /\ \A i \in 1 .. (index - 1) : (Prefix \o p)[i] = plan[i]
    BY <1>2, <2>2, AgentLoopAssumption
  <2>4. /\ plan' \in Seq(PlanSteps)
        /\ \A i \in 1 .. Len(Prefix \o p) : plan'[i].optional = (Prefix \o p)[i].optional
    BY <2>1, <2>3, RekeyingKeeps
  <2>5. ASSUME NEW i \in 1 .. (index - 1) PROVE plan'[i].optional = plan[i].optional
    <3>1. i \in 1 .. Len(Prefix \o p)
      <4> HIDE DEF Prefix
      <4>1. Len(Prefix \o p) \in Nat
        BY <2>3
      <4> QED
        BY <1>2, <2>3, <4>1
    <3>2. plan'[i].optional = (Prefix \o p)[i].optional
      BY <2>4, <3>1
    <3>3. (Prefix \o p)[i] = plan[i]
      BY <2>3
    <3> QED
      BY <3>2, <3>3
  <2>6. UNCHANGED <<evidence, index, completed, journal, runs>> /\ stage' = "working"
    BY <1>13 DEF Repair, history
  <2>7. LifeTyped'
    BY <1>1, <1>2, <2>4, <2>6 DEF LifeTyped
  <2>8. BehindIsCovered'
    BY <1>13, <2>5, <2>6 DEF Repair, LoopInv, BehindIsCovered, Covered
  <2>9. InsideThePlan' /\ WholeOrFailed' /\ NothingFromNothing'
    BY <1>13, <2>6 DEF Repair, LoopInv, InsideThePlan, WholeOrFailed, NothingFromNothing, Something
  <2> QED
    BY <2>7, <2>8, <2>9 DEF LoopInv
<1>14. CASE NoRepair
  BY <1>1, <1>3, <1>14, GivingUp DEF NoRepair, history
<1>15. CASE Interrupt
  BY <1>1, <1>2, <1>3, <1>15, Moving DEF Interrupt, life
<1>16. CASE RecoverLife
  <2>1. \A k \in DOMAIN journal' : journal'[k] = "done" => Something
    BY <1>3, <1>16 DEF RecoverLife, ResetRunning
  <2> QED
    BY <1>1, <1>2, <1>16, <2>1, Moving DEF RecoverLife, life, history
<1>17. CASE UNCHANGED loopVars
  BY <1>17 DEF loopVars, life, history, LoopInv, LifeTyped, AgentLoopTypeOK, BehindIsCovered,
               InsideThePlan, WholeOrFailed, NothingFromNothing, Something, Covered
<1> QED
  BY <1>6, <1>7, <1>8, <1>9, <1>10, <1>11, <1>12, <1>13, <1>14, <1>15, <1>16, <1>17
     DEF AgentLoopNext, Works
-----------------------------------------------------------------------------
LEMMA LoopInvariant == AgentLoopSpec => []LoopInv
<1>1. LoopInv /\ [AgentLoopNext]_loopVars => LoopInv'
  BY LoopStep
<1> QED
  BY LoopInit, <1>1, PTL DEF AgentLoopSpec

\* The state of the loop and of its journal has the form the code gives it.
THEOREM AgentLoopTypeCorrect == AgentLoopSpec => []AgentLoopTypeOK
<1>1. LoopInv => AgentLoopTypeOK
  BY DEF LoopInv, LifeTyped
<1> QED
  BY LoopInvariant, <1>1, PTL

\* A task is done only when every required step of the plan in force at the end
\* is noted as succeeded, in whatever life, and at least one operation really
\* has: after any retries, repairs, resumes and crashes (verify.py, "fail
\* closed").  What the notes are worth when a key changes its meaning is
\* EvidenceIsTrue's question.
THEOREM DoneMeansComplete == AgentLoopSpec => []DoneIsComplete
<1>1. LoopInv => DoneIsComplete
  <2> SUFFICES ASSUME LoopInv, stage = "done" PROVE DoneIsComplete
    BY DEF DoneIsComplete
  <2>1. /\ Len(evidence) = Len(plan)
        /\ \A i \in 1 .. Len(plan) : evidence[i].result = "ok" \/ plan[i].optional
        /\ \E i \in DOMAIN evidence : evidence[i].result = "ok"
    BY DEF LoopInv, WholeOrFailed, Covered
  <2>2. Something
    BY <2>1 DEF LoopInv, NothingFromNothing
  <2>3. DOMAIN plan = 1 .. Len(plan)
    BY DEF LoopInv, LifeTyped
  <2> QED
    BY <2>1, <2>2, <2>3 DEF DoneIsComplete, Something
<1> QED
  BY LoopInvariant, <1>1, PTL
-----------------------------------------------------------------------------
\* What a key means, for a planner that keeps to it: meaning[k] is the operation
\* of every step with the key k, in whatever plan is in force.
KeysMean(meaning) == \A i \in DOMAIN plan : meaning[plan[i].key] = plan[i].op

\* What is believed to be done has been done.
BelievedIsTrue(meaning) ==
  /\ \A k \in completed \cup Done : runs[meaning[k]] > 0
  /\ stage = "performed" => runs[Step.op] > 0
  /\ EvidenceIsTrue

LEMMA BeliefInit == ASSUME NEW meaning PROVE AgentLoopInit => BelievedIsTrue(meaning)
BY DEF AgentLoopInit, BelievedIsTrue, EvidenceIsTrue, Done

\* What has happened stays so: only Succeed writes the history, and it adds to it.
LEMMA RunsGrow ==
  ASSUME LoopInv, [AgentLoopNext]_loopVars
  PROVE  /\ runs \in [Ops -> Nat] /\ runs' \in [Ops -> Nat]
         /\ \A o : runs[o] > 0 => runs'[o] > 0
         /\ Succeed \/ UNCHANGED runs
<1>1. runs \in [Ops -> Nat]
  BY DEF LoopInv, LifeTyped, AgentLoopTypeOK
<1>2. runs' \in [Ops -> Nat]
  BY LoopTypeStep DEF AgentLoopTypeOK
<1>3. Succeed \/ UNCHANGED runs
  BY DEF AgentLoopNext, Works, MakePlan, NoPlan, SkipStep, StepStarted, RetryStep, ParkStep,
         StepFinished, StepFails, Repair, NoRepair, EndOfPlan, Verify, ResumeLife, Interrupt,
         RecoverLife, loopVars, life, history
<1>4. CASE Succeed
  <2>1. Step.op \in Ops
    BY <1>4, StepIsTyped DEF Succeed, LoopInv, InsideThePlan
  <2>2. ASSUME NEW o, runs[o] > 0 PROVE runs'[o] > 0
    <3>1. CASE o = Step.op
      BY <1>1, <1>4, <2>1, <3>1 DEF Succeed
    <3>2. CASE o # Step.op
      BY <1>1, <1>4, <2>2, <3>2 DEF Succeed
    <3> QED
      BY <3>1, <3>2
  <2> QED
    BY <1>1, <1>2, <1>4, <2>2
<1> QED
  BY <1>1, <1>2, <1>3, <1>4

\* A finding is noted, and it is a true one.
LEMMA NotingTruly ==
  ASSUME LoopInv, EvidenceIsTrue, NEW finding \in Findings,
         evidence' = Append(evidence, finding), UNCHANGED runs,
         finding.result = "ok" => runs[finding.op] > 0
  PROVE  EvidenceIsTrue'
<1>1. /\ evidence \in Seq(Findings) /\ Len(evidence) \in Nat
      /\ DOMAIN evidence = 1 .. Len(evidence) /\ DOMAIN evidence' = 1 .. Len(evidence) + 1
      /\ \A i \in 1 .. Len(evidence) : evidence'[i] = evidence[i]
      /\ evidence'[Len(evidence) + 1] = finding
  BY DEF LoopInv, LifeTyped
<1>2. ASSUME NEW i \in DOMAIN evidence', evidence'[i].result = "ok"
      PROVE  runs'[evidence'[i].op] > 0
  <2>1. CASE i = Len(evidence) + 1
    BY <1>1, <1>2, <2>1
  <2>2. CASE i # Len(evidence) + 1
    <3>1. i \in DOMAIN evidence
      BY <1>1, <1>2, <2>2
    <3> QED
      BY <1>1, <1>2, <3>1 DEF EvidenceIsTrue
  <2> QED
    BY <2>1, <2>2
<1> QED
  BY <1>2 DEF EvidenceIsTrue

LEMMA BeliefStep ==
  ASSUME NEW meaning, LoopInv, KeysMean(meaning), BelievedIsTrue(meaning),
         [AgentLoopNext]_loopVars
  PROVE  BelievedIsTrue(meaning)'
<1> USE DEF Goes
<1>1. /\ runs \in [Ops -> Nat] /\ \A o : runs[o] > 0 => runs'[o] > 0
      /\ Succeed \/ UNCHANGED runs
  BY RunsGrow
<1>2. /\ LifeTyped /\ \A k \in completed \cup Done : runs[meaning[k]] > 0
      /\ stage = "performed" => runs[Step.op] > 0
      /\ EvidenceIsTrue
  BY DEF BelievedIsTrue, LoopInv
<1>3. index <= Len(plan) => meaning[Step.key] = Step.op
  <2>1. index <= Len(plan) => index \in DOMAIN plan
    BY <1>2 DEF LifeTyped, AgentLoopTypeOK
  <2> QED
    BY <2>1 DEF KeysMean, Step
<1>4. stage \in {"performing", "performed", "repairing"} => index <= Len(plan)
  BY DEF LoopInv, InsideThePlan
<1>5. UNCHANGED evidence => EvidenceIsTrue'
  BY <1>1, <1>2 DEF EvidenceIsTrue
<1>6. ASSUME completed' \subseteq completed \cup Done, UNCHANGED <<evidence, runs>>,
             stage' # "performed", \A k \in Done' : k \in Done
      PROVE  BelievedIsTrue(meaning)'
  BY <1>2, <1>5, <1>6 DEF BelievedIsTrue
<1>7. CASE MakePlan
  <2>1. evidence' = <<>> /\ completed' = Done /\ stage' = "working" /\ Done' = Done
        /\ UNCHANGED runs
    BY <1>7 DEF MakePlan, Done, history
  <2>2. EvidenceIsTrue'
    BY <2>1 DEF EvidenceIsTrue
  <2> QED
    BY <1>2, <2>1, <2>2 DEF BelievedIsTrue
<1>8. CASE NoPlan \/ RetryStep \/ ParkStep \/ Repair \/ EndOfPlan \/ Verify \/ ResumeLife
           \/ Interrupt \/ RecoverLife
  <2>1. /\ UNCHANGED <<evidence, runs, completed>> /\ stage' # "performed"
        /\ journal' = journal \/ journal' = ResetRunning
    BY <1>8 DEF NoPlan, RetryStep, ParkStep, Repair, EndOfPlan, Verify, ResumeLife, Interrupt,
                RecoverLife, life, history
  <2>2. \A k \in Done' : k \in Done
    BY <2>1 DEF Done, ResetRunning
  <2> QED
    BY <1>6, <2>1, <2>2
<1>9. CASE SkipStep
  <2>1. runs[Step.op] > 0
    BY <1>2, <1>3, <1>9 DEF SkipStep
  <2>2. Ok(Step.op) \in Findings /\ Ok(Step.op).op = Step.op
    BY <1>2, <1>9, StepIsTyped DEF SkipStep, Ok
  <2>3. EvidenceIsTrue'
    BY <1>2, <1>9, <2>1, <2>2, NotingTruly DEF SkipStep, history
  <2>4. UNCHANGED <<completed, journal, runs, stage>> /\ stage = "working"
    BY <1>9 DEF SkipStep, history
  <2> QED
    BY <1>2, <2>3, <2>4 DEF BelievedIsTrue, Done
<1>10. CASE StepStarted
  <2>1. /\ UNCHANGED <<evidence, runs, completed>> /\ stage' = "performing"
        /\ journal' = Journaled(Step.key, "running")
    BY <1>10 DEF StepStarted, history
  <2>2. \A k \in Done' : k \in Done
    BY <2>1 DEF Done, Journaled
  <2> QED
    BY <1>6, <2>1, <2>2
<1>11. CASE Succeed
  <2>1. Step.op \in Ops
    BY <1>2, <1>4, <1>11, StepIsTyped DEF Succeed
  <2>2. /\ runs'[Step.op] > 0 /\ UNCHANGED <<journal, completed, evidence, plan, index>>
    BY <1>1, <1>11, <2>1 DEF Succeed, life
  <2>3. Step' = Step /\ Done' = Done
    BY <2>2 DEF Step, Done
  <2> QED
    BY <1>1, <1>2, <1>5, <2>2, <2>3 DEF BelievedIsTrue
<1>12. CASE StepFinished
  <2>1. /\ stage = "performed" /\ index <= Len(plan) /\ stage' = "working"
        /\ UNCHANGED <<runs, completed>> /\ journal' = Journaled(Step.key, "done")
        /\ evidence' = Append(evidence, Ok(Step.op))
    BY <1>4, <1>12 DEF StepFinished, history
  <2>2. Ok(Step.op) \in Findings /\ Ok(Step.op).op = Step.op /\ runs[Step.op] > 0
    BY <1>2, <2>1, StepIsTyped DEF Ok
  <2>3. EvidenceIsTrue'
    BY <1>2, <2>1, <2>2, NotingTruly
  <2>4. \A k \in Done' : k \in Done \/ k = Step.key
    BY <2>1 DEF Done, Journaled
  <2> QED
    BY <1>2, <1>3, <2>1, <2>2, <2>3, <2>4 DEF BelievedIsTrue
<1>13. CASE StepFails \/ NoRepair
  <2>1. /\ UNCHANGED <<runs, completed>> /\ stage' # "performed" /\ index <= Len(plan)
        /\ journal' = Journaled(Step.key, "failed") \/ journal' = journal
        /\ \/ UNCHANGED evidence
           \/ evidence' = Append(evidence, Skipped(Step.op))
           \/ evidence' = Append(evidence, Failed(Step.op))
    BY <1>4, <1>13 DEF StepFails, NoRepair, SkipOptional, AskForRepair, GivesUp, history
  <2>2. {Skipped(Step.op), Failed(Step.op)} \subseteq Findings
        /\ Skipped(Step.op).result # "ok" /\ Failed(Step.op).result # "ok"
    BY <1>2, <2>1, StepIsTyped DEF Skipped, Failed
  <2>3. EvidenceIsTrue'
    BY <1>2, <1>5, <2>1, <2>2, NotingTruly
  <2>4. \A k \in Done' : k \in Done
    BY <2>1 DEF Done, Journaled
  <2> QED
    BY <1>2, <2>1, <2>3, <2>4 DEF BelievedIsTrue
<1>14. CASE UNCHANGED loopVars
  BY <1>2, <1>14 DEF loopVars, life, history, BelievedIsTrue, EvidenceIsTrue, Done, Step
<1> QED
  BY <1>7, <1>8, <1>9, <1>10, <1>11, <1>12, <1>13, <1>14 DEF AgentLoopNext, Works

\* As long as a key means the same operation in every plan in force, whatever
\* the planner calls its steps by, no step is reported as done whose operation
\* has not succeeded, in this life or an earlier one (loop.py, "Already done in
\* an earlier life of this task").
THEOREM EvidenceIsTrueUnlessKeysShift ==
  ASSUME NEW CONSTANT meaning
  PROVE  AgentLoopSpec /\ []KeysMean(meaning) => []EvidenceIsTrue
<1>1. AgentLoopInit => BelievedIsTrue(meaning)
  BY BeliefInit
<1>2. LoopInv /\ KeysMean(meaning) /\ BelievedIsTrue(meaning) /\ [AgentLoopNext]_loopVars
        => BelievedIsTrue(meaning)'
  BY BeliefStep
<1>3. BelievedIsTrue(meaning) => EvidenceIsTrue
  BY DEF BelievedIsTrue
<1> QED
  BY <1>1, <1>2, <1>3, LoopInvariant, PTL DEF AgentLoopSpec
-----------------------------------------------------------------------------
\* A planner that calls an operation by one name, and no two steps of a plan by
\* the same one: keyOf[o] is the key of every step that performs o.
KeysAreSteady(keyOf) ==
  /\ \A i \in DOMAIN plan : plan[i].key = keyOf[plan[i].op]
  /\ \A i, j \in DOMAIN plan : plan[i].key = plan[j].key => i = j

AtWork == {"working", "performing", "performed", "repairing"}

\* What has succeeded once more than crashes account for is in the journal, or
\* about to be; what is in the journal is known to this life or lies behind it;
\* and what is being performed is not in it.
SuccessIsKnown(keyOf) ==
  /\ OnceUnlessUnjournaled
  /\ \A o \in Ops : runs[o] > unjournaled[o] =>
       keyOf[o] \in Done \/ (stage = "performed" /\ Step.op = o)
DoneIsBehind ==
  /\ stage \in AtWork =>
       \A k \in Done : k \in completed \/ \E j \in 1 .. (index - 1) : plan[j].key = k
  /\ stage \in {"performing", "performed"} => Step.key \notin Done

JournalInv(keyOf) == SuccessIsKnown(keyOf) /\ DoneIsBehind

LEMMA JournalInit == ASSUME NEW keyOf PROVE AgentLoopInit => JournalInv(keyOf)
BY DEF AgentLoopInit, JournalInv, SuccessIsKnown, DoneIsBehind, OnceUnlessUnjournaled, Done

\* A step that has not succeeded and writes no more than that it runs or fails.
LEMMA Journaling ==
  ASSUME NEW keyOf, LoopInv, JournalInv(keyOf), index <= Len(plan),
         Step.key \notin Done, stage # "performed", stage' # "performed",
         NEW s \in StepStates \ {"done"}, journal' = Journaled(Step.key, s),
         UNCHANGED <<runs, unjournaled>>
  PROVE  Done' = Done /\ SuccessIsKnown(keyOf)'
<1>1. Done' = Done
  BY DEF Done, Journaled
<1> QED
  BY <1>1 DEF JournalInv, SuccessIsKnown, OnceUnlessUnjournaled

LEMMA JournalStep ==
  ASSUME NEW keyOf, LoopInv, KeysAreSteady(keyOf), KeysAreSteady(keyOf)', JournalInv(keyOf),
         [AgentLoopNext]_loopVars
  PROVE  JournalInv(keyOf)'
<1> USE DEF Goes
<1>1. /\ LifeTyped /\ plan \in Seq(PlanSteps) /\ Len(plan) \in Nat /\ DOMAIN plan = 1 .. Len(plan)
      /\ index \in 1 .. (Len(plan) + 1)
      /\ runs \in [Ops -> Nat] /\ unjournaled \in [Ops -> Nat]
  BY DEF LoopInv, LifeTyped, AgentLoopTypeOK
<1>2. stage \in {"performing", "performed", "repairing"} => index <= Len(plan)
  BY DEF LoopInv, InsideThePlan
<1>3. ASSUME UNCHANGED <<runs, unjournaled, journal>>, stage # "performed", stage' # "performed"
      PROVE  SuccessIsKnown(keyOf)' /\ Done' = Done
  BY <1>3 DEF JournalInv, SuccessIsKnown, OnceUnlessUnjournaled, Done
<1>4. CASE MakePlan
  <2>1. /\ UNCHANGED <<runs, unjournaled, journal>> /\ completed' = Done
        /\ stage = "thinking" /\ stage' = "working"
    BY <1>4 DEF MakePlan, history
  <2> QED
    BY <1>3, <2>1 DEF JournalInv, DoneIsBehind
<1>5. CASE NoPlan \/ ParkStep \/ EndOfPlan \/ Verify \/ ResumeLife \/ NoRepair
  <2>1. /\ UNCHANGED <<runs, unjournaled, journal>>
        /\ stage # "performed" /\ stage' \notin AtWork
    BY <1>5 DEF NoPlan, ParkStep, EndOfPlan, Verify, ResumeLife, NoRepair, GivesUp, life,
                history, AtWork
  <2> QED
    BY <1>3, <2>1 DEF JournalInv, DoneIsBehind, AtWork
<1>6. CASE RetryStep
  <2>1. UNCHANGED <<runs, unjournaled, journal, plan, index, completed, stage>>
        /\ stage = "performing"
    BY <1>6 DEF RetryStep, history
  <2> QED
    BY <1>3, <2>1 DEF JournalInv, DoneIsBehind, Step
<1>7. CASE SkipStep
  <2>1. /\ UNCHANGED <<runs, unjournaled, journal, plan, completed, stage>>
        /\ stage = "working" /\ index' = index + 1
    BY <1>7 DEF SkipStep, history
  <2>2. 1 .. (index - 1) \subseteq 1 .. (index' - 1)
    BY <1>1, <2>1
  <2>3. DoneIsBehind'
    BY <1>3, <2>1, <2>2 DEF JournalInv, DoneIsBehind
  <2> QED
    BY <1>3, <2>1, <2>3 DEF JournalInv
<1>8. CASE StepStarted
  <2>1. /\ stage = "working" /\ index <= Len(plan) /\ Step.key \notin completed
        /\ UNCHANGED <<runs, unjournaled, plan, index, completed>> /\ stage' = "performing"
        /\ journal' = Journaled(Step.key, "running")
    BY <1>8 DEF StepStarted, history
  <2>2. Step.key \notin Done
    <3>1. ASSUME NEW j \in 1 .. (index - 1) PROVE plan[j].key # Step.key
      <4>1. j \in DOMAIN plan /\ index \in DOMAIN plan /\ j # index
        BY <1>1, <2>1
      <4> QED
        BY <4>1 DEF KeysAreSteady, Step
    <3> QED
      BY <2>1, <3>1 DEF JournalInv, DoneIsBehind, AtWork
  <2>3. Done' = Done /\ SuccessIsKnown(keyOf)'
    BY <2>1, <2>2, Journaling DEF StepStates
  <2>4. Step' = Step
    BY <2>1 DEF Step
  <2>5. DoneIsBehind'
    BY <2>1, <2>2, <2>3, <2>4 DEF JournalInv, DoneIsBehind, AtWork
  <2> QED
    BY <2>3, <2>5 DEF JournalInv
<1>9. CASE Succeed
  <2>1. /\ stage = "performing" /\ stage' = "performed" /\ Step.op \in Ops /\ index \in DOMAIN plan
        /\ runs' = [runs EXCEPT ![Step.op] = @ + 1]
        /\ UNCHANGED <<journal, plan, index, completed, unjournaled>>
    BY <1>1, <1>2, <1>9, StepIsTyped DEF Succeed, life
  <2>2. Step' = Step /\ Done' = Done
    BY <2>1 DEF Step, Done
  <2>3. keyOf[Step.op] = Step.key /\ Step.key \notin Done
    BY <2>1 DEF KeysAreSteady, Step, JournalInv, DoneIsBehind
  <2>4. runs[Step.op] <= unjournaled[Step.op]
    BY <1>1, <2>1, <2>3 DEF JournalInv, SuccessIsKnown
  <2>5. SuccessIsKnown(keyOf)'
    <3>1. ASSUME NEW o \in Ops
          PROVE  /\ runs'[o] <= 1 + unjournaled'[o]
                 /\ runs'[o] > unjournaled'[o] =>
                      keyOf[o] \in Done' \/ (stage' = "performed" /\ Step'.op = o)
      <4>1. CASE o = Step.op
        BY <1>1, <2>1, <2>2, <2>4, <4>1
      <4>2. CASE o # Step.op
        BY <1>1, <2>1, <2>2, <4>2 DEF JournalInv, SuccessIsKnown, OnceUnlessUnjournaled
      <4> QED
        BY <4>1, <4>2
    <3> QED
      BY <3>1 DEF SuccessIsKnown, OnceUnlessUnjournaled
  <2>6. DoneIsBehind'
    BY <2>1, <2>2, <2>3 DEF JournalInv, DoneIsBehind, AtWork
  <2> QED
    BY <2>5, <2>6 DEF JournalInv
<1>10. CASE StepFinished
  <2>1. /\ stage = "performed" /\ stage' = "working" /\ index \in DOMAIN plan
        /\ journal' = Journaled(Step.key, "done") /\ index' = index + 1
        /\ UNCHANGED <<plan, completed, runs, unjournaled>>
    BY <1>1, <1>2, <1>10 DEF StepFinished, history
  <2>2. Done' = Done \cup {Step.key}
    BY <2>1 DEF Done, Journaled
  <2>3. keyOf[Step.op] = Step.key
    BY <2>1 DEF KeysAreSteady, Step
  <2>4. SuccessIsKnown(keyOf)'
    BY <2>1, <2>2, <2>3 DEF JournalInv, SuccessIsKnown, OnceUnlessUnjournaled
  <2>5. ASSUME NEW k \in Done'
        PROVE  k \in completed' \/ \E j \in 1 .. (index' - 1) : plan'[j].key = k
    <3>1. CASE k \in Done
      <4>1. k \in completed \/ \E j \in 1 .. (index - 1) : plan[j].key = k
        BY <2>1, <3>1 DEF JournalInv, DoneIsBehind, AtWork
      <4> QED
        BY <1>1, <2>1, <4>1
    <3>2. CASE k = Step.key
      BY <1>1, <2>1, <3>2 DEF Step
    <3> QED
      BY <2>2, <2>5, <3>1, <3>2
  <2>6. DoneIsBehind'
    BY <2>1, <2>5 DEF DoneIsBehind
  <2> QED
    BY <2>4, <2>6 DEF JournalInv
<1>11. CASE StepFails
  <2>1. /\ stage = "performing" /\ stage' # "performing" /\ stage' # "performed"
        /\ journal' = Journaled(Step.key, "failed")
        /\ UNCHANGED <<plan, completed, runs, unjournaled>> /\ index' \in {index, index + 1}
    BY <1>11 DEF StepFails, SkipOptional, AskForRepair, GivesUp, history
  <2>0. Step.key \notin Done
    BY <2>1 DEF JournalInv, DoneIsBehind
  <2>2. Done' = Done /\ SuccessIsKnown(keyOf)'
    BY <1>2, <2>0, <2>1, Journaling DEF StepStates
  <2>3. 1 .. (index - 1) \subseteq 1 .. (index' - 1)
    <3>1. CASE index' = index
      BY <3>1
    <3>2. CASE index' = index + 1
      BY <1>1, <3>2
    <3> QED
      BY <2>1, <3>1, <3>2
  <2>4. DoneIsBehind'
    BY <2>1, <2>2, <2>3 DEF JournalInv, DoneIsBehind, AtWork
  <2> QED
    BY <2>2, <2>4 DEF JournalInv
<1>12. CASE Repair
  <2>1. PICK p \in Plans : plan' = Rekeyed(Prefix \o p)
    BY <1>12 DEF Repair, Repairs
  <2>2. /\ stage = "repairing" /\ stage' = "working" /\ index <= Len(plan)
        /\ UNCHANGED <<journal, index, completed, runs, unjournaled>>
    BY <1>2, <1>12 DEF Repair, history
  <2>3. /\ Prefix \in Seq(PlanSteps) /\ Len(Prefix) = index - 1
        /\ \A i \in 1 .. (index - 1) : Prefix[i] = plan[i]
    BY <1>1 DEF Prefix
  <2>4. /\ Prefix \o p \in Seq(PlanSteps) /\ Len(Prefix \o p) \in Nat
        /\ index - 1 <= Len(Prefix \o p)
        /\ \A i \in 1 .. (index - 1) : (Prefix \o p)[i] = plan[i]
    BY <1>1, <2>3, AgentLoopAssumption
  <2>5. /\ plan' \in Seq(PlanSteps) /\ Len(plan') = Len(Prefix \o p)
        /\ \A i \in 1 .. Len(Prefix \o p) : plan'[i].op = (Prefix \o p)[i].op
    BY <2>1, <2>4, RekeyingKeeps
  <2>6. ASSUME NEW i \in 1 .. (index - 1) PROVE plan'[i].key = plan[i].key
    <3>1. i \in DOMAIN plan /\ i \in 1 .. Len(Prefix \o p) /\ i \in DOMAIN plan'
      BY <1>1, <2>4, <2>5
    <3>2. plan'[i].op = plan[i].op
      BY <2>4, <2>5, <3>1
    <3> QED
      BY <3>1, <3>2 DEF KeysAreSteady
  <2>7. SuccessIsKnown(keyOf)' /\ Done' = Done
    BY <1>3, <2>2
  <2>8. DoneIsBehind'
    BY <2>2, <2>6, <2>7 DEF JournalInv, DoneIsBehind, AtWork
  <2> QED
    BY <2>7, <2>8 DEF JournalInv
<1>13. CASE Interrupt
  <2>1. /\ stage' = "down" /\ UNCHANGED <<journal, plan, index, runs>>
        /\ unjournaled' = IF stage = "performed"
                          THEN [unjournaled EXCEPT ![Step.op] = @ + 1] ELSE unjournaled
    BY <1>13 DEF Interrupt, life
  <2>2. Done' = Done
    BY <2>1 DEF Done
  <2>3. ASSUME NEW o \in Ops
        PROVE  runs'[o] <= 1 + unjournaled'[o] /\ (runs'[o] > unjournaled'[o] => keyOf[o] \in Done')
    <3>1. runs[o] <= 1 + unjournaled[o]
      BY DEF JournalInv, SuccessIsKnown, OnceUnlessUnjournaled
    <3>2. runs[o] > unjournaled[o] => keyOf[o] \in Done \/ (stage = "performed" /\ Step.op = o)
      BY DEF JournalInv, SuccessIsKnown
    <3>3. CASE stage = "performed" /\ Step.op = o
      BY <1>1, <2>1, <3>1, <3>3
    <3>4. CASE ~(stage = "performed" /\ Step.op = o)
      BY <1>1, <2>1, <2>2, <3>1, <3>2, <3>4
    <3> QED
      BY <3>3, <3>4
  <2>4. SuccessIsKnown(keyOf)'
    BY <2>3 DEF SuccessIsKnown, OnceUnlessUnjournaled
  <2> QED
    BY <2>1, <2>4 DEF JournalInv, DoneIsBehind, AtWork
<1>14. CASE RecoverLife
  <2>1. /\ stage = "down" /\ stage' = "thinking" /\ journal' = ResetRunning
        /\ UNCHANGED <<runs, unjournaled>>
    BY <1>14 DEF RecoverLife, history
  <2>2. Done' = Done
    BY <2>1 DEF Done, ResetRunning
  <2> QED
    BY <2>1, <2>2 DEF JournalInv, SuccessIsKnown, OnceUnlessUnjournaled, DoneIsBehind, AtWork
<1>15. CASE UNCHANGED loopVars
  BY <1>15 DEF loopVars, life, history, JournalInv, SuccessIsKnown, OnceUnlessUnjournaled,
               DoneIsBehind, Done, Step
<1> QED
  BY <1>4, <1>5, <1>6, <1>7, <1>8, <1>9, <1>10, <1>11, <1>12, <1>13, <1>14, <1>15
     DEF AgentLoopNext, Works

\* "Does not repeat completed work": as long as the planner keeps one key for an
\* operation, and no two steps of a plan share one, an operation succeeds once,
\* and again only after a crash between its success and its row in the journal -
\* through any retries, repairs, resumes and recoveries (loop.py, store.py).
THEOREM WorkIsNotRepeated ==
  ASSUME NEW CONSTANT keyOf
  PROVE  AgentLoopSpec /\ []KeysAreSteady(keyOf) => []OnceUnlessUnjournaled
<1>1. AgentLoopInit => JournalInv(keyOf)
  BY JournalInit
<1>2. LoopInv /\ KeysAreSteady(keyOf) /\ KeysAreSteady(keyOf)' /\ JournalInv(keyOf)
        /\ [AgentLoopNext]_loopVars => JournalInv(keyOf)'
  BY JournalStep
<1>3. JournalInv(keyOf) => OnceUnlessUnjournaled
  BY DEF JournalInv, SuccessIsKnown
<1> QED
  BY <1>1, <1>2, <1>3, LoopInvariant, PTL DEF AgentLoopSpec

\* A plan in which every step has the key of its operation, and no operation
\* comes twice.
Catalogued(keyOf, p) ==
  /\ \A i \in DOMAIN p : p[i].key = keyOf[p[i].op]
  /\ \A i, j \in DOMAIN p : p[i].op = p[j].op => i = j

\* Plan.rekey leaves such a plan alone, whatever prefix without its operations
\* it is appended to.
LEMMA NothingToRekey ==
  ASSUME NEW keyOf, \A o1, o2 \in Ops : keyOf[o1] = keyOf[o2] => o1 = o2,
         NEW steps \in Seq(PlanSteps), Catalogued(keyOf, steps)
  PROVE  /\ Rekeyed(steps) = steps
         /\ \A i, j \in DOMAIN steps : steps[i].key = steps[j].key => i = j
<1>1. DOMAIN steps = 1 .. Len(steps) /\ Len(steps) \in Nat
      /\ \A i \in DOMAIN steps : steps[i].op \in Ops
  <2>1. \A i \in DOMAIN steps : steps[i] \in PlanSteps
    OBVIOUS
  <2> QED
    BY <2>1 DEF PlanSteps
<1>2. ASSUME NEW i \in DOMAIN steps, NEW j \in DOMAIN steps, steps[i].key = steps[j].key
      PROVE  i = j
  <2>1. keyOf[steps[i].op] = keyOf[steps[j].op] /\ steps[i].op \in Ops /\ steps[j].op \in Ops
    BY <1>1, <1>2 DEF Catalogued
  <2>2. steps[i].op = steps[j].op
    BY <2>1
  <2> QED
    BY <2>2 DEF Catalogued
<1>3. ASSUME NEW i \in DOMAIN steps
      PROVE  {j \in 1..(i - 1) : steps[j].key = steps[i].key} = {}
  <2>1. \A j \in 1..(i - 1) : j \in DOMAIN steps /\ j # i
    BY <1>1
  <2> QED
    BY <1>2, <2>1
<1>4. Rekeyed(steps) = [i \in DOMAIN steps |-> steps[i]]
  BY <1>3 DEF Rekeyed
<1>5. steps = [i \in DOMAIN steps |-> steps[i]]
  OBVIOUS
<1> QED
  BY <1>2, <1>4, <1>5

\* The same for a planner that has one name for each operation and plans none
\* twice: its plans and their repairs need no suffix, so that the keys stay.
THEOREM StableNamesSuffice ==
  ASSUME NEW CONSTANT keyOf,
         \A o1, o2 \in Ops : keyOf[o1] = keyOf[o2] => o1 = o2,
         \A p \in Plans : Catalogued(keyOf, p)
  PROVE  AgentLoopSpec => []OnceUnlessUnjournaled
<1>1. AgentLoopInit => Catalogued(keyOf, plan)
  BY DEF AgentLoopInit, Catalogued
<1>2. LoopInv /\ Catalogued(keyOf, plan) /\ [AgentLoopNext]_loopVars
        => Catalogued(keyOf, plan)'
  <2> SUFFICES ASSUME LoopInv, Catalogued(keyOf, plan), [AgentLoopNext]_loopVars
               PROVE  Catalogued(keyOf, plan')
    OBVIOUS
  <2>1. /\ plan \in Seq(PlanSteps) /\ Len(plan) \in Nat /\ DOMAIN plan = 1 .. Len(plan)
        /\ index \in 1 .. (Len(plan) + 1)
    BY DEF LoopInv, LifeTyped, AgentLoopTypeOK
  <2>2. CASE MakePlan
    <3>1. PICK p \in Plans : plan' = Rekeyed(p)
      BY <2>2 DEF MakePlan
    <3>2. p \in Seq(PlanSteps)
      BY AgentLoopAssumption
    <3> QED
      BY <3>1, <3>2, NothingToRekey
  <2>3. CASE Repair
    <3>1. PICK p \in Repairs : plan' = Rekeyed(Prefix \o p)
      BY <2>3 DEF Repair
    <3>2. p \in Plans /\ p \in Seq(PlanSteps) /\ Catalogued(keyOf, p)
      BY AgentLoopAssumption DEF Repairs
    <3>3. /\ Prefix \in Seq(PlanSteps) /\ Len(Prefix) = index - 1
          /\ \A i \in 1 .. (index - 1) : Prefix[i] = plan[i]
      BY <2>1 DEF Prefix
    <3> DEFINE all == Prefix \o p
    <3>4. /\ all \in Seq(PlanSteps) /\ DOMAIN all = 1 .. (index - 1 + Len(p))
          /\ \A i \in 1 .. (index - 1) : all[i] = plan[i] /\ i \in DOMAIN plan
          /\ \A i \in DOMAIN all \ (1 .. (index - 1)) :
               all[i] = p[i - (index - 1)] /\ i - (index - 1) \in DOMAIN p
      BY <2>1, <3>2, <3>3
    <3> HIDE DEF all
    <3>5. \A i \in DOMAIN all : all[i].key = keyOf[all[i].op]
      BY <3>2, <3>4 DEF Catalogued
    <3>6. ASSUME NEW i \in DOMAIN all, NEW j \in DOMAIN all, all[i].op = all[j].op
          PROVE  i = j
      <4>1. CASE i \in 1 .. (index - 1) /\ j \in 1 .. (index - 1)
        BY <3>4, <3>6, <4>1 DEF Catalogued
      <4>2. CASE i \notin 1 .. (index - 1) /\ j \notin 1 .. (index - 1)
        <5>1. i - (index - 1) = j - (index - 1)
          BY <3>2, <3>4, <3>6, <4>2 DEF Catalogued
        <5> QED
          BY <2>1, <3>2, <3>4, <5>1
      <4>3. CASE i \in 1 .. (index - 1) /\ j \notin 1 .. (index - 1)
        BY <3>4, <3>6, <4>3 DEF Repairs
      <4>4. CASE i \notin 1 .. (index - 1) /\ j \in 1 .. (index - 1)
        BY <3>4, <3>6, <4>4 DEF Repairs
      <4> QED
        BY <4>1, <4>2, <4>3, <4>4
    <3>7. Catalogued(keyOf, all)
      BY <3>5, <3>6 DEF Catalogued
    <3>8. plan' = all
      BY <3>1, <3>4, <3>7, NothingToRekey DEF all
    <3> QED
      BY <3>7, <3>8
  <2>4. CASE UNCHANGED plan
    BY <2>4
  <2>5. MakePlan \/ Repair \/ UNCHANGED plan
    BY DEF AgentLoopNext, Works, NoPlan, SkipStep, StepStarted, Succeed, RetryStep, ParkStep,
           StepFinished, StepFails, NoRepair, GivesUp, EndOfPlan, Verify, ResumeLife, Interrupt,
           RecoverLife, loopVars, life
  <2> QED
    BY <2>2, <2>3, <2>4, <2>5
<1>3. LoopInv /\ Catalogued(keyOf, plan) => KeysAreSteady(keyOf)
  BY NothingToRekey DEF LoopInv, LifeTyped, Catalogued, KeysAreSteady
<1>4. AgentLoopSpec => []KeysAreSteady(keyOf)
  BY <1>1, <1>2, <1>3, LoopInvariant, PTL DEF AgentLoopSpec
<1>5. AgentLoopSpec /\ []KeysAreSteady(keyOf) => []OnceUnlessUnjournaled
  BY WorkIsNotRepeated
<1> QED
  BY <1>4, <1>5, PTL
=============================================================================
