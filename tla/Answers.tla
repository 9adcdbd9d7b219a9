-------------------------------- MODULE Answers --------------------------------
(***************************************************************************)
(* From what a person says to what GARIS claims: the conversation's        *)
(* decision (conversation.py, agent/intent.py), the plan (agent/planner.py,*)
(* agent/reflex.py), the results of its steps, their verification          *)
(* (agent/verify.py) and the report (agent/report.py).                     *)
(*                                                                         *)
(* AgentLoop has the loop between the plan and the verification with its   *)
(* journal, its crashes and its retries; here a step has one result.       *)
(* A sentence is what the word lists find in it, a result what the         *)
(* validators look for.                                                    *)
(***************************************************************************)
EXTENDS Naturals, Sequences, SequencesExt

CONSTANTS
  Sentences,   \* what is said, see Sentence
  Plans,       \* what a model may write as a plan: sequences of Steps
  Here,        \* tools that are registered and run on this system
  Readings,    \* what a tool may return
  MaxSteps,    \* MAX_STEPS
  Replans      \* MAX_REPLANS

ASSUME AnswersAssumption == MaxSteps \in Nat \ {0} /\ Replans \in Nat

\* The reflex table: each question with its tool, the groups of words that it
\* needs, and what its validator wants in the result.
Reflex(name, tool, needs, wants) == [name |-> name, tool |-> tool, needs |-> needs, wants |-> wants]
Reflexes == <<
  Reflex("disk-space",    "disk_usage",   {"disk", "quantity"},   {"total", "free"}),
  Reflex("memory",        "memory_usage", {"memory", "quantity"}, {"total", "available"}),
  Reflex("process-named", "process_find", {"is_it", "running"},   {"scanned"}),
  Reflex("process-list",  "process_find", {"processes", "show"},  {"scanned"}),
  Reflex("system-info",   "system_info",  {"system", "what"},     {"system"}),
  Reflex("clock",         "current_time", {"time", "now"},        {"local"}) >>
Measuring == {Reflexes[i].tool : i \in DOMAIN Reflexes}
NoReading == [there |-> {}, agrees |-> FALSE]

\* table: the list the whole of a short sentence is found in, once a greeting in
\* front of it is taken off.  names: it names a program after "czy".
Tables == {"greeting", "farewell", "thanks", "acknowledgement", "small_talk",
           "about_self", "capabilities", "status"}
Sentence == [blank : BOOLEAN, sum : BOOLEAN, verb : BOOLEAN, table : Tables \cup {"none"},
             words : SUBSET UNION {Reflexes[i].needs : i \in DOMAIN Reflexes},
             names : BOOLEAN, criteria : BOOLEAN]

\* fits: the parameters pass ToolSpec.validate().
Steps == [tool : STRING, fits : BOOLEAN, optional : BOOLEAN, expects : BOOLEAN]

VARIABLES
  said,      \* the sentence that is being dealt with
  stage,     \* "idle", "asking", "planning", "working", "repairing", "verifying", "told"
  origin,    \* of the plan: "model" or "reflex"
  steps,     \* those that are left
  evidence,  \* the results so far: the tool, "ok", "failed" or "skipped", the reading
  replans,
  judge,     \* history: the completion the verifier has used, NoJudge if none
  told       \* what the person is told

answersVars == <<said, stage, origin, steps, evidence, replans, judge, told>>

Judges == [stub : BOOLEAN, reads : BOOLEAN, ok : BOOLEAN]
NoJudge == [stub |-> TRUE, reads |-> FALSE, ok |-> FALSE]
Say(kind, headline, verified) == [kind |-> kind, headline |-> headline, verified |-> verified]
Nothing == Say("none", "none", FALSE)

AnswersTypeOK ==
  /\ said \in Sentences
  /\ stage \in {"idle", "asking", "planning", "working", "repairing", "verifying", "told"}
  /\ origin \in {"model", "reflex"} /\ replans \in 0 .. Replans
  /\ \A i \in DOMAIN steps : steps[i].tool \in Here
  /\ \A i \in DOMAIN evidence : evidence[i].result \in {"ok", "failed", "skipped"}
  /\ judge \in Judges
  /\ told.kind \in {"none", "chat", "pointer", "blocked", "failed", "done"}

AnswersInit ==
  /\ said \in Sentences /\ stage = "idle" /\ origin = "model"
  /\ steps = <<>> /\ evidence = <<>> /\ replans = 0
  /\ judge = NoJudge /\ told = Nothing
-----------------------------------------------------------------------------
\* classify(): a sum before a verb, a verb before small talk.
Intent(s) ==
  IF s.sum THEN "arithmetic" ELSE IF s.verb THEN "task"
  ELSE IF s.table # "none" THEN s.table ELSE "unsure"
IsConversation(intent) == intent \notin {"task", "unsure"}

Tell(what) == stage' = "told" /\ told' = what
Goes(where) == stage' = where /\ UNCHANGED told

\* say(): a new sentence, when the last has been answered.
Hear(s) ==
  /\ stage \in {"idle", "told"}
  /\ said' = s /\ steps' = <<>> /\ evidence' = <<>> /\ replans' = 0
  /\ judge' = NoJudge /\ origin' = "model"

\* It says nothing, it is answered by the rules, or it is a yes while a question
\* waits, which cannot be taken for the answer yet.
Reply(s) ==
  /\ Hear(s) /\ ~s.criteria
  /\ s.blank \/ IsConversation(Intent(s))
  /\ \/ Tell(Say("chat", "none", FALSE))
     \/ ~s.blank /\ Intent(s) = "acknowledgement" /\ Tell(Say("pointer", "none", FALSE))

\* The rules are not sure and there is a provider to ask.
AskTheModel(s) ==
  /\ Hear(s) /\ ~s.criteria /\ ~s.blank
  /\ Intent(s) = "unsure"
  /\ stage' = "asking" /\ told' = Nothing

\* It is work, nobody knows and there is no provider; or criteria came with it,
\* and nothing is classified.
StartTask(s) ==
  /\ Hear(s) /\ ~s.blank
  /\ s.criteria \/ Intent(s) \in {"task", "unsure"}
  /\ stage' = "planning" /\ told' = Nothing

\* The model replies, or says that it is work, or nothing that can be read.
ModelDecides ==
  /\ stage = "asking"
  /\ Tell(Say("chat", "none", FALSE)) \/ Goes("planning")
  /\ UNCHANGED <<said, origin, steps, evidence, replans, judge>>
-----------------------------------------------------------------------------
Matches(s) == {i \in DOMAIN Reflexes : Reflexes[i].needs \subseteq s.words}
FirstMatch(s) == CHOOSE i \in Matches(s) : \A j \in Matches(s) : i <= j

\* plan_for(): the first that matches; if its tool does not run here, or no
\* program is named, there is none.
Instinct(s) ==
  IF Matches(s) = {} THEN <<>>
  ELSE LET r == Reflexes[FirstMatch(s)] IN
       IF r.tool \in Here /\ (r.name = "process-named" => s.names)
       THEN << [tool |-> r.tool, fits |-> TRUE, optional |-> FALSE, expects |-> TRUE] >>
       ELSE <<>>

\* _sanitise(): what cannot run is dropped before it is scheduled.
CanRun(step) == step.tool \in Here /\ step.fits
Sanitised(p) ==
  LET kept == SelectSeq(p, CanRun) IN
  IF Len(kept) <= MaxSteps THEN kept ELSE SubSeq(kept, 1, MaxSteps)

PlanByInstinct ==
  /\ stage = "planning" /\ Instinct(said) # <<>>
  /\ steps' = Instinct(said) /\ origin' = "reflex"
  /\ Goes("working")
  /\ UNCHANGED <<said, evidence, replans, judge>>

PlanByModel(p) ==
  /\ stage = "planning" /\ Instinct(said) = <<>>
  /\ Sanitised(p) # <<>>
  /\ steps' = Sanitised(p) /\ origin' = "model"
  /\ Goes("working")
  /\ UNCHANGED <<said, evidence, replans, judge>>

\* A plan without steps is a question; no model, likewise; and a planner that
\* fails.
NoPlan ==
  /\ stage = "planning" /\ Instinct(said) = <<>>
  /\ Tell(Say("blocked", "none", FALSE)) \/ Tell(Say("failed", "none", FALSE))
  /\ UNCHANGED <<said, origin, steps, evidence, replans, judge>>
-----------------------------------------------------------------------------
Result(r, reading) == [tool |-> Head(steps).tool, expects |-> Head(steps).expects,
                       result |-> r, reading |-> reading]
StepEnds(r, reading) == evidence' = Append(evidence, Result(r, reading)) /\ steps' = Tail(steps)

StepSucceeds(reading) ==
  /\ stage = "working" /\ steps # <<>>
  /\ StepEnds("ok", reading)
  /\ UNCHANGED <<said, stage, origin, replans, judge, told>>

\* It waits for an approval, or is refused.
StepParks ==
  /\ stage = "working" /\ steps # <<>>
  /\ Tell(Say("blocked", "none", FALSE)) \/ Tell(Say("failed", "none", FALSE))
  /\ UNCHANGED <<said, origin, steps, evidence, replans, judge>>

StepFails ==
  /\ stage = "working" /\ steps # <<>>
  /\ \/ Head(steps).optional /\ StepEnds("skipped", NoReading) /\ UNCHANGED <<replans, stage>>
     \/ ~Head(steps).optional /\ replans < Replans
        /\ replans' = replans + 1 /\ stage' = "repairing" /\ UNCHANGED <<evidence, steps>>
     \/ ~Head(steps).optional /\ replans = Replans
        /\ StepEnds("failed", NoReading) /\ stage' = "verifying" /\ UNCHANGED replans
  /\ UNCHANGED <<said, origin, judge, told>>

\* What is left of the plan is written anew, by a model, also if it was a
\* reflex's; or the planner has nothing.
Repair(p) ==
  /\ stage = "repairing" /\ Sanitised(p) # <<>>
  /\ steps' = Sanitised(p) /\ origin' = "model"
  /\ Goes("working")
  /\ UNCHANGED <<said, evidence, replans, judge>>

NoRepair ==
  /\ stage = "repairing"
  /\ StepEnds("failed", NoReading) /\ Goes("verifying")
  /\ UNCHANGED <<said, origin, replans, judge>>

EndOfPlan ==
  /\ stage = "working" /\ steps = <<>>
  /\ Goes("verifying")
  /\ UNCHANGED <<said, origin, steps, evidence, replans, judge>>
-----------------------------------------------------------------------------
Are(r) == {i \in DOMAIN evidence : evidence[i].result = r}
Wants(tool) == UNION {Reflexes[i].wants : i \in {j \in DOMAIN Reflexes : Reflexes[j].tool = tool}}

\* The validators: the numbers are there, and agree with one another.
Sound(tool, reading) ==
  tool \in Measuring /\ Wants(tool) \subseteq reading.there /\ reading.agrees

SaysSomething(i) == Sound(evidence[i].tool, evidence[i].reading)

\* build_report(): a measured sentence before any other; a partial result is one
\* where nothing failed and the goal is still not met.
Headline(met) ==
  IF \E i \in Are("ok") : SaysSomething(i) THEN "measured"
  ELSE IF met THEN "ready" ELSE IF Are("failed") # {} THEN "unfinished"
  ELSE IF Are("ok") = {} THEN "nothing" ELSE "partial"

\* Verification.verified: met, and somebody checked.
Report(met, checked) ==
  Tell(Say(IF met THEN "done" ELSE "failed", Headline(met), met /\ checked))

\* check(): something required failed, or nothing ran.
RefuseByRules ==
  /\ stage = "verifying"
  /\ Are("failed") # {} \/ Are("ok") = {}
  /\ Report(FALSE, TRUE)
  /\ UNCHANGED <<said, origin, steps, evidence, replans, judge>>

MayCheck == stage = "verifying" /\ Are("failed") = {} /\ Are("ok") # {}

CheckReflex ==
  /\ MayCheck /\ origin = "reflex"
  /\ Report(\A i \in Are("ok") : Sound(evidence[i].tool, evidence[i].reading), TRUE)
  /\ UNCHANGED <<said, origin, steps, evidence, replans, judge>>

\* Nothing was declared to check, or no model can be reached: done, and not
\* checked.
Unchecked ==
  /\ MayCheck /\ origin = "model"
  /\ Report(TRUE, FALSE)
  /\ UNCHANGED <<said, origin, steps, evidence, replans, judge>>

\* Fault: whoever answers is a verifier.
AnyoneCounts(j) == j.reads
Counts(j) == j.reads /\ ~j.stub

\* A model judges what was declared; the verdict of a stub, or one that cannot be
\* read, is none.
AskVerifier(j) ==
  /\ MayCheck /\ origin = "model"
  /\ said.criteria \/ \E i \in DOMAIN evidence : evidence[i].expects
  /\ judge' = j
  /\ \/ Counts(j) /\ Report(j.ok, TRUE)
     \/ ~Counts(j) /\ Report(TRUE, FALSE)
  /\ UNCHANGED <<said, origin, steps, evidence, replans>>

AnswersNext ==
  \/ \E s \in Sentences : Reply(s) \/ AskTheModel(s) \/ StartTask(s)
  \/ ModelDecides \/ PlanByInstinct \/ NoPlan
  \/ \E p \in Plans : PlanByModel(p) \/ Repair(p)
  \/ \E r \in Readings : StepSucceeds(r)
  \/ StepParks \/ StepFails \/ NoRepair \/ EndOfPlan
  \/ RefuseByRules \/ CheckReflex \/ Unchecked
  \/ \E j \in Judges : AskVerifier(j)

AnswersSpec == AnswersInit /\ [][AnswersNext]_answersVars
-----------------------------------------------------------------------------
\* "Verified" is earned: nothing that was required failed, and either every
\* result is a measurement that its validator accepts, or a real model has looked
\* and said so.  A stub's word, a plan's own word for its origin and a check that
\* never ran do not count (verify.py:1-32, goal.py:106-111).
VerifiedIsEarned ==
  stage = "told" /\ told.verified =>
    /\ Are("failed") = {} /\ Are("ok") # {}
    /\ \/ judge.reads /\ ~judge.stub /\ judge.ok
       \/ /\ Instinct(said) # <<>> /\ replans = 0
          /\ \A i \in Are("ok") : Sound(evidence[i].tool, evidence[i].reading)
=============================================================================
