------------------------------- MODULE MCRequest -------------------------------
(***************************************************************************)
(* The parts a request passes through, for TLC: what is said and what is   *)
(* claimed (Answers), the path of one action (Pipeline), the capabilities, *)
(* the calls to models (Router) and the processes that share the tasks     *)
(* (Fleet).  No two of them have a variable in common, and a behaviour     *)
(* leaves all but one of them in an initial state.                         *)
(***************************************************************************)
EXTENDS Answers, Pipeline, Capabilities, Router, Fleet, TLC

CONSTANTS pay, load, touch, wrong,       \* calls of tools
          big, small, other, local,      \* models
          vendor, rival, machine         \* and who serves them

\* Sentences: nothing, a yes, a sum, work with criteria, questions to this
\* machine - two of them in words that begin like a command or name two
\* measures - and one that says nothing to the rules.
Quiet == [blank |-> FALSE, sum |-> FALSE, verb |-> FALSE, table |-> "none",
          words |-> {}, names |-> FALSE, criteria |-> FALSE]
SomeSentences ==
  { [Quiet EXCEPT !.blank = TRUE], [Quiet EXCEPT !.table = "acknowledgement"],
    [Quiet EXCEPT !.sum = TRUE, !.words = {"quantity"}],
    [Quiet EXCEPT !.verb = TRUE, !.criteria = TRUE],
    [Quiet EXCEPT !.verb = TRUE, !.words = {"is_it", "running", "processes", "show"}],
    [Quiet EXCEPT !.words = {"disk", "memory", "quantity"}],
    [Quiet EXCEPT !.words = {"time", "now"}], Quiet }

\* Plans: one measurement; an optional step first; a tool that is not here; one
\* whose parameters do not fit.
Step(tool, optional, expects) ==
  [tool |-> tool, fits |-> TRUE, optional |-> optional, expects |-> expects]
SomePlans ==
  { << Step("disk_usage", FALSE, TRUE) >>,
    << Step("system_info", TRUE, FALSE), Step("shell", FALSE, FALSE) >>,
    << Step("nosuch", FALSE, TRUE), Step("shell", FALSE, TRUE), Step("disk_usage", FALSE, FALSE) >>,
    << [Step("shell", FALSE, FALSE) EXCEPT !.fits = FALSE] >> }
SomeReadings ==
  { NoReading, [there |-> {"total", "free", "scanned", "system"}, agrees |-> TRUE],
    [there |-> {"total", "free"}, agrees |-> FALSE] }

\* A payment that writes, an installation from anywhere, a write to a file of
\* GARIS's own, and a call that does not fit.
Reads == [registered |-> TRUE, supported |-> TRUE, fits |-> TRUE, effects |-> {"read"},
          guarded |-> FALSE, reversible |-> TRUE, trusted |-> TRUE,
          cost |-> 0, bytes |-> 0, secret |-> "none"]
SomeTools == [c \in Calls |->
  CASE c = pay -> [Reads EXCEPT !.effects = {"payment", "write"}, !.secret = "unreadable"]
    [] c = load -> [Reads EXCEPT !.effects = {"install"}, !.trusted = FALSE, !.secret = "missing"]
    [] c = touch -> [Reads EXCEPT !.guarded = TRUE, !.effects = {"write"}]
    [] c = wrong -> [Reads EXCEPT !.fits = FALSE] ]
SomeConfigs ==
  { [confirm |-> names, spendNotice |-> 0, downloadNotice |-> 0,
     autoInstall |-> TRUE, elevation |-> TRUE]
    : names \in {{}, {"payment"}, {"read", "unknown"}} }

\* A capability that launches, one that lists, one for another system.
SomeDeclared == [o \in {"launch", "list", "other"} |->
  CASE o = "launch" ->
         [supported |-> TRUE, reads |-> FALSE, evidence |-> {"pid"}, verifier |-> "evidence"]
    [] o = "list" ->
         [supported |-> TRUE, reads |-> TRUE, evidence |-> {}, verifier |-> "unchecked"]
    [] OTHER ->
         [supported |-> FALSE, reads |-> TRUE, evidence |-> {"pid"}, verifier |-> "evidence"] ]

\* A vendor with two models, one with one, and a local model.
SomeModels == {big, small, other, local}
SomeProviders ==
  [m \in SomeModels |-> IF m = other THEN rival ELSE IF m = local THEN machine ELSE vendor]
-----------------------------------------------------------------------------
RequestInit ==
  AnswersInit /\ PipelineInit /\ CapabilitiesInit /\ RouterInit /\ FleetInit

\* The parts at rest, with one of the sentences and one of the configurations.
AnswersRest == AnswersInit /\ said = Quiet /\ UNCHANGED answersVars
PipelineRest == PipelineInit /\ config.confirm = {} /\ UNCHANGED pipelineVars
CapabilitiesRest == CapabilitiesInit /\ UNCHANGED capabilityVars
RouterRest == RouterInit /\ UNCHANGED routerVars
FleetRest == FleetInit /\ UNCHANGED fleetVars

RequestNext ==
  \/ PipelineRest /\ CapabilitiesRest /\ RouterRest /\ FleetRest /\ AnswersNext
  \/ AnswersRest /\ CapabilitiesRest /\ RouterRest /\ FleetRest /\ PipelineNext
  \/ AnswersRest /\ PipelineRest /\ RouterRest /\ FleetRest /\ CapabilitiesNext
  \/ AnswersRest /\ PipelineRest /\ CapabilitiesRest /\ FleetRest /\ RouterNext
  \/ AnswersRest /\ PipelineRest /\ CapabilitiesRest /\ RouterRest /\ FleetNext

Symmetry == Permutations({big, small}) \cup Permutations(Prompts)

RequestSpec ==
  RequestInit
  /\ [][RequestNext]_<<answersVars, pipelineVars, capabilityVars, routerVars, fleetVars>>
=============================================================================
