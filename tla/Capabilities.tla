----------------------------- MODULE Capabilities -----------------------------
(***************************************************************************)
(* The registry of capabilities (capabilities/registry.py, base.py): one   *)
(* way to run one, at most once for an effect id, with a verdict that      *)
(* rests on the evidence the capability declares.  The registry lives in   *)
(* the memory of a process; several calls of it are under way at once,     *)
(* because its executors and verifiers are awaited.                        *)
(*                                                                         *)
(* A capability declares its risk, its evidence schema and its verifier;   *)
(* what an executor returns is an Outcome.                                 *)
(***************************************************************************)
EXTENDS Naturals, FiniteSets

CONSTANTS
  Callers,     \* coroutines that perform
  Offers,      \* capabilities, see Declared
  Declared,    \* Declared[o]: what the capability says of itself
  EffectIds,   \* effect ids
  NoEffect,    \* the empty effect id
  Measured,    \* evidence fields
  MaxActs      \* bound: acts of one effect

ASSUME CapabilitiesAssumption ==
  /\ Declared \in [Offers -> [supported : BOOLEAN, reads : BOOLEAN,
                              evidence : SUBSET Measured,
                              verifier : {"evidence", "unchecked"}]]
  /\ Offers # {} /\ NoEffect \notin EffectIds /\ MaxActs \in Nat \ {0}

VARIABLES
  standing,  \* standing[c]: "free", "running" (executor awaited), "checking" (verifier)
  call,      \* call[c]: the capability and the effect id of the current or last call
  outcome,   \* outcome[c]: what its executor returned
  result,    \* result[c]: what perform() returned last
  performed, \* _performed: effects already performed, by id
  acts,      \* history: times an executor changed the world for an effect id
  overlapped,\* history: effect ids with two calls under way at once
  lost       \* history: effect ids whose act the registry has not recorded

capabilityVars == <<standing, call, outcome, result, performed, acts, overlapped, lost>>

Outcomes == [ok : BOOLEAN, evidence : SUBSET Measured, uncertain : BOOLEAN]
Verdicts == [ok : BOOLEAN, checked : BOOLEAN]
NotRun == [ok |-> FALSE, evidence |-> {}, uncertain |-> FALSE]
Refusal == [ok |-> FALSE, checked |-> TRUE]
Performed(o, out, verdict) == [offer |-> o, outcome |-> out, verdict |-> verdict]
NoResult == [offer |-> "none"]
Ids == EffectIds \cup {NoEffect}
NoCall == [offer |-> CHOOSE o \in Offers : TRUE, effect |-> NoEffect]

CapabilitiesTypeOK ==
  /\ standing \in [Callers -> {"free", "running", "checking"}]
  /\ call \in [Callers -> [offer : Offers, effect : Ids]]
  /\ outcome \in [Callers -> Outcomes]
  /\ \A c \in Callers : result[c] = NoResult \/ result[c].verdict \in Verdicts
  /\ \A e \in EffectIds : performed[e] = NoResult \/ performed[e].outcome.ok
  /\ acts \in [EffectIds -> 0 .. MaxActs]
  /\ overlapped \subseteq EffectIds /\ lost \subseteq EffectIds

CapabilitiesInit ==
  /\ standing = [c \in Callers |-> "free"]
  /\ call = [c \in Callers |-> NoCall]
  /\ outcome = [c \in Callers |-> NotRun]
  /\ result = [c \in Callers |-> NoResult] /\ performed = [e \in EffectIds |-> NoResult]
  /\ acts = [e \in EffectIds |-> 0] /\ overlapped = {} /\ lost = {}
-----------------------------------------------------------------------------
Returns(c, what) == result' = [result EXCEPT ![c] = what]

\* perform(): not on this system, ...
RefuseHere(c, o, e) ==
  /\ standing[c] = "free" /\ ~Declared[o].supported
  /\ Returns(c, Performed(o, NotRun, Refusal))
  /\ UNCHANGED <<standing, call, outcome, performed, acts, overlapped, lost>>

\* Fault: the record is kept, and not looked at.
NeverRecorded(e) == FALSE
Recorded(e) == e # NoEffect /\ performed[e] # NoResult

\* ... an effect that was performed is answered with its record, whatever
\* capability and arguments came with it this time, ...
Replay(c, o, e) ==
  /\ standing[c] = "free" /\ Declared[o].supported /\ Recorded(e)
  /\ Returns(c, performed[e])
  /\ UNCHANGED <<standing, call, outcome, performed, acts, overlapped, lost>>

\* ... arguments that do not fit, ...
RefuseArguments(c, o, e) ==
  /\ standing[c] = "free" /\ Declared[o].supported /\ ~Recorded(e)
  /\ Returns(c, Performed(o, NotRun, Refusal))
  /\ UNCHANGED <<standing, call, outcome, performed, acts, overlapped, lost>>

UnderWay(e) == {d \in Callers : standing[d] # "free" /\ call[d].effect = e}

\* ... or the executor is called, and awaited.
Execute(c, o, e) ==
  /\ standing[c] = "free" /\ Declared[o].supported /\ ~Recorded(e)
  /\ standing' = [standing EXCEPT ![c] = "running"]
  /\ call' = [call EXCEPT ![c] = [offer |-> o, effect |-> e]]
  /\ result' = [result EXCEPT ![c] = NoResult]
  /\ overlapped' = IF UnderWay(e) # {} /\ e # NoEffect THEN overlapped \cup {e} ELSE overlapped
  /\ UNCHANGED <<outcome, performed, acts, lost>>

Acts(c) ==
  LET e == call[c].effect IN
  IF e \in EffectIds /\ ~Declared[call[c].offer].reads
  THEN acts[e] < MaxActs /\ acts' = [acts EXCEPT ![e] = @ + 1]
  ELSE UNCHANGED acts

\* An act whose outcome is not recorded may happen again.
Loses(c) ==
  lost' = IF call[c].effect \in EffectIds /\ ~Declared[call[c].offer].reads
          THEN lost \cup {call[c].effect} ELSE lost

\* The executor returns what it did and measured, ...
Succeed(c) ==
  /\ standing[c] = "running" /\ Acts(c)
  /\ \E evidence \in SUBSET Measured :
       outcome' = [outcome EXCEPT ![c] = [ok |-> TRUE, evidence |-> evidence, uncertain |-> FALSE]]
  /\ standing' = [standing EXCEPT ![c] = "checking"]
  /\ UNCHANGED <<call, result, performed, overlapped, lost>>

\* ... or that it could not, ...
FailCleanly(c) ==
  /\ standing[c] = "running"
  /\ \E evidence \in SUBSET Measured :
       outcome' = [outcome EXCEPT ![c] = [ok |-> FALSE, evidence |-> evidence, uncertain |-> FALSE]]
  /\ standing' = [standing EXCEPT ![c] = "checking"]
  /\ UNCHANGED <<call, result, performed, acts, overlapped, lost>>

\* ... or raises, before or after it has changed something.
Raise(c) ==
  /\ standing[c] = "running"
  /\ \/ Acts(c) /\ Loses(c)
     \/ UNCHANGED <<acts, lost>>
  /\ outcome' = [outcome EXCEPT ![c] =
       [ok |-> FALSE, evidence |-> {}, uncertain |-> ~Declared[call[c].offer].reads]]
  /\ standing' = [standing EXCEPT ![c] = "checking"]
  /\ UNCHANGED <<call, result, performed, overlapped>>

\* Fault: what is there is taken for what was declared.
AnyEvidence(o, out) == {}

\* missing_evidence()
Missing(o, out) == Declared[o].evidence \ out.evidence

\* evidence_verifier() and always_unchecked(): a capability that declares
\* nothing, or has no verifier of its own, is not checked.
Judged(o, out) ==
  IF Declared[o].verifier = "unchecked" \/ Declared[o].evidence = {}
  THEN [ok |-> FALSE, checked |-> FALSE]
  ELSE [ok |-> out.ok /\ Missing(o, out) = {}, checked |-> TRUE]

Leaves(c) ==
  /\ standing' = [standing EXCEPT ![c] = "free"]
  /\ call' = [call EXCEPT ![c] = NoCall]
  /\ outcome' = [outcome EXCEPT ![c] = NotRun]

\* The verdict is in; an effect that went well is recorded under its id.
Conclude(c) ==
  LET o == call[c].offer
      done == Performed(o, outcome[c], Judged(o, outcome[c])) IN
  /\ standing[c] = "checking"
  /\ Returns(c, done)
  /\ performed' = IF call[c].effect # NoEffect /\ outcome[c].ok
                  THEN [performed EXCEPT ![call[c].effect] = done] ELSE performed
  /\ Leaves(c)
  /\ UNCHANGED <<acts, overlapped, lost>>

\* The caller is cancelled, before or after the executor has changed something,
\* or the verifier raises.
Abandon(c) ==
  /\ \/ standing[c] = "running" /\ Acts(c) /\ Loses(c)
     \/ standing[c] = "checking" /\ outcome[c].ok /\ Loses(c) /\ UNCHANGED acts
     \/ standing[c] # "free" /\ ~outcome[c].ok /\ UNCHANGED <<acts, lost>>
  /\ Leaves(c)
  /\ UNCHANGED <<result, performed, overlapped>>

\* A new process: nothing is under way, nothing is recorded.
Restart ==
  /\ \E e \in EffectIds : acts[e] > 0
  /\ lost' = lost \cup {e \in EffectIds : acts[e] > 0}
  /\ standing' = [c \in Callers |-> "free"]
  /\ call' = [c \in Callers |-> NoCall]
  /\ outcome' = [c \in Callers |-> NotRun]
  /\ result' = [c \in Callers |-> NoResult]
  /\ performed' = [e \in EffectIds |-> NoResult]
  /\ UNCHANGED <<acts, overlapped>>

CapabilitiesNext ==
  \/ \E c \in Callers :
       \/ \E o \in Offers, e \in Ids :
            RefuseHere(c, o, e) \/ Replay(c, o, e) \/ RefuseArguments(c, o, e) \/ Execute(c, o, e)
       \/ Succeed(c) \/ FailCleanly(c) \/ Raise(c) \/ Conclude(c) \/ Abandon(c)
  \/ Restart

CapabilitiesSpec == CapabilitiesInit /\ [][CapabilitiesNext]_capabilityVars
-----------------------------------------------------------------------------
\* An effect happens once under its id, unless two calls of it overlapped or its
\* first act went unrecorded: an executor that raised, a caller that was
\* cancelled, a process that ended (registry.py:146-150, 176-179).
OnceUnlessLost == \A e \in EffectIds : acts[e] > 1 => e \in overlapped \cup lost

\* Whatever was run, replayed or refused: a result that is called verified is of
\* a capability that declares evidence, was performed without an error, and has
\* brought all of the evidence it declares (base.py:20-36, registry.py:41-44).
VerifiedHasEvidence ==
  \A c \in Callers : result[c] # NoResult =>
    (result[c].verdict.ok /\ result[c].verdict.checked =>
       /\ result[c].outcome.ok /\ Declared[result[c].offer].evidence # {}
       /\ Declared[result[c].offer].evidence \subseteq result[c].outcome.evidence)
=============================================================================
