------------------------------- MODULE Pipeline -------------------------------
(***************************************************************************)
(* The single path of execution (runtime/executor.py): resolve, validate,  *)
(* policy, approval, lease, run, audit - and the policy that decides       *)
(* (runtime/policy.py), under a configuration that the user may change at  *)
(* any moment.                                                             *)
(*                                                                         *)
(* The answers to an operation are kept as Approvals has it, one live      *)
(* matter at a time; Leases decides who holds a key, and here a key is     *)
(* free or not.  A call is one Action that a task may perform again.       *)
(***************************************************************************)
EXTENDS Naturals, FiniteSets

CONSTANTS
  Calls,
  ToolOf,      \* ToolOf[c]: the tool's declaration and what the action says, see Tools
  Configs,     \* the autonomy settings the user moves between
  MaxPerforms  \* bound: times a call is performed

Effects == {"read", "write", "install", "elevate", "payment", "send_message"}
NonNegotiable == {"payment", "send_message"}
Mutating == {"write", "install"}

\* registered, supported: the registry has it, and it runs on this system.
\* fits: the parameters pass ToolSpec.validate().
\* guarded: a parameter names a file of GARIS's own, or config_set a gate.
\* cost, bytes: the greater of the tool's estimate and the planner's.
\* secret: what a vault reference among the parameters will find.
Tools == [registered : BOOLEAN, supported : BOOLEAN, fits : BOOLEAN,
          effects : SUBSET Effects, guarded : BOOLEAN, reversible : BOOLEAN,
          trusted : BOOLEAN, cost : 0 .. 1, bytes : 0 .. 1,
          secret : {"none", "there", "missing", "unreadable"}]

\* confirm may hold names that are no effects; notice, the amounts above which
\* a cost or a download is asked about.
Autonomy == [confirm : SUBSET (Effects \cup {"unknown"}), spendNotice : 0 .. 1,
             downloadNotice : 0 .. 1, autoInstall : BOOLEAN, elevation : BOOLEAN]

ASSUME PipelineAssumption ==
  /\ ToolOf \in [Calls -> Tools] /\ Configs \subseteq Autonomy
  /\ MaxPerforms \in Nat \ {0}

VARIABLES
  config,     \* config.autonomy, read by reference
  answer,     \* answer[c]: the live matter about the operation, as Approvals has it
  phase,      \* where perform() stands
  leased,     \* calls that hold a lease
  ending,     \* how the last perform of the call ended
  rows,       \* audit rows the current or last perform has written
  performs,   \* performs so far
  vouched     \* history: calls whose current perform has spent a yes

pipelineVars == <<config, answer, phase, leased, ending, rows, performs, vouched>>

Endings == {"none", "error", "denied", "rejected_by_user", "awaiting_approval",
            "cancelled", "ok", "left"}

PipelineTypeOK ==
  /\ config \in Configs
  /\ answer \in [Calls -> {"none", "pending", "approved", "denied"}]
  /\ phase \in [Calls -> {"idle", "leasing", "running"}]
  /\ leased \subseteq Calls /\ vouched \subseteq Calls
  /\ ending \in [Calls -> Endings] /\ rows \in [Calls -> Nat]
  /\ performs \in [Calls -> 0 .. MaxPerforms]

PipelineInit ==
  /\ config \in Configs
  /\ answer = [c \in Calls |-> "none"] /\ phase = [c \in Calls |-> "idle"]
  /\ leased = {} /\ vouched = {}
  /\ ending = [c \in Calls |-> "none"] /\ rows = [c \in Calls |-> 0]
  /\ performs = [c \in Calls |-> 0]
-----------------------------------------------------------------------------
\* Fault: the configuration decides alone.
ConfirmsAsConfigured(a) == a.confirm \cap Effects

\* _confirm_effects(): the configuration adds to what is not negotiable.
ConfirmEffects(a) == (a.confirm \cap Effects) \cup NonNegotiable

InstallsAlone(a, tool) ==
  a.autoInstall /\ tool.trusted /\ tool.cost = 0 /\ tool.reversible

\* evaluate(): the first rule that applies.
Evaluate(a, tool) ==
  CASE tool.guarded -> "deny"
    [] OTHER ->
       IF \/ ConfirmEffects(a) \cap tool.effects # {}
          \/ ~tool.reversible
          \/ tool.cost > a.spendNotice
          \/ tool.bytes > a.downloadNotice
          \/ "install" \in tool.effects /\ ~InstallsAlone(a, tool)
          \/ "elevate" \in tool.effects /\ ~a.elevation
       THEN "confirm" ELSE "allow"

Verdict(c) == Evaluate(config, ToolOf[c])
Usable(tool) == tool.registered /\ tool.supported /\ tool.fits

\* perform() begins; up to the lease it does not wait.
Begin(c) ==
  /\ phase[c] = "idle" /\ performs[c] < MaxPerforms
  /\ performs' = [performs EXCEPT ![c] = @ + 1]
  /\ UNCHANGED <<config, leased>>

\* It ends there and then, with a row that says how.
EndsWith(c, how) ==
  /\ ending' = [ending EXCEPT ![c] = how]
  /\ rows' = [rows EXCEPT ![c] = 1]
  /\ vouched' = vouched \ {c}
  /\ UNCHANGED phase

\* Steps 1 and 2: no such tool, not on this system, or parameters that do not fit.
RejectInvalid(c) ==
  /\ Begin(c) /\ ~Usable(ToolOf[c])
  /\ EndsWith(c, "error") /\ UNCHANGED answer

\* Step 3.
Deny(c) ==
  /\ Begin(c) /\ Usable(ToolOf[c]) /\ Verdict(c) = "deny"
  /\ EndsWith(c, "denied") /\ UNCHANGED answer

\* Step 4: a no that nobody has spent, ...
RejectByUser(c) ==
  /\ Begin(c) /\ Usable(ToolOf[c]) /\ Verdict(c) = "confirm"
  /\ answer[c] = "denied" /\ answer' = [answer EXCEPT ![c] = "none"]
  /\ EndsWith(c, "rejected_by_user")

\* ... or a question, new or already open: the task is blocked.
AskUser(c) ==
  /\ Begin(c) /\ Usable(ToolOf[c]) /\ Verdict(c) = "confirm"
  /\ answer[c] \in {"none", "pending"} /\ answer' = [answer EXCEPT ![c] = "pending"]
  /\ EndsWith(c, "awaiting_approval")

\* Step 5: what is allowed or vouched for waits for its lease.
Proceed(c) ==
  /\ Begin(c) /\ Usable(ToolOf[c])
  /\ \/ Verdict(c) = "allow" /\ vouched' = vouched \ {c} /\ UNCHANGED answer
     \/ Verdict(c) = "confirm" /\ answer[c] = "approved"
        /\ vouched' = vouched \cup {c} /\ answer' = [answer EXCEPT ![c] = "none"]
  /\ phase' = [phase EXCEPT ![c] = "leasing"]
  /\ rows' = [rows EXCEPT ![c] = 0]
  /\ ending' = [ending EXCEPT ![c] = "none"]

\* acquire(): exclusive if the tool changes anything, shared if not; here all
\* calls want one key.
Exclusive(c) == ToolOf[c].effects \cap Mutating # {}
Acquire(c) ==
  /\ phase[c] = "leasing"
  /\ leased = {} \/ (~Exclusive(c) /\ \A d \in leased : ~Exclusive(d))
  /\ leased' = leased \cup {c}
  /\ phase' = [phase EXCEPT ![c] = "running"]
  /\ UNCHANGED <<config, answer, ending, rows, performs, vouched>>

\* AuditLog.record: a row for every end but that of a call that just left.
RowsOf(c, how) == IF how = "left" THEN 0 ELSE 1

\* perform() ends after it had waited.
End(c, how) ==
  /\ phase' = [phase EXCEPT ![c] = "idle"]
  /\ ending' = [ending EXCEPT ![c] = how]
  /\ rows' = [rows EXCEPT ![c] = @ + RowsOf(c, how)]
  /\ leased' = leased \ {c}
  /\ UNCHANGED <<config, answer, performs, vouched>>

LeaseTimeout(c) == phase[c] = "leasing" /\ End(c, "error")

\* The task is stopped while it waits: nothing catches that.
CancelWaiting(c) == phase[c] = "leasing" /\ End(c, "left")

\* Step 6: the secrets are put in at the last moment; one that is not there is
\* an error, one that cannot be decrypted is raised past everything.
MissingSecret(c) ==
  phase[c] = "running" /\ ToolOf[c].secret = "missing" /\ End(c, "error")
UnreadableSecret(c) ==
  phase[c] = "running" /\ ToolOf[c].secret = "unreadable" /\ End(c, "left")

HasSecrets(c) == phase[c] = "running" /\ ToolOf[c].secret \in {"none", "there"}

\* The handler returns; times out, fails or crashes; is cancelled; or performs
\* an action itself that needs the user, and stops with it.
Finish(c) == HasSecrets(c) /\ End(c, "ok")
Fail(c)   == HasSecrets(c) /\ End(c, "error")
Cancel(c) == HasSecrets(c) /\ End(c, "cancelled")
NestedStop(c) == HasSecrets(c) /\ End(c, "left")

\* The user answers, and changes the settings.
AnswerTo(c) ==
  /\ answer[c] = "pending"
  /\ \E a \in {"approved", "denied"} : answer' = [answer EXCEPT ![c] = a]
  /\ UNCHANGED <<config, phase, leased, ending, rows, performs, vouched>>
Configure ==
  /\ config' \in Configs
  /\ UNCHANGED <<answer, phase, leased, ending, rows, performs, vouched>>

PipelineNext ==
  \/ \E c \in Calls :
       \/ RejectInvalid(c) \/ Deny(c) \/ RejectByUser(c) \/ AskUser(c) \/ Proceed(c)
       \/ Acquire(c) \/ LeaseTimeout(c) \/ CancelWaiting(c)
       \/ MissingSecret(c) \/ UnreadableSecret(c)
       \/ Finish(c) \/ Fail(c) \/ Cancel(c) \/ NestedStop(c)
       \/ AnswerTo(c)
  \/ Configure

PipelineSpec == PipelineInit /\ [][PipelineNext]_pipelineVars
-----------------------------------------------------------------------------
\* Whatever the configuration says and however it changed since the call began:
\* no handler whose effects are not negotiable, or whose work cannot be undone,
\* runs unless a yes was spent for this very perform; and nothing guarded runs
\* (policy.py:50-60, 76-97; executor.py:140-141).
GatedIsVouched ==
  \A c \in Calls : phase[c] = "running" =>
    /\ ~ToolOf[c].guarded
    /\ ToolOf[c].effects \cap NonNegotiable # {} \/ ~ToolOf[c].reversible => c \in vouched

\* Every perform that ended has left one row saying how, unless it was stopped
\* while it waited for its lease, by a secret that cannot be decrypted or by an
\* action it performed itself (audit.py:3-4, executor.py:94-322).
EndsAreLogged ==
  \A c \in Calls :
    phase[c] = "idle" /\ performs[c] > 0 => rows[c] = IF ending[c] = "left" THEN 0 ELSE 1
=============================================================================
