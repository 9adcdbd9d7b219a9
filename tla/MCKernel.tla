------------------------------- MODULE MCKernel -------------------------------
(***************************************************************************)
(* What is kept on disk, for TLC: the two tables of the kernel, the memory *)
(* and the vault with the key they are written under, and the questions to *)
(* the user.  They share no row: a behaviour leaves all but one of them in *)
(* their initial states, which loses nothing, because every property is    *)
(* about one of them.                                                      *)
(***************************************************************************)
EXTENDS Effects, Outbox, Secrets, MCApprovals

CONSTANTS p1, p2, c1, c2, c3

\* Two callers in the service, one in a second process on the same database.
MCProcesses == {p1, p2}
MCProcessOf == [c \in {c1, c2, c3} |-> IF c = c3 THEN p2 ELSE p1]

\* The service writes events, serves the window and edits memories; the other
\* process drains too, and remembers and forgets.
MCService == {p1}

\* The tasks events are about are alike.
Symmetry == Permutations(Tasks)

KernelInit == EffectsInit /\ OutboxInit /\ SecretsInit /\ ApprovalsInit

EffectsRest == EffectsInit /\ UNCHANGED effectVars
OutboxRest == OutboxInit /\ UNCHANGED outboxVars
SecretsRest == SecretsInit /\ UNCHANGED secretVars
ApprovalsRest == ApprovalsInit /\ UNCHANGED approvalVars

KernelNext ==
  \/ OutboxRest /\ SecretsRest /\ ApprovalsRest /\ EffectsNext
  \/ EffectsRest /\ SecretsRest /\ ApprovalsRest /\ OutboxNext
  \/ EffectsRest /\ OutboxRest /\ ApprovalsRest /\ SecretsNext
  \/ EffectsRest /\ OutboxRest /\ SecretsRest /\ ApprovalsNext

KernelSpec ==
  KernelInit /\ [][KernelNext]_<<effectVars, outboxVars, secretVars, approvalVars>>
=============================================================================
