---------------------------- MODULE MCApprovals -----------------------------
(***************************************************************************)
(* Instances of Approvals for TLC: t1 and t2 share an operation.           *)
(***************************************************************************)
EXTENDS Approvals, TLC

CONSTANTS t1, t2, t3, o1, o2

SharedOp == [t \in Askers |-> IF t = t3 THEN o2 ELSE o1]
QuestionSymmetry == Permutations(Questions)
=============================================================================
