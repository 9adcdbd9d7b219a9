------------------------------ MODULE MCLeases ------------------------------
(***************************************************************************)
(* Instances of Leases for TLC.                                            *)
(***************************************************************************)
EXTENDS Leases

CONSTANTS t1, t2, n1, n2

\* One action at a time per task, none of them nested.
FlatHolderOf == [c \in Calls |-> c]
FlatOuter == [c \in Calls |-> NoCall]

\* Two tasks, t1 and t2; the handlers of their actions perform n1 and n2.
NestedCalls == {t1, t2, n1, n2}
NestedHolders == {t1, t2}
NestedOuter == [c \in NestedCalls |-> CASE c = n1 -> t1 [] c = n2 -> t2 [] OTHER -> NoCall]
NestedHolderOf == [c \in NestedCalls |-> CASE c = n1 -> t1 [] c = n2 -> t2 [] OTHER -> c]
=============================================================================
