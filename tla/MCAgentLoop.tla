----------------------------- MODULE MCAgentLoop ----------------------------
(***************************************************************************)
(* Instances of AgentLoop for TLC.                                         *)
(***************************************************************************)
EXTENDS AgentLoop

Required(k, o) == [key |-> k, op |-> o, optional |-> FALSE]
Optional(k, o) == [key |-> k, op |-> o, optional |-> TRUE]

\* Whatever plan the planner writes, a key means one operation: "a" is opA,
\* "c" is opC, and the second "a" of a plan, which becomes "a-2", is opB.
A  == Required(<<"a">>, "opA")
A2 == Required(<<"a">>, "opB")
C  == Optional(<<"c">>, "opC")
SteadyPlans == {<<>>, <<A, A2>>, <<C, A>>, <<C, A, A2>>, <<C>>}

\* The planner gives the same key to another operation the next time.
ShiftingPlans == {<<A, C>>, <<A2>>}
=============================================================================
