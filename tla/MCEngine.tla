------------------------------- MODULE MCEngine -------------------------------
(***************************************************************************)
(* The engine room, for TLC: the lease table (Leases, no action nested),   *)
(* the supervisor (Supervisor) and one task in the agent loop (AgentLoop,  *)
(* with plans in which a key always means the same operation).  They meet  *)
(* in what each leaves open - a handler, a coroutine, a step of unknown    *)
(* outcome - and have no variable in common.  The table and the supervisor *)
(* move, one or the other, in the behaviours where the planner fails at    *)
(* once and the loop has ended.                                            *)
(***************************************************************************)
EXTENDS MCLeases, Supervisor, MCAgentLoop

EngineInit == LeasesInit /\ SupervisorInit /\ AgentLoopInit

LeasesRest == LeasesInit /\ UNCHANGED leaseVars
SupervisorRest == SupervisorInit /\ UNCHANGED supervisorVars
LoopRest == stage = "failed" /\ plan = <<>> /\ interrupts = 0 /\ UNCHANGED loopVars

EngineNext ==
  \/ SupervisorRest /\ LoopRest /\ LeasesNext
  \/ LeasesRest /\ LoopRest /\ SupervisorNext
  \/ LeasesRest /\ SupervisorRest /\ AgentLoopNext

EngineSpec ==
  /\ EngineInit /\ [][EngineNext]_<<leaseVars, supervisorVars, loopVars>>
  /\ LeasesFairness /\ SupervisorFairness
  /\ WF_loopVars(Works)
=============================================================================
