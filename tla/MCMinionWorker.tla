---------------------------- MODULE MCMinionWorker ----------------------------
(* One aggregator and two subagent children.                               *)
EXTENDS MinionWorker, TLC
CONSTANTS agg, c1, c2

MCJobs == {agg, c1, c2}
MCParentOf == (agg :> NoJob) @@ (c1 :> agg) @@ (c2 :> agg)
MCContinue == [j \in MCJobs |-> "continue"]
MCMixed == (agg :> "continue") @@ (c1 :> "fail_parent") @@ (c2 :> "remove_dep")
=============================================================================
