----------------------- MODULE MCGenericJobLifecycle -----------------------
(* Four jobs for two places: three of one tenant, and one of another that  *)
(* goes first when it is queued.  One job may be retried by the scheduler.  *)
EXTENDS GenericJobLifecycle

MCJobs       == {"a", "b", "c", "d"}
MCTenant     == [j \in MCJobs |-> IF j = "c" THEN "t2" ELSE "t1"]
MCPriority   == [j \in MCJobs |-> IF j = "c" THEN 0 ELSE 1]
MCMaxRetries == [j \in MCJobs |-> IF j = "a" THEN 1 ELSE 0]
=============================================================================
