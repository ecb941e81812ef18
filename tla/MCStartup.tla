----------------------------- MODULE MCStartup -----------------------------
(* Instances of Startup.  dev and prod are the services of two stages,     *)
(* job is a run-once beside them.                                          *)
EXTENDS Startup

CONSTANTS dev, prod, job, old, v1, v2

(* Prod lags a build behind dev; run-once is built from dev's.             *)
TwoBuilds == [p \in Processes |-> IF p = prod THEN v1 ELSE v2]

OneBuild == [p \in Processes |-> v2]
=============================================================================
