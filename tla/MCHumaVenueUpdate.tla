-------------------------- MODULE MCHumaVenueUpdate -------------------------
(* An instance of HumaVenueUpdate: one deployment of each strategy type, of    *)
(* whose accounts any may be missing at times.                                 *)
EXTENDS HumaVenueUpdate

Deployments == {"jup", "kamino", "manual"}
Strategies ==
  [d \in Deployments |-> CASE d = "jup" -> "JupLend"
                           [] d = "kamino" -> "KaminoLend"
                           [] d = "manual" -> "Manual"]

VolatileKeys ==
  {PoolConfig, PoolState, Position("jup"), Reserve("kamino"), Position("kamino")}

SharedKeys == {PoolConfig}
=============================================================================
