---------------------------- MODULE MCTenantAgents ----------------------------
(***************************************************************************)
(* A small instance of TenantAgents: the second version requires a service *)
(* the first does not, and the deployment cannot run the last.             *)
(***************************************************************************)
EXTENDS TenantAgents

OneMoreEach == [v \in Version |-> IF v = 1 THEN {} ELSE Service]
AllButLast == 1 .. NumVersions - 1
=============================================================================
