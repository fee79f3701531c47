---------------------------- MODULE MCConnections ----------------------------
(***************************************************************************)
(* A small instance of Connections: a connection of a service with a key,  *)
(* which a standard agent needs, and one with an authorization flow.       *)
(***************************************************************************)
EXTENDS Connections, TLC

CONSTANTS k1, o1, crm, mail

Services == [c \in Conn |-> IF c = o1 THEN mail ELSE crm]
\* Sessions are alike.
Symmetric == Permutations(Session)

NeedsCrm == [a \in Agent |-> crm]
=============================================================================
