-------------------------- MODULE MCConnectorPage --------------------------
(* Instance of ConnectorPage. *)
EXTENDS ConnectorPage

CONSTANTS c1, c2

MCConnectors == {c1, c2}
MCRemotes == {[c \in MCConnectors |-> IF c = c1 THEN "RUNNING" ELSE "PAUSED"]}
MCCalls == 1..2
=============================================================================
