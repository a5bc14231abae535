----------------------------- MODULE MCGateway -----------------------------
(* The instance of Gateway that TLC checks.  The server first has a       *)
(* password that can be typed: with the other one nobody would get in     *)
(* before it is started again.                                            *)
EXTENDS Gateway

CONSTANT FirstPassword

MCInit == GatewayInit /\ password = FirstPassword

MCSpec == MCInit /\ [][GatewayNext]_gatewayVars /\ GatewayFairness
=============================================================================
