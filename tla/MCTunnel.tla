------------------------------ MODULE MCTunnel ------------------------------
(* Tunnel for TLC; the instances are in the configurations.                 *)
EXTENDS Tunnel
=============================================================================
