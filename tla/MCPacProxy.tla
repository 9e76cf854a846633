----------------------------- MODULE MCPacProxy -----------------------------
(* Instances of PacProxy for TLC.                                           *)
EXTENDS PacProxy
=============================================================================
