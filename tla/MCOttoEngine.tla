---------------------------- MODULE MCOttoEngine ----------------------------
(* OttoEngine for TLC; the instance is in MCOttoEngine.cfg.                 *)
EXTENDS OttoEngine
=============================================================================
