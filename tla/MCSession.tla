----------------------------- MODULE MCSession -----------------------------
(* Instances of Session for TLC: the constants are in the configuration.   *)
EXTENDS Session
=============================================================================
