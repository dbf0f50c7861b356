---------------------------- MODULE MCLiveReload ----------------------------
(* Instances of LiveReload for TLC: the constants are in the configuration. *)
EXTENDS LiveReload
=============================================================================
