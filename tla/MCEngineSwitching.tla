-------------------------- MODULE MCEngineSwitching --------------------------
(* Instances of EngineSwitching for TLC: the three engines.                 *)
EXTENDS EngineSwitching

CONSTANTS qt, gst, mpd

=============================================================================
