---------------------------- MODULE MCMediaProcess ----------------------------
(* Instances of MediaProcess for TLC: pipes of one or two items and tools  *)
(* that write up to three, so that they block, are refused and are killed. *)
EXTENDS MediaProcess
=============================================================================
