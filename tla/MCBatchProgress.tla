----------------------------- MODULE MCBatchProgress -----------------------------
(* Instances of BatchProgress for TLC: two files that are shorter or       *)
(* longer than what their tools report, and a channel of two records.      *)
EXTENDS BatchProgress

MCDurations == {Unknown, 0, 3}
MCPositions == {Unknown, 1, 4}
MCSpeeds    == {1000}
=============================================================================
