----------------------------- MODULE MCTuiSession -----------------------------
(* Small instances of TuiSession: two files, so that an ordinal of one     *)
(* batch may name another row in the next, and a channel that fills up.    *)
EXTENDS TuiSession, TLC

Symmetry == Permutations(Files)
=============================================================================
