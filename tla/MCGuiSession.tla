----------------------------- MODULE MCGuiSession -----------------------------
(* Small instances of GuiSession: two files and two batches, so that an    *)
(* ordinal of one batch may name another item in the next.                 *)
EXTENDS GuiSession, TLC

Symmetry == Permutations(Items)
=============================================================================
