----------------------------- MODULE MCScheduler -----------------------------
(* Small instances of Scheduler.  Three files and two permits: one file is *)
(* always left waiting while two workers race; two destinations: some pair *)
(* of files always collides, or all three, or none when one is skipped.    *)
EXTENDS Scheduler
=============================================================================
