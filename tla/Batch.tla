-------------------------------- MODULE Batch --------------------------------
(***************************************************************************)
(* What one batch promises to its caller (CLI, TUI or GUI), whatever the   *)
(* order in which workers run: every requested file receives one outcome,  *)
(* once; the batch closes after the last one; and the outcomes tell the    *)
(* truth about why work stopped.  Scheduler.tla is shown to implement it.  *)
(*                                                                         *)
(* Source: BatchReport, FileOutcome, CancellationReason and BatchWaiter of *)
(* crates/runtime/src/scheduler.rs.                                        *)
(***************************************************************************)
EXTENDS Naturals

CONSTANTS N,             \* number of requested files
          Destinations   \* resolved output paths

Files == 1 .. N

Undecided == "Undecided"
Outcomes  == {"Succeeded", "Skipped", "Planned", "Failed",
              "CancelledUser", "CancelledFailFast"}
Requests  == [policy : {"Continue", "FailFast"},
              dryRun : BOOLEAN,
              dest   : [Files -> Destinations]]

VARIABLES request,   \* the immutable BatchRequest
          asked,     \* the caller cancelled its root token
          outcome,   \* file -> outcome, or Undecided
          verdict    \* "Open", then "Finished" or "Cancelled"

vars == <<request, asked, outcome, verdict>>

TypeOK == /\ request \in Requests
          /\ asked \in BOOLEAN
          /\ outcome \in [Files -> Outcomes \cup {Undecided}]
          /\ verdict \in {"Open", "Finished", "Cancelled"}

Init == /\ request \in Requests
        /\ asked = FALSE
        /\ outcome = [f \in Files |-> Undecided]
        /\ verdict = "Open"

Ask == /\ ~asked
       /\ asked' = TRUE
       /\ UNCHANGED <<request, outcome, verdict>>

(* What a set of outcomes may claim: user cancellation needs a request,    *)
(* fail-fast cancellation needs the policy and a failure to point at, and  *)
(* no two outputs are written to one destination.                          *)
Honest(o) ==
  /\ \A f \in Files : o[f] = "CancelledUser" => asked
  /\ \A f \in Files : o[f] = "CancelledFailFast" =>
        request.policy = "FailFast" /\ \E g \in Files : o[g] = "Failed"
  /\ \A f \in Files : o[f] = "Succeeded" => ~request.dryRun
  /\ \A f \in Files : o[f] = "Planned" => request.dryRun
  /\ \A f, g \in Files :
        f # g /\ o[f] = "Succeeded" /\ o[g] = "Succeeded" =>
          request.dest[f] # request.dest[g]

(* Files are decided one or several at a time (a drained queue), for good. *)
Decide == /\ verdict = "Open"
          /\ outcome' # outcome
          /\ outcome' \in [Files -> Outcomes \cup {Undecided}]
          /\ \A f \in Files :
                outcome[f] # Undecided => outcome'[f] = outcome[f]
          /\ Honest(outcome')
          /\ UNCHANGED <<request, asked, verdict>>

(* A file cancelled by the user makes the whole batch a cancelled one.     *)
Close == /\ verdict = "Open"
         /\ \A f \in Files : outcome[f] # Undecided
         /\ verdict' \in {"Finished", "Cancelled"}
         /\ verdict' = "Cancelled" => asked
         /\ (\E f \in Files : outcome[f] = "CancelledUser") =>
              verdict' = "Cancelled"
         /\ UNCHANGED <<request, asked, outcome>>

Next == Ask \/ Decide \/ Close

Spec == Init /\ [][Next]_vars
=============================================================================
