----------------------------- MODULE BatchProgress -----------------------------
(***************************************************************************)
(* The progress aggregator of crates/runtime/src/scheduler.rs during the   *)
(* execution phase: `MutableState` with `update_progress` and              *)
(* `aggregate_progress`.  Records travel from a worker through a bounded   *)
(* channel that drops what does not fit, while the end of the worker       *)
(* arrives by another way (the JoinSet): the two may overtake each other.  *)
(*                                                                         *)
(* Scheduler.tla has the control of the same loop; here the files' media   *)
(* positions matter.                                                       *)
(***************************************************************************)
EXTENDS Integers, Sequences, FiniteSets, Functions

CONSTANTS Files,      \* files that had a plan after preparation
          Durations,  \* media durations; Unknown if the probe reported none
          Positions,  \* output times a tool may report
          Speeds,     \* speeds a tool may report, in thousandths
          QueueCap,   \* capacity of the progress channel (bound)
          Horizon,    \* seconds of execution to look at (bound)
          Steady      \* files whose tool reports no earlier output time again

Unknown == -1

ASSUME ProgressAssumption ==
  /\ IsFiniteSet(Files)
  /\ Durations \subseteq Nat \cup {Unknown}
  /\ Positions \subseteq Nat \cup {Unknown}
  /\ Speeds \subseteq Nat
  /\ QueueCap \in Nat
  /\ Horizon \in Nat
  /\ Steady \subseteq Files

VARIABLES
  rejected,  \* files refused for a destination they share, before execution
  status,    \* file -> FileStatus
  duration,  \* file -> duration_us, or Unknown
  position,  \* file -> position_us, or Unknown
  fileEta,   \* file -> eta, or Unknown
  samples,   \* advancing_samples; only "fewer than two" is ever asked
  elapsed,   \* seconds since execution_started
  working,   \* files whose worker has not ended
  sent,      \* file -> output time of the last record it put in the channel
  queue,     \* the channel: records [file, time, speed]
  stage      \* BatchStage, from "Executing" on

vars == <<rejected, status, duration, position, fileEta, samples, elapsed, working,
          sent, queue, stage>>

-----------------------------------------------------------------------------
Statuses == {"Ready", "Running", "Succeeded", "Failed", "Cancelled"}
Terminal == {"Succeeded", "Failed", "Cancelled"}
Records  == [file : Files, time : Positions, speed : Speeds]

TypeOK ==
  /\ rejected \in SUBSET Files
  /\ status \in [Files -> Statuses]
  /\ duration \in [Files -> Durations]
  /\ position \in [Files -> Nat \cup {Unknown}]
  /\ fileEta \in [Files -> Nat \cup {Unknown}]
  /\ samples \in 0 .. 2
  /\ elapsed \in 0 .. Horizon
  /\ working \in SUBSET Files
  /\ sent \in [Files -> Positions \cup {Unknown}]
  /\ queue \in Seq(Records)
  /\ stage \in {"Executing", "Closed"}

(* The phase begins when at least one plan survived the check for equal    *)
(* destinations; a rejected file keeps the duration and the `will_execute` *)
(* mark that preparation gave it.                                          *)
Init ==
  /\ rejected \in SUBSET Files
  /\ Files \ rejected # {}
  /\ status = [f \in Files |-> IF f \in rejected THEN "Failed" ELSE "Ready"]
  /\ duration \in [Files -> Durations]
  /\ position = [f \in Files |-> Unknown]
  /\ fileEta = [f \in Files |-> Unknown]
  /\ samples = 0
  /\ elapsed = 0
  /\ working = {}
  /\ sent = [f \in Files |-> Unknown]
  /\ queue = <<>>
  /\ stage = "Executing"

-----------------------------------------------------------------------------
(* The aggregate of `aggregate_progress`, over every file that was marked. *)

Least(a, b) == IF a < b THEN a ELSE b

(* Mutant: a file that succeeded counts by its last position.              *)
Contribution_ByPosition(f) ==
  IF position[f] = Unknown THEN 0 ELSE Least(position[f], duration[f])

Contribution(f) ==
  IF status[f] = "Succeeded" THEN duration[f]
  ELSE IF position[f] = Unknown THEN 0
  ELSE Least(position[f], duration[f])

Shares   == [f \in Files |-> Contribution(f)]
Weighted == SumFunctionOnSet(Shares, Files)
Total    == SumFunctionOnSet(duration, Files)

Determinate == stage = "Executing" /\ \A f \in Files : duration[f] > 0

ProgressMilli == IF Determinate THEN (Weighted * 1000) \div Total ELSE Unknown

(* Work that remains, at the average pace since execution began.           *)
Eta == IF Determinate /\ samples >= 2 /\ elapsed >= 2 /\ Weighted > 0
       THEN ((Total - Weighted) * elapsed) \div Weighted
       ELSE Unknown

-----------------------------------------------------------------------------
(* The workers.                                                            *)

Admit(f) ==
  /\ status[f] = "Ready"
  /\ status' = [status EXCEPT ![f] = "Running"]
  /\ working' = working \cup {f}
  /\ UNCHANGED <<rejected, duration, position, fileEta, samples, elapsed, sent, queue, stage>>

(* A full channel drops the record.                                        *)
Send(f) ==
  /\ f \in working
  /\ Len(queue) < QueueCap
  /\ \E time \in Positions, speed \in Speeds :
       /\ f \in Steady => time >= sent[f]
       /\ queue' = Append(queue, [file |-> f, time |-> time, speed |-> speed])
       /\ sent' = [sent EXCEPT ![f] = time]
  /\ UNCHANGED <<rejected, status, duration, position, fileEta, samples, elapsed, working,
                 stage>>

End(f) ==
  /\ f \in working
  /\ working' = working \ {f}
  /\ UNCHANGED <<rejected, status, duration, position, fileEta, samples, elapsed, sent,
                 queue, stage>>

Tick ==
  /\ stage = "Executing"
  /\ elapsed < Horizon
  /\ elapsed' = elapsed + 1
  /\ UNCHANGED <<rejected, status, duration, position, fileEta, samples, working, sent,
                 queue, stage>>

-----------------------------------------------------------------------------
(* The supervisor.                                                         *)

(* Output time to media position: a negative time is no position, and a    *)
(* known duration is never exceeded.                                       *)
Clamp(f, time) == IF duration[f] = Unknown THEN time ELSE Least(time, duration[f])

RemainingTime(f, place, speed) ==
  IF speed > 0 /\ place # Unknown /\ place < duration[f]
  THEN ((duration[f] - place) * 1000) \div speed
  ELSE Unknown

(* update_progress: it does not ask whether the file is still running.     *)
Receive ==
  /\ stage = "Executing"
  /\ queue # <<>>
  /\ LET r == Head(queue)
         f == r.file
         place == Clamp(f, r.time)
     IN /\ position' = [position EXCEPT ![f] = place]
        /\ fileEta' = [fileEta EXCEPT ![f] = RemainingTime(f, place, r.speed)]
        /\ samples' = IF place > position[f] THEN Least(samples + 1, 2) ELSE samples
  /\ queue' = Tail(queue)
  /\ UNCHANGED <<rejected, status, duration, elapsed, working, sent, stage>>

(* Mutant: a file that ends without success forgets its position.          *)
Join_ForgetsPosition(f) ==
  /\ status[f] = "Running"
  /\ f \notin working
  /\ \E outcome \in Terminal :
       /\ status' = [status EXCEPT ![f] = outcome]
       /\ position' = [position EXCEPT ![f] = IF outcome = "Succeeded"
                                              THEN duration[f] ELSE Unknown]
  /\ fileEta' = [fileEta EXCEPT ![f] = Unknown]
  /\ UNCHANGED <<rejected, duration, samples, elapsed, working, sent, queue, stage>>

(* The join branch.                                                        *)
Join(f) ==
  /\ status[f] = "Running"
  /\ f \notin working
  /\ \E outcome \in Terminal :
       /\ status' = [status EXCEPT ![f] = outcome]
       /\ position' = [position EXCEPT ![f] = IF outcome = "Succeeded"
                                              THEN duration[f] ELSE position[f]]
  /\ fileEta' = [fileEta EXCEPT ![f] = Unknown]
  /\ UNCHANGED <<rejected, duration, samples, elapsed, working, sent, queue, stage>>

(* cancel_execution_pending: files that were never started.                *)
CancelPending ==
  /\ \E f \in Files : status[f] = "Ready"
  /\ status' = [f \in Files |-> IF status[f] = "Ready" THEN "Cancelled" ELSE status[f]]
  /\ UNCHANGED <<rejected, duration, position, fileEta, samples, elapsed, working, sent,
                 queue, stage>>

Close ==
  /\ stage = "Executing"
  /\ \A f \in Files : status[f] \in Terminal
  /\ stage' = "Closed"
  /\ queue' = <<>>
  /\ UNCHANGED <<rejected, status, duration, position, fileEta, samples, elapsed, working,
                 sent>>

Done == stage = "Closed" /\ UNCHANGED vars

Next == \/ \E f \in Files : Admit(f) \/ Send(f) \/ End(f) \/ Join(f)
        \/ Tick \/ Receive \/ CancelPending \/ Close \/ Done

Spec == Init /\ [][Next]_vars

-----------------------------------------------------------------------------
(* Properties.                                                             *)

(* When every file has succeeded the aggregate is full and no time is left *)
(* to wait for, whatever records of theirs arrive after that; until then   *)
(* neither leaves its range.                                               *)
FullWhenDone ==
  /\ Determinate /\ (\A f \in Files : status[f] = "Succeeded") =>
       ProgressMilli = 1000 /\ Eta \in {0, Unknown}
  /\ ProgressMilli \in {Unknown} \cup 0 .. 1000
  /\ Eta \in {Unknown} \cup Nat

(* No file's part in the aggregate ever shrinks, although records and      *)
(* results overtake each other, if its tool does not go back in time.      *)
SharesNeverShrink ==
  [][\A f \in Steady : duration[f] # Unknown => Contribution(f)' >= Contribution(f)]_vars

(* The progress of a batch whose tools do not go back in time does not go  *)
(* back either.                                                            *)
ProgressAdvances ==
  [][Files \subseteq Steady /\ Determinate /\ Determinate' =>
       ProgressMilli' >= ProgressMilli]_vars

-----------------------------------------------------------------------------
(* The inductive invariant behind BatchProgressProofs: the records of a    *)
(* file wait in the order of its output times, ahead of what it has sent   *)
(* and behind what was received.                                           *)
InOrder ==
  /\ \A i \in 1 .. Len(queue) :
       queue[i].file \in Steady => queue[i].time <= sent[queue[i].file]
  /\ \A i, j \in 1 .. Len(queue) :
       /\ i < j
       /\ queue[i].file = queue[j].file
       /\ queue[i].file \in Steady
       => queue[i].time <= queue[j].time
  /\ \A i \in 1 .. Len(queue) :
       queue[i].file \in Steady /\ status[queue[i].file] # "Succeeded" =>
         position[queue[i].file] <= Clamp(queue[i].file, queue[i].time)

Fits ==
  \A f \in Files :
    /\ duration[f] # Unknown => position[f] <= duration[f]
    /\ f \in Steady /\ status[f] # "Succeeded" => position[f] <= sent[f]

IInv == TypeOK /\ InOrder /\ Fits
=============================================================================
