------------------------------ MODULE Scheduler ------------------------------
(***************************************************************************)
(* The batch supervisor of crates/runtime/src/scheduler.rs: one task       *)
(* (`supervise`) that admits files to a bounded set of workers, first to   *)
(* prepare them, then to execute them, and that folds cancellation,        *)
(* fail-fast, worker panics and progress records into one report.          *)
(*                                                                         *)
(* Three kinds of actors interleave: the supervisor, the workers (one      *)
(* spawned task per admitted file) and the caller, who may cancel the root *)
(* token at any time.  The supervisor runs on one task, so what it does    *)
(* between two awaits is one action; workers and the caller may act        *)
(* between any two of them, and between two `try_acquire` calls.           *)
(***************************************************************************)
EXTENDS Naturals, FiniteSets

CONSTANTS N,               \* files in the request
          MaxConcurrency,  \* SchedulerOptions::max_concurrency
          Destinations,    \* resolved destination keys
          Policies,        \* failure policies a caller may ask for
          DryRuns,         \* values of the dry-run flag
          ProgressCap,     \* capacity of the progress channel (bound)
          CleanupMayFail   \* may removing a staging directory fail?

ASSUME ConstantsAssumption ==
  /\ N \in Nat
  /\ MaxConcurrency \in Nat \ {0}
  /\ Policies \subseteq {"Continue", "FailFast"}
  /\ DryRuns \subseteq BOOLEAN
  /\ ProgressCap \in Nat \ {0}
  /\ CleanupMayFail \in BOOLEAN

Files == 1 .. N

VARIABLES
  request,        \* [policy, dryRun, dest]: the BatchRequest, never changed
  root,           \* the caller's root token is cancelled
  pc,             \* where the supervisor is, see TypeOK
  phase,          \* "Prepare" or "Execute"
  pending,        \* VecDeque of files not admitted in this phase
  task,           \* JoinSet: file -> "none", a running state, or its ending
  prepared,       \* files whose `prepared` slot holds a plan
  terminal,       \* file -> its FileOutcome, or None
  status,         \* file -> FileStatus, what snapshots show
  userCancelled, failFast, stopAdmission,  \* locals of the phase functions
  phaseCancel,    \* the phase's child token is cancelled on its own
  backlog,        \* progress records waiting in the channel
  finished,       \* file -> number of FileFinished events emitted
  closing,        \* terminal batch event, "none" before it
  report,         \* the BatchReport results
  interrupted     \* history: workers that stopped because the user cancelled

flags      == <<userCancelled, failFast, stopAdmission, phaseCancel>>
books      == <<pending, prepared, terminal, status, finished>>
ending     == <<closing, report>>
supervisor == <<pc, phase, flags, books, ending>>
vars       == <<request, root, supervisor, task, backlog, interrupted>>

-----------------------------------------------------------------------------
None     == "None"
Outcomes == {"Succeeded", "Skipped", "Planned", "Failed",
             "CancelledUser", "CancelledFailFast"}
Statuses == {"Queued", "Preparing", "Ready", "Running", "Succeeded",
             "Skipped", "Planned", "Failed", "Cancelled"}
Requests == [policy : Policies, dryRun : DryRuns, dest : [Files -> Destinations]]

(* How a worker task can end: the result of `prepare_one`, that of         *)
(* `execute_one`, or a panic.  "CleanupFailed" is a cancellation whose     *)
(* staging cleanup failed too (ExecutionError::Cleanup).                   *)
PrepareEndings == {"Ready", "Skipped", "Planned", "Failed", "Cancelled",
                   "Panicked"}
ExecuteEndings == {"Succeeded", "Failed", "Cancelled", "CleanupFailed",
                   "Panicked"}
Running        == {"spawned", "working"}
TaskStates     == {"none"} \cup Running \cup PrepareEndings \cup ExecuteEndings

TypeOK ==
  /\ request \in Requests
  /\ root \in BOOLEAN
  /\ pc \in {"start", "admit", "select", "resolve", "enter", "finish", "done"}
  /\ phase \in {"Prepare", "Execute"}
  /\ pending \in SUBSET Files
  /\ task \in [Files -> TaskStates]
  /\ prepared \in SUBSET Files
  /\ terminal \in [Files -> Outcomes \cup {None}]
  /\ status \in [Files -> Statuses]
  /\ userCancelled \in BOOLEAN
  /\ failFast \in BOOLEAN
  /\ stopAdmission \in BOOLEAN
  /\ phaseCancel \in BOOLEAN
  /\ backlog \in 0 .. ProgressCap
  /\ finished \in [Files -> Nat]
  /\ closing \in {"none", "BatchFinished", "BatchCancelled"}
  /\ report \in [Files -> Outcomes \cup {"none", "Omitted"}]
  /\ interrupted \in SUBSET Files

-----------------------------------------------------------------------------
(* A permit lives in the worker's future: it is back as soon as the future *)
(* ends, before the supervisor joins the task.                             *)
Holding == {f \in Files : task[f] \in Running}
Joinable == {f \in Files : task[f] \notin Running \cup {"none"}}
(* Mutant: workers are given the root token, not the phase's child token.  *)
TokenCancelled_RootOnly == root

TokenCancelled == root \/ phaseCancel

StatusOf(outcome) ==
  IF outcome \in {"CancelledUser", "CancelledFailFast"} THEN "Cancelled"
  ELSE outcome

(* Give every file of S its outcome o[f], show it and emit FileFinished.   *)
Decide(S, o) ==
  /\ terminal' = [f \in Files |-> IF f \in S THEN o[f] ELSE terminal[f]]
  /\ status' = [f \in Files |-> IF f \in S THEN StatusOf(o[f]) ELSE status[f]]
  /\ finished' = [f \in Files |-> IF f \in S THEN finished[f] + 1
                                  ELSE finished[f]]

All(S, outcome) == [f \in S |-> outcome]

Init ==
  /\ request \in Requests
  /\ root = FALSE
  /\ pc = "start"
  /\ phase = "Prepare"
  /\ pending = Files
  /\ task = [f \in Files |-> "none"]
  /\ prepared = {}
  /\ terminal = [f \in Files |-> None]
  /\ status = [f \in Files |-> "Queued"]
  /\ userCancelled = FALSE
  /\ failFast = FALSE
  /\ stopAdmission = FALSE
  /\ phaseCancel = FALSE
  /\ backlog = 0
  /\ finished = [f \in Files |-> 0]
  /\ closing = "none"
  /\ report = [f \in Files |-> "none"]
  /\ interrupted = {}

-----------------------------------------------------------------------------
(* The caller.                                                             *)

CancelRoot ==
  /\ ~root
  /\ pc # "done"
  /\ root' = TRUE
  /\ UNCHANGED <<request, supervisor, task, backlog, interrupted>>

-----------------------------------------------------------------------------
(* The workers.                                                            *)

(* A worker ends, and releases its permit.  A backend may report a         *)
(* cancellation nobody asked for; the supervisor has a branch for it.      *)
End(f, how) ==
  /\ task' = [task EXCEPT ![f] = how]
  /\ interrupted' = IF root /\ how \in {"Cancelled", "CleanupFailed"}
                    THEN interrupted \cup {f} ELSE interrupted
  /\ UNCHANGED <<request, root, supervisor, backlog>>

(* prepare_one: probe, selector, plan, existing output.                    *)
PrepareEnd(f) ==
  /\ phase = "Prepare"
  /\ task[f] = "working"
  /\ \E how \in PrepareEndings :
       /\ how = "Ready" => ~request.dryRun
       /\ how = "Planned" => request.dryRun
       /\ End(f, how)

(* The first thing the output transaction does is to look at its token.    *)
ExecuteBegin(f) ==
  /\ task[f] = "spawned"
  /\ \/ /\ TokenCancelled
        /\ End(f, "Cancelled")
     \/ /\ ~TokenCancelled
        /\ task' = [task EXCEPT ![f] = "working"]
        /\ UNCHANGED <<request, root, supervisor, backlog, interrupted>>

(* execute_one: an output may be published although the token was          *)
(* cancelled meanwhile.                                                    *)
ExecuteEnd(f) ==
  /\ phase = "Execute"
  /\ task[f] = "working"
  /\ \E how \in ExecuteEndings :
       /\ how = "CleanupFailed" => CleanupMayFail /\ TokenCancelled
       /\ End(f, how)

(* A progress record is sent with try_send: a full channel drops it.       *)
Report(f) ==
  /\ phase = "Execute"
  /\ task[f] = "working"
  /\ backlog < ProgressCap
  /\ backlog' = backlog + 1
  /\ UNCHANGED <<request, root, supervisor, task, interrupted>>

-----------------------------------------------------------------------------
(* The supervisor.                                                         *)

(* prepare_phase up to its loop: a token cancelled beforehand drains the   *)
(* whole queue.                                                            *)
StartPrepare ==
  /\ pc = "start"
  /\ pc' = "admit"
  /\ userCancelled' = root
  /\ stopAdmission' = root
  /\ LET drained == {f \in pending : root}
     IN /\ Decide(drained, All(drained, "CancelledUser"))
        /\ pending' = pending \ drained
  /\ UNCHANGED <<request, root, phase, failFast, phaseCancel, prepared,
                 ending, task, backlog, interrupted>>

(* Mutant: one permit too many.                                            *)
MayAdmit_OffByOne == /\ ~stopAdmission
                     /\ pending # {}
                     /\ Cardinality(Holding) <= MaxConcurrency

(* The admission loop takes files from the front of the queue, which is in *)
(* discovery order, while a permit is free.                                *)
MayAdmit == /\ ~stopAdmission
            /\ pending # {}
            /\ Cardinality(Holding) < MaxConcurrency

Admit ==
  /\ pc = "admit"
  /\ MayAdmit
  /\ \E f \in pending :
       /\ \A g \in pending : f <= g
       /\ pending' = pending \ {f}
       /\ \/ /\ phase = "Prepare"
             /\ status' = [status EXCEPT ![f] = "Preparing"]
             /\ task' = [task EXCEPT ![f] = "working"]
          \/ /\ phase = "Execute"
             /\ status' = [status EXCEPT ![f] = "Running"]
             /\ task' = [task EXCEPT ![f] = "spawned"]
  /\ UNCHANGED <<request, root, pc, phase, flags, prepared, terminal,
                 finished, ending, backlog, interrupted>>

(* Mutant: the loop waits on an empty JoinSet.                             *)
Wait_EmptySet ==
  /\ pc = "admit"
  /\ ~MayAdmit
  /\ pc' = "select"
  /\ UNCHANGED <<request, root, phase, flags, books, ending, task, backlog,
                 interrupted>>

(* Nothing more to admit: wait for something to happen.                    *)
Wait ==
  /\ pc = "admit"
  /\ ~MayAdmit
  /\ \E f \in Files : task[f] # "none"
  /\ pc' = "select"
  /\ UNCHANGED <<request, root, phase, flags, books, ending, task, backlog,
                 interrupted>>

(* select!, first branch: the root token.                                  *)
ObserveCancel ==
  /\ pc = "select"
  /\ root
  /\ ~userCancelled
  /\ userCancelled' = TRUE
  /\ stopAdmission' = TRUE
  /\ phaseCancel' = TRUE
  /\ Decide(pending, All(pending, "CancelledUser"))
  /\ pending' = {}
  /\ pc' = "admit"
  /\ UNCHANGED <<request, root, phase, failFast, prepared, ending, task,
                 backlog, interrupted>>

(* select!, progress branch (execution only): whatever the record says,    *)
(* the loop goes round and tries to admit again.                           *)
ReceiveProgress ==
  /\ pc = "select"
  /\ phase = "Execute"
  /\ backlog > 0
  /\ backlog' = backlog - 1
  /\ pc' = "admit"
  /\ UNCHANGED <<request, root, phase, flags, books, ending, task,
                 interrupted>>

(* Mutant: the plan is stored and the snapshot forgotten.                  *)
JoinReady_SilentStatus(f) ==
  /\ pc = "select"
  /\ task[f] = "Ready"
  /\ task' = [task EXCEPT ![f] = "none"]
  /\ prepared' = prepared \cup {f}
  /\ pc' = "admit"
  /\ UNCHANGED <<request, root, phase, flags, pending, status, terminal, finished,
                 ending, backlog, interrupted>>

(* select!, join branch, for a file that is ready to execute.              *)
JoinReady(f) ==
  /\ pc = "select"
  /\ task[f] = "Ready"
  /\ task' = [task EXCEPT ![f] = "none"]
  /\ status' = [status EXCEPT ![f] = "Ready"]
  /\ prepared' = prepared \cup {f}
  /\ pc' = "admit"
  /\ UNCHANGED <<request, root, phase, flags, pending, terminal, finished,
                 ending, backlog, interrupted>>

(* Who is to blame for an interrupted file.                                *)
Blame(byUser) == IF byUser THEN "CancelledUser"
                 ELSE IF failFast THEN "CancelledFailFast"
                 ELSE "Failed"

(* Mutant: a panic asks the root token, as a cancellation result does.     *)
OutcomeOf_PanicAsksRoot(how) == CASE how \in {"Cancelled", "Panicked"} -> Blame(root)
                                  [] how = "CleanupFailed" -> "Failed"
                                  [] OTHER                 -> how

(* A cancellation result asks the root token, a panic asks what the        *)
(* supervisor has noticed so far, and a failed cleanup is a plain failure. *)
OutcomeOf(how) == CASE how = "Cancelled"     -> Blame(root)
                    [] how = "Panicked"      -> Blame(userCancelled)
                    [] how = "CleanupFailed" -> "Failed"
                    [] OTHER                 -> how

(* Mutant: a stop leaves the queue as it is.                               *)
Drained_Nothing(f) == {}

(* select!, join branch, for any other ending: the file is decided, and    *)
(* the queue with it when the result shows a user cancellation or is the   *)
(* failure that trips fail-fast.                                           *)
Noticed(f) == task[f] = "Cancelled" /\ root
Tripped(f) == OutcomeOf(task[f]) = "Failed" /\ request.policy = "FailFast"
Drained(f) == IF Noticed(f) \/ Tripped(f) THEN pending ELSE {}

JoinTerminal(f) ==
  /\ pc = "select"
  /\ f \in Joinable
  /\ task[f] # "Ready"
  /\ Decide(Drained(f) \cup {f},
            [g \in Drained(f) \cup {f} |->
               IF g = f THEN OutcomeOf(task[f])
               ELSE IF Noticed(f) THEN "CancelledUser" ELSE "CancelledFailFast"])
  /\ pending' = pending \ Drained(f)
  /\ userCancelled' = (userCancelled \/ Noticed(f))
  /\ failFast' = (failFast \/ Tripped(f))
  /\ stopAdmission' = (stopAdmission \/ Noticed(f) \/ Tripped(f))
  /\ phaseCancel' = (phaseCancel \/ Noticed(f) \/ Tripped(f))
  /\ task' = [task EXCEPT ![f] = "none"]
  /\ pc' = "admit"
  /\ UNCHANGED <<request, root, phase, prepared, ending, backlog, interrupted>>

PhaseOver == /\ pc = "admit"
             /\ ~MayAdmit
             /\ \A f \in Files : task[f] = "none"

(* Mutant: after a stop every file is cancelled again, not only the plans. *)
PrepareDone_CancelsAll ==
  /\ PhaseOver
  /\ phase = "Prepare"
  /\ LET dropped == {f \in Files : userCancelled \/ failFast}
     IN /\ Decide(dropped, All(dropped, Blame(userCancelled)))
        /\ prepared' = prepared \ dropped
  /\ pc' = IF userCancelled \/ request.dryRun THEN "finish" ELSE "resolve"
  /\ UNCHANGED <<request, root, phase, flags, pending, ending, task, backlog,
                 interrupted>>

(* The end of prepare_phase: after a stop, plans already made are          *)
(* cancelled too.                                                          *)
PrepareDone ==
  /\ PhaseOver
  /\ phase = "Prepare"
  /\ LET dropped == {f \in prepared : userCancelled \/ failFast}
     IN /\ Decide(dropped, All(dropped, Blame(userCancelled)))
        /\ prepared' = prepared \ dropped
  /\ pc' = IF userCancelled \/ request.dryRun THEN "finish" ELSE "resolve"
  /\ UNCHANGED <<request, root, phase, flags, pending, ending, task, backlog,
                 interrupted>>

(* Mutants: only neighbours are compared; fail-fast is left to the         *)
(* execution phase, which does not know of earlier failures.               *)
Colliding_Neighbours(S) ==
  {f \in S : \E g \in S \cap {f - 1, f + 1} : request.dest[g] = request.dest[f]}

(* reject_duplicate_destinations, where resolving a path may fail, then    *)
(* the fail-fast check of `supervise` over every failure so far.           *)
Colliding(S) == {f \in S : \E g \in S \ {f} : request.dest[g] = request.dest[f]}

Rejected(unresolved) == unresolved \cup Colliding(prepared \ unresolved)

Resolved_NoFailFast(unresolved) == Rejected(unresolved)

Resolved(unresolved) ==
  IF /\ request.policy = "FailFast"
     /\ Rejected(unresolved) # {} \/ \E f \in Files : terminal[f] = "Failed"
  THEN prepared ELSE Rejected(unresolved)

Resolve ==
  /\ pc = "resolve"
  /\ \E unresolved \in SUBSET prepared :
       /\ Decide(Resolved(unresolved),
                 [f \in Resolved(unresolved) |->
                    IF f \in Rejected(unresolved) THEN "Failed"
                    ELSE "CancelledFailFast"])
       /\ prepared' = prepared \ Resolved(unresolved)
  /\ pc' = IF prepared' = {} THEN "finish" ELSE "enter"
  /\ UNCHANGED <<request, root, phase, flags, pending, ending, task, backlog,
                 interrupted>>

(* execute_phase up to its loop: fresh locals and a fresh child token; the *)
(* plans become the queue.                                                 *)
EnterExecute ==
  /\ pc = "enter"
  /\ phase' = "Execute"
  /\ LET drained == {f \in prepared : root}
     IN /\ Decide(drained, All(drained, "CancelledUser"))
        /\ pending' = prepared \ drained
  /\ prepared' = {}
  /\ userCancelled' = root
  /\ stopAdmission' = root
  /\ failFast' = FALSE
  /\ phaseCancel' = FALSE
  /\ pc' = "admit"
  /\ UNCHANGED <<request, root, ending, task, backlog, interrupted>>

(* The end of execute_phase: records still in the channel are dropped.     *)
ExecuteDone ==
  /\ PhaseOver
  /\ phase = "Execute"
  /\ backlog' = 0
  /\ pc' = "finish"
  /\ UNCHANGED <<request, root, phase, flags, books, ending, task, interrupted>>

(* finish_report: a file without an outcome would be reported as omitted.  *)
Finish ==
  /\ pc = "finish"
  /\ report' = [f \in Files |-> IF terminal[f] = None THEN "Omitted"
                                ELSE terminal[f]]
  /\ closing' = IF userCancelled THEN "BatchCancelled" ELSE "BatchFinished"
  /\ pc' = "done"
  /\ UNCHANGED <<request, root, phase, flags, books, task, backlog, interrupted>>

Done == pc = "done" /\ UNCHANGED vars

-----------------------------------------------------------------------------
Worker(f) == PrepareEnd(f) \/ ExecuteBegin(f) \/ ExecuteEnd(f) \/ Report(f)

Supervise ==
  \/ StartPrepare \/ Admit \/ Wait \/ ObserveCancel \/ ReceiveProgress
  \/ \E f \in Files : JoinReady(f) \/ JoinTerminal(f)
  \/ PrepareDone \/ Resolve \/ EnterExecute \/ ExecuteDone \/ Finish

Next == CancelRoot \/ Supervise \/ (\E f \in Files : Worker(f)) \/ Done

Spec == Init /\ [][Next]_vars

(* The runtime keeps polling the supervisor and every spawned worker.  A   *)
(* worker told to stop does stop: the backend reaps its processes and      *)
(* returns (MediaProcess.tla, StopReturns).  Nothing says that a worker    *)
(* nobody stops ever ends.                                                 *)
Stops(f) == TokenCancelled /\ (PrepareEnd(f) \/ ExecuteEnd(f))

StopFairSpec == /\ Spec
                /\ WF_vars(Supervise)
                /\ \A f \in Files : WF_vars(ExecuteBegin(f)) /\ WF_vars(Stops(f))

-----------------------------------------------------------------------------
(* Properties.                                                             *)

(* No input is lost and none is reported twice: a file has emitted         *)
(* FileFinished exactly when it has an outcome, once, and the report never *)
(* needs the "scheduler omitted a terminal file result" fallback.          *)
OneResultPerFile ==
  /\ \A f \in Files : finished[f] = IF terminal[f] = None THEN 0 ELSE 1
  /\ pc = "done" => \A f \in Files : report[f] = terminal[f] /\ report[f] # None

(* The last snapshot, which slow subscribers fall back on, tells the same  *)
(* story as the report; before that a file looks unfinished exactly as     *)
(* long as the supervisor still owes it a result.                          *)
SnapshotAgrees ==
  \A f \in Files :
    /\ terminal[f] # None => status[f] = StatusOf(terminal[f])
    /\ terminal[f] = None =>
         status[f] = IF task[f] # "none"
                     THEN IF phase = "Prepare" THEN "Preparing" ELSE "Running"
                     ELSE IF f \in prepared \/ phase = "Execute" THEN "Ready"
                     ELSE "Queued"

(* Backend work is bounded: permits never exceed the limit, and the two    *)
(* phases, which have a semaphore each, never have workers at once.        *)
BoundedWork ==
  /\ Cardinality(Holding) <= MaxConcurrency
  /\ phase = "Execute" =>
       \A f \in Files : task[f] \notin PrepareEndings \ ExecuteEndings

(* Two files that run, or have been published, never share a destination.  *)
DistinctDestinations ==
  \A f, g \in Files :
    /\ f # g
    /\ status[f] \in {"Running", "Succeeded"}
    /\ status[g] \in {"Running", "Succeeded"}
    => request.dest[f] # request.dest[g]

(* Cancellation reasons are true: "user" only after the caller cancelled,  *)
(* and then the batch closes as cancelled; "fail-fast" only under that     *)
(* policy and next to the failure that caused it.                          *)
ReasonsAreTrue ==
  \A f \in Files :
    /\ terminal[f] = "CancelledUser" => root /\ closing # "BatchFinished"
    /\ terminal[f] = "CancelledFailFast" =>
         /\ request.policy = "FailFast"
         /\ \E g \in Files : terminal[g] = "Failed"

(* Once the supervisor has noticed a cancellation, or under fail-fast once *)
(* any file has failed in either phase, no further file is started.        *)
NoStartAfterStop ==
  [][\A f \in Files :
       status[f] \in {"Queued", "Ready"} /\ status'[f] \in {"Preparing", "Running"}
       => /\ ~userCancelled
          /\ request.policy = "FailFast" =>
               \A g \in Files : terminal[g] # "Failed"]_vars

(* A user cancellation that comes before the execution phase lets no file  *)
(* start to execute, wherever the supervisor is when it comes, and neither *)
(* does a dry run.                                                         *)
CancelBeforeExecution ==
  [](phase = "Prepare" /\ (root \/ request.dryRun) =>
       [](\A f \in Files : status[f] \notin {"Running", "Succeeded"}))

(* A batch in which a worker stopped because the user cancelled closes as  *)
(* cancelled.                                                              *)
CancellationReported == closing = "BatchFinished" => interrupted = {}

(* Every batch ends unless one of its workers works for ever.              *)
BatchEnds == (\A f \in Files : []<>(task[f] # "working")) => <>(pc = "done")

(* A batch whose workers would never return on their own still ends once   *)
(* the user cancels or fail-fast trips: the stop reaches every worker.     *)
StopEndsBatch ==
  (root \/ (request.policy = "FailFast" /\ \E f \in Files : terminal[f] = "Failed"))
    ~> (pc = "done")

(* The scheduler implements the promise of Batch.                          *)
Promise == INSTANCE Batch
  WITH asked   <- root,
       outcome <- [f \in Files |-> IF terminal[f] = None THEN "Undecided"
                                   ELSE terminal[f]],
       verdict <- CASE closing = "none"           -> "Open"
                    [] closing = "BatchFinished"  -> "Finished"
                    [] closing = "BatchCancelled" -> "Cancelled"

KeepsPromise == Promise!Spec

-----------------------------------------------------------------------------
(* The inductive invariant behind the theorems of SchedulerProofs.         *)

(* Every file is in exactly one place: waiting, with a worker, prepared,   *)
(* or decided (and then FileFinished was emitted).                         *)
Ledger ==
  \A f \in Files :
    /\ finished[f] = IF terminal[f] = None THEN 0 ELSE 1
    /\ f \in pending => task[f] = "none" /\ f \notin prepared /\ terminal[f] = None
    /\ task[f] # "none" => f \notin prepared /\ terminal[f] = None
    /\ f \in prepared => terminal[f] = None
    /\ terminal[f] = None => f \in pending \/ task[f] # "none" \/ f \in prepared

(* What each phase of the supervisor may still have on its hands.          *)
Control ==
  /\ pc = "start" => /\ phase = "Prepare" /\ pending = Files
                     /\ ~userCancelled /\ ~failFast /\ ~stopAdmission
  /\ pc \in {"resolve", "enter", "finish", "done"} =>
       pending = {} /\ \A f \in Files : task[f] = "none"
  /\ pc \in {"resolve", "enter"} => phase = "Prepare" /\ ~userCancelled
  /\ pc \in {"finish", "done"} => prepared = {}
  /\ phase = "Execute" => prepared = {} /\ ~request.dryRun
  /\ pc = "resolve" => ~request.dryRun
  /\ pc = "enter" => prepared # {} /\ ~failFast
  /\ pc = "resolve" /\ failFast => prepared = {}
  /\ prepared # {} => ~request.dryRun
  /\ closing # "none" <=> pc = "done"
  /\ pc = "done" => /\ closing = IF userCancelled THEN "BatchCancelled"
                                  ELSE "BatchFinished"
                    /\ report = terminal

(* Which endings a worker of the current phase can have.                   *)
Workers ==
  /\ \A f \in Files :
       /\ phase = "Prepare" => task[f] \in {"none", "working"} \cup PrepareEndings
       /\ phase = "Execute" => task[f] \in {"none"} \cup Running \cup ExecuteEndings
       /\ task[f] = "Ready" => ~request.dryRun
       /\ task[f] = "Planned" => request.dryRun
       /\ task[f] = "CleanupFailed" => CleanupMayFail
  /\ Cardinality(Holding) <= MaxConcurrency

(* Why work stopped, and that nothing waits once it has.                   *)
Reasons ==
  /\ userCancelled => root
  /\ stopAdmission <=> userCancelled \/ failFast
  /\ pc # "start" /\ stopAdmission => pending = {}
  /\ failFast => request.policy = "FailFast" /\ \E f \in Files : terminal[f] = "Failed"
  /\ request.policy = "FailFast" /\ (\E f \in Files : terminal[f] = "Failed") =>
       failFast \/ pc \in {"finish", "done"}
  /\ \A f \in Files :
       /\ terminal[f] = "CancelledUser" => userCancelled
       /\ terminal[f] = "CancelledFailFast" =>
            request.policy = "FailFast" /\ \E g \in Files : terminal[g] = "Failed"
       /\ terminal[f] = "Succeeded" => phase = "Execute"
       /\ terminal[f] = "Planned" => request.dryRun
  /\ ~CleanupMayFail => \A f \in interrupted : userCancelled \/ (root /\ task[f] = "Cancelled")

(* Files that may still write, or have written, their destination.         *)
Live == {f \in Files : \/ f \in pending \cup prepared
                       \/ task[f] # "none"
                       \/ terminal[f] = "Succeeded"}

Exclusive == phase = "Execute" \/ pc = "enter" =>
               \A f, g \in Live : f # g => request.dest[f] # request.dest[g]

IInv == /\ TypeOK /\ Ledger /\ Control /\ Workers /\ Reasons
        /\ Exclusive /\ SnapshotAgrees
=============================================================================
