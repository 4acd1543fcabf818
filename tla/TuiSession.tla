------------------------------ MODULE TuiSession ------------------------------
(***************************************************************************)
(* The terminal application of crates/tui: the update function of model.rs,*)
(* the loop of app.rs that feeds it, the tasks that loop spawns, and the   *)
(* thread of input.rs.                                                     *)
(*                                                                         *)
(* Everything the user or a task says reaches the model through one        *)
(* bounded channel, which one loop reads; an action is the whole handling  *)
(* of one message, or one step of a task.  What a message says is chosen   *)
(* when it is handled, where nothing could have read it before (the files  *)
(* found, the result of a probe); a snapshot carries the statuses it was   *)
(* taken with, since it may arrive late.  Keys and log messages wait in    *)
(* the same channel, but nothing depends on how long: a key is an action   *)
(* the user takes while the loop runs, and both are counted only when the  *)
(* loop ends, as messages that fill the channel.  The batches come from    *)
(* the runtime (Scheduler.tla): here they are any run that keeps the       *)
(* promise of Batch.tla.                                                   *)
(***************************************************************************)
EXTENDS Listing, SequencesExt

CONSTANTS Files,             \* MKV files a discovery may find
          Capacity,          \* of the message channel (app.rs: 256)
          ProbeJobs,         \* permits of probe_limit (app.rs: 1 to 4)
          MaxIds,            \* queue items ever created (bound)
          MaxSearches,       \* discoveries under way at once (bound)
          MaxBatches,        \* batches ever started (bound)
          Unread,            \* keys and log messages unread at the end (bound)
          Published,         \* statuses the batches' files go through
          Opened,            \* overlays the user opens (bound)
          Plans,             \* results of the pure planner
          MayQuit,           \* may the user press q?
          ProbeMayPanic,     \* may a probe task panic?
          SchedulerMayFail,  \* may the supervisor task of a batch fail?
          TerminalMayFail    \* may drawing or reading the terminal fail?

Ids     == 0 .. MaxIds - 1
Batches == 1 .. MaxBatches

(* "Ready" stands for Ready and Compatible, and "Succeeded" for Succeeded, *)
(* Skipped and Planned: the model treats each group alike.  Help and       *)
(* notices are one "Message" overlay.  Which screen is shown and which row *)
(* is selected only decide what a key means: the user chooses both.        *)
Terminal     == {"Succeeded", "Failed", "Cancelled"}
FileStatuses == {"Queued", "Preparing", "Ready", "Running"} \cup Terminal
ItemStatuses == FileStatuses \cup {"Probing"}
CanStart     == {"Ready", "Succeeded"}
Phases       == {"Idle", "Running", "Cancelling"}
Overlays     == {"None", "Message", "Editor", "Confirm"}

ASSUME TuiAssumption ==
  /\ IsFiniteSet(Files)
  /\ Capacity \in Nat \ {0} /\ ProbeJobs \in Nat \ {0}
  /\ {MaxIds, MaxSearches, MaxBatches, Unread} \subseteq Nat
  /\ Published \subseteq FileStatuses \ {"Queued", "Cancelled"}
  /\ Opened \subseteq Overlays /\ Plans \subseteq {"Ready", "Failed"}
  /\ {MayQuit, ProbeMayPanic, SchedulerMayFail, TerminalMayFail}
       \subseteq BOOLEAN

VARIABLES
  phase,      \* Model.phase
  overlay,    \* Model.overlay
  queue,      \* Model.queue: [id, file, enabled, status, media], oldest first
  nextId,     \* Model.next_id
  active,     \* Model.active_queue_ids: item of each file of the batch
  app,        \* where run_loop is
  holder,     \* batch whose token active_batch_cancel holds, or 0
  inbox,      \* the message channel
  reader,     \* the input thread: "Polling", "Holding" an event that
              \*   waits for room, or "Ended"
  stop,       \* its stop flag
  searching,  \* discovery tasks that have not answered
  probing,    \* probe tasks that have not answered: item -> "Waiting", "Probing"
  panicked,   \* items whose probe task panicked
  unjoined,   \* panics the loop has not seen
  started,    \* batches ever started
  files,      \* batch -> status of each of its files
  live,       \* batch -> "None", "Running", "Returned" or "Failed", then what
              \*   its waiter sent: "Reported" or "Lost"
  token,      \* batches whose token is cancelled
  fresh,      \* batches with a snapshot their relay has not read
  held        \* batch -> snapshot its relay waits to send, or <<>>

model == <<phase, overlay, queue, nextId, active>>
input == <<reader, stop>>
tasks == <<searching, probing, panicked, unjoined>>
runs  == <<started, files, live, token, fresh, held>>
vars  == <<model, app, holder, inbox, input, tasks, runs>>

-----------------------------------------------------------------------------
(* Messages.                                                               *)
Input       == [type |-> "Input"]
Discovered  == [type |-> "Discovered"]
TaskFailed  == [type |-> "TaskFailed"]
Probed(id)          == [type |-> "Probed", id |-> id]
Snapshot(b, states) == [type |-> "Snapshot", batch |-> b, states |-> states]
Finished(b, ok)     == [type |-> "Finished", batch |-> b, ok |-> ok]

Looping == app = "Looping"
Alive   == app \notin {"Ended", "Failed"}
Room    == Len(inbox) < Capacity

(* The loop receives the oldest message.                                   *)
Receive(type) == /\ Looping
                 /\ inbox # <<>> /\ Head(inbox).type = type
                 /\ inbox' = Tail(inbox)

(* A key, while the thread that reads keys is there.                       *)
Key == Looping /\ reader = "Polling" /\ UNCHANGED inbox

(* A task whose send found room.                                           *)
Send(m) == Alive /\ Room /\ inbox' = Append(inbox, m)

Positions  == 1 .. Len(queue)
InQueue    == {queue[k].id : k \in Positions}
Known      == {queue[k].file : k \in Positions}
Position(id) == CHOOSE k \in Positions : queue[k].id = id
Startable  == /\ phase = "Idle"
              /\ \E k \in Positions : queue[k].enabled
              /\ \A k \in Positions :
                    queue[k].enabled => queue[k].status \in CanStart

(* build_batch: the items that take part, in the order of the queue.        *)
Enabled == LET rows == Selected(queue, {k \in Positions : queue[k].enabled})
           IN [n \in DOMAIN rows |-> rows[n].id]

(* rebuild_plans: every item whose media is known gets the status of its   *)
(* new plan.                                                               *)
Rebuilt(q, plan) == [k \in DOMAIN q |->
  IF q[k].media THEN [q[k] EXCEPT !.status = plan[k]] ELSE q[k]]

(* on_snapshot and on_batch_finished: file k of the batch is item          *)
(* active[k], if there is one and it is still in the queue.                *)
Applied(q, ids, states) == [k \in DOMAIN q |->
  IF \E j \in DOMAIN states : j <= Len(ids) /\ ids[j] = q[k].id
  THEN [q[k] EXCEPT !.status =
          states[CHOOSE j \in DOMAIN states :
                    j <= Len(ids) /\ ids[j] = q[k].id]]
  ELSE q[k]]

Init ==
  /\ phase = "Idle" /\ overlay = "None"
  /\ queue = <<>> /\ nextId = 0 /\ active = <<>>
  /\ app = "Looping" /\ holder = 0 /\ inbox = <<>>
  /\ reader = "Polling" /\ stop = FALSE
  /\ searching \in {0, 1} \cap 0 .. MaxSearches
  /\ probing = [id \in Ids |-> "None"] /\ panicked = {} /\ unjoined = 0
  /\ started = 0
  /\ files = [b \in Batches |-> <<>>]
  /\ live = [b \in Batches |-> "None"]
  /\ token = {} /\ fresh = {}
  /\ held = [b \in Batches |-> <<>>]

-----------------------------------------------------------------------------
(* Effects: what the loop does for the model.                              *)
SpawnProbes(ids) ==
  probing' = [id \in Ids |-> IF id \in ids THEN "Waiting" ELSE probing[id]]

CancelBatch == token' = IF holder = 0 THEN token ELSE token \cup {holder}

(* request_cancel, with its effect.                                        *)
RequestCancel ==
  IF phase = "Running" THEN phase' = "Cancelling" /\ CancelBatch
                       ELSE UNCHANGED <<phase, token>>

-----------------------------------------------------------------------------
(* Keys.  An open overlay takes every key, Ctrl+C included.                *)
OverlayKey ==
  /\ Key /\ overlay # "None"
  /\ \/ overlay' \in {overlay, "None"}      \* not understood, or dismissed
        /\ UNCHANGED <<phase, token, searching>>
     \/ overlay = "Confirm" /\ overlay' = "None" /\ RequestCancel
        /\ UNCHANGED <<searching>>
     \/ overlay = "Editor" /\ overlay' = "Message"        \* an empty path
        /\ UNCHANGED <<phase, token, searching>>
     \/ overlay = "Editor" /\ overlay' = "None"
        /\ searching < MaxSearches /\ nextId < MaxIds
        /\ searching' = searching + 1
        /\ UNCHANGED <<phase, token>>
  /\ UNCHANGED <<queue, nextId, active, app,
                 holder, input, probing, panicked, unjoined, started, files,
                 live, fresh, held>>

(* Mutant: q leaves at once.                                               *)
PlainKey_QuitsAnyTime ==
  /\ Key /\ overlay = "None"
  /\ MayQuit /\ app' = "Leaving"
  /\ UNCHANGED <<phase, overlay, token, queue, nextId, active, holder, input,
                 tasks, started, files, live, fresh, held>>

(* Help, q, a and c.  q leaves the loop, but not under a batch.            *)
PlainKey ==
  /\ Key /\ overlay = "None"
  /\ \/ /\ \/ overlay' = "Message"
           \/ phase = "Idle" /\ overlay' = "Editor"
           \/ phase # "Idle" /\ overlay' = "Confirm"
        /\ overlay' \in Opened
        /\ UNCHANGED <<phase, app, token>>
     \/ /\ MayQuit /\ phase = "Idle" /\ app' = "Leaving"
        /\ UNCHANGED <<phase, overlay, token>>
     \/ /\ RequestCancel
        /\ UNCHANGED <<overlay, app>>
  /\ UNCHANGED <<queue, nextId, active, holder, input, tasks, started, files,
                 live, fresh, held>>

(* Mutant: the token of the batch is not kept.                             *)
StartKey_TokenLost ==
  /\ Key /\ overlay = "None" /\ Startable /\ started < MaxBatches
  /\ LET b   == started + 1
         ids == Enabled
     IN /\ started' = b
        /\ active' = ids
        /\ files' = [files EXCEPT ![b] = [k \in DOMAIN ids |-> "Queued"]]
        /\ live' = [live EXCEPT ![b] = "Running"]
        /\ fresh' = fresh \cup {b}
  /\ queue' = [k \in Positions |->
                 IF queue[k].enabled THEN [queue[k] EXCEPT !.status = "Queued"]
                                     ELSE queue[k]]
  /\ phase' = "Running"
  /\ UNCHANGED <<overlay, holder, nextId, app, input, tasks, token, held>>

(* s: build_batch and start_batch, or a notice that says why not.          *)
StartKey ==
  /\ Key /\ overlay = "None"
  /\ IF Startable
     THEN /\ started < MaxBatches
          /\ LET b   == started + 1
                 ids == Enabled
             IN /\ started' = b
                /\ active' = ids
                /\ files' = [files EXCEPT ![b] = [k \in DOMAIN ids |-> "Queued"]]
                /\ live' = [live EXCEPT ![b] = "Running"]
                /\ holder' = b
                /\ fresh' = fresh \cup {b}
          /\ queue' = [k \in Positions |->
                         IF queue[k].enabled
                         THEN [queue[k] EXCEPT !.status = "Queued"]
                         ELSE queue[k]]
          /\ phase' = "Running"
          /\ UNCHANGED overlay
     ELSE /\ overlay' = "Message"
          /\ UNCHANGED <<phase, queue, active, holder, started, files, live,
                         fresh>>
  /\ UNCHANGED <<nextId, app, input, tasks,
                 token, held>>

Again(row)   == row.status \in {"Failed", "Cancelled"}
Retried(row) ==
  IF ~ Again(row) THEN row
  ELSE [row EXCEPT !.enabled = TRUE,
                   !.status = IF row.media THEN "Ready" ELSE "Probing"]

(* Mutant: an item is probed again even if its media is known.             *)
RetryKey_ProbesAll ==
  /\ Key /\ overlay = "None" /\ phase = "Idle"
  /\ LET again == {k \in Positions : queue[k].status \in {"Failed", "Cancelled"}}
     IN /\ queue' = [k \in Positions |->
             IF k \in again
             THEN [queue[k] EXCEPT !.enabled = TRUE,
                     !.status = IF queue[k].media THEN "Ready" ELSE "Probing"]
             ELSE queue[k]]
        /\ SpawnProbes({queue[k].id : k \in again})
  /\ UNCHANGED <<phase, overlay, nextId, active, app, holder, input, searching,
                 panicked, unjoined, runs>>

(* r: failed and cancelled items take part again; those without media are  *)
(* probed again, and every plan is rebuilt.                                *)
RetryKey ==
  /\ Key /\ overlay = "None" /\ phase = "Idle"
  /\ \E plan \in [Positions -> Plans] :
        queue' = Rebuilt([k \in Positions |-> Retried(queue[k])], plan)
  /\ SpawnProbes({queue[k].id : k \in {j \in Positions :
                    Again(queue[j]) /\ ~queue[j].media}})
  /\ UNCHANGED <<phase, overlay, nextId, active,
                 app, holder, input, searching, panicked, unjoined,
                 runs>>

(* Mutant: rows may be edited while a batch is active.                     *)
EditKey_WhileRunning ==
  /\ Key /\ overlay = "None"
  /\ \E k \in Positions : queue' = RemoveAt(queue, k)
  /\ UNCHANGED <<phase, overlay, nextId, active, app, holder, input, tasks, runs>>

(* d and Space on the queue, a changed value on the settings screen.       *)
EditKey ==
  /\ Key /\ overlay = "None" /\ phase = "Idle"
  /\ \/ \E k \in Positions : queue' = RemoveAt(queue, k)
     \/ \E k \in Positions : queue' = [queue EXCEPT ![k].enabled = ~ @]
     \/ \E plan \in [Positions -> Plans] : queue' = Rebuilt(queue, plan)
  /\ UNCHANGED <<phase, overlay, nextId, active, app,
                 holder, input, tasks, runs>>

(* Key releases, resizes, unused keys; a paste closes any overlay but the  *)
(* editor.                                                                 *)
OtherInput ==
  /\ Key
  /\ overlay' \in {overlay, IF overlay = "Editor" THEN "Editor" ELSE "None"}
  /\ UNCHANGED <<phase, queue, nextId, active,
                 app, holder, input, tasks, runs>>

-----------------------------------------------------------------------------
(* Answers of the tasks.                                                   *)
OnDiscovered ==
  /\ Receive("Discovered")
  /\ \/ /\ overlay' = "Message"                                 \* an error
        /\ UNCHANGED <<queue, nextId, probing>>
     \/ \E found \in SUBSET Files : \E new \in SetToSeqs(found \ Known) :
          LET item == [k \in DOMAIN new |->
                 [id |-> nextId + k - 1, file |-> new[k], enabled |-> TRUE,
                  status |-> "Probing", media |-> FALSE]]
          IN /\ nextId + Len(new) <= MaxIds
             /\ nextId' = nextId + Len(new)
             /\ queue' = queue \o item
             /\ SpawnProbes({item[k].id : k \in DOMAIN item})
             /\ UNCHANGED overlay
  /\ UNCHANGED <<phase, active, app, holder, input,
                 searching, panicked, unjoined, runs>>

OnProbe ==
  /\ Receive("Probed")
  /\ LET id == Head(inbox).id
     IN IF id \notin InQueue THEN UNCHANGED queue
        ELSE \/ \E plan \in Plans :
                  queue' = [queue EXCEPT ![Position(id)].media = TRUE,
                                         ![Position(id)].status = plan]
             \/ queue' = [queue EXCEPT ![Position(id)].status = "Failed"]
  /\ UNCHANGED <<phase, overlay, nextId, active,
                 app, holder, input, tasks, runs>>

OnSnapshot ==
  /\ Receive("Snapshot")
  /\ queue' = Applied(queue, active, Head(inbox).states)
  /\ UNCHANGED <<phase, overlay, nextId, active, app,
                 holder, input, tasks, runs>>

(* Mutants: the mapping from files to rows outlives the batch; the report  *)
(* is not applied; only a running batch can finish.                        *)
OnBatchFinished_KeepsMapping ==
  /\ Receive("Finished")
  /\ phase' = "Idle" /\ holder' = 0
  /\ queue' = Applied(queue, active, files[Head(inbox).batch])
  /\ UNCHANGED <<overlay, active, nextId, app, input, tasks, runs>>

OnBatchFinished_NotApplied ==
  /\ Receive("Finished")
  /\ phase' = "Idle" /\ active' = <<>> /\ holder' = 0
  /\ overlay' = IF Head(inbox).ok THEN overlay ELSE "Message"
  /\ UNCHANGED <<queue, nextId, app, input, tasks, runs>>

OnBatchFinished_OnlyRunning ==
  /\ Receive("Finished")
  /\ phase' = IF phase = "Running" THEN "Idle" ELSE phase
  /\ active' = <<>> /\ holder' = 0
  /\ queue' = Applied(queue, active, files[Head(inbox).batch])
  /\ UNCHANGED <<overlay, nextId, app, input, tasks, runs>>

OnBatchFinished ==
  /\ Receive("Finished")
  /\ phase' = "Idle" /\ active' = <<>> /\ holder' = 0
  /\ IF Head(inbox).ok
     THEN /\ queue' = Applied(queue, active, files[Head(inbox).batch])
          /\ UNCHANGED overlay
     ELSE /\ overlay' = "Message"
          /\ UNCHANGED queue
  /\ UNCHANGED <<nextId, app, input, tasks, runs>>

(* A task that reports its failure, or that the loop finds to have         *)
(* panicked.                                                               *)
OnTaskFailed ==
  /\ \/ Receive("TaskFailed") /\ UNCHANGED unjoined
     \/ /\ Looping /\ unjoined > 0 /\ unjoined' = unjoined - 1
        /\ UNCHANGED inbox
  /\ overlay' = "Message"
  /\ RequestCancel
  /\ UNCHANGED <<queue, nextId, active, app,
                 holder, input, searching, probing, panicked,
                 started, files, live, fresh, held>>

-----------------------------------------------------------------------------
(* Tasks the loop spawned.                                                 *)
DiscoverySends ==
  /\ searching > 0 /\ searching' = searching - 1
  /\ Send(Discovered)
  /\ UNCHANGED <<model, app, holder, input, probing, panicked,
                 unjoined, runs>>

ProbeStarts(id) ==
  /\ Alive /\ probing[id] = "Waiting"
  /\ Cardinality({i \in Ids : probing[i] = "Probing"}) < ProbeJobs
  /\ probing' = [probing EXCEPT ![id] = "Probing"]
  /\ UNCHANGED <<model, app, holder, inbox, input, searching,
                 panicked, unjoined, runs>>

(* The permit is kept until the answer is in the channel.                  *)
ProbeSends(id) ==
  /\ probing[id] = "Probing" /\ probing' = [probing EXCEPT ![id] = "None"]
  /\ Send(Probed(id))
  /\ UNCHANGED <<model, app, holder, input, searching, panicked,
                 unjoined, runs>>

ProbePanics(id) ==
  /\ ProbeMayPanic /\ Alive
  /\ probing[id] = "Probing" /\ probing' = [probing EXCEPT ![id] = "None"]
  /\ panicked' = panicked \cup {id} /\ unjoined' = unjoined + 1
  /\ UNCHANGED <<model, app, holder, inbox, input, searching, runs>>

RelayReads(b) ==
  /\ Alive /\ b \in fresh /\ held[b] = <<>>
  /\ fresh' = fresh \ {b} /\ held' = [held EXCEPT ![b] = files[b]]
  /\ UNCHANGED <<model, app, holder, inbox, input, tasks, started, files,
                 live, token>>

RelaySends(b) ==
  /\ held[b] # <<>> /\ held' = [held EXCEPT ![b] = <<>>]
  /\ Send(Snapshot(b, held[b]))
  /\ UNCHANGED <<model, app, holder, input, tasks, started, files, live,
                 token, fresh>>

WaiterSends(b) ==
  /\ live[b] \in {"Returned", "Failed"}
  /\ live' = [live EXCEPT ![b] = IF @ = "Failed" THEN "Lost" ELSE "Reported"]
  /\ Send(Finished(b, live[b] = "Returned"))
  /\ UNCHANGED <<model, app, holder, input, tasks, started, files, token,
                 fresh, held>>

(* The scheduler: a file moves on, or the batch returns once all have.     *)
FileMoves(b, k) ==
  /\ Alive /\ live[b] = "Running"
  /\ files[b][k] \notin Terminal
  /\ \E s \in Published \cup (IF b \in token THEN {"Cancelled"} ELSE {}) :
       /\ s # files[b][k]
       /\ files' = [files EXCEPT ![b][k] = s]
  /\ fresh' = fresh \cup {b}
  /\ UNCHANGED <<model, app, holder, inbox, input, tasks, started, live,
                 token, held>>

BatchReturns(b) ==
  /\ Alive /\ live[b] = "Running"
  /\ \A k \in DOMAIN files[b] : files[b][k] \in Terminal
  /\ live' = [live EXCEPT ![b] = "Returned"]
  /\ UNCHANGED <<model, app, holder, inbox, input, tasks, started, files,
                 token, fresh, held>>

SchedulerFails(b) ==
  /\ SchedulerMayFail /\ Alive /\ live[b] = "Running"
  /\ live' = [live EXCEPT ![b] = "Failed"]
  /\ UNCHANGED <<model, app, holder, inbox, input, tasks, started, files,
                 token, fresh, held>>

-----------------------------------------------------------------------------
(* The input thread.                                                       *)
ReaderFails ==
  /\ TerminalMayFail /\ reader = "Polling" /\ ~stop /\ reader' = "Ended"
  /\ Send(TaskFailed)
  /\ UNCHANGED <<model, app, holder, stop, tasks, runs>>

ReaderSends ==
  /\ reader = "Holding" /\ reader' = "Polling"
  /\ Send(Input)
  /\ UNCHANGED <<model, app, holder, stop, tasks, runs>>

ReaderStops ==
  /\ Alive /\ reader = "Polling" /\ stop /\ reader' = "Ended"
  /\ UNCHANGED <<model, app, holder, inbox, stop, tasks, runs>>

(* The loop ends with any number of keys and log messages unread, and      *)
(* perhaps an event in the hands of the thread.                            *)
StopReader ==
  /\ stop' = TRUE
  /\ \E n \in 0 .. Unread :
        /\ Len(inbox) + n <= Capacity
        /\ inbox' = inbox \o [k \in 1 .. n |-> Input]
  /\ reader' \in {reader} \cup
        (IF reader = "Polling" /\ Unread > 0 THEN {"Holding"} ELSE {})

-----------------------------------------------------------------------------
(* The end of run_loop.  From here on nobody reads the channel.            *)
Leave ==
  /\ app = "Leaving" /\ app' = "Stopping"
  /\ token' = token \cup {b \in Batches : b <= started}
  /\ StopReader
  /\ UNCHANGED <<model, holder, tasks, started, files, live,
                 fresh, held>>

DrawFails ==
  /\ TerminalMayFail /\ Looping /\ app' = "Failing"
  /\ StopReader
  /\ UNCHANGED <<model, holder, tasks, runs>>

(* input.stop, or the drop of the reader, joins its thread.                *)
ReaderJoined ==
  /\ reader = "Ended"
  /\ \/ app = "Stopping" /\ app' = "Joining"
     \/ app = "Failing" /\ app' = "Failed"
  /\ UNCHANGED <<model, holder, inbox, input, tasks, runs>>

TasksLeft ==
  \/ searching > 0
  \/ \E id \in Ids : probing[id] # "None"
  \/ \E b \in Batches : \/ live[b] \in {"Running", "Returned", "Failed"}
                        \/ b \in fresh \/ held[b] # <<>>

AllJoined ==
  /\ app = "Joining" /\ ~TasksLeft /\ app' = "Ended"
  /\ UNCHANGED <<model, holder, inbox, input, tasks, runs>>
-----------------------------------------------------------------------------
Keys == OverlayKey \/ PlainKey \/ StartKey \/ RetryKey \/ EditKey \/ OtherInput

Messages == OnDiscovered \/ OnProbe \/ OnSnapshot \/ OnBatchFinished \/ OnTaskFailed

Next ==
  \/ Keys \/ Messages
  \/ DiscoverySends
  \/ \E id \in Ids : ProbeStarts(id) \/ ProbeSends(id) \/ ProbePanics(id)
  \/ \E b \in Batches : \/ RelayReads(b) \/ RelaySends(b)
                        \/ WaiterSends(b) \/ BatchReturns(b)
                        \/ SchedulerFails(b)
                        \/ \E k \in DOMAIN files[b] : FileMoves(b, k)
  \/ ReaderSends \/ ReaderFails \/ ReaderStops
  \/ Leave \/ DrawFails \/ ReaderJoined \/ AllJoined

Spec == Init /\ [][Next]_vars

(* The loop handles what is in the channel, a blocked send is served in    *)
(* turn (tokio's channel and semaphore are first come, first served), a    *)
(* probe and a batch come to an end, and the input thread looks at its     *)
(* stop flag.  Nobody has to press a key.                                  *)
Fairness ==
  /\ WF_vars(Messages) /\ SF_vars(DiscoverySends) /\ SF_vars(ReaderSends)
  /\ WF_vars(ReaderStops) /\ WF_vars(Leave)
  /\ WF_vars(ReaderJoined) /\ WF_vars(AllJoined)
  /\ \A id \in Ids : SF_vars(ProbeStarts(id)) /\ SF_vars(ProbeSends(id))
  /\ \A b \in Batches :
        /\ WF_vars(RelayReads(b)) /\ SF_vars(RelaySends(b))
        /\ SF_vars(WaiterSends(b)) /\ WF_vars(BatchReturns(b))
        /\ WF_vars(\E k \in DOMAIN files[b] : FileMoves(b, k))

FairSpec == Spec /\ Fairness
-----------------------------------------------------------------------------
Texts == [type : {"Input", "Discovered", "TaskFailed"}]
     \cup [type : {"Probed"}, id : Ids]
     \cup [type : {"Snapshot"}, batch : Batches, states : Seq(FileStatuses)]
     \cup [type : {"Finished"}, batch : Batches, ok : BOOLEAN]

TypeOK ==
  /\ phase \in Phases /\ overlay \in Overlays 
  /\ queue \in Seq([id : Ids, file : Files, enabled : BOOLEAN,
                    status : ItemStatuses, media : BOOLEAN])
  /\ nextId \in 0 .. MaxIds /\ active \in Seq(Ids)
  /\ app \in {"Looping", "Leaving", "Stopping", "Joining", "Ended",
              "Failing", "Failed"}
  /\ holder \in 0 .. MaxBatches
  /\ inbox \in Seq(Texts) /\ Len(inbox) <= Capacity
  /\ reader \in {"Polling", "Holding", "Ended"}
  /\ stop \in BOOLEAN
  /\ searching \in 0 .. MaxSearches
  /\ probing \in [Ids -> {"None", "Waiting", "Probing"}]
  /\ panicked \subseteq Ids /\ unjoined \in 0 .. Cardinality(panicked)
  /\ started \in 0 .. MaxBatches
  /\ files \in [Batches -> Seq(FileStatuses)]
  /\ live \in [Batches -> {"None", "Running", "Returned", "Failed",
                           "Reported", "Lost"}]
  /\ token \subseteq Batches /\ fresh \subseteq Batches
  /\ held \in [Batches -> Seq(FileStatuses)]

(* Everything has its type.  A file has one row and a row its own          *)
(* identifier, whatever was found, removed or found again.  A probe        *)
(* answers to the row it was started for: never two for one row, none for  *)
(* a row that has moved on or belongs to a batch; and a row that shows a   *)
(* probe has one, unless its task panicked.                                *)
Answers(id) == {k \in DOMAIN inbox :
                  inbox[k].type = "Probed" /\ inbox[k].id = id}
InFlight(id) == probing[id] # "None" \/ Answers(id) # {}
ProbesAnswerTheirRows ==
  /\ TypeOK
  /\ \A j, k \in Positions :
        j # k => queue[j].id # queue[k].id /\ queue[j].file # queue[k].file
  /\ \A id \in Ids : Cardinality(Answers(id)) <=
                       (IF probing[id] = "None" THEN 1 ELSE 0)
  /\ \A k \in Positions :
        /\ InFlight(queue[k].id) => queue[k].status = "Probing"
        /\ queue[k].status = "Probing" =>
              InFlight(queue[k].id) \/ queue[k].id \in panicked

(* While a batch is active its rows stay: file k of the running batch is   *)
(* the row active[k], present and enabled, so statuses and the report,     *)
(* which name files by ordinal, reach the right rows.                      *)
BatchKeepsItsRows ==
  phase # "Idle" =>
    /\ holder = started /\ live[holder] # "None"
    /\ Len(active) = Len(files[holder])
    /\ \A j \in DOMAIN active :
          /\ \E k \in Positions : queue[k].id = active[j] /\ queue[k].enabled
          /\ \A i \in 1 .. j - 1 : active[i] < active[j]

(* "Cancelling" is never only a word on the screen: the batch it speaks of *)
(* has its token cancelled.                                                *)
CancelReachesBatch == phase = "Cancelling" => holder \in token

(* q is refused while a batch is active, and a batch that ended has sent   *)
(* its report before the loop can leave: quitting abandons no batch.       *)
QuitAbandonsNothing ==
  app \in {"Leaving", "Stopping", "Joining", "Ended"} =>
    \A b \in Batches : live[b] \in {"None", "Reported", "Lost"}

(* When no batch is active every row can be started, retried, or is being  *)
(* probed.  A probe task that panicked or a supervisor that failed leaves  *)
(* rows behind: the code has no answer to either.                          *)
NoRowStuck ==
  phase = "Idle" /\ (\A b \in Batches : live[b] # "Lost") =>
    \A k \in Positions :
      \/ queue[k].status \in CanStart \cup {"Failed", "Cancelled"}
      \/ InFlight(queue[k].id) \/ queue[k].id \in panicked

(* The result a batch left on a row stays until the user acts: snapshots   *)
(* that arrive after the report change nothing.                            *)
ResultsStay ==
  [][phase = "Idle" /\ phase' = "Idle" =>
       \A k \in Positions :
         queue[k].status \in Terminal =>
           \/ Keys
           \/ \E j \in DOMAIN queue' : queue'[j] = queue[k]]_vars

(* A cancelled batch lets go of the interface, however many messages are   *)
(* ahead of its report, unless the loop is left.                           *)
CancelSettles == phase = "Cancelling" ~> phase = "Idle" \/ ~Looping

(* m6-design.md: "`q` exits when idle".                                    *)
QuitEnds == app = "Leaving" ~> app = "Ended"
=============================================================================
