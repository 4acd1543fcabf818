------------------------------ MODULE GuiSession ------------------------------
(***************************************************************************)
(* The desktop session of crates/gui/src-tauri/src/service.rs, and the     *)
(* handler of lib.rs that closes its window.                               *)
(*                                                                         *)
(* Commands of the frontend, dropped files, the window, one relay task and *)
(* one waiter task per batch run concurrently; they share the session      *)
(* behind one lock, the toolchain behind another and `active_cancel`       *)
(* behind a third.  No lock is held across an await on another, so an      *)
(* action is what happens while one of them is held.  The batches come     *)
(* from the runtime (Scheduler.tla): here they are any run that keeps the  *)
(* promise of Batch.tla.                                                   *)
(***************************************************************************)
EXTENDS Listing

CONSTANTS Items,             \* files a user may add
          MaxBatches,        \* batches to look at (bound)
          Published,         \* statuses the batches' snapshots go through
          ToolsAtStart,      \* may a toolchain be found at start, or none?
          MayClose,          \* may the user close the window?
          ProbeMayPanic,     \* may a probe task panic?
          SchedulerMayFail   \* may the supervisor task of a batch fail?

Batches == 1 .. MaxBatches

VARIABLES
  phase,       \* AppPhaseDto
  tools,       \* `runtime` holds a toolchain
  choosing,    \* a choose_ffmpeg call is between its two locks
  queue,       \* items in the order they were added
  enabled,     \* items that take part in the next batch
  status,      \* item -> ItemStatus
  media,       \* items whose probe result is cached
  pass,        \* where add_roots or retry_items is, behind its first lock
  probing,     \* items whose probe has not been answered
  saw,         \* what finish_probe_phase read of `runtime`
  belated,     \* a retry_items call found no toolchain and waits for the lock
  started,     \* number of batches started
  launching,   \* start_batch is between the session and `active_cancel`
  active,      \* active_ids: item of each file of the batch
  holder,      \* batch whose token `active_cancel` holds, or 0
  cancelling,  \* cancel_batch calls between phase and token
  closer,      \* where the close handler is
  jobs,        \* batch -> the items its request was built from
  live,        \* batch -> how far it and its waiter are
  token,       \* batches that listen to a cancelled token
  shown,       \* batch -> latest snapshot: FileStatus of each file
  fresh,       \* batches with a snapshot their relay has not seen
  held,        \* batch -> snapshot its relay is about to apply, or <<>>
  wiping       \* waiters about to clear `active_cancel`

session  == <<queue, enabled, status, media>>
probes   == <<pass, probing, saw, belated>>
launch   == <<started, launching, jobs>>
runs     == <<live, shown, token, fresh>>
relays   == <<held, wiping>>
vars     == <<phase, tools, choosing, session, probes, launch, active, holder,
              cancelling, closer, runs, relays>>

-----------------------------------------------------------------------------
(* "Ready" stands for Ready and Compatible, and "Succeeded" for Succeeded, *)
(* Skipped and Planned: the session treats each group alike.               *)
Terminal     == {"Succeeded", "Failed", "Cancelled"}
FileStatuses == {"Queued", "Preparing", "Ready", "Running"} \cup Terminal
ItemStatuses == FileStatuses \cup {"Absent", "Probing"}
Phases       == {"Idle", "ToolchainSetup", "Probing", "Running", "Cancelling"}
Callers      == {"button", "window"}

ASSUME SessionAssumption ==
  /\ IsFiniteSet(Items)
  /\ MaxBatches \in Nat
  /\ Published \subseteq FileStatuses \ {"Queued"}
  /\ ToolsAtStart \subseteq BOOLEAN
  /\ MayClose \in BOOLEAN
  /\ ProbeMayPanic \in BOOLEAN
  /\ SchedulerMayFail \in BOOLEAN

InQueue == {queue[k] : k \in 1 .. Len(queue)}

(* Every way to list some of the items, each once.                         *)
Lines == {s \in UNION {[1 .. n -> Items] : n \in 0 .. Cardinality(Items)} :
            \A j, k \in DOMAIN s : s[j] = s[k] => j = k}

Snapshots == UNION {[1 .. n -> FileStatuses] : n \in 0 .. Cardinality(Items)}

TypeOK ==
  /\ phase \in Phases
  /\ tools \in BOOLEAN
  /\ choosing \in BOOLEAN
  /\ queue \in Lines
  /\ enabled \subseteq InQueue
  /\ status \in [Items -> ItemStatuses]
  /\ media \subseteq InQueue
  /\ pass \in {"none", "discover", "tools", "missing", "probe", "reprobe",
               "end", "settle"}
  /\ probing \subseteq InQueue
  /\ saw \in BOOLEAN
  /\ belated \in BOOLEAN
  /\ started \in 0 .. MaxBatches
  /\ launching \in BOOLEAN
  /\ active \in Lines
  /\ holder \in 0 .. started
  /\ cancelling \subseteq Callers
  /\ closer \in {"none", "asked", "cancel", "poll", "leave", "gone"}
  /\ jobs \in [Batches -> Lines]
  /\ live \in [Batches -> {"none", "running", "closed", "crashed", "over"}]
  /\ token \subseteq Batches
  /\ shown \in [Batches -> Snapshots]
  /\ fresh \subseteq Batches
  /\ held \in [Batches -> Snapshots]
  /\ wiping \subseteq Batches

(* GuiService::load: the setup screen shows when no toolchain was found.   *)
Init ==
  /\ tools \in ToolsAtStart
  /\ phase = IF tools THEN "Idle" ELSE "ToolchainSetup"
  /\ choosing = FALSE
  /\ queue = <<>> /\ enabled = {} /\ media = {}
  /\ status = [i \in Items |-> "Absent"]
  /\ pass = "none" /\ probing = {} /\ saw = FALSE /\ belated = FALSE
  /\ started = 0 /\ launching = FALSE /\ active = <<>> /\ holder = 0
  /\ cancelling = {} /\ closer = "none"
  /\ jobs = [b \in Batches |-> <<>>]
  /\ live = [b \in Batches |-> "none"]
  /\ token = {}
  /\ shown = [b \in Batches |-> <<>>]
  /\ fresh = {}
  /\ held = [b \in Batches |-> <<>>]
  /\ wiping = {}

-----------------------------------------------------------------------------
(* Commands that change the queue.  Each of them asks ensure_idle first.   *)

(* Mutant: waiting for cleanup does not count as activity.                 *)
EnsureIdle_WhileCancelling == phase \notin {"Probing", "Running"}

EnsureIdle == phase \in {"Idle", "ToolchainSetup"}

Mark(S, s) == [i \in Items |-> IF i \in S THEN s ELSE status[i]]

(* rebuild_all_plans: whatever an item with a cached probe result showed,  *)
(* it is planned again, which may fail.                                    *)
Replanned(old, bad) == [i \in Items |-> IF i \notin media THEN old[i]
                                        ELSE IF i \in bad THEN "Failed"
                                        ELSE "Ready"]

RemoveItems ==
  /\ EnsureIdle
  /\ \E S \in SUBSET InQueue \ {{}} :
       /\ queue' = Selected(queue, {k \in DOMAIN queue : queue[k] \notin S})
       /\ enabled' = enabled \ S
       /\ media' = media \ S
       /\ status' = Mark(S, "Absent")
  /\ UNCHANGED <<phase, tools, choosing, probes, launch, active, holder,
                 cancelling, closer, runs, relays>>

SetItemEnabled ==
  /\ EnsureIdle
  /\ \E i \in InQueue : enabled' \in {enabled \cup {i}, enabled \ {i}}
  /\ UNCHANGED <<phase, tools, choosing, queue, status, media, probes, launch,
                 active, holder, cancelling, closer, runs, relays>>

(* update_settings and set_output_directory.                               *)
UpdateSettings ==
  /\ EnsureIdle
  /\ \E bad \in SUBSET media : status' = Replanned(status, bad)
  /\ UNCHANGED <<phase, tools, choosing, queue, enabled, media, probes, launch,
                 active, holder, cancelling, closer, runs, relays>>

(* choose_ffmpeg and retry_system_toolchain: the toolchain is stored at    *)
(* any time, and the phase is looked at afterwards.  The frontend offers   *)
(* them on the setup screen.                                               *)
StoreTools ==
  /\ ~choosing
  /\ ~tools \/ phase = "ToolchainSetup"
  /\ tools' = TRUE
  /\ choosing' = TRUE
  /\ UNCHANGED <<phase, session, probes, launch, active, holder, cancelling,
                 closer, runs, relays>>

LeaveSetup ==
  /\ choosing
  /\ choosing' = FALSE
  /\ phase' = IF phase = "ToolchainSetup" THEN "Idle" ELSE phase
  /\ UNCHANGED <<tools, session, probes, launch, active, holder, cancelling,
                 closer, runs, relays>>

-----------------------------------------------------------------------------
(* add_roots: discovery, then one probe task per new item.                 *)

AddRoots ==
  /\ EnsureIdle
  /\ phase' = "Probing"
  /\ pass' = "discover"
  /\ UNCHANGED <<tools, choosing, session, probing, saw, belated, launch, active,
                 holder, cancelling, closer, runs, relays>>

DiscoveryFails ==
  /\ pass = "discover"
  /\ pass' = "end"
  /\ UNCHANGED <<phase, tools, choosing, session, probing, saw, belated, launch,
                 active, holder, cancelling, closer, runs, relays>>

(* Paths that are in the queue already are left as they are.               *)
Discovered ==
  /\ pass = "discover"
  /\ \E more \in Lines :
       LET new == {more[k] : k \in DOMAIN more}
       IN /\ new \cap InQueue = {}
          /\ queue' = queue \o more
          /\ enabled' = enabled \cup new
          /\ status' = Mark(new, "Probing")
          /\ probing' = new
  /\ pass' = "tools"
  /\ UNCHANGED <<phase, tools, choosing, media, saw, belated, launch, active,
                 holder, cancelling, closer, runs, relays>>

ReadTools ==
  /\ pass = "tools"
  /\ pass' = IF tools THEN "probe" ELSE "missing"
  /\ UNCHANGED <<phase, tools, choosing, session, probing, saw, belated, launch,
                 active, holder, cancelling, closer, runs, relays>>

ToolsMissing ==
  /\ pass = "missing"
  /\ status' = Mark({i \in InQueue : status[i] = "Probing"}, "Failed")
  /\ phase' = "ToolchainSetup"
  /\ pass' = "none"
  /\ probing' = {}
  /\ UNCHANGED <<tools, choosing, queue, enabled, media, saw, belated, launch,
                 active, holder, cancelling, closer, runs, relays>>

(* apply_probe_result; a task that panicked only leaves a notice.          *)
Probed(i) ==
  /\ pass \in {"probe", "reprobe"}
  /\ i \in probing
  /\ probing' = probing \ {i}
  /\ \/ /\ media' = media \cup {i}
        /\ \E s \in {"Ready", "Failed"} : status' = Mark({i}, s)
     \/ status' = Mark({i}, "Failed") /\ UNCHANGED media
     \/ /\ ProbeMayPanic
        /\ pass = "probe"
        /\ UNCHANGED <<status, media>>
  /\ UNCHANGED <<phase, tools, choosing, queue, enabled, pass, saw, belated,
                 launch, active, holder, cancelling, closer, runs, relays>>

(* finish_probe_phase: the toolchain is read before the session is locked. *)
EndPass ==
  /\ pass = "end" \/ (pass \in {"probe", "reprobe"} /\ probing = {})
  /\ saw' = tools
  /\ pass' = "settle"
  /\ UNCHANGED <<phase, tools, choosing, session, probing, belated, launch, active,
                 holder, cancelling, closer, runs, relays>>

Settle ==
  /\ pass = "settle"
  /\ phase' = IF saw THEN "Idle" ELSE "ToolchainSetup"
  /\ pass' = "none"
  /\ saw' = FALSE
  /\ UNCHANGED <<tools, choosing, session, probing, belated, launch, active,
                 holder, cancelling, closer, runs, relays>>

(* retry_items reads the toolchain before it locks the session.  A         *)
(* toolchain never goes away, so only a call that found none can be late.  *)
CallRetry ==
  /\ ~tools
  /\ ~belated
  /\ belated' = TRUE
  /\ UNCHANGED <<phase, tools, choosing, session, pass, probing, saw, launch,
                 active, holder, cancelling, closer, runs, relays>>

RetryRefused ==
  /\ belated
  /\ ~EnsureIdle
  /\ belated' = FALSE
  /\ UNCHANGED <<phase, tools, choosing, session, pass, probing, saw, launch,
                 active, holder, cancelling, closer, runs, relays>>

(* Mutant: items are probed again in a session that looks idle.            *)
Retry_KeepsPhase(found) ==
  /\ EnsureIdle
  /\ found => tools
  /\ ~found => belated
  /\ belated' = (belated /\ found)
  /\ \E ids \in SUBSET InQueue, bad \in SUBSET media :
       LET again   == {i \in ids : status[i] \in {"Failed", "Cancelled"}}
           reprobe == again \ media
       IN /\ enabled' = enabled \cup again
          /\ status' = Replanned(Mark(reprobe, "Probing"), bad)
          /\ IF reprobe = {} THEN UNCHANGED <<pass, probing>>
             ELSE /\ pass' = IF found THEN "reprobe" ELSE "end"
                  /\ probing' = IF found THEN reprobe ELSE {}
  /\ UNCHANGED <<phase, tools, choosing, queue, media, saw, launch, active, holder,
                 cancelling, closer, runs, relays>>

(* Items that have no media yet are probed again, one after the other.     *)
Retry(found) ==
  /\ EnsureIdle
  /\ found => tools
  /\ ~found => belated
  /\ belated' = (belated /\ found)
  /\ \E ids \in SUBSET InQueue, bad \in SUBSET media :
       LET again   == {i \in ids : status[i] \in {"Failed", "Cancelled"}}
           reprobe == again \ media
       IN /\ enabled' = enabled \cup again
          /\ status' = Replanned(Mark(reprobe, "Probing"), bad)
          /\ IF reprobe = {} THEN UNCHANGED <<phase, pass, probing>>
             ELSE /\ phase' = "Probing"
                  /\ pass' = IF found THEN "reprobe" ELSE "end"
                  /\ probing' = IF found THEN reprobe ELSE {}
  /\ UNCHANGED <<tools, choosing, queue, media, saw, launch, active, holder,
                 cancelling, closer, runs, relays>>

-----------------------------------------------------------------------------
(* start_batch.  Its first lock turns the enabled items into a request...  *)

CanStart == /\ phase = "Idle"
            /\ enabled # {}
            /\ \A i \in enabled : status[i] \in {"Ready", "Succeeded"}

(* Mutant: ordinals count every item, not only those that take part.       *)
Start_WholeQueue ==
  /\ tools
  /\ CanStart
  /\ started < MaxBatches
  /\ started' = started + 1
  /\ active' = queue
  /\ jobs' = [jobs EXCEPT ![started'] =
                 Selected(queue, {k \in DOMAIN queue : queue[k] \in enabled})]
  /\ status' = Mark(enabled, "Queued")
  /\ phase' = "Running"
  /\ launching' = TRUE
  /\ UNCHANGED <<tools, choosing, queue, enabled, media, probes, holder,
                 cancelling, closer, runs, relays>>

Start ==
  /\ tools
  /\ CanStart
  /\ started < MaxBatches
  /\ started' = started + 1
  /\ active' = Selected(queue, {k \in DOMAIN queue : queue[k] \in enabled})
  /\ jobs' = [jobs EXCEPT ![started'] = active']
  /\ status' = Mark(enabled, "Queued")
  /\ phase' = "Running"
  /\ launching' = TRUE
  /\ UNCHANGED <<tools, choosing, queue, enabled, media, probes, holder,
                 cancelling, closer, runs, relays>>

(* ... its second stores the token, and the batch begins.                  *)
Launch ==
  /\ launching
  /\ launching' = FALSE
  /\ holder' = started
  /\ live' = [live EXCEPT ![started] = "running"]
  /\ shown' = [shown EXCEPT ![started] = [k \in DOMAIN jobs[started] |-> "Queued"]]
  /\ fresh' = fresh \cup {started}
  /\ UNCHANGED <<phase, tools, choosing, session, probes, started, jobs, active,
                 cancelling, closer, token, relays>>

(* The runtime: files advance and end, snapshots are published.            *)
Rank(s) == CASE s = "Queued"    -> 0
             [] s = "Preparing" -> 1
             [] s = "Ready"     -> 2
             [] s = "Running"   -> 3
             [] OTHER           -> 4

Advance(b) ==
  /\ live[b] = "running"
  /\ \E k \in DOMAIN shown[b], s \in Published :
       /\ Rank(shown[b][k]) < Rank(s)
       /\ shown' = [shown EXCEPT ![b][k] = s]
  /\ fresh' = fresh \cup {b}
  /\ UNCHANGED <<phase, tools, choosing, session, probes, launch, active, holder,
                 cancelling, closer, live, token, relays>>

Over(b) == \A k \in DOMAIN shown[b] : shown[b][k] \in Terminal

BatchEnds(b) ==
  /\ live[b] = "running"
  /\ \/ live' = [live EXCEPT ![b] = "closed"] /\ Over(b)
     \/ live' = [live EXCEPT ![b] = "crashed"] /\ SchedulerMayFail
  /\ token' = token \ {b}
  /\ UNCHANGED <<phase, tools, choosing, session, probes, launch, active, holder,
                 cancelling, closer, shown, fresh, relays>>

-----------------------------------------------------------------------------
(* The relay task: a snapshot is taken from the watch channel, then the    *)
(* session is locked and the snapshot applied, whatever the phase is now.  *)
(* The channel goes with its last reader.                                  *)

Dropped(b) == [shown EXCEPT ![b] = <<>>]

TakeSnapshot(b) ==
  /\ b \in fresh
  /\ held[b] = <<>>
  /\ held' = [held EXCEPT ![b] = shown[b]]
  /\ fresh' = fresh \ {b}
  /\ shown' = IF live[b] = "over" THEN Dropped(b) ELSE shown
  /\ UNCHANGED <<phase, tools, choosing, session, probes, launch, active, holder,
                 cancelling, closer, live, token, wiping>>

(* Statuses by ordinal for the items that active_ids names now.            *)
Applied(statuses) ==
  [i \in Items |->
     IF i \in InQueue /\ \E k \in DOMAIN active \cap DOMAIN statuses : active[k] = i
     THEN statuses[CHOOSE k \in DOMAIN active \cap DOMAIN statuses : active[k] = i]
     ELSE status[i]]

ApplySnapshot(b) ==
  /\ held[b] # <<>>
  /\ status' = Applied(held[b])
  /\ held' = [held EXCEPT ![b] = <<>>]
  /\ UNCHANGED <<phase, tools, choosing, queue, enabled, media, probes, launch,
                 active, holder, cancelling, closer, runs, wiping>>

(* Mutants: a batch leaves its ordinals behind; a failed one its phase.    *)
FinishBatch_KeepsOrdinals(b) ==
  /\ live[b] = "closed"
  /\ status' = Applied(shown[b])
  /\ phase' = "Idle"
  /\ live' = [live EXCEPT ![b] = "over"]
  /\ wiping' = wiping \cup {b}
  /\ shown' = IF b \in fresh THEN shown ELSE Dropped(b)
  /\ UNCHANGED <<tools, choosing, queue, enabled, media, probes, launch, active,
                 holder, cancelling, closer, token, fresh, held>>

FailBatch_KeepsPhase(b) ==
  /\ live[b] = "crashed"
  /\ status' = Mark({i \in InQueue : status[i] \in {"Queued", "Preparing", "Running"}},
                    "Failed")
  /\ live' = [live EXCEPT ![b] = "over"]
  /\ wiping' = wiping \cup {b}
  /\ shown' = IF b \in fresh THEN shown ELSE Dropped(b)
  /\ UNCHANGED <<phase, tools, choosing, queue, enabled, media, probes, launch, active,
                 holder, cancelling, closer, token, fresh, held>>

(* The waiter task: finish_batch, or fail_batch, which leaves active_ids   *)
(* as they are; then `active_cancel` is cleared.                           *)
FinishBatch(b) ==
  /\ live[b] = "closed"
  /\ status' = Applied(shown[b])
  /\ active' = <<>>
  /\ phase' = "Idle"
  /\ live' = [live EXCEPT ![b] = "over"]
  /\ wiping' = wiping \cup {b}
  /\ shown' = IF b \in fresh THEN shown ELSE Dropped(b)
  /\ UNCHANGED <<tools, choosing, queue, enabled, media, probes, launch, holder,
                 cancelling, closer, token, fresh, held>>

FailBatch(b) ==
  /\ live[b] = "crashed"
  /\ status' = Mark({i \in InQueue : status[i] \in {"Queued", "Preparing", "Running"}},
                    "Failed")
  /\ phase' = "Idle"
  /\ live' = [live EXCEPT ![b] = "over"]
  /\ wiping' = wiping \cup {b}
  /\ shown' = IF b \in fresh THEN shown ELSE Dropped(b)
  /\ UNCHANGED <<tools, choosing, queue, enabled, media, probes, launch, active,
                 holder, cancelling, closer, token, fresh, held>>

ClearToken(b) ==
  /\ b \in wiping
  /\ holder' = 0
  /\ wiping' = wiping \ {b}
  /\ UNCHANGED <<phase, tools, choosing, session, probes, launch, active,
                 cancelling, closer, runs, held>>

-----------------------------------------------------------------------------
(* cancel_batch: the phase under one lock, the token under another.        *)

CancelBatch ==
  /\ phase = "Running"
  /\ "button" \notin cancelling
  /\ phase' = "Cancelling"
  /\ cancelling' = cancelling \cup {"button"}
  /\ UNCHANGED <<tools, choosing, session, probes, launch, active, holder,
                 closer, runs, relays>>

CancelToken(c) ==
  /\ c \in cancelling
  /\ cancelling' = cancelling \ {c}
  /\ token' = token \cup {b \in {holder} : b \in Batches /\ live[b] = "running"}
  /\ UNCHANGED <<phase, tools, choosing, session, probes, launch, active, holder,
                 closer, live, shown, fresh, relays>>

(* Mutant: a batch that is being cancelled does not count as active.       *)
IsActive_NotCancelling == phase = "Running"

(* The close handler: cancel_batch if the session is active, then wait     *)
(* until it is not, then destroy the window, which ends the program in a   *)
(* while.  is_active gives the session back before it returns, so between  *)
(* its answer and what follows from it the session goes on.                *)
IsActive == phase \in {"Running", "Cancelling"}

RequestClose ==
  /\ MayClose
  /\ closer = "none"
  /\ closer' = "asked"
  /\ UNCHANGED <<phase, tools, choosing, session, probes, launch, active, holder,
                 cancelling, runs, relays>>

CloseLook ==
  /\ closer = "asked"
  /\ closer' = IF IsActive THEN "cancel" ELSE "leave"
  /\ UNCHANGED <<phase, tools, choosing, session, probes, launch, active, holder,
                 cancelling, runs, relays>>

CloseCancel ==
  /\ closer = "cancel"
  /\ closer' = "poll"
  /\ IF phase = "Running"
     THEN phase' = "Cancelling" /\ cancelling' = cancelling \cup {"window"}
     ELSE UNCHANGED <<phase, cancelling>>
  /\ UNCHANGED <<tools, choosing, session, probes, launch, active, holder, runs,
                 relays>>

ClosePoll ==
  /\ closer = "poll"
  /\ "window" \notin cancelling
  /\ ~IsActive
  /\ closer' = "leave"
  /\ UNCHANGED <<phase, tools, choosing, session, probes, launch, active, holder,
                 cancelling, runs, relays>>

Destroy ==
  /\ closer = "leave"
  /\ closer' = "gone"
  /\ UNCHANGED <<phase, tools, choosing, session, probes, launch, active, holder,
                 cancelling, runs, relays>>

-----------------------------------------------------------------------------
User    == \/ RemoveItems \/ SetItemEnabled \/ UpdateSettings \/ StoreTools
           \/ AddRoots \/ CallRetry \/ Retry(TRUE) \/ Start \/ CancelBatch \/ RequestClose
Pass    == \/ DiscoveryFails \/ Discovered \/ ReadTools \/ ToolsMissing
           \/ (\E i \in Items : Probed(i)) \/ EndPass \/ Settle
Command == LeaveSetup \/ RetryRefused \/ Retry(FALSE) \/ Launch
Relay   == \E b \in Batches : TakeSnapshot(b) \/ ApplySnapshot(b)
Waiter  == \E b \in Batches : FinishBatch(b) \/ FailBatch(b) \/ ClearToken(b)
Cancels == \E c \in Callers : CancelToken(c)
Closer  == CloseLook \/ CloseCancel \/ ClosePoll \/ Destroy
Batch   == \E b \in Batches : Advance(b) \/ BatchEnds(b)

Service == Pass \/ Command \/ Relay \/ Waiter \/ Cancels \/ Closer

Next == User \/ Service \/ Batch

Spec == Init /\ [][Next]_vars

(* The runtime polls every task and hands every lock over; discovery,      *)
(* probes and batches end.                                                 *)
FairSpec ==
  /\ Spec
  /\ WF_vars(Pass)
  /\ WF_vars(Launch)
  /\ WF_vars(Closer)
  /\ \A c \in Callers : WF_vars(CancelToken(c))
  /\ \A b \in Batches :
       /\ WF_vars((Advance(b) \/ BatchEnds(b)))
       /\ WF_vars((FinishBatch(b) \/ FailBatch(b)))

-----------------------------------------------------------------------------
(* Properties.                                                             *)

(* The batch whose start_batch has taken the session and whose waiter has  *)
(* not given it back.                                                      *)
InFlight == {b \in 1 .. started : live[b] # "over"}

(* During a batch, settings and queue edits are locked, probes included:   *)
(* the ordinals of the batch keep meaning the items they meant.            *)
LockedDuringBatch ==
  [][InFlight # {} => UNCHANGED <<queue, enabled, media>>]_vars

(* The report of a batch reaches the items the batch was made from, though *)
(* the relay of an earlier batch may still be applying its snapshots.      *)
ReportReachesItsItems ==
  [][\A b \in Batches :
       live[b] = "closed" /\ live'[b] = "over" =>
         \A k \in DOMAIN jobs[b] : status'[jobs[b][k]] = shown[b][k]]_vars

(* While nothing is under way every item can be started or retried: none   *)
(* looks as if it were still being probed or converted.                    *)
NoItemStuck ==
  EnsureIdle => \A i \in InQueue : status[i] \in {"Ready"} \cup Terminal

(* The handler that closes the window does not decide to destroy it while  *)
(* a batch is in flight, cleanup included.  A batch that is started after  *)
(* its last look is not waited for.                                        *)
CloseWaitsForCleanup ==
  [][closer # "leave" /\ closer' = "leave" => InFlight = {}]_vars

(* A window that was asked to close closes.                                *)
CloseEnds == (closer # "none") ~> (closer = "gone")

(* A cancellation reaches the batch it was asked for.                      *)
CancelReachesBatch ==
  phase = "Cancelling" /\ cancelling = {} /\ ~launching =>
    \A b \in Batches : live[b] = "running" => b \in token

-----------------------------------------------------------------------------
(* The session has one owner at a time: a pass of probes, or a batch.      *)
Owner ==
  /\ phase = "Probing" <=> pass # "none"
  /\ probing # {} => pass \in {"tools", "missing", "probe", "reprobe"}
  /\ IsActive <=> InFlight # {}
  /\ \A b \in Batches : /\ b < started => live[b] = "over"
                        /\ b > started => live[b] = "none"
  /\ started # 0 => (live[started] = "none" <=> launching)
  /\ started = 0 => ~launching

(* The items know whether they are in the queue, and the batch in flight   *)
(* speaks of its own items.                                                *)
Ordinals ==
  /\ \A i \in Items : status[i] = "Absent" <=> i \notin InQueue
  /\ \A b \in InFlight :
       /\ active = jobs[b]
       /\ \A k \in DOMAIN active : active[k] \in InQueue
       /\ live[b] # "none" => DOMAIN shown[b] = DOMAIN active
  /\ InFlight = {} /\ ~SchedulerMayFail => active = <<>>
  /\ \A b \in Batches : /\ live[b] = "closed" => Over(b)
                        /\ live[b] = "crashed" => SchedulerMayFail
  /\ \A b \in Batches : live[b] = "none" => shown[b] = <<>> /\ held[b] = <<>>
                                             /\ b \notin fresh

(* An item that looks busy is: it waits for its probe, or it is in the     *)
(* batch.  What may leave one behind are a toolchain that is missing, a    *)
(* probe task that panics, and a supervisor that fails.                    *)
Accounted ==
  /\ FALSE \notin ToolsAtStart =>
       /\ tools /\ ~belated
       /\ phase # "ToolchainSetup" /\ pass # "missing"
       /\ pass = "settle" => saw
  /\ FALSE \notin ToolsAtStart /\ ~ProbeMayPanic =>
       \A i \in Items : status[i] = "Probing" => i \in probing
  /\ ~SchedulerMayFail =>
       \A i \in Items : status[i] \in {"Queued", "Preparing", "Running"} =>
                         \E k \in DOMAIN active : active[k] = i

IInv == TypeOK /\ Owner /\ Ordinals /\ Accounted
=============================================================================
