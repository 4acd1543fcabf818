# A TLA+ verification project for SonicMux

SonicMux converts the audio tracks of Matroska files with an external FFmpeg.
The repository has one library stack (`core`, `backend`, `ffmpeg`, `runtime`)
and three front ends over it (`cli`, `tui`, `gui`). Two kinds of things are hard
in it. A batch of files runs on a bounded number of workers that may fail, panic
or be cancelled at any point, every worker drives a child process through pipes
that may fill, every output is published by a staged transaction next to other
programs, and the front ends show, edit and cancel all this from several tasks
at once. And a plan is computed from what FFprobe says of a file, becomes
options for FFmpeg, and is compared with what FFprobe says of the result: four
pure functions that have to agree about tags, flags and numbers of streams.
These modules model both. TLC checks them on small instances; TLAPS proves the
safety properties of the lower layers, of the two sessions and of the convert
command for every value of their constants.

## 1. Inventory

| part | code | state it keeps | operations | modelled in |
|---|---|---|---|---|
| Batch scheduler | `runtime/src/scheduler.rs` | pending, prepared and decided files, statuses, flags (cancelled, fail-fast, no more admission), a semaphore and a `JoinSet` per phase, the phase token | admit, join, observe cancellation, receive progress, reject duplicate destinations, pass between the phases, report | `Scheduler`, promise in `Batch` |
| Progress aggregator | `runtime/src/scheduler.rs:755-900` | position, duration and ETA of each file, number of advancing samples | receive a record, join, aggregate | `BatchProgress` |
| Output transaction | `runtime/src/execution.rs`, `application.rs` | staging directory and file, whether it was committed | inspect, preflight, stage, write, examine, probe, sync, rename, finish, clean up | `OutputTransaction`, promise in `Publication` |
| Process supervision | `ffmpeg/src/execute.rs`, `probe.rs:244-346`, `progress.rs` | child, two pipes, two reader tasks, the future that supervises them | spawn, poll, wait, terminate, reap, drain, join | `MediaProcess` |
| Desktop session | `gui/src-tauri/src/service.rs`, window handler in `lib.rs` | phase, toolchain, queue, item statuses, `active_ids`, `active_cancel`, relay and waiter of each batch | add, remove, enable, settings, choose FFmpeg, retry, start, cancel, close | `GuiSession` |
| Terminal session | `tui/src/model.rs`, `app.rs`, `input.rs` | phase, overlay, queue, `active_queue_ids`, one bounded channel, spawned tasks, the input thread | keys, discovery, probes, snapshots, report, quit, terminal errors | `TuiSession` |
| Media model, policy, FFprobe parser | `core/src/model.rs`, `policy.rs`, `ffmpeg/src/probe.rs` | none | read a report, accept a track | `Media` |
| Planner | `core/src/plan.rs`, `resolve_action` | none | `build` | `Planner` |
| Validator | `runtime/src/execution.rs:432-785` | none | `validate_output` | `Validation` |
| Command builder | `ffmpeg/src/command.rs` | none | arguments of a plan | `Transcode`, with FFmpeg itself (external) |
| Configuration | `runtime/src/config.rs` | none | merge, validate | `Config` |
| Discovery | `runtime/src/discovery.rs` | none | `discover` | `Discovery` |
| Convert command | `cli/src/main.rs`, `prepare_one` | the files on disk, the fate of each file found, the exit code | refuse, begin, prepare, execute, interrupt, finish | `ConvertCommand` |
| Capabilities, toolchain lookup, observability, rendering, Svelte front end, other commands, scripts | | none | conversions, output | no (section 8) |

How they interact: a front end builds a `BatchRequest` and hands it to
`Runtime::start_batch` with a cancellation token. It receives a watch channel of
snapshots, a broadcast channel of events and a waiter. The supervisor task
spawns one worker per admitted file; a worker runs the output transaction, which
calls the backend (to probe, to execute, to probe the result), which spawns a
child process. Cancellation travels down by child tokens; records of the child
travel up through a bounded channel; results travel up through joins.

## 2. What has to be right

- **Scheduler**: every file gets one result; snapshot and report agree; at most
  `max_concurrency` workers hold a permit; two files that run or were published
  never share a destination; reasons are true; nothing starts after the stop; a
  stop reaches every worker and the batch ends.
- **Transaction**: what a transaction puts at a destination is complete, validated
  and synced; nothing is ever replaced; one of several competitors wins; a staging
  file does not stay behind silently; the result agrees with what was published; a
  file is skipped only if it satisfies the plan.
- **Process**: success means a successful exit and a complete stream; no future
  returns before its child is reaped; a full pipe blocks nobody for ever;
  cancellation ends the run.
- **Progress**: the aggregate is in range, full when all files succeeded, and
  late records never take a file's share back.
- **Sessions**: a batch in flight owns the queue; reports and probes reach their
  own items; an idle session has no item that looks busy; a cancellation reaches
  its batch; the close handler, and `q`, wait for the cleanup of the batch they find,
  and do end.
- **Convert command**: nothing that the output mode promises to keep is lost; what
  is published plays; a plan that is accepted can succeed; exit code 0 is true; a
  run that has nothing left to do does nothing.

The `hazards` of `PROJECT.json` list where in the code each of these could go
wrong, and which property would notice; section 6 has what no property covers.

## 3. Modules

Definitions keep the names of the source where it has one. A definition called
`Def_Variant` is a plausible bug in `Def`; nothing refers to it, and it is only
there so that a property can be shown to notice the bug when it is put in the
place of `Def`.

**`Batch`** is what a caller may rely on: a request, outcomes that are decided
once, and a closing verdict. `Honest` says which outcomes a request, a
cancellation and the other files' outcomes allow.

**`Scheduler`** is the supervisor and its workers. `pc` is the place of the
supervisor (`start`, `admit`, `wait`, `resolve`, `enter`, `finish`, `done`),
`phase` the phase it is in (`prepare_phase` and `execute_phase` are the same
loop, so they share the actions `Admit`, `Wait`, `ObserveCancel`, `JoinReady`,
`JoinTerminal`). `task[f]` is what the worker of `f` does or how it has ended
while nobody has joined it; `End` releases the permit at that moment, as the
code does by moving the permit into the worker. `root` is the caller's token and
`phaseCancel` the phase's own; a worker sees either (`TokenCancelled`). A panic
is an ending. `backlog` counts progress records that are under way (bound
`ProgressCap`). `interrupted` is a ghost: workers that stopped because the caller
cancelled. `Promise` maps all this to `Batch`.

**`OutputTransaction`** follows one or more calls of `inspect_existing_output`
and `execute_safely` step by step; the steps that the code runs in a blocking task are
one action each, plus `Lost` for a task whose join failed. Only
`StagingGuard::create` is two, since the directory (`Create`) may be made and the file
in it (`CreateFile`) fail. `Plans` says which destinations transactions may have.
`shelf` is the directory entry at each destination, `suits` the transactions whose
plan's postconditions it satisfies, whoever wrote it: that is all that
`inspect_existing_output` asks of a regular file, so a foreign one may be skipped as
valid, and `Publication` allows it. `file` and `dir` the staging area,
`published` a ghost. `Die` is a crash of the program and `Again` a later run over
the same destination. `Meddle` is any other program: it may create a directory, a link or a
file of any worth where there was nothing and, under `OthersMayRemove`, remove it. `Promise` maps it to
**`Publication`**, in which a destination changes hands in one step.

**`MediaProcess`** is `execute_typed` (`Tool = "ffmpeg"`) or `probe_with_cancel`
(`Tool = "ffprobe"`), which have the same skeleton. The child writes items to a
pipe of `PipeCap` items and blocks when it is full; the readers are tasks; the
future polls the reader, then `try_wait`, then sleeps or sees the token, and
kills, reaps and drains when it has to. A record is good, bad or the end record.

**`BatchProgress`** is `MutableState` in the execution phase with records under
way in `queue` (at most `QueueCap`). Durations, positions and speeds come from
small sets. `Steady` are the files whose tool does not go back in time; `sent`
is a ghost, the latest time a file has sent.

**`GuiSession`** is the desktop service. No lock is held across an await on
another, so an action is what happens under one lock, and a command that takes
two locks is two actions: `Start`/`Launch`, `CancelBatch`/`CancelToken`,
`StoreTools`/`LeaveSetup`, `EndPass`/`Settle`, `FinishBatch`/`ClearToken`,
`TakeSnapshot`/`ApplySnapshot`. The close handler holds no lock between what it sees
and what it does: `RequestClose`, `CloseLook` (`is_active`), `CloseCancel`, `ClosePoll`
and `Destroy` are steps of their own, and any command may come between two of them. A
second request to close, which starts a second such task, is not modelled: it repeats
the same steps. A batch is anything that keeps the promise of
`Batch`: its files advance in rank and it closes when all are terminal. Item
statuses that the service treats alike are merged (`Ready` and `Compatible`;
`Succeeded`, `Skipped` and `Planned`). Figures, logs and notices are left out.

**`TuiSession`** is the terminal application. One loop reads one channel of
`Capacity` messages, so an action is the handling of one message with the effects
the loop runs for it, a key, or one step of a task: a discovery, a probe behind
its permit (`probing`), the relay of a batch (`fresh`, `held`) or its waiter. `app`
is where `run_loop` is: `Looping`; `Leaving`, `Stopping`, `Joining`, `Ended` after
`q`; `Failing`, `Failed` after an error of the terminal. `holder` is the batch
whose token `active_batch_cancel` holds. A key is chosen when it is handled, since
nothing could have read it before; keys and log messages that fill the channel
count only once the loop no longer reads (`Unread`). Which screen and row are
selected, cursor editing, logs, the event relay and progress figures are left out:
they decide nothing but what a key means, and the user chooses that. Batches keep
the promise of `Batch`, as in `GuiSession`.

**`Media`** reads a report of FFprobe (streams with type, codec, channels, times,
tags and flags; chapters) as `probe.rs` does, including what it drops and what makes
a file unreadable, and says which audio a profile accepts. **`Planner`** is
`build`: `Add`, `Replace`, `OnlyNew` and remux-only, the moves of the default flag,
the titles of derivatives, the errors, and the expectations on the output.
**`Listing`** is what `Vec`'s filters do: what is kept stays in its order. The planner
(tracks) and both sessions (rows of a batch) use it.
**`Validation`** is `validate_output`: kinds, codecs, flags, tags under keys that are
equal but for case, chapters, and times compared as fractions. **`Transcode`** has
the arguments a plan becomes, with their three numberings of streams, and two
operators for FFmpeg, which is external: `Mux` is what the program relies on
(streams in the order of `-map`, options by ordinal, tags of the source unless
replaced, `DURATION` written anew) and `Damage` what an FFmpeg that exits with
success may still get wrong, which validation must notice. **`Config`** merges
options, environment, file and defaults and refuses what the code refuses.
**`Discovery`** finds the files of a request; patterns are words that occur in a name,
filters look at the path below the root, and a pattern that matches a directory walks
it. Two spellings of one file (`a.mkv`, `./a.mkv`) are two paths in the code and one in
the model.

**`ConvertCommand`** composes these six into `sonicmux convert`, run after run over
the same files: `Refuse` and `Begin` (settings, toolchain, search), `Prepare` (probe,
plan, existing output), `EnterExecution` (colliding destinations), `Transcode` and
`ToolFails`, `Interrupt`, `Finish` (exit code). `shelf` maps the paths of the MKV
files to their reports, `fate` the files of the command to what has become of them.
Each file is prepared and executed in one step, in any order: how files run side by
side is the subject of `Scheduler`, how one is published that of
`OutputTransaction`. `made` and `repeated` are history. Texts are sequences of words
or members of small sets; bit rates of sources and warnings are left out, start and duration of the
whole file only matter to whether a report is readable, as is how profiles are named in messages. Beyond the model are sample
rates over `u32`, keys that `Metadata` refuses, `_STATISTICS_` keys and volatile keys
in another case.

## 4. Runs

| run | instance | what it shows |
|---|---|---|
| `scheduler` | 3 files, 2 permits, 2 destinations, both policies, dry run or not | seven safety properties (one of them the refinement of `Batch`) and termination |
| `output` | 2 transactions, for one path or one each, everything may fail | whole outputs, truthful results, no silent leftovers, no replacement, refinement of `Publication`, cancellation ends a transaction |
| `process` | ffmpeg, pipes of 2, up to 3 records, kill and wait may fail | completeness, reaping, no deadlock on pipes, stop returns |
| `progress` | 2 files, durations unknown/0/3, positions unknown/1/4 | range, fullness, shares do not shrink |
| `gui_batches` | 2 items, 2 batches | relays and waiters of one batch meet the next |
| `gui_closing` | 1 item, 1 batch, setup screen, panics, failing scheduler, window | the session's inductive invariant; the close handler waits, and closes |
| `tui_batches` | 2 files, 2 batches, channel of 1 | probes, rows, batches and tokens stay matched; results stay |
| `tui_ending` | 1 file, 1 batch, channel of 1, every failure | no stuck row, quitting abandons nothing, cancellations settle |
| `library` | 11 libraries, 14 commands, 3 environments, 3 configuration files, 2 commands in a row | the five properties of the convert command |
| `tui_quit` | 3 files, channel of 2 | **violated**: the loop joins tasks that wait for room |
| `gui_cancel` | 1 item, 1 batch | **violated**: a cancellation between start_batch's two locks is lost |
| `library_title` | 1 file with a track title under `TITLE` | **violated**: a plan whose output is always refused |

*Bounds.* Three files and two permits are the least with a file waiting while
two race; two destinations over three files force a collision unless a file is
skipped. Two transactions are the least that compete, and each action touches
one; a third adds no new pair. Their plans name one destination or one each: the two
paths are alike, so the other assignments add nothing but names. A pipe of two items makes the tool block
both with nothing and with something read; three records make a stream with a
middle, a bad one and an end. `process` is FFmpeg; the proofs cover
FFprobe as well. Two records
in the progress channel let one
overtake a join while another is refused. Two batches are the least for which an
ordinal can change its meaning; their files all succeed, because two outcomes
would take `gui_batches` from 1.8 to 12 million states (that larger instance was run
once and found no error). A channel with room for one message is the hardest for
the tasks that send; every message then waits for every other. `tui_quit` needs as
many answers as the channel holds and one more: three and two stand for 257 and 256.
Two convert commands are the least for which one meets the outputs of another. The
libraries hold what planning distinguishes: incompatible default and other audio,
an accepted file, no default at all, audio before video, a titled track, a
subtitle, a stream of unknown type, an unknown codec, a file without audio, doubled
indices, a duration that is no number, a link, and files with equal names in two directories, so that outputs
collide in a common one. Times are ticks of a tenth of a second and sample rates are
low, so that the products of validation fit TLC's integers.
The proofs remove these bounds for the safety
properties they cover.

*Symmetry* is used where only invariants and action properties are checked and
no constant is distinguished (items of `gui_batches`, files of `tui_batches`).

*Deadlock* is checked unless the program ends: `CHECK_DEADLOCK FALSE` stands in
`tui_ending` and `tui_quit`, whose program can be quit, and in the two runs of
`ConvertCommand`, which are over after `MaxRuns` commands. `Scheduler`,
`MediaProcess` and `BatchProgress` stutter in their final state by an action `Done`;
the others always have an action of the environment left.

*Fairness.* The async runtime polls every ready task and every lock is handed
over, so the steps of the supervisor, of readers and of the session's own tasks
are weakly fair. A reader is only counted on when there is something to read or
the pipe has ended; that a call fails is never counted on. Nothing says that
FFmpeg ends: a worker is only assumed to end
once its token is cancelled (`Stops`), which `MediaProcess` justifies with
`StopReturns`. `BatchEnds` and `RunEnds` state their assumption about the tool as
an antecedent instead. In `GuiSession` and `TuiSession` discovery, probes and batches
end; users are never fair. Tokio's channels and semaphores serve their waiters
first come, first served, so that a task of `TuiSession` that waits for room or for a
permit gets it once there is some again and again: those steps are strongly fair.
That a probe which waits for a permit is served is nevertheless checked by no run: it
takes two probes with liveness, more than a run of a few minutes can hold.
`ConvertCommand` has no liveness and no fairness.

## 5. Proofs

Each proof module extends its component and TLAPS, proves `Init => IInv`,
`IInv /\ [Next]_vars => IInv'` with one step per action, and draws the properties
from `IInv`.

- **`SchedulerProofs`**. `IInv` is `Ledger` (a file is waiting, with a worker,
  prepared or decided, in exactly one of these), `Control` (what each place of the
  supervisor implies), `Workers` (which endings a phase allows, and the permits),
  `Reasons` (how flags, reasons and failures hang together), `Exclusive` (files
  that still may write have different destinations) and `SnapshotAgrees`. None of
  the properties is inductive alone: that a reason is true, for example, needs
  that fail-fast is set only beside a failure, and that nothing is pending once
  admission has stopped. Proved for any number of files, any limit and any
  destinations: one result per file, snapshot and report, bounded work, distinct
  destinations, true reasons, nothing started after the stop, nothing executed
  after an early cancellation or in a dry run, the refinement of `Batch`, and, if
  cleanup does not fail, that cancellation is reported.
- **`OutputTransactionProofs`**. `Resources` says what a transaction holds at each
  place. From it follow complete outputs, truthful results, no leftovers, no
  replacement, the refinement of `Publication`, and, if nobody else removes
  files, that the winner stays. Leftovers are what no result mentions; the property
  and its theorem except the empty directory of section 6.
- **`MediaProcessProofs`**. `Conduct` (the place of the future and the state of
  child and readers) and `Flow` (what was written, read and refused) give
  completeness, quiet cancellation and reaping (unless waiting itself failed).
- **`BatchProgressProofs`**. `InOrder` says that the records of a steady file wait
  in the order of their times, not before what was received nor after what was
  sent; `Fits` bounds positions. From them, no share ever shrinks. The sum over all
  files is a fold, which is a recursive function on their subsets. That this function
  exists is proved by levels of cardinality: if it did not up to some size there would be
  a least such size (`LeastNatural`), and one size below it can be extended. The same
  argument shows that sums are monotone. So the aggregate says exactly 100% when every
  file has succeeded, and never falls unless some tool goes back in time.
- **`ListingProofs`**. What `Ordered` and `Selected` keep is what the filter accepts,
  once each and in the old order. The lemma `LeastNatural` is there because induction
  principles with an operator parameter cannot be used: a set of naturals with a
  member has a least one, so a claim that fails has a first place where it fails.
- **`GuiSessionProofs`**. `IInv` is `TypeOK`, `Owner` (which of phase, active ids,
  waiter, relays and tokens exist together), `Ordinals` (a relay or waiter writes to
  the rows of its own batch) and `Accounted` (an item that looks busy has a probe or a
  batch that will report on it). `gui_closing` checks it as an invariant, with panics and
  a failing scheduler. From it: the queue is locked while a batch is in flight, what a
  relay applies reaches the item that the batch took, and the window is given up only
  on a look that finds nothing in flight. That no item is stuck is proved under three assumptions, each the
  reverse of a divergence of section 6: a toolchain at the start, no probe that panics, no
  supervisor that fails.
- **`TuiSessionProofs`**. `IInv` has six parts. `Rows`: row numbers are unique and
  ascending, and the active list is what a filter makes of the queue. `Probes`: every
  answer under way is for a row that still waits for it; that a row with known media
  never shows Probing is what makes this inductive. `Reports`: a message about a batch
  is about the one that is active or one that is over, at most one says that the
  batch is finished, and it comes after all that the relay has sent. `LastBatch` ties
  the token, the relay and the waiter to the last batch, and `RowsAtWork` the states of the
  rows to the snapshots still to come. No property is inductive without `Reports`: that
  `q` abandons nothing needs that a Finished in the channel is the only one. TLC
  checked `IInv` on the instances of the three `tui` runs before it was proved, and
  with panics and failing supervisors on that of `tui_batches` as well (11 million
  states). Proved: probes answer their rows, batches keep their rows, a
  cancellation reaches its batch, quitting abandons nothing, no row is stuck (but for
  the two exceptions that the property names), results stay.
- **`ConvertCommandProofs`**. Its first lemmas say what `build` expects of an output in
  each mode, for every file and policy: every stream in its place (`Add`, remux), the
  same or derived in its place (`Replace`), the streams that are not audio in their
  order (`OnlyNew`). The next show that what the validator accepts has what was
  expected, and carry this along the behaviour: `IInv` says that the shelf holds
  reports, that a plan under way keeps what its mode promises of the file it was made
  for, that a skip or a success is justified (`Answered`), and that no file is undecided
  when the command is over. From it follow `NothingLost` and `ExitCodeTells`, and that
  the shelf only grows. This argument uses nothing of FFmpeg: `Mux` and `Damage` could be
  any functions to reports, which is the point of validating.
  `OutputPlays` takes a second invariant, `PInv`: what was planned (`WellPlanned`)
  follows the report, names sources that are there, and hears well, that is, the
  operations which will be default (or all audio, when the originals go) are copies
  of audio that the profile accepts or encodings to the target; and the settings name
  a codec that there is. It is not inductive with the defaults of the output alone,
  since what FFmpeg writes must be traced to the operation that asked for it. Codec,
  flags and the number of streams come from `validate_output`, which does not compare
  the channels of copies and bounds those of encodings by the target. So this proof,
  and only this one, uses of FFmpeg that a copied stream keeps channels and layout
  and that encoder options go by the ordinal among the audio. TLC checked `PInv` on
  the instance of the run `library`.
  `PlansSucceed` proves `PlansCanSucceed` where every report at first is `Tidy`: no two
  keys differ only in case, and all audio has a sample rate and no title under `TITLE`. It
  follows the operations through `Arguments`, `Mux` and the probe back to what was
  expected (`MuxObeys`: the encoder options that FFmpeg finds by an audio ordinal are
  those of the operation that asked for them; `TagsSurvive`; `TimesMatch`). A third
  invariant says that outputs are tidy too, since a later command may find them. TLC
  checked it on the instance of `library`, whose reports are all tidy; the one of
  `library_title` is not, and there the property fails.

Assumptions on the constants are named in the modules that declare them and are
evaluated by TLC in every run. Those of `ConvertCommand` say that reports have the
fields and types that deserialization gives them, that channel limits are numbers, and
that `Null` and `Bad` are neither numbers nor texts nor options.

*Only model-checked*: liveness (it needs fairness and ENABLED, which are beyond
the prover), and `SettledRunsDoNothing`, which compares two runs and depends on
all that FFmpeg writes. `PlansCanSucceed` is false in general (`library_title` refutes
it for files with a title) and proved under the hypothesis above.

*Only proved*: that the aggregate never falls, that one of several transactions
wins if nobody removes files, that cancelled runs are quiet, that an early
cancellation executes nothing and that cancellation is reported. TLC has agreed on
each on these instances; no run of the project repeats that, since a theorem says
more.

## 6. What the code does against its documents

The violated runs are listed in section 4 and, with the lines, under `findings`.
The modelling also met these, which no run checks:

*Scheduler and layers below*

- A worker that stopped for the user and could not clean up counts as Failed
  (`scheduler.rs:1746` does not look into `ExecutionError::Cleanup`); if its join
  comes last the batch closes as finished, where m5-design.md:257 promises a
  cancelled one. `CancellationReported` fails with `CleanupMayFail = TRUE`.
- A permit is released by the worker (`scheduler.rs:1073`), the status of its file
  changes at the join. More than `max_concurrency` files can look active, where
  m5-design.md:322 promises "at most `max_concurrency` active file bars".
- The aggregate estimate survives a regression (`scheduler.rs:859`), which
  m5-design.md:314-316 says makes it unknown.
- `will_execute` (`scheduler.rs:1107`) stays set for files that duplicate rejection
  removes, so that such a file without a duration hides the aggregate.
- `probe_with_cancel` returns a `try_wait` error (`probe.rs:313`) without killing
  or reaping, where its comment says that errors return "after the FFprobe process
  group has been reaped". `ReapedWhenReturned` excepts it.
- When the staging directory was made but the file in it cannot be
  (`execution.rs:226-235`), the directory is dropped and a failure to remove it is
  lost, where m3-design.md:290-291 says that cleanup errors are attached to the
  primary error. `NothingLeftBehind` excepts an empty directory after `CreateStaging`.
- A crash leaves `.sonicmux-*/*.tmp.mkv` beside the outputs, and a recursive search
  finds it as an input.

*Front ends*

- A probe task that panics leaves its item Probing in an idle desktop session
  (`service.rs:314`), where the notice says "Retry the item": `NoItemStuck` fails with
  `ProbeMayPanic = TRUE`. `retry_items` without a toolchain, and `fail_batch` before a
  late snapshot, are further ways to such an item.
- With two batches the waiter of the first can clear the token of the second
  (`service.rs:687-688`): another way to violate the `CancelReachesBatch` of `GuiSession`.
- A `start_batch` that is handled after the close handler's look at the session and
  before `window.destroy` (`lib.rs:171-178`) loses its window without the cancellation
  and cleanup that gui.md:18-20 and m7-design.md:91-93 promise. The model has the step;
  `CloseWaitsForCleanup` speaks of the look, not of the destruction. Nor does the handler ask
  for the confirmation that m7-design.md:92 speaks of: it cancels at once.
- In the terminal interface a panicking probe and a failed supervisor leave rows
  behind that can neither be retried nor started (`app.rs:150`, `model.rs:685`);
  `NoRowStuck` excepts both.
- An open overlay swallows Ctrl+C (`model.rs:397`), which m6-design.md:50 lists
  without that exception; and it says that quitting under a batch asks for
  cancellation, where `q` opens a question whose answer cancels but does not quit.
- An error of the terminal leaves the loop by `?` (`app.rs:131`): the batch is
  neither cancelled nor awaited.

*Convert command*

- In `Add` mode a second run over the same directory converts the outputs of the
  first again (`a.sonicmux.sonicmux.mkv`), because the incompatible original is still
  in them; `SettledRunsDoNothing` is about `Replace`.
- Nothing compares the target with the profile: AAC 5.1 under a profile of two
  channels is made, and is found incompatible again. `TargetPlays` names the
  assumption.
- An output that exists is skipped by its structure, whatever its age or settings.
- `--output` accepts a directory with one file in it, where m4-design.md:399 says that
  it "requires one literal input file".
- `config validate` (`main.rs:163`) loads the file but resolves no settings, so that
  a profile it names may not exist.
- A dry run does not report that two files would collide.

## 7. Plan

Built, in this order: `Batch` and `Scheduler`; `Publication` and
`OutputTransaction`; `MediaProcess`; `BatchProgress`; `GuiSession`; the proofs of
the first four; `TuiSession`; `Media`, `Planner`, `Validation`, `Transcode`,
`Config`, `Discovery` and `ConvertCommand`, with the proofs of the planner and the
command; `Listing`, with the proofs of `GuiSession` and `TuiSession`. Next:

1. A composition of `Scheduler` with `OutputTransaction`, so that an `ExecuteEnd`
   is the result of a transaction and not a choice.
2. That `ConvertCommand`'s fates, step by step, implement `Batch`.

## 8. Not modelled

Capabilities and toolchain lookup read the file system once and parse listings; the
modules above take their answer as found or missing. Tracing, argument parsing,
JSON and human output, rendering and the Svelte front end convert data or draw it
and keep no state that another part reads. The commands `probe`, `scan`, `presets`
and `doctor` print what the modelled functions return, and `config init` writes one
file. Scripts and packaging are not part of the running program.
