--------------------------- MODULE ConvertCommand ---------------------------
(* `sonicmux convert`, again and again over the same shelf of files: the   *)
(* settings, the search, a plan for every file, what FFmpeg makes of it,   *)
(* validation and publication, and the exit code.  crates/cli/src/main.rs, *)
(* with prepare_one of crates/runtime/src/scheduler.rs and execute_safely  *)
(* of execution.rs.  How the files of one command run side by side is the  *)
(* subject of Scheduler, the steps of a publication that of                *)
(* OutputTransaction; here each file is prepared and executed in one step, *)
(* in any order.                                                           *)
EXTENDS Config, Discovery, Transcode

CONSTANTS
  Shelves,       \* what the disk may hold at first: paths to FFprobe reports
  Dirs,          \* the directories that exist
  Links,         \* the paths that are symbolic links
  Commands,      \* the command lines
  Environments,  \* the SONICMUX_* variables, as a layer
  ConfigFiles,   \* what the configuration file may be
  Toolchains,    \* whether FFmpeg and FFprobe are found
  MaxRuns        \* bound on the commands of a behaviour

ASSUME ShelvesAssumption ==
  \A files \in Shelves : \A path \in DOMAIN files :
    /\ IsReport(files[path])
    /\ HasFields(files[path])
    /\ HasTypes(files[path])
ASSUME CommandsAssumption ==
  \A c \in Commands : \A root \in c.request.roots : root.kind \in {"path", "dir", "glob"}
ASSUME ConfigFilesAssumption ==
  \A file \in ConfigFiles : \A name \in DOMAIN file.profiles :
    \A family \in DOMAIN file.profiles[name].codecs :
      file.profiles[name].codecs[family].max \in Nat \cup {Null}

VARIABLES
  shelf,      \* the MKV files there are: paths to FFprobe reports
  phase,      \* "idle", "preparing" or "executing"
  command,    \* the command line, or Null before the first
  settings,   \* the settings it runs with, or Null
  fate,       \* of every file that was found
  cancelled,  \* Ctrl+C
  code,       \* exit code of the last command, Null before the first
  runs,       \* commands so far
  repeated,   \* history: the last command, with code 0, was the same
  made        \* history: what was published, and from what

vars == <<shelf, phase, command, settings, fate, cancelled, code, runs, repeated, made>>

-----------------------------------------------------------------------------
(* The command line.  A command is [request, options, required, output,    *)
(* outputDir, remux, selector, dryRun, failFast].                          *)

Disk == [files |-> DOMAIN shelf, links |-> Links, dirs |-> Dirs]

Directory(c, s) == IF c.outputDir # Null THEN c.outputDir ELSE s.directory

(* --remux-only leaves nothing to encode and no mode to choose.            *)
RemuxConflicts(c) ==
  c.remux /\ DOMAIN c.options \cap {"codec", "bitrate", "channels", "mode"} # {}

(* The exit codes of a command that never gets to its first file, 0 if it  *)
(* does.                                                                   *)
Refusal(c, environment, file, toolchain) ==
  IF ~ ConfigLoads(c.options, environment, file, c.required) THEN 2
  ELSE IF ~ toolchain                                        THEN 3
  ELSE IF RemuxConflicts(c)                                  THEN 2
  ELSE IF ~ Discoverable(Disk, c.request)                    THEN 4
  ELSE LET directory == Directory(c, Settings(c.options, environment, file)) IN
       IF \/ c.output # Null /\ Cardinality(Discovered(Disk, c.request)) # 1
          \/ directory # Null /\ directory \notin Dirs
       THEN 2
       ELSE 0

(* An output is named after its input, beside it or in the directory that  *)
(* was asked for.                                                          *)
DefaultOutput(path, directory) ==
  [dir  |-> IF directory = Null THEN path.dir ELSE directory,
   stem |-> Append(path.stem, "sonicmux"),
   ext  |-> "mkv"]

ResolveOutput(path) ==
  IF command.output # Null
  THEN command.output
  ELSE DefaultOutput(path, Directory(command, settings))

-----------------------------------------------------------------------------
(* Fates.                                                                  *)
Waiting       == [is |-> "waiting"]
Ready(plan)   == [is |-> "ready", plan |-> plan]
Skipped       == [is |-> "skipped"]
Planned       == [is |-> "planned"]
Succeeded     == [is |-> "succeeded"]
Cancelled     == [is |-> "cancelled"]
Failed(stage) == [is |-> "failed", stage |-> stage]

Are(fates) == {path \in DOMAIN fate : fate[path].is \in fates}

(* A failure stops what has not been done under --fail-fast.               *)
Decide(path, outcome) ==
  fate' = [other \in DOMAIN fate |->
             IF other = path THEN outcome
             ELSE IF /\ command.failFast
                     /\ outcome.is = "failed"
                     /\ fate[other].is \in {"waiting", "ready"}
             THEN Cancelled
             ELSE fate[other]]

-----------------------------------------------------------------------------
(* Preparing a file.                                                       *)

Mode == IF command.remux THEN "remux" ELSE settings.mode

PlanningPolicy(path, selection) ==
  [compat    |-> settings.compat,
   target    |-> settings.target,
   mode      |-> settings.mode,
   action    |-> IF command.remux THEN "Remux" ELSE "Convert",
   selection |-> selection,
   output    |-> ResolveOutput(path)]

(* The selector of --default-audio is Null for the first compatible track, *)
(* an index or a language; a language must be that of one compatible track.*)
Candidates(media, path) ==
  OfLanguage(media, PlanningPolicy(path, Null), command.selector.language)

SelectionFails(media, path) ==
  /\ command.remux
  /\ command.selector # Null
  /\ "language" \in DOMAIN command.selector
  /\ Cardinality(Candidates(media, path)) # 1

Selection(media, path) ==
  IF ~ command.remux \/ command.selector = Null THEN Null
  ELSE IF "index" \in DOMAIN command.selector THEN command.selector.index
  ELSE media.streams[CHOOSE i \in Candidates(media, path) : TRUE].index

(* A file that is already there is probed like an input, and validated     *)
(* like what FFmpeg has just written.                                      *)
InspectExistingOutput(plan) ==
  IF plan.output \notin DOMAIN shelf THEN "Absent"
  ELSE IF plan.output \in Links THEN "Conflict"
  ELSE IF ~ Readable(shelf[plan.output]) THEN "Unreadable"
  ELSE IF Validates(plan, ConvertDocument(shelf[plan.output])) THEN "Valid"
  ELSE "Conflict"

OutcomeOfPlan(plan) ==
  LET existing == InspectExistingOutput(plan) IN
    IF existing = "Unreadable"     THEN Failed("Conflict")
    ELSE IF command.dryRun         THEN Planned
    ELSE IF existing = "Absent"    THEN Ready(plan)
    ELSE IF existing = "Valid"     THEN Skipped
    ELSE Failed("Conflict")

OutcomeOfMedia(media, path) ==
  IF SelectionFails(media, path)
  THEN Failed("Selection")
  ELSE LET built == Build(media, path, PlanningPolicy(path, Selection(media, path))) IN
         CASE built.result = "Execute" -> OutcomeOfPlan(built.plan)
           [] built.result = "Skip"    -> Skipped
           [] built.result = "Error"   -> Failed("Plan")

PrepareOne(path) ==
  IF Readable(shelf[path])
  THEN OutcomeOfMedia(ConvertDocument(shelf[path]), path)
  ELSE Failed("Probe")

-----------------------------------------------------------------------------
Init ==
  /\ shelf \in Shelves
  /\ phase = "idle"
  /\ command = Null
  /\ settings = Null
  /\ fate = <<>>
  /\ cancelled = FALSE
  /\ code = Null
  /\ runs = 0
  /\ repeated = FALSE
  /\ made = {}

(* The command ends before it has looked into a file.                      *)
Refuse(c, environment, file, toolchain) ==
  /\ phase = "idle"
  /\ runs < MaxRuns
  /\ Refusal(c, environment, file, toolchain) # 0
  /\ code' = Refusal(c, environment, file, toolchain)
  /\ runs' = runs + 1
  /\ command' = c
  /\ settings' = Null
  /\ fate' = <<>>
  /\ repeated' = FALSE
  /\ cancelled' = FALSE
  /\ UNCHANGED <<shelf, phase, made>>

Begin(c, environment, file, toolchain) ==
  /\ phase = "idle"
  /\ runs < MaxRuns
  /\ Refusal(c, environment, file, toolchain) = 0
  /\ runs' = runs + 1
  /\ phase' = "preparing"
  /\ command' = c
  /\ settings' = Settings(c.options, environment, file)
  /\ fate' = [path \in Discovered(Disk, c.request) |-> Waiting]
  /\ cancelled' = FALSE
  /\ repeated' = (code = 0 /\ command = c /\ settings = settings')
  /\ UNCHANGED <<shelf, code, made>>

Prepare(path) ==
  /\ phase = "preparing"
  /\ fate[path] = Waiting
  /\ Decide(path, PrepareOne(path))
  /\ UNCHANGED <<shelf, phase, command, settings, cancelled, code, runs, repeated, made>>

(* All files that lead to the same output are refused together.            *)
Colliding ==
  {path \in Are({"ready"}) : \E other \in Are({"ready"}) \ {path} :
     fate[other].plan.output = fate[path].plan.output}

EnterExecution ==
  /\ phase = "preparing"
  /\ Are({"waiting"}) = {}
  /\ phase' = "executing"
  /\ fate' = [path \in DOMAIN fate |->
                IF path \in Colliding THEN Failed("Conflict")
                ELSE IF /\ command.failFast
                        /\ Colliding # {}
                        /\ fate[path].is = "ready"
                THEN Cancelled
                ELSE fate[path]]
  /\ UNCHANGED <<shelf, command, settings, cancelled, code, runs, repeated, made>>

(* FFmpeg ends without success.                                            *)
ToolFails(path) ==
  /\ phase = "executing"
  /\ fate[path].is = "ready"
  /\ Decide(path, Failed("Execute"))
  /\ UNCHANGED <<shelf, phase, command, settings, cancelled, code, runs, repeated, made>>

(* FFmpeg ends with success, whatever it has written; what it has written  *)
(* is probed and validated, and published if nothing is in the way.        *)
Publishable(plan, staged) ==
  /\ Readable(staged)
  /\ Validates(plan, ConvertDocument(staged))
  /\ plan.output \notin DOMAIN shelf

Transcode(path, damage) ==
  /\ phase = "executing"
  /\ fate[path].is = "ready"
  /\ LET plan   == fate[path].plan
         staged == Damage(Mux(shelf[path], Arguments(plan)), damage)
     IN IF Publishable(plan, staged)
        THEN /\ Decide(path, Succeeded)
             /\ shelf' = [p \in DOMAIN shelf \cup {plan.output} |->
                            IF p = plan.output THEN staged ELSE shelf[p]]
             /\ made' = made \cup {[source |-> shelf[path], output |-> staged,
                                    mode |-> Mode, settings |-> settings]}
        ELSE /\ Decide(path, Failed("Execute"))
             /\ UNCHANGED <<shelf, made>>
  /\ UNCHANGED <<phase, command, settings, cancelled, code, runs, repeated>>

(* Ctrl+C while there is something left to do.                             *)
Interrupt ==
  /\ phase # "idle"
  /\ Are({"waiting", "ready"}) # {}
  /\ cancelled' = TRUE
  /\ fate' = [path \in DOMAIN fate |->
                IF fate[path].is \in {"waiting", "ready"} THEN Cancelled ELSE fate[path]]
  /\ UNCHANGED <<shelf, phase, command, settings, code, runs, repeated, made>>

(* finish_convert_report, batch_code and FailureStage::exit_code           *)
StageCodes == [Probe |-> 4, Selection |-> 5, Plan |-> 5, Conflict |-> 6, Execute |-> 6]

BatchCode ==
  LET failures == Are({"failed"}) IN
    IF failures = {} THEN 0
    ELSE IF Cardinality(DOMAIN fate) > 1 THEN 1
    ELSE StageCodes[fate[CHOOSE path \in failures : TRUE].stage]

(* Mutant: an interrupted command answers like any other.                  *)
Finish_ForgetsCancel ==
  /\ phase = "executing"
  /\ Are({"ready"}) = {}
  /\ phase' = "idle"
  /\ code' = BatchCode
  /\ UNCHANGED <<shelf, command, settings, fate, cancelled, runs, repeated, made>>

Finish ==
  /\ phase = "executing"
  /\ Are({"ready"}) = {}
  /\ phase' = "idle"
  /\ code' = IF cancelled THEN 130 ELSE BatchCode
  /\ UNCHANGED <<shelf, command, settings, fate, cancelled, runs, repeated, made>>

Step(path) ==
  \/ Prepare(path)
  \/ ToolFails(path)
  \/ \E damage \in Damages : Transcode(path, damage)

Next ==
  \/ \E c \in Commands, environment \in Environments, file \in ConfigFiles,
        toolchain \in Toolchains :
       Refuse(c, environment, file, toolchain) \/ Begin(c, environment, file, toolchain)
  \/ \E path \in DOMAIN fate : Step(path)
  \/ EnterExecution
  \/ Interrupt
  \/ Finish

Spec == Init /\ [][Next]_vars

-----------------------------------------------------------------------------
(* What a user may rely on, said of the reports before and after and not   *)
(* in terms of plans.                                                      *)

(* A track is the same but for its default flag and what every muxer       *)
(* writes anew.                                                            *)
Same(old, new) ==
  /\ old.kind = new.kind
  /\ old.codec = new.codec
  /\ old.flags \ {"default"} = new.flags \ {"default"}
  /\ MetadataMatches(old.tags, new.tags)

(* Audio may have become other audio in the same language.                 *)
SameOrDerived(old, new) ==
  \/ Same(old, new)
  \/ /\ IsAudio(old)
     /\ IsAudio(new)
     /\ "language" \in DOMAIN old.tags =>
          Lookup(new.tags, "language") = old.tags["language"]

(* The streams of one file are those of the other, in the same order.      *)
Ascending(at) == \A i, j \in DOMAIN at : i < j => at[i] < at[j]
SameOthers(old, new) ==
  \E at \in [Others(old) -> Others(new)] :
    /\ Ascending(at)
    /\ \A n \in Others(new) : \E i \in Others(old) : at[i] = n
    /\ \A i \in Others(old) : Same(old[i], new[at[i]])

KeptAll(old, new) ==
  /\ DOMAIN old \subseteq DOMAIN new
  /\ \A i \in DOMAIN old : Same(old[i], new[i])

KeptPlaces(old, new) ==
  /\ DOMAIN old = DOMAIN new
  /\ \A i \in DOMAIN old : SameOrDerived(old[i], new[i])

Kept(m) ==
  LET old == ConvertDocument(m.source)
      new == ConvertDocument(m.output)
  IN /\ DOMAIN old.chapters = DOMAIN new.chapters
     /\ m.mode \in {"add", "remux"} => KeptAll(old.streams, new.streams)
     /\ m.mode = "replace" => KeptPlaces(old.streams, new.streams)
     /\ m.mode = "only-new" => SameOthers(old.streams, new.streams)

(* Whatever FFmpeg gets wrong, a published output has every stream that    *)
(* its mode promises to preserve, where it promises it.                    *)
NothingLost == \A m \in made : Kept(m)

(* The profile accepts what the settings encode to.                        *)
TargetPlays(s) ==
  LET family == CodecNames[s.target.codec] IN
    /\ family \in DOMAIN s.compat.rules
    /\ s.compat.rules[family].max # Null =>
         s.compat.rules[family].max >= (IF s.target.layout = "stereo" THEN 2 ELSE 6)
    /\ s.compat.rules[family].layouts = Null

Plays(m, i) == Compatible(m.settings.compat, ConvertStream(m.output.streams[i]))

PlaysWell(m) ==
  LET audio    == {i \in DOMAIN m.output.streams : m.output.streams[i].type = "audio"}
      defaults == {i \in audio : IsDefault(m.output.streams[i])}
  IN TargetPlays(m.settings) \/ m.mode = "remux" =>
       IF m.mode \in {"add", "remux"}
       THEN defaults # {} /\ \A i \in defaults : Plays(m, i)
       ELSE audio # {} /\ \A i \in audio : Plays(m, i)

(* If the profile accepts the target, the audio that a player starts with  *)
(* is audio that the profile accepts; when the originals do not stay, all  *)
(* of the audio is.                                                        *)
OutputPlays == \A m \in made : PlaysWell(m)

(* "Returns PlanError when the input or requested action cannot produce a  *)
(* safe and valid output" (plan.rs): if FFmpeg does what it is told, what  *)
(* it writes is valid.                                                     *)
PlansCanSucceed ==
  \A path \in Are({"ready"}) :
    LET output == Mux(shelf[path], Arguments(fate[path].plan)) IN
      /\ Readable(output)
      /\ Validates(fate[path].plan, ConvertDocument(output))

(* What a file may be asked for: it plays as it is, or it has its output.  *)
Answered(path) ==
  LET media == ConvertDocument(shelf[path]) IN
    \/ /\ ~ command.remux
       /\ \A i \in Audio(media) : Compatible(settings.compat, media.streams[i])
    \/ /\ ResolveOutput(path) \in DOMAIN shelf
       /\ Kept([source |-> shelf[path], output |-> shelf[ResolveOutput(path)],
                mode |-> Mode])

(* "0: All requested work succeeded or was validly skipped" (docs/cli.md), *)
(* for every file that was found.                                          *)
ExitCodeTells ==
  phase = "idle" /\ code = 0 /\ ~ command.dryRun =>
    \A path \in DOMAIN fate : Answered(path)

(* Replacing to a target that plays settles: the same command once more    *)
(* writes nothing, although it may find its own outputs.                   *)
SettledRunsDoNothing ==
  [][/\ repeated
     /\ ~ command.remux
     /\ settings.mode = "replace"
     /\ TargetPlays(settings)
     => shelf' = shelf]_vars
=============================================================================
