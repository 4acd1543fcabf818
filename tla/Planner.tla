------------------------------ MODULE Planner ------------------------------
(* From what a file holds and what the user asked for to the list of      *)
(* operations on its streams, and to what the output has to look like.     *)
(* crates/core/src/plan.rs; the choice of a track by its language is       *)
(* resolve_action in crates/runtime/src/scheduler.rs.                      *)
EXTENDS Media, Listing

(* A planning policy is [compat, target, mode, action, selection, output]; *)
(* a target is [codec, layout, bitrate]; a path is [dir, stem, ext].       *)

-----------------------------------------------------------------------------
Audio(media) == {i \in DOMAIN media.streams : IsAudio(media.streams[i])}

(* The audio that the profile does not accept: it gets a derivative.       *)
Incompatible(media, policy) ==
  {i \in Audio(media) : ~ Compatible(policy.compat, media.streams[i])}

-----------------------------------------------------------------------------
(* Encoded audio.                                                          *)

Smaller(a, b) == IF a < b THEN a ELSE b

EffectiveChannels(target, stream) ==
  CASE target.layout = "stereo" -> 2
    [] target.layout = "5.1"    -> 6
    [] OTHER                    -> Smaller(stream.channels, 6)

LayoutLabels == <<"mono", "stereo", "3.0", "4.0", "5.0", "5.1">>
LayoutLabel(target, stream) ==
  IF target.layout \in {"stereo", "5.1"}
  THEN target.layout
  ELSE LayoutLabels[Smaller(stream.channels, 6)]

(* The derivative keeps the tags of its source, with a title that says     *)
(* what it was made into.                                                  *)
Suffix(target, stream) == <<target.codec, LayoutLabel(target, stream)>>

DerivedTags(target, stream) ==
  [key \in DOMAIN stream.tags \cup {"title"} |->
     IF key # "title"
     THEN stream.tags[key]
     ELSE IF "title" \in DOMAIN stream.tags
     THEN stream.tags["title"] \o Suffix(target, stream)
     ELSE Suffix(target, stream)]

(* Operations: what becomes of one stream of the source.                   *)
Copy(stream, flags) ==
  [encode |-> FALSE, source |-> stream.index, flags |-> flags]

Encode(target, stream, flags) ==
  [encode   |-> TRUE,
   source   |-> stream.index,
   target   |-> target,
   channels |-> EffectiveChannels(target, stream),
   tags     |-> DerivedTags(target, stream),
   flags    |-> flags]

WithDefault(flags, on) ==
  IF on THEN flags \cup {"default"} ELSE flags \ {"default"}

-----------------------------------------------------------------------------
(* The three output modes, and remuxing.                                   *)

(* Mutant: the copy of a track that has a derivative stays the default one.*)
CopiedBeside_KeepsDefault(media, policy, i) ==
  Copy(media.streams[i], media.streams[i].flags)

(* A copy beside its derivative gives up its default flag; the derivative  *)
(* takes it over, and the first one also when no audio of the source has   *)
(* it.                                                                     *)
CopiedBeside(media, policy, i) ==
  LET s == media.streams[i] IN
    Copy(s, IF i \in Incompatible(media, policy)
            THEN WithDefault(s.flags, FALSE)
            ELSE s.flags)

DerivedBeside(media, policy, i, first) ==
  LET s          == media.streams[i]
      anyDefault == \E j \in Audio(media) : IsDefault(media.streams[j])
  IN Encode(policy.target, s,
            IF IsDefault(s) \/ (~ anyDefault /\ first)
            THEN WithDefault(s.flags, TRUE)
            ELSE s.flags)

(* Every stream is copied, the derivatives come after them.                *)
AddOperations(media, policy) ==
  LET derived == Ordered(Incompatible(media, policy))
  IN [i \in DOMAIN media.streams |-> CopiedBeside(media, policy, i)]
       \o [n \in DOMAIN derived |-> DerivedBeside(media, policy, derived[n], n = 1)]

(* A stream where it stands: copied, or replaced by its derivative.        *)
InPlace(media, policy, i) ==
  LET s == media.streams[i] IN
    IF i \in Incompatible(media, policy)
    THEN Encode(policy.target, s, s.flags)
    ELSE Copy(s, s.flags)

ReplaceOperations(media, policy) ==
  [i \in DOMAIN media.streams |-> InPlace(media, policy, i)]

(* As above, without the audio that needs no derivative.                   *)
OnlyNewOperations(media, policy) ==
  LET kept == Ordered(Others(media.streams) \cup Incompatible(media, policy))
  IN [n \in DOMAIN kept |-> InPlace(media, policy, kept[n])]

(* Everything is copied and one compatible track is made the default one.  *)
RemuxOperations(media, selected) ==
  [i \in DOMAIN media.streams |->
     LET s == media.streams[i] IN
       Copy(s, IF IsAudio(s)
               THEN WithDefault(s.flags, s.index = selected)
               ELSE s.flags)]

CompatibleIndices(media, policy) ==
  LET compatible == Ordered(Audio(media) \ Incompatible(media, policy))
  IN [n \in DOMAIN compatible |-> media.streams[compatible[n]].index]

-----------------------------------------------------------------------------
(* What the output must look like, derived from the operations.            *)

SourceOf(media, operation) ==
  media.streams[CHOOSE i \in DOMAIN media.streams :
                  media.streams[i].index = operation.source]

CodecNames == [c \in {"AC-3", "E-AC-3", "AAC"} |->
                 CASE c = "AC-3"   -> "ac3"
                   [] c = "E-AC-3" -> "eac3"
                   [] c = "AAC"    -> "aac"]

ExpectedStream(media, operation) ==
  LET s == SourceOf(media, operation) IN
    [kind     |-> IF operation.encode THEN "audio" ELSE s.kind,
     encoded  |-> operation.encode,
     codec    |-> IF operation.encode THEN operation.target.codec ELSE s.codec,
     start    |-> s.start,
     duration |-> s.duration,
     tags     |-> IF operation.encode THEN operation.tags ELSE s.tags,
     flags    |-> operation.flags]

JobPlan(media, policy, operations) ==
  [output     |-> policy.output,
   operations |-> operations,
   expected   |-> [n \in DOMAIN operations |-> ExpectedStream(media, operations[n])],
   chapters   |-> media.chapters,
   tags       |-> media.tags]

-----------------------------------------------------------------------------
Execute(plan)  == [result |-> "Execute", plan |-> plan]
Skip           == [result |-> "Skip"]
PlanError(why) == [result |-> "Error", why |-> why]

BuildConvert(media, policy) ==
  IF Incompatible(media, policy) = {}
  THEN IF policy.mode = "only-new" THEN PlanError("NothingToDo") ELSE Skip
  ELSE Execute(JobPlan(media, policy,
         CASE policy.mode = "add"     -> AddOperations(media, policy)
           [] policy.mode = "replace" -> ReplaceOperations(media, policy)
           [] OTHER                   -> OnlyNewOperations(media, policy)))

(* selection is Null for the first compatible track, or a stream index.    *)
BuildRemux(media, policy) ==
  LET compatible == CompatibleIndices(media, policy)
      indices    == {compatible[n] : n \in DOMAIN compatible}
  IN IF policy.selection = Null
     THEN IF indices = {}
          THEN PlanError("NoCompatibleRemuxCandidate")
          ELSE Execute(JobPlan(media, policy, RemuxOperations(media, compatible[1])))
     ELSE IF policy.selection \in indices
          THEN Execute(JobPlan(media, policy, RemuxOperations(media, policy.selection)))
          ELSE PlanError("InvalidRemuxSelection")

Build(media, path, policy) ==
  IF path.ext # "mkv" \/ ~ IsMatroska(media) THEN PlanError("UnsupportedContainer")
  ELSE IF Audio(media) = {}                 THEN PlanError("NoAudioStreams")
  ELSE IF path = policy.output              THEN PlanError("InputEqualsOutput")
  ELSE IF \E i \in Audio(media) : ~ Classifiable(policy.compat, media.streams[i])
                                            THEN PlanError("Policy")
  ELSE IF policy.action = "Convert"         THEN BuildConvert(media, policy)
  ELSE BuildRemux(media, policy)

-----------------------------------------------------------------------------
(* A track that the user chose by its language: the one compatible track   *)
(* of that language, else an error.                                        *)
OfLanguage(media, policy, language) ==
  {i \in Audio(media) : /\ Tag(media.streams[i].tags, "language") = language
                        /\ Compatible(policy.compat, media.streams[i])}
=============================================================================
