------------------------------- MODULE Media -------------------------------
(* What FFprobe reports of a file, what the program makes of the report,  *)
(* and which of its audio a compatibility profile accepts.                 *)
(* crates/ffmpeg/src/probe.rs, crates/core/src/model.rs and policy.rs.     *)
EXTENDS Integers, Sequences, FiniteSets

CONSTANTS Null,   \* a field that FFprobe left out
          Bad     \* a field that is there and cannot be read as what it is

(* Neither is a number or a word, and what cannot be read is no text.      *)
ASSUME NullAssumption ==
  /\ {Null, Bad} \cap (Int \cup STRING) = {}
  /\ Bad \notin Seq(STRING)

(* A report is [names, start, duration, tags, streams, chapters].  Its     *)
(* streams have an index, type, codec name, channels, channel layout,      *)
(* sample rate, first timestamp, time base, duration, tags and the set of  *)
(* flags that are on; its chapters have an id, a base, a start, an end and *)
(* tags.  Tags map keys to values; a value is a sequence of words, or Bad  *)
(* when it is not a scalar.                                                *)

IsList(s)   == Len(s) \in Nat /\ DOMAIN s = 1 .. Len(s)
IsReport(r) == /\ DOMAIN r = {"names", "start", "duration", "tags", "streams", "chapters"}
               /\ IsList(r.streams)

StreamFields == {"index", "type", "name", "channels", "layout", "rate", "start", "base",
                 "duration", "tags", "flags"}
HasFields(r) == \A i \in DOMAIN r.streams : DOMAIN r.streams[i] = StreamFields

(* What a field holds if it is there and can be read.                      *)
Number       == Int \cup {Null, Bad}
Fraction     == (Int \X Int) \cup {Null, Bad}
IsText(tags) == \A key \in DOMAIN tags : tags[key] \in Seq(STRING) \cup {Bad}

HasTypes(r) ==
  /\ {r.start, r.duration} \subseteq Number
  /\ IsText(r.tags)
  /\ \A i \in DOMAIN r.streams :
       LET s == r.streams[i] IN
         /\ {s.start, s.duration, s.rate} \subseteq Number
         /\ s.base \in Fraction
         /\ IsText(s.tags)
  /\ \A i \in DOMAIN r.chapters :
       LET c == r.chapters[i] IN
         /\ DOMAIN c = {"id", "base", "start", "end", "tags"}
         /\ {c.id, c.start, c.end} \subseteq Number
         /\ c.base \in Fraction
         /\ IsText(c.tags)

-----------------------------------------------------------------------------
(* Reading a report.                                                       *)

PositiveOrNull(v) == IF v \in {Null, Bad, 0} THEN Null ELSE v
IntegerOrNull(v)  == IF v = Bad THEN Null ELSE v

(* A time base is a fraction of positive terms.                            *)
TimeBase(v) == /\ v \notin {Null, Bad}
               /\ v[1] > 0
               /\ v[2] > 0

MaxChannels == 65535
ChannelCount(v) == /\ v \notin {Null, Bad}
                   /\ v \in 1 .. MaxChannels

(* Values that are neither text, numbers nor booleans are dropped.         *)
Metadata(tags) ==
  [key \in {k \in DOMAIN tags : tags[k] # Bad} |-> tags[key]]

(* What a stream must have, or the whole file cannot be probed.  A number  *)
(* that is only wrong, a missing codec name and an unknown type are no     *)
(* reason to refuse it.                                                    *)
StreamReadable(raw) ==
  /\ raw.index # Null
  /\ raw.type # Null
  /\ raw.base # Null => TimeBase(raw.base)
  /\ raw.type = "audio" => ChannelCount(raw.channels)

Start(raw) ==
  IF IntegerOrNull(raw.start) = Null \/ raw.base = Null
  THEN Null
  ELSE <<raw.start, raw.base>>

ConvertStream(raw) ==
  [index    |-> raw.index,
   kind     |-> raw.type,
   codec    |-> IF raw.name = Null THEN "unknown" ELSE raw.name,
   channels |-> raw.channels,
   layout   |-> raw.layout,
   rate     |-> PositiveOrNull(raw.rate),
   start    |-> Start(raw),
   duration |-> IntegerOrNull(raw.duration),
   tags     |-> Metadata(raw.tags),
   flags    |-> raw.flags]

ChapterReadable(raw) ==
  /\ raw.id \notin {Null, Bad}
  /\ TimeBase(raw.base)
  /\ raw.start \notin {Null, Bad}
  /\ raw.end \notin {Null, Bad}
  /\ raw.start <= raw.end

(* The times of the whole file are in no comparison, but one that is no    *)
(* number, other than "N/A", is an error, and so is a negative duration.   *)
Readable(report) ==
  /\ report.names # {}
  /\ report.start # Bad
  /\ report.duration \in Nat \cup {Null}
  /\ report.streams # <<>>
  /\ \A i \in DOMAIN report.streams : StreamReadable(report.streams[i])
  /\ \A i, j \in DOMAIN report.streams :
       report.streams[i].index = report.streams[j].index => i = j
  /\ \A i \in DOMAIN report.chapters : ChapterReadable(report.chapters[i])

ConvertDocument(report) ==
  [names    |-> report.names,
   tags     |-> Metadata(report.tags),
   streams  |-> [i \in DOMAIN report.streams |-> ConvertStream(report.streams[i])],
   chapters |-> [i \in DOMAIN report.chapters |->
                   [report.chapters[i] EXCEPT !.tags = Metadata(@)]]]

-----------------------------------------------------------------------------
IsMatroska(media) == "matroska" \in media.names
IsAudio(stream)   == stream.kind = "audio"
IsDefault(stream) == "default" \in stream.flags
Others(streams)   == {i \in DOMAIN streams : ~ IsAudio(streams[i])}

(* Keys are looked up as they are spelled.                                 *)
Tag(tags, key) == IF key \in DOMAIN tags THEN tags[key] ELSE Null

-----------------------------------------------------------------------------
(* Compatibility policies: [rules, unknown]; rules map codec families to   *)
(* [max, layouts], where Null allows anything.                             *)

Families == {"ac3", "eac3", "aac", "mp3", "dts", "truehd", "flac", "opus",
             "vorbis", "pcm"}
PcmCodecs == {"pcm_s16le", "pcm_s24le", "pcm_f32le", "pcm_bluray"}

Family(codec) == CASE codec \in Families  -> codec
                   [] codec \in PcmCodecs -> "pcm"
                   [] OTHER               -> "other"

BuiltInRules ==
  [family \in {"ac3", "aac", "mp3"} |->
     [max |-> IF family = "ac3" THEN 6 ELSE 2, layouts |-> Null]]

BuiltInPolicy == [rules |-> BuiltInRules, unknown |-> "Reject"]

(* A codec nobody knows is an error, not an incompatibility.               *)
Classifiable(policy, stream) ==
  Family(stream.codec) = "other" => policy.unknown # "Reject"

(* Mutant: a track with as many channels as allowed is refused.            *)
Compatible_Strict(policy, stream) ==
  LET family == Family(stream.codec) IN
    /\ family \in DOMAIN policy.rules
    /\ policy.rules[family].max # Null => stream.channels < policy.rules[family].max

Compatible(policy, stream) ==
  LET family == Family(stream.codec) IN
    /\ family \in DOMAIN policy.rules
    /\ LET rule == policy.rules[family] IN
         /\ rule.max # Null => stream.channels <= rule.max
         /\ rule.layouts # Null /\ stream.layout # Null => stream.layout \in rule.layouts
=============================================================================
