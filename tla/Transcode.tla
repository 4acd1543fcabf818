----------------------------- MODULE Transcode -----------------------------
(* The options that a plan becomes, and what FFmpeg makes of them.         *)
(* crates/ffmpeg/src/command.rs; FFmpeg is not part of the program: Mux    *)
(* says what the program relies on, Damage what it must not let pass.      *)
EXTENDS Validation

(* No options for an encoder are not options, and the words that tags are  *)
(* given are words (which the provers do not know of a literal).           *)
ASSUME OptionsAssumption ==
  Null \notin [encoder : {"ac3", "eac3", "aac"}, bitrate : Int, channels : Int]
ASSUME WordsAssumption ==
  {"measured", "AC-3", "E-AC-3", "AAC", "ac3", "eac3", "aac",
   "mono", "stereo", "3.0", "4.0", "5.0", "5.1"} \subseteq STRING

-----------------------------------------------------------------------------
(* Mutant: encoder options go by the position in the output.               *)
AudioOrdinal_ByPosition(plan, n) == n - 1

(* How many of the operations before the n-th make audio: FFmpeg counts    *)
(* the audio of the output from zero in its -c:a, -b:a and -ac:a options.  *)
AudioOrdinal(plan, n) ==
  Cardinality({m \in 1 .. n - 1 : plan.expected[m].kind = "audio"})

(* -c:a, -b:a and -ac:a                                                    *)
EncoderOptions(operation) ==
  [encoder  |-> CodecNames[operation.target.codec],
   bitrate  |-> operation.target.bitrate,
   channels |-> operation.channels]

(* Only the language and the title of a derivative are passed on the       *)
(* command line: the rest of its tags comes with the mapped stream.        *)
TagOptions(operation) ==
  [key \in {"language", "title"} \cap DOMAIN operation.tags |-> operation.tags[key]]

(* -map, and options: for encoders by audio ordinal, for the rest by the   *)
(* position in the output.                                                 *)
Arguments(plan) ==
  LET positions == DOMAIN plan.operations
      encoded   == {n \in positions : plan.operations[n].encode}
      ordinals  == {AudioOrdinal(plan, n) : n \in encoded}
      At(a)     == CHOOSE n \in encoded : AudioOrdinal(plan, n) = a
  IN [map         |-> [n \in positions |-> plan.operations[n].source],
      audio       |-> [a \in ordinals |-> EncoderOptions(plan.operations[At(a)])],
      tags        |-> [n \in encoded |-> TagOptions(plan.operations[n])],
      disposition |-> [n \in positions |-> plan.operations[n].flags]]

-----------------------------------------------------------------------------
(* FFmpeg.                                                                 *)

(* Tags given by option replace those of the source, whatever their case;  *)
(* the muxer writes DURATION anew.                                         *)
MuxedTags(tags, options) ==
  LET replaced == {k \in DOMAIN tags : \E o \in DOMAIN options :
                                         FoldedKey(k) = FoldedKey(o)}
      kept     == DOMAIN tags \ replaced
  IN [key \in kept \cup DOMAIN options |->
        IF key \in DOMAIN options THEN options[key]
        ELSE IF key = "DURATION"  THEN <<"measured">>
        ELSE tags[key]]

(* The timestamps are kept (-copyts, -copytb), and so is the sample rate.  *)
MuxedStream(raw, position, options, tags, flags) ==
  LET placed == [raw EXCEPT !.index = position - 1,
                            !.tags  = MuxedTags(@, tags),
                            !.flags = flags]
  IN IF options = Null
     THEN placed
     ELSE [placed EXCEPT !.name     = options.encoder,
                         !.channels = options.channels,
                         !.layout   = LayoutLabels[options.channels]]

Mux(report, arguments) ==
  LET Source(n)  == report.streams[CHOOSE i \in DOMAIN report.streams :
                      report.streams[i].index = arguments.map[n]]
      Ordinal(n) == Cardinality({m \in 1 .. n - 1 : Source(m).type = "audio"})
      Options(n) == IF Source(n).type = "audio" /\ Ordinal(n) \in DOMAIN arguments.audio
                    THEN arguments.audio[Ordinal(n)]
                    ELSE Null
      TagsOf(n)  == IF n \in DOMAIN arguments.tags THEN arguments.tags[n] ELSE <<>>
  IN [report EXCEPT !.streams =
        [n \in DOMAIN arguments.map |->
           MuxedStream(Source(n), n, Options(n), TagsOf(n), arguments.disposition[n])]]

(* What an FFmpeg that exits with success may still have got wrong.        *)
Damages == {"none", "stream-lost", "default-lost", "late", "chapters-lost"}

WithoutLast(streams) == SubSeq(streams, 1, Len(streams) - 1)

WithoutDefaults(streams) ==
  [i \in DOMAIN streams |-> [streams[i] EXCEPT !.flags = @ \ {"default"}]]

Delayed(streams) ==
  [i \in DOMAIN streams |->
     IF i = Len(streams) /\ streams[i].start \notin {Null, Bad}
     THEN [streams[i] EXCEPT !.start = @ + 1000]
     ELSE streams[i]]

DamagedStreams(streams, damage) ==
  CASE damage = "stream-lost"  -> WithoutLast(streams)
    [] damage = "default-lost" -> WithoutDefaults(streams)
    [] damage = "late"         -> Delayed(streams)
    [] OTHER                   -> streams

Damage(report, damage) ==
  [report EXCEPT !.streams  = DamagedStreams(@, damage),
                 !.chapters = IF damage = "chapters-lost" THEN <<>> ELSE @]
=============================================================================
