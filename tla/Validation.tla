----------------------------- MODULE Validation -----------------------------
(* Does a probed output look like what the plan promised?                  *)
(* validate_output in crates/runtime/src/execution.rs.                     *)
EXTENDS Planner

(* Keys that a muxer writes anew, and that differ only in case.            *)
FoldedKey(key) ==
  CASE key = "TITLE"    -> "title"
    [] key = "LANGUAGE" -> "language"
    [] OTHER            -> key

Volatile == {"DURATION", "ENCODER", "BPS", "NUMBER_OF_FRAMES", "NUMBER_OF_BYTES"}

(* In the order of the map, in which upper case comes first, the first key *)
(* that is equal but for its case.                                         *)
Lookup(tags, key) ==
  LET alike == {k \in DOMAIN tags : FoldedKey(k) = FoldedKey(key)}
      upper == {k \in alike : k # FoldedKey(k)}
  IN IF alike = {} THEN Null
     ELSE IF upper # {} THEN tags[CHOOSE k \in upper : TRUE]
     ELSE tags[CHOOSE k \in alike : TRUE]

MetadataMatches(expected, actual) ==
  \A key \in DOMAIN expected \ Volatile : Lookup(actual, key) = expected[key]

-----------------------------------------------------------------------------
(* Times are ticks of a time base; they are compared as fractions, on a    *)
(* common denominator.                                                     *)
Distance(a, b) == IF a < b THEN b - a ELSE a - b

ScaledDifference(left, leftBase, right, rightBase) ==
  Distance(left * leftBase[1] * rightBase[2], right * rightBase[1] * leftBase[2])

RationalEqual(left, leftBase, right, rightBase) ==
  ScaledDifference(left, leftBase, right, rightBase) = 0

(* One tick of the output for what was copied, one frame of the codec for  *)
(* what was encoded.                                                       *)
WithinTick(left, leftBase, right, rightBase) ==
  ScaledDifference(left, leftBase, right, rightBase) <= rightBase[1] * leftBase[2]

FrameSamples(codec) == IF codec = "AAC" THEN 1024 ELSE 1536

WithinFrame(left, leftBase, right, rightBase, rate, codec) ==
  /\ rate # Null
  /\ ScaledDifference(left, leftBase, right, rightBase) * rate
       <= leftBase[2] * rightBase[2] * FrameSamples(codec)

Close(expected, actual, left, leftBase, right, rightBase) ==
  IF expected.encoded
  THEN /\ IsAudio(actual)
       /\ WithinFrame(left, leftBase, right, rightBase, actual.rate, expected.codec)
  ELSE WithinTick(left, leftBase, right, rightBase)

(* Only what is known on both sides is compared, except that a stream that *)
(* had a start must have one.                                              *)
StartMatches(expected, actual) ==
  expected.start # Null =>
    /\ actual.start # Null
    /\ Close(expected, actual, expected.start[1], expected.start[2],
             actual.start[1], actual.start[2])

DurationMatches(expected, actual) ==
  Null \notin {expected.duration, actual.duration, expected.start, actual.start} =>
    Close(expected, actual, expected.duration, expected.start[2],
          actual.duration, actual.start[2])

-----------------------------------------------------------------------------
CodecMatches(expected, actual) ==
  actual.codec = IF expected.encoded THEN CodecNames[expected.codec] ELSE expected.codec

ChannelsMatch(operation, actual) ==
  operation.encode => /\ IsAudio(actual)
                      /\ actual.channels = operation.channels

StreamMatches(expected, operation, actual) ==
  /\ expected.kind = actual.kind
  /\ CodecMatches(expected, actual)
  /\ ChannelsMatch(operation, actual)
  /\ MetadataMatches(expected.tags, actual.tags)
  /\ expected.flags = actual.flags
  /\ StartMatches(expected, actual)
  /\ DurationMatches(expected, actual)

ChapterMatches(expected, actual) ==
  /\ RationalEqual(expected.start, expected.base, actual.start, actual.base)
  /\ RationalEqual(expected.end, expected.base, actual.end, actual.base)
  /\ MetadataMatches(expected.tags, actual.tags)

(* Mutant: streams are compared in pairs, and not counted.                 *)
Validates_Pairs(plan, actual) ==
  /\ IsMatroska(actual)
  /\ \A n \in DOMAIN plan.expected \cap DOMAIN actual.streams :
       StreamMatches(plan.expected[n], plan.operations[n], actual.streams[n])

(* validate_output finds no mismatch.                                      *)
Validates(plan, actual) ==
  /\ IsMatroska(actual)
  /\ DOMAIN plan.expected = DOMAIN actual.streams
  /\ \A n \in DOMAIN plan.expected :
       StreamMatches(plan.expected[n], plan.operations[n], actual.streams[n])
  /\ MetadataMatches(plan.tags, actual.tags)
  /\ DOMAIN plan.chapters = DOMAIN actual.chapters
  /\ \A n \in DOMAIN plan.chapters :
       ChapterMatches(plan.chapters[n], actual.chapters[n])
=============================================================================
