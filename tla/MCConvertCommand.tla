-------------------------- MODULE MCConvertCommand --------------------------
(* Instances of ConvertCommand for TLC: a few files with what makes        *)
(* planning hard, and the command lines that meet them.                    *)
EXTENDS ConvertCommand

None == <<>>   \* no tags, an empty layer

(* Ticks of a tenth of a second and low sample rates keep the products of  *)
(* validation within TLC's integers.                                       *)
Stream(index, type, name) ==
  [index |-> index, type |-> type, name |-> name, channels |-> Null, layout |-> Null,
   rate |-> Null, start |-> 0, base |-> <<1, 10>>, duration |-> Null,
   tags |-> None, flags |-> {}]

Track(index, name, channels, flags, tags) ==
  [Stream(index, "audio", name) EXCEPT !.channels = channels, !.rate = 480,
                                       !.flags = flags, !.tags = tags,
                                       !.duration = 50]

English == [language |-> <<"eng">>, DURATION |-> <<"old">>]
Titled  == [language |-> <<"ger">>, title |-> <<"Director">>]

Report(streams) ==
  [names |-> {"matroska", "webm"}, start |-> 0, duration |-> 50, tags |-> None,
   streams |-> streams,
   chapters |-> << [id |-> 1, base |-> <<1, 10>>, start |-> 0, end |-> 10, tags |-> None] >>]

Video == [Stream(0, "video", "h264") EXCEPT !.flags = {"default"}]

(* A DTS default track, a subtitle, and a titled AAC track with too many   *)
(* channels; a file that plays; tracks without any default, one of them    *)
(* before the video; reports that cannot be read or planned.               *)
Film     == Report(<<Video, Track(1, "dts", 8, {"default", "original"}, English),
                     Stream(2, "subtitle", "subrip"), Track(3, "aac", 6, {}, Titled)>>)
Plain    == Report(<<Video, Track(1, "ac3", 6, {"default"}, English)>>)
Mixed    == Report(<<Track(4, "ac3", 2, {}, English), Track(2, "truehd", 6, {"comment"}, Titled),
                     [Video EXCEPT !.index = 7, !.start = Bad],
                     Stream(9, "odd", Null)>>)
TwoTracks == Report(<<Video, Track(1, "ac3", 6, {}, English), Track(2, "mp3", 2, {"default"}, English)>>)
Silent   == Report(<<Video>>)
Unknown  == Report(<<Video, Track(1, "new", 2, {}, English)>>)
Doubled  == Report(<<Video, [Video EXCEPT !.index = 0]>>)
Endless  == [Plain EXCEPT !.duration = Bad]
Tagged   == Report(<<Video, Track(1, "dts", 6, {"default"}, [TITLE |-> <<"Director">>])>>)

In  == <<"in">>
Sub == <<"in", "sub">>
Out == <<"out">>
A == [dir |-> In, stem |-> <<"a">>, ext |-> "mkv"]
B == [dir |-> Sub, stem |-> <<"a">>, ext |-> "mkv"]
L == [dir |-> In, stem |-> <<"b">>, ext |-> "mkv"]
MCDirs == {In, Sub, Out}
MCLinks == {L}

OneFile(report)      == [path \in {A} |-> report]
TwoFiles(one, other) == [path \in {A, B} |-> IF path = A THEN one ELSE other]

MCShelves == {OneFile(report) : report \in {Film, Plain, Mixed, TwoTracks, Silent, Unknown, Doubled,
                                       Endless}}
               \cup {TwoFiles(Film, Mixed), TwoFiles(Plain, Film),
                       [path \in {A, L} |-> IF path = A THEN Film ELSE Plain]}
TaggedShelves == {OneFile(Tagged)}

-----------------------------------------------------------------------------
Find(roots, recursive) ==
  [roots |-> roots, recursive |-> recursive, follow |-> FALSE,
   includes |-> {}, excludes |-> {}]
All      == Find({[kind |-> "dir", dir |-> In]}, TRUE)
Here     == Find({[kind |-> "dir", dir |-> In]}, FALSE)
New      == [All EXCEPT !.includes = {"a", "sub"}, !.excludes = {"sonicmux"}]

Convert(request, options) ==
  [request |-> request, options |-> options, required |-> FALSE, output |-> Null,
   outputDir |-> Null, remux |-> FALSE, selector |-> Null, dryRun |-> FALSE,
   failFast |-> FALSE]

Remux(selector) ==
  [Convert(Here, None) EXCEPT !.remux = TRUE, !.selector = selector]

MCCommands ==
  {Convert(All, None),
   Convert(All, [mode |-> "replace"]),
   Convert(New, [mode |-> "only-new", channels |-> "stereo"]),
   Convert(Here, [mode |-> "replace", codec |-> "aac", bitrate |-> <<192, "k">>, channels |-> "stereo"]),
   [Convert(New, [mode |-> "add"]) EXCEPT !.failFast = TRUE, !.outputDir = Out],
   [Convert(Here, None) EXCEPT !.dryRun = TRUE],
   [Convert(All, None) EXCEPT !.output = [A EXCEPT !.dir = Out]],
   Convert(Here, [codec |-> "aac"]),
   Convert(Find({[kind |-> "path", path |-> B],
                 [kind |-> "glob", dir |-> In, pattern |-> "sub"]}, FALSE), None),
   [Convert([Here EXCEPT !.follow = TRUE], [mode |-> "replace"]) EXCEPT !.required = TRUE],
   [Convert(Find({[kind |-> "glob", dir |-> In, pattern |-> "a"]}, FALSE), None) EXCEPT !.output = L],
   Remux(Null), Remux([index |-> 2]), Remux([language |-> <<"eng">>])}

PlainCommands == {Convert(Here, None)}

MCEnvironments == {None, [mode |-> "replace", jobs |-> 2], [jobs |-> 65]}
MCConfigFiles ==
           {EmptyFile,
            [kind |-> "toml", version |-> 1, layer |-> [profile |-> "den"],
             profiles |-> [den |-> [unknown |-> "TranscodeWithFallback",
                                    codecs |-> [ac3 |-> [max |-> 2, layouts |-> Null]]]]],
            [kind |-> "toml", version |-> 2, layer |-> None, profiles |-> None]}
=============================================================================
