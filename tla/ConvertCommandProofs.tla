------------------------ MODULE ConvertCommandProofs ------------------------
(* Nothing that exists is replaced, nothing that an output mode promises   *)
(* to keep is lost, and exit code 0 is the truth: for every library of     *)
(* files, every command line, every profile and whatever FFmpeg writes.    *)
(* What is published plays, and a plan can succeed, if FFmpeg does what it *)
(* is told.                                                                *)
EXTENDS ConvertCommand, ListingProofs

-----------------------------------------------------------------------------
(* What is expected of a stream of the output, in terms of the source.     *)
CopyOf(expected, s) ==
  /\ ~ expected.encoded
  /\ expected.kind = s.kind
  /\ expected.codec = s.codec
  /\ expected.tags = s.tags
  /\ expected.flags \ {"default"} = s.flags \ {"default"}

DerivedFrom(expected, s) ==
  /\ IsAudio(s)
  /\ expected.kind = "audio"
  /\ "language" \in DOMAIN s.tags =>
       /\ "language" \in DOMAIN expected.tags
       /\ expected.tags["language"] = s.tags["language"]

InOrder(expected, streams) ==
  \E at \in [Others(streams) -> DOMAIN expected] :
    /\ \A i, j \in Others(streams) : i < j => at[i] < at[j]
    /\ \A n \in DOMAIN expected :
         expected[n].kind # "audio" => \E i \in Others(streams) : at[i] = n
    /\ \A i \in Others(streams) : CopyOf(expected[at[i]], streams[i])

Promises(expected, streams, mode) ==
  /\ mode \in {"add", "remux"} =>
       \A i \in DOMAIN streams : i \in DOMAIN expected /\ CopyOf(expected[i], streams[i])
  /\ mode = "replace" =>
       /\ DOMAIN expected = DOMAIN streams
       /\ \A i \in DOMAIN streams : \/ CopyOf(expected[i], streams[i])
                                    \/ DerivedFrom(expected[i], streams[i])
  /\ mode = "only-new" => InOrder(expected, streams)

(* What the planner is given: a list of streams, each with its own index.  *)
Plannable(media) ==
  /\ IsList(media.streams)
  /\ \A i, j \in DOMAIN media.streams :
       media.streams[i].index = media.streams[j].index => i = j

-----------------------------------------------------------------------------
LEMMA SourceIsFound ==
  ASSUME NEW media, Plannable(media),
         NEW i \in DOMAIN media.streams,
         NEW operation, operation.source = media.streams[i].index
  PROVE  SourceOf(media, operation) = media.streams[i]
BY DEF SourceOf, Plannable

LEMMA CopyIsExpected ==
  ASSUME NEW media, Plannable(media),
         NEW i \in DOMAIN media.streams,
         NEW flags, flags \ {"default"} = media.streams[i].flags \ {"default"}
  PROVE  CopyOf(ExpectedStream(media, Copy(media.streams[i], flags)), media.streams[i])
<1> DEFINE s == media.streams[i]
           operation == Copy(s, flags)
<1>1. operation.source = s.index /\ operation.encode = FALSE /\ operation.flags = flags
  BY DEF Copy
<1>2. SourceOf(media, operation) = s
  BY <1>1, SourceIsFound
<1> HIDE DEF operation
<1>3. /\ ~ ExpectedStream(media, operation).encoded
      /\ ExpectedStream(media, operation).kind = s.kind
      /\ ExpectedStream(media, operation).codec = s.codec
      /\ ExpectedStream(media, operation).tags = s.tags
      /\ ExpectedStream(media, operation).flags = flags
  BY <1>1, <1>2 DEF ExpectedStream
<1> QED
  BY <1>3 DEF CopyOf, operation

LEMMA DerivativeIsExpected ==
  ASSUME NEW media, Plannable(media),
         NEW i \in DOMAIN media.streams, IsAudio(media.streams[i]),
         NEW target, NEW flags
  PROVE  DerivedFrom(ExpectedStream(media, Encode(target, media.streams[i], flags)),
                     media.streams[i])
<1> DEFINE s == media.streams[i]
           operation == Encode(target, s, flags)
<1>1. /\ operation.source = s.index
      /\ operation.encode = TRUE
      /\ operation.tags = DerivedTags(target, s)
  BY DEF Encode
<1>2. ExpectedStream(media, operation).kind = "audio"
  BY <1>1 DEF ExpectedStream
<1>3. ExpectedStream(media, operation).tags = DerivedTags(target, s)
  BY <1>1 DEF ExpectedStream
<1>4. "language" \in DOMAIN s.tags =>
        /\ "language" \in DOMAIN DerivedTags(target, s)
        /\ DerivedTags(target, s)["language"] = s.tags["language"]
  BY DEF DerivedTags
<1> QED
  BY <1>2, <1>3, <1>4 DEF DerivedFrom

LEMMA WithDefaultKeepsTheRest ==
  ASSUME NEW flags, NEW on
  PROVE  WithDefault(flags, on) \ {"default"} = flags \ {"default"}
BY DEF WithDefault

(* The n-th stream that is expected is that of the n-th operation.         *)
LEMMA ExpectedByOperation ==
  ASSUME NEW media, NEW policy, NEW operations
  PROVE  /\ DOMAIN JobPlan(media, policy, operations).expected = DOMAIN operations
         /\ \A n \in DOMAIN operations :
              JobPlan(media, policy, operations).expected[n]
                = ExpectedStream(media, operations[n])
BY DEF JobPlan

-----------------------------------------------------------------------------
LEMMA ListsJoin ==
  ASSUME NEW s, IsList(s), s = [i \in DOMAIN s |-> s[i]],
         NEW t, IsList(t), t = [i \in DOMAIN t |-> t[i]]
  PROVE  /\ DOMAIN (s \o t) = 1 .. (Len(s) + Len(t))
         /\ \A i \in DOMAIN s : (s \o t)[i] = s[i]
<1> DEFINE T == {s[i] : i \in DOMAIN s} \cup {t[i] : i \in DOMAIN t}
<1>1. s \in [1 .. Len(s) -> T] /\ Len(s) \in Nat
  BY DEF IsList
<1>2. t \in [1 .. Len(t) -> T] /\ Len(t) \in Nat
  BY DEF IsList
<1>3. s \in Seq(T) /\ t \in Seq(T)
  BY <1>1, <1>2
<1> HIDE DEF T
<1> QED
  BY <1>3

LEMMA PositionsOfAList ==
  ASSUME NEW S, NEW n \in Nat, S \subseteq 1 .. n
  PROVE  IsList(Ordered(S)) /\ DOMAIN Ordered(S) = 1 .. Cardinality(S)
<1>1. Cardinality(S) \in Nat
  BY PlacesAreInOrder
<1>2. DOMAIN Ordered(S) = 1 .. Cardinality(S)
  BY DEF Ordered
<1>3. Len(Ordered(S)) = Cardinality(S)
  BY <1>1, <1>2 DEF Ordered
<1> QED
  BY <1>1, <1>2, <1>3 DEF IsList

LEMMA AddPromises ==
  ASSUME NEW media, Plannable(media), NEW policy
  PROVE  Promises(JobPlan(media, policy, AddOperations(media, policy)).expected,
                  media.streams, "add")
<1> DEFINE streams    == media.streams
           derived    == Ordered(Incompatible(media, policy))
           copies     == [i \in DOMAIN streams |-> CopiedBeside(media, policy, i)]
           encodes    == [n \in DOMAIN derived |->
                            DerivedBeside(media, policy, derived[n], n = 1)]
           operations == AddOperations(media, policy)
           expected   == JobPlan(media, policy, operations).expected
<1>1. Incompatible(media, policy) \subseteq 1 .. Len(streams) /\ Len(streams) \in Nat
  BY DEF Incompatible, Audio, Plannable, IsList
<1>2. IsList(derived)
  BY <1>1, PositionsOfAList
<1>3. IsList(copies) /\ DOMAIN copies = DOMAIN streams
  BY DEF Plannable, IsList
<1>4. IsList(encodes)
  BY <1>2 DEF IsList
<1>5. operations = copies \o encodes
  BY DEF AddOperations
<1>6. DOMAIN operations = 1 .. (Len(copies) + Len(encodes))
  BY <1>3, <1>4, <1>5, ListsJoin
<1>7. ASSUME NEW i \in DOMAIN streams
      PROVE  i \in DOMAIN expected /\ CopyOf(expected[i], streams[i])
  <2>1. operations[i] = CopiedBeside(media, policy, i)
    BY <1>3, <1>4, <1>5, ListsJoin
  <2>2. i \in DOMAIN operations
    BY <1>3, <1>4, <1>6 DEF IsList
  <2>3. i \in DOMAIN expected /\ expected[i] = ExpectedStream(media, operations[i])
    BY <2>2, ExpectedByOperation
  <2>4. PICK flags : /\ operations[i] = Copy(streams[i], flags)
                     /\ flags \ {"default"} = streams[i].flags \ {"default"}
    BY <2>1, WithDefaultKeepsTheRest DEF CopiedBeside
  <2>5. CopyOf(ExpectedStream(media, Copy(streams[i], flags)), streams[i])
    BY <2>4, CopyIsExpected
  <2> QED
    BY <2>3, <2>4, <2>5
<1> QED
  BY <1>7 DEF Promises

LEMMA RemuxPromises ==
  ASSUME NEW media, Plannable(media), NEW policy, NEW selected
  PROVE  Promises(JobPlan(media, policy, RemuxOperations(media, selected)).expected,
                  media.streams, "remux")
<1> DEFINE streams    == media.streams
           operations == RemuxOperations(media, selected)
           expected   == JobPlan(media, policy, operations).expected
<1>1. ASSUME NEW i \in DOMAIN streams
      PROVE  i \in DOMAIN expected /\ CopyOf(expected[i], streams[i])
  <2>1. i \in DOMAIN operations
    BY DEF RemuxOperations
  <2>2. i \in DOMAIN expected /\ expected[i] = ExpectedStream(media, operations[i])
    BY <2>1, ExpectedByOperation
  <2>3. PICK flags : /\ operations[i] = Copy(streams[i], flags)
                     /\ flags \ {"default"} = streams[i].flags \ {"default"}
    BY WithDefaultKeepsTheRest DEF RemuxOperations
  <2>4. CopyOf(ExpectedStream(media, Copy(streams[i], flags)), streams[i])
    BY <2>3, CopyIsExpected
  <2> QED
    BY <2>2, <2>3, <2>4
<1> QED
  BY <1>1 DEF Promises

LEMMA InPlacePromises ==
  ASSUME NEW media, Plannable(media), NEW policy, NEW i \in DOMAIN media.streams
  PROVE  LET expected == ExpectedStream(media, InPlace(media, policy, i)) IN
           /\ i \notin Incompatible(media, policy) => CopyOf(expected, media.streams[i])
           /\ i \in Incompatible(media, policy) => DerivedFrom(expected, media.streams[i])
<1>1. CASE i \notin Incompatible(media, policy)
  <2>1. InPlace(media, policy, i) = Copy(media.streams[i], media.streams[i].flags)
    BY <1>1 DEF InPlace
  <2> QED
    BY <1>1, <2>1, CopyIsExpected
<1>2. CASE i \in Incompatible(media, policy)
  <2>1. InPlace(media, policy, i)
          = Encode(policy.target, media.streams[i], media.streams[i].flags)
    BY <1>2 DEF InPlace
  <2>2. IsAudio(media.streams[i])
    BY <1>2 DEF Incompatible, Audio
  <2> QED
    BY <1>2, <2>1, <2>2, DerivativeIsExpected
<1> QED
  BY <1>1, <1>2

LEMMA ReplacePromises ==
  ASSUME NEW media, Plannable(media), NEW policy
  PROVE  Promises(JobPlan(media, policy, ReplaceOperations(media, policy)).expected,
                  media.streams, "replace")
<1> DEFINE operations == ReplaceOperations(media, policy)
           expected   == JobPlan(media, policy, operations).expected
<1>1. /\ DOMAIN operations = DOMAIN media.streams
      /\ \A i \in DOMAIN media.streams : operations[i] = InPlace(media, policy, i)
  BY DEF ReplaceOperations
<1>2. /\ DOMAIN expected = DOMAIN media.streams
      /\ \A i \in DOMAIN media.streams :
           expected[i] = ExpectedStream(media, InPlace(media, policy, i))
  BY <1>1, ExpectedByOperation
<1> QED
  BY <1>2, InPlacePromises DEF Promises

LEMMA OnlyNewPromises ==
  ASSUME NEW media, Plannable(media), NEW policy
  PROVE  Promises(JobPlan(media, policy, OnlyNewOperations(media, policy)).expected,
                  media.streams, "only-new")
<1> DEFINE streams    == media.streams
           S          == Others(streams) \cup Incompatible(media, policy)
           operations == OnlyNewOperations(media, policy)
           expected   == JobPlan(media, policy, operations).expected
           at         == [i \in Others(streams) |-> Place(S, i)]
<1>1. Len(streams) \in Nat /\ S \in SUBSET (1 .. Len(streams))
  BY DEF Incompatible, Audio, Others, Plannable, IsList
<1>2. Others(streams) \subseteq S /\ Others(streams) \cap Incompatible(media, policy) = {}
  BY DEF Others, Audio, Incompatible
<1>3. DOMAIN operations = 1 .. Cardinality(S)
  BY DEF OnlyNewOperations, Ordered
<1>4. \A n \in DOMAIN operations : operations[n] = InPlace(media, policy, Nth(S, n))
  BY DEF OnlyNewOperations, Ordered
<1> HIDE DEF S, operations
<1>5. /\ DOMAIN expected = 1 .. Cardinality(S)
      /\ \A n \in DOMAIN expected :
           expected[n] = ExpectedStream(media, InPlace(media, policy, Nth(S, n)))
  <2>1. /\ DOMAIN expected = DOMAIN operations
        /\ \A n \in DOMAIN operations :
             expected[n] = ExpectedStream(media, operations[n])
    BY ExpectedByOperation
  <2> QED
    BY <1>3, <1>4, <2>1
<1> HIDE DEF expected
<1>6. at \in [Others(streams) -> DOMAIN expected]
  BY <1>1, <1>2, <1>5, PlacesAreInOrder
<1>7. \A i, j \in Others(streams) : i < j => at[i] < at[j]
  BY <1>1, <1>2, PlacesAreInOrder
<1>8. ASSUME NEW i \in Others(streams)
      PROVE  CopyOf(expected[at[i]], streams[i])
  <2>1. Nth(S, at[i]) = i
    BY <1>1, <1>2, NthIsInverse
  <2>2. expected[at[i]] = ExpectedStream(media, InPlace(media, policy, i))
    BY <1>5, <1>6, <2>1
  <2>3. i \in DOMAIN streams /\ i \notin Incompatible(media, policy)
    BY <1>2 DEF Others
  <2> QED
    BY <2>2, <2>3, InPlacePromises
<1>9. ASSUME NEW n \in DOMAIN expected, expected[n].kind # "audio"
      PROVE  \E i \in Others(streams) : at[i] = n
  <2> DEFINE i == Nth(S, n)
  <2>1. i \in S /\ Place(S, i) = n
    BY <1>1, <1>5, NthIsInverse
  <2>2. i \in DOMAIN streams
    BY <2>1, <1>1 DEF Plannable, IsList
  <2>3. i \notin Incompatible(media, policy)
    BY <1>5, <1>9, <2>2, InPlacePromises DEF DerivedFrom
  <2>4. ~ IsAudio(streams[i])
    BY <1>5, <1>9, <2>2, <2>3, InPlacePromises DEF CopyOf, IsAudio
  <2>5. i \in Others(streams)
    BY <2>2, <2>4 DEF Others
  <2> QED
    BY <2>1, <2>5
<1>10. InOrder(expected, streams)
  BY <1>6, <1>7, <1>8, <1>9 DEF InOrder
<1> QED
  BY <1>10 DEF Promises, expected, operations

-----------------------------------------------------------------------------
Listed(f) == \E k \in Nat : DOMAIN f = 1 .. k

LEMMA OperationsAreListed ==
  ASSUME NEW media, Plannable(media), NEW policy
  PROVE  /\ Listed(AddOperations(media, policy))
         /\ Listed(ReplaceOperations(media, policy))
         /\ Listed(OnlyNewOperations(media, policy))
         /\ \A selected : Listed(RemuxOperations(media, selected))
<1> DEFINE streams == media.streams
           derived == Ordered(Incompatible(media, policy))
           copies  == [i \in DOMAIN streams |-> CopiedBeside(media, policy, i)]
           encodes == [n \in DOMAIN derived |->
                         DerivedBeside(media, policy, derived[n], n = 1)]
           S       == Others(streams) \cup Incompatible(media, policy)
<1>1. Len(streams) \in Nat /\ DOMAIN streams = 1 .. Len(streams)
  BY DEF Plannable, IsList
<1>2. Incompatible(media, policy) \subseteq 1 .. Len(streams) /\ S \subseteq 1 .. Len(streams)
  BY <1>1 DEF Incompatible, Audio, Others
<1>3. Listed(AddOperations(media, policy))
  <2>1. IsList(derived)
    BY <1>1, <1>2, PositionsOfAList
  <2>2. IsList(copies) /\ IsList(encodes)
    BY <1>1, <2>1 DEF IsList
  <2>3. DOMAIN (copies \o encodes) = 1 .. (Len(copies) + Len(encodes))
    BY <2>2, ListsJoin
  <2>4. Len(copies) + Len(encodes) \in Nat
    BY <2>2 DEF IsList
  <2> QED
    BY <2>3, <2>4 DEF Listed, AddOperations
<1>4. Listed(ReplaceOperations(media, policy))
  BY <1>1 DEF Listed, ReplaceOperations
<1>5. Listed(OnlyNewOperations(media, policy))
  <2>1. DOMAIN OnlyNewOperations(media, policy) = 1 .. Cardinality(S)
    BY DEF OnlyNewOperations, Ordered
  <2>2. Cardinality(S) \in Nat
    BY <1>1, <1>2, PlacesAreInOrder
  <2> QED
    BY <2>1, <2>2 DEF Listed
<1>6. \A selected : Listed(RemuxOperations(media, selected))
  BY <1>1 DEF Listed, RemuxOperations
<1> QED
  BY <1>3, <1>4, <1>5, <1>6

-----------------------------------------------------------------------------
(* A plan that keeps what its mode promises of a file.                     *)
Keeps(plan, media, mode) ==
  /\ Listed(plan.operations)
  /\ DOMAIN plan.chapters = DOMAIN media.chapters
  /\ Promises(plan.expected, media.streams, mode)

Modes == {"add", "replace", "only-new"}

(* What the fate of a file says is so.                                     *)
IsTrue(path, outcome) ==
  /\ outcome.is = "ready" => /\ Keeps(outcome.plan, ConvertDocument(shelf[path]), Mode)
                             /\ outcome.plan.output = ResolveOutput(path)
  /\ outcome.is \in {"skipped", "succeeded"} => Answered(path)
  /\ outcome.is = "planned" => command.dryRun
  /\ outcome.is = "failed" => outcome.stage \in DOMAIN StageCodes
  /\ outcome.is = "cancelled" => cancelled \/ Are({"failed"}) # {}
  /\ outcome.is \in {"waiting", "ready", "skipped", "planned", "succeeded",
                     "cancelled", "failed"}

(* The inductive invariant.                                                *)
ReportsAreReports == \A path \in DOMAIN shelf : IsReport(shelf[path])
FilesAreFound     == DOMAIN fate \subseteq DOMAIN shelf
ModeIsKnown       == DOMAIN fate # {} => settings.mode \in Modes
FatesAreTrue      == \A path \in DOMAIN fate : IsTrue(path, fate[path])
PhasesAreOver     == /\ phase = "idle" => Are({"waiting", "ready"}) = {}
                     /\ phase = "executing" => Are({"waiting"}) = {}
CodeIsTrue        == phase = "idle" /\ code = 0 =>
                       \A path \in DOMAIN fate :
                         fate[path].is \in {"skipped", "planned", "succeeded"}

IInv == /\ ReportsAreReports
        /\ FilesAreFound
        /\ ModeIsKnown
        /\ FatesAreTrue
        /\ PhasesAreOver
        /\ CodeIsTrue
        /\ NothingLost

-----------------------------------------------------------------------------
(* An output that passes validation has what its plan promises.            *)
LEMMA ACopyIsTheSame ==
  ASSUME NEW expected, NEW operation, NEW old, NEW new,
         CopyOf(expected, old), StreamMatches(expected, operation, new)
  PROVE  Same(old, new)
<1>1. old.kind = new.kind /\ old.codec = new.codec
  BY DEF CopyOf, StreamMatches, CodecMatches
<1>2. old.flags \ {"default"} = new.flags \ {"default"}
  BY DEF CopyOf, StreamMatches
<1>3. MetadataMatches(old.tags, new.tags)
  BY DEF CopyOf, StreamMatches
<1> QED
  BY <1>1, <1>2, <1>3 DEF Same

LEMMA ADerivativeIsDerived ==
  ASSUME NEW expected, NEW operation, NEW old, NEW new,
         DerivedFrom(expected, old), StreamMatches(expected, operation, new)
  PROVE  SameOrDerived(old, new)
<1>1. IsAudio(old) /\ IsAudio(new)
  BY DEF DerivedFrom, StreamMatches, IsAudio
<1>2. MetadataMatches(expected.tags, new.tags)
  BY DEF StreamMatches
<1>3. "language" \notin Volatile
  BY DEF Volatile
<1>4. "language" \in DOMAIN old.tags => Lookup(new.tags, "language") = old.tags["language"]
  BY <1>2, <1>3 DEF DerivedFrom, MetadataMatches
<1> QED
  BY <1>1, <1>4 DEF SameOrDerived

LEMMA OthersStayInOrder ==
  ASSUME NEW expected, NEW operations, NEW old, NEW new,
         InOrder(expected, old), DOMAIN expected = DOMAIN new,
         \A n \in DOMAIN expected : StreamMatches(expected[n], operations[n], new[n])
  PROVE  SameOthers(old, new)
<1>1. PICK at \in [Others(old) -> DOMAIN expected] :
        /\ \A i, j \in Others(old) : i < j => at[i] < at[j]
        /\ \A n \in DOMAIN expected :
             expected[n].kind # "audio" => \E i \in Others(old) : at[i] = n
        /\ \A i \in Others(old) : CopyOf(expected[at[i]], old[i])
  BY DEF InOrder
<1>2. \A n \in DOMAIN expected : expected[n].kind = new[n].kind
  BY DEF StreamMatches
<1>3. at \in [Others(old) -> Others(new)]
  BY <1>1, <1>2 DEF Others, IsAudio, CopyOf
<1>4. \A n \in Others(new) : \E i \in Others(old) : at[i] = n
  BY <1>1, <1>2 DEF Others, IsAudio
<1>5. \A i \in Others(old) : Same(old[i], new[at[i]])
  BY <1>1, ACopyIsTheSame
<1>6. Ascending(at)
  BY <1>1 DEF Ascending
<1> QED
  BY <1>3, <1>4, <1>5, <1>6 DEF SameOthers

LEMMA ValidOutputsAreKept ==
  ASSUME NEW plan, NEW m,
         Keeps(plan, ConvertDocument(m.source), m.mode),
         Validates(plan, ConvertDocument(m.output))
  PROVE  Kept(m)
<1> DEFINE old == ConvertDocument(m.source)
           new == ConvertDocument(m.output)
<1> HIDE DEF old, new
<1>1. /\ Keeps(plan, old, m.mode)
      /\ Validates(plan, new)
  BY DEF old, new
<1>2. DOMAIN old.chapters = DOMAIN new.chapters
  BY <1>1 DEF Keeps, Validates
<1>3. /\ DOMAIN plan.expected = DOMAIN new.streams
      /\ \A n \in DOMAIN plan.expected :
           StreamMatches(plan.expected[n], plan.operations[n], new.streams[n])
  BY <1>1 DEF Validates
<1>4. Promises(plan.expected, old.streams, m.mode)
  BY <1>1 DEF Keeps
<1>5. m.mode \in {"add", "remux"} => KeptAll(old.streams, new.streams)
  BY <1>3, <1>4, ACopyIsTheSame DEF Promises, KeptAll
<1>6. m.mode = "replace" => KeptPlaces(old.streams, new.streams)
  BY <1>3, <1>4, ACopyIsTheSame, ADerivativeIsDerived
  DEF Promises, KeptPlaces, SameOrDerived
<1>7. m.mode = "only-new" => SameOthers(old.streams, new.streams)
  BY <1>3, <1>4, OthersStayInOrder DEF Promises
<1> QED
  BY <1>2, <1>5, <1>6, <1>7 DEF Kept, old, new

-----------------------------------------------------------------------------
(* What the planner answers.                                               *)
LEMMA ReportsCanBePlanned ==
  ASSUME NEW report, IsReport(report), Readable(report)
  PROVE  Plannable(ConvertDocument(report))
<1> DEFINE media == ConvertDocument(report)
<1>1. media.streams = [i \in DOMAIN report.streams |-> ConvertStream(report.streams[i])]
  BY DEF ConvertDocument
<1>2. IsList(media.streams)
  BY <1>1 DEF IsReport, IsList
<1>3. \A i \in DOMAIN report.streams : media.streams[i].index = report.streams[i].index
  BY <1>1 DEF ConvertStream
<1>4. DOMAIN media.streams = DOMAIN report.streams
  BY <1>1
<1>5. \A i, j \in DOMAIN report.streams :
        report.streams[i].index = report.streams[j].index => i = j
  BY DEF Readable
<1> HIDE DEF media
<1> QED
  BY <1>2, <1>3, <1>4, <1>5 DEF Plannable, media

LEMMA JobPlansKeep ==
  ASSUME NEW media, NEW policy, NEW operations, NEW mode,
         Listed(operations),
         Promises(JobPlan(media, policy, operations).expected, media.streams, mode)
  PROVE  /\ Keeps(JobPlan(media, policy, operations), media, mode)
         /\ JobPlan(media, policy, operations).output = policy.output
<1>1. /\ JobPlan(media, policy, operations).operations = operations
      /\ JobPlan(media, policy, operations).chapters = media.chapters
      /\ JobPlan(media, policy, operations).output = policy.output
  BY DEF JobPlan
<1> QED
  BY <1>1 DEF Keeps

LEMMA ConvertPlansKeep ==
  ASSUME NEW media, Plannable(media), NEW policy, policy.mode \in Modes
  PROVE  LET built == BuildConvert(media, policy) IN
           /\ built.result = "Execute" =>
                /\ Keeps(built.plan, media, policy.mode)
                /\ built.plan.output = policy.output
           /\ built.result = "Skip" => Incompatible(media, policy) = {}
<1> DEFINE built == BuildConvert(media, policy)
<1>1. CASE Incompatible(media, policy) = {}
  BY <1>1 DEF BuildConvert, PlanError, Skip
<1>2. CASE Incompatible(media, policy) # {} /\ policy.mode = "add"
  <2>1. built = Execute(JobPlan(media, policy, AddOperations(media, policy)))
    BY <1>2 DEF BuildConvert
  <2> QED
    BY <1>2, <2>1, AddPromises, OperationsAreListed, JobPlansKeep DEF Execute
<1>3. CASE Incompatible(media, policy) # {} /\ policy.mode = "replace"
  <2>1. built = Execute(JobPlan(media, policy, ReplaceOperations(media, policy)))
    BY <1>3 DEF BuildConvert
  <2> QED
    BY <1>3, <2>1, ReplacePromises, OperationsAreListed, JobPlansKeep DEF Execute
<1>4. CASE Incompatible(media, policy) # {} /\ policy.mode = "only-new"
  <2>1. built = Execute(JobPlan(media, policy, OnlyNewOperations(media, policy)))
    BY <1>4 DEF BuildConvert
  <2> QED
    BY <1>4, <2>1, OnlyNewPromises, OperationsAreListed, JobPlansKeep DEF Execute
<1> QED
  BY <1>1, <1>2, <1>3, <1>4 DEF Modes

LEMMA RemuxPlansKeep ==
  ASSUME NEW media, Plannable(media), NEW policy
  PROVE  LET built == BuildRemux(media, policy) IN
           /\ built.result = "Execute" => /\ Keeps(built.plan, media, "remux")
                                          /\ built.plan.output = policy.output
           /\ built.result # "Skip"
<1> DEFINE built == BuildRemux(media, policy)
           Of(selected) == Execute(JobPlan(media, policy, RemuxOperations(media, selected)))
<1>1. \A selected :
        /\ Of(selected).result = "Execute"
        /\ Keeps(Of(selected).plan, media, "remux")
        /\ Of(selected).plan.output = policy.output
  BY RemuxPromises, OperationsAreListed, JobPlansKeep DEF Execute
<1>2. built.result = "Error" \/ \E selected : built = Of(selected)
  BY DEF BuildRemux, PlanError
<1> QED
  BY <1>1, <1>2

(* The mode of a policy as Mode names it.                                  *)
ModeOf(policy) == IF policy.action = "Convert" THEN policy.mode ELSE "remux"

LEMMA PlansKeep ==
  ASSUME NEW media, Plannable(media), NEW path, NEW policy, policy.mode \in Modes
  PROVE  LET built == Build(media, path, policy) IN
           /\ built.result \in {"Execute", "Skip", "Error"}
           /\ built.result = "Execute" => /\ Keeps(built.plan, media, ModeOf(policy))
                                          /\ built.plan.output = policy.output
           /\ built.result = "Skip" => /\ policy.action = "Convert"
                                       /\ Incompatible(media, policy) = {}
<1> DEFINE built == Build(media, path, policy)
<1>1. built.result = "Error" \/
      built = IF policy.action = "Convert" THEN BuildConvert(media, policy)
              ELSE BuildRemux(media, policy)
  BY DEF Build, PlanError
<1>2. /\ BuildConvert(media, policy).result \in {"Execute", "Skip", "Error"}
      /\ BuildRemux(media, policy).result \in {"Execute", "Skip", "Error"}
  BY DEF BuildConvert, BuildRemux, Execute, Skip, PlanError
<1> QED
  BY <1>1, <1>2, ConvertPlansKeep, RemuxPlansKeep DEF ModeOf

-----------------------------------------------------------------------------
(* What is on the shelf stays there as it is.                              *)
ShelfGrows == \A path \in DOMAIN shelf : path \in DOMAIN shelf' /\ shelf'[path] = shelf[path]

SameCommand == UNCHANGED <<command, settings>>

LEMMA TranscodingAdds ==
  ASSUME NEW path, NEW damage, Transcode(path, damage)
  PROVE  ShelfGrows
BY DEF Transcode, Publishable, ShelfGrows

LEMMA TheShelfGrows == ASSUME [Next]_vars PROVE ShelfGrows
<1>1. CASE UNCHANGED shelf
  BY <1>1 DEF ShelfGrows
<1> QED
  BY <1>1, TranscodingAdds
  DEF Next, vars, Step, Refuse, Begin, Prepare, EnterExecution, ToolFails, Interrupt, Finish

LEMMA AnswersStay ==
  ASSUME ShelfGrows, SameCommand, NEW path \in DOMAIN shelf, Answered(path)
  PROVE  Answered(path)'
<1>1. /\ shelf'[path] = shelf[path]
      /\ command' = command
      /\ settings' = settings
  BY DEF ShelfGrows, SameCommand
<1>2. ResolveOutput(path)' = ResolveOutput(path)
  BY <1>1 DEF ResolveOutput
<1>3. Mode' = Mode
  BY <1>1 DEF Mode
<1>4. ResolveOutput(path) \in DOMAIN shelf =>
        /\ ResolveOutput(path) \in DOMAIN shelf'
        /\ shelf'[ResolveOutput(path)] = shelf[ResolveOutput(path)]
  BY DEF ShelfGrows
<1> QED
  BY <1>1, <1>2, <1>3, <1>4 DEF Answered

LEMMA TruthStays ==
  ASSUME ShelfGrows, SameCommand, NEW path \in DOMAIN shelf, NEW outcome,
         IsTrue(path, outcome),
         cancelled \/ Are({"failed"}) # {} => cancelled' \/ Are({"failed"})' # {}
  PROVE  IsTrue(path, outcome)'
<1>1. /\ shelf'[path] = shelf[path]
      /\ command' = command
      /\ settings' = settings
  BY DEF ShelfGrows, SameCommand
<1>2. ResolveOutput(path)' = ResolveOutput(path) /\ Mode' = Mode
  BY <1>1 DEF ResolveOutput, Mode
<1>3. Answered(path) => Answered(path)'
  BY AnswersStay
<1>4. StageCodes' = StageCodes
  BY DEF StageCodes
<1> QED
  BY <1>1, <1>2, <1>3, <1>4 DEF IsTrue

(* One file is decided.                                                    *)
LEMMA DecisionsAreTrue ==
  ASSUME FatesAreTrue, FilesAreFound, ShelfGrows, SameCommand, UNCHANGED cancelled,
         NEW path \in DOMAIN fate, fate[path].is \in {"waiting", "ready"},
         NEW outcome, Decide(path, outcome), IsTrue(path, outcome)'
  PROVE  FatesAreTrue' /\ DOMAIN fate' = DOMAIN fate
<1>1. DOMAIN fate' = DOMAIN fate /\ fate'[path] = outcome
  BY DEF Decide
<1>2. \A other \in DOMAIN fate : other # path =>
        \/ fate'[other] = fate[other]
        \/ /\ fate'[other] = Cancelled
           /\ fate[other].is \in {"waiting", "ready"}
           /\ outcome.is = "failed"
  BY DEF Decide
<1>3. Are({"failed"}) # {} => Are({"failed"})' # {}
  BY <1>1, <1>2 DEF Are
<1>4. outcome.is = "failed" => Are({"failed"})' # {}
  BY <1>1 DEF Are
<1>5. ASSUME NEW other \in DOMAIN fate, other # path, fate'[other] = fate[other]
      PROVE  IsTrue(other, fate[other])'
  <2>1. PICK same : same = fate[other]
    OBVIOUS
  <2>2. IsTrue(other, same)
    BY <2>1 DEF FatesAreTrue
  <2>3. IsTrue(other, same)'
    BY <1>3, <2>2, TruthStays DEF FilesAreFound
  <2> QED
    BY <1>5, <2>1, <2>3 DEF IsTrue
<1>6. ASSUME NEW other \in DOMAIN fate, fate'[other] = Cancelled, outcome.is = "failed"
      PROVE  IsTrue(other, fate[other])'
  BY <1>4, <1>6 DEF IsTrue, Cancelled
<1>7. IsTrue(path, fate[path])'
  BY <1>1 DEF IsTrue
<1>8. ASSUME NEW other \in DOMAIN fate
      PROVE  IsTrue(other, fate[other])'
  BY <1>2, <1>5, <1>6, <1>7
<1> QED
  BY <1>1, <1>8 DEF FatesAreTrue

(* What prepare_one answers.                                               *)
LEMMA AnOutcomeOfAPlan ==
  ASSUME NEW path \in DOMAIN shelf, NEW plan,
         Keeps(plan, ConvertDocument(shelf[path]), Mode),
         plan.output = ResolveOutput(path)
  PROVE  IsTrue(path, OutcomeOfPlan(plan))
<1> DEFINE outcome == OutcomeOfPlan(plan)
           existing == InspectExistingOutput(plan)
<1>1. ASSUME existing = "Valid"
      PROVE  Answered(path)
  <2>1. /\ plan.output \in DOMAIN shelf
        /\ Validates(plan, ConvertDocument(shelf[plan.output]))
    BY <1>1 DEF InspectExistingOutput
  <2> DEFINE m == [source |-> shelf[path], output |-> shelf[plan.output], mode |-> Mode]
  <2>2. Kept(m)
    BY <2>1, ValidOutputsAreKept
  <2> QED
    BY <2>1, <2>2 DEF Answered
<1>2. \/ outcome = Failed("Conflict")
      \/ outcome = Planned /\ command.dryRun
      \/ outcome = Ready(plan)
      \/ outcome = Skipped /\ Answered(path)
  BY <1>1 DEF OutcomeOfPlan
<1>3. CASE outcome = Failed("Conflict")
  BY <1>3 DEF Failed, IsTrue, StageCodes
<1>4. CASE outcome = Planned /\ command.dryRun
  BY <1>4 DEF Planned, IsTrue
<1>5. CASE outcome = Ready(plan)
  BY <1>5 DEF Ready, IsTrue
<1>6. CASE outcome = Skipped /\ Answered(path)
  BY <1>6 DEF Skipped, IsTrue
<1> QED
  BY <1>2, <1>3, <1>4, <1>5, <1>6

LEMMA AnOutcomeIsTrue ==
  ASSUME NEW path \in DOMAIN shelf, IsReport(shelf[path]), settings.mode \in Modes
  PROVE  IsTrue(path, PrepareOne(path))
<1> DEFINE media  == ConvertDocument(shelf[path])
           policy == PlanningPolicy(path, Selection(media, path))
           built  == Build(media, path, policy)
<1>1. CASE ~ Readable(shelf[path])
  <2>1. PrepareOne(path) = Failed("Probe")
    BY <1>1 DEF PrepareOne
  <2> QED
    BY <2>1 DEF Failed, IsTrue, StageCodes
<1>2. CASE Readable(shelf[path]) /\ SelectionFails(media, path)
  <2>1. PrepareOne(path) = Failed("Selection")
    BY <1>2 DEF PrepareOne, OutcomeOfMedia
  <2> QED
    BY <2>1 DEF Failed, IsTrue, StageCodes
<1>3. CASE Readable(shelf[path]) /\ ~ SelectionFails(media, path)
  <2>1. Plannable(media)
    BY <1>3, ReportsCanBePlanned
  <2>2. /\ policy.mode = settings.mode
        /\ policy.output = ResolveOutput(path)
        /\ policy.compat = settings.compat
        /\ policy.action = IF command.remux THEN "Remux" ELSE "Convert"
    BY DEF PlanningPolicy
  <2>3. ModeOf(policy) = Mode
    BY <2>2 DEF ModeOf, Mode
  <2>4. PrepareOne(path) = CASE built.result = "Execute" -> OutcomeOfPlan(built.plan)
                             [] built.result = "Skip"    -> Skipped
                             [] built.result = "Error"   -> Failed("Plan")
    BY <1>3 DEF PrepareOne, OutcomeOfMedia
  <2> HIDE DEF policy, media
  <2>5. /\ built.result \in {"Execute", "Skip", "Error"}
        /\ built.result = "Execute" => /\ Keeps(built.plan, media, ModeOf(policy))
                                       /\ built.plan.output = policy.output
        /\ built.result = "Skip" => /\ policy.action = "Convert"
                                    /\ Incompatible(media, policy) = {}
    BY <2>1, <2>2, PlansKeep
  <2> HIDE DEF built
  <2>6. CASE built.result = "Execute"
    <3>1. PrepareOne(path) = OutcomeOfPlan(built.plan)
      BY <2>4, <2>6
    <3> QED
      BY <2>2, <2>3, <2>5, <2>6, <3>1, AnOutcomeOfAPlan DEF media
  <2>7. CASE built.result = "Skip"
    <3>1. PrepareOne(path) = Skipped
      BY <2>4, <2>7
    <3>2. ~ command.remux
      BY <2>2, <2>5, <2>7
    <3>3. \A i \in Audio(media) : Compatible(settings.compat, media.streams[i])
      BY <2>2, <2>5, <2>7 DEF Incompatible
    <3>4. Answered(path)
      BY <3>2, <3>3 DEF Answered, media
    <3> QED
      BY <3>1, <3>4 DEF Skipped, IsTrue
  <2>8. CASE built.result = "Error"
    <3>1. PrepareOne(path) = Failed("Plan")
      BY <2>4, <2>8
    <3> QED
      BY <3>1 DEF Failed, IsTrue, StageCodes
  <2> QED
    BY <2>5, <2>6, <2>7, <2>8
<1> QED
  BY <1>1, <1>2, <1>3

-----------------------------------------------------------------------------
(* Whatever FFmpeg writes, FFprobe reports a list of streams.              *)
LEMMA FunctionsAreLists ==
  ASSUME NEW k \in Nat, NEW f, f = [i \in 1 .. k |-> f[i]]
  PROVE  IsList(f) /\ Len(f) = k
<1> DEFINE T == {f[i] : i \in 1 .. k}
<1>1. f \in [1 .. k -> T]
  OBVIOUS
<1> HIDE DEF T
<1>2. f \in Seq(T) /\ DOMAIN f = 1 .. k
  BY <1>1
<1>3. Len(f) = k
  BY <1>2
<1> QED
  BY <1>2, <1>3 DEF IsList

LEMMA StreamsReplaced ==
  ASSUME NEW report, IsReport(report), NEW streams, IsList(streams)
  PROVE  IsReport([report EXCEPT !.streams = streams])
BY DEF IsReport

LEMMA MuxesAreReports ==
  ASSUME NEW report, IsReport(report), NEW plan, Listed(plan.operations)
  PROVE  LET muxed == Mux(report, Arguments(plan)) IN
           /\ IsReport(muxed)
           /\ DOMAIN muxed.streams = DOMAIN plan.operations
           /\ muxed.streams = [i \in DOMAIN muxed.streams |-> muxed.streams[i]]
<1> DEFINE muxed == Mux(report, Arguments(plan))
<1>1. PICK k \in Nat : DOMAIN plan.operations = 1 .. k /\ DOMAIN Arguments(plan).map = 1 .. k
  BY DEF Listed, Arguments
<1>2. PICK f : /\ muxed = [report EXCEPT !.streams = f]
               /\ f = [i \in 1 .. k |-> f[i]]
  <2> DEFINE all == muxed.streams
  <2>1. muxed = [report EXCEPT !.streams = all]
    BY DEF Mux, IsReport
  <2>2. all = [i \in 1 .. k |-> all[i]]
    BY <1>1 DEF Mux, IsReport
  <2> QED
    BY <2>1, <2>2
<1>3. IsList(f) /\ Len(f) = k
  BY <1>2, FunctionsAreLists
<1>4. muxed.streams = f
  BY <1>2 DEF IsReport
<1> HIDE DEF muxed
<1>5. IsReport(muxed)
  BY <1>2, <1>3, StreamsReplaced
<1>6. DOMAIN muxed.streams = 1 .. k
  BY <1>2, <1>4
<1>7. muxed.streams = [i \in DOMAIN muxed.streams |-> muxed.streams[i]]
  BY <1>2, <1>4, <1>6
<1> QED
  BY <1>1, <1>5, <1>6, <1>7 DEF muxed

LEMMA ReportsOfOutputs ==
  ASSUME NEW report, IsReport(report), NEW plan, Listed(plan.operations), NEW damage
  PROVE  IsReport(Damage(Mux(report, Arguments(plan)), damage))
<1> DEFINE muxed == Mux(report, Arguments(plan))
           k     == Len(muxed.streams)
<1>1. /\ IsReport(muxed) /\ k \in Nat
      /\ muxed.streams = [i \in 1 .. k |-> muxed.streams[i]]
  BY MuxesAreReports DEF IsReport, IsList
<1> HIDE DEF muxed
<1>2. IsList(WithoutLast(muxed.streams))
  <2> DEFINE T == {muxed.streams[i] : i \in 1 .. k}
  <2>1. muxed.streams \in [1 .. k -> T]
    BY <1>1
  <2> HIDE DEF T
  <2>2. muxed.streams \in Seq(T)
    BY <2>1
  <2>3. WithoutLast(muxed.streams) \in Seq(T)
    BY <1>1, <2>2 DEF WithoutLast
  <2> QED
    BY <2>3 DEF IsList
<1>3. DOMAIN muxed.streams = 1 .. k
  BY <1>1
<1>4. IsList(WithoutDefaults(muxed.streams))
  <2>1. WithoutDefaults(muxed.streams)
          = [i \in 1 .. k |-> WithoutDefaults(muxed.streams)[i]]
    BY <1>3 DEF WithoutDefaults
  <2> QED
    BY <2>1, FunctionsAreLists
<1>5. IsList(Delayed(muxed.streams))
  <2>1. Delayed(muxed.streams) = [i \in 1 .. k |-> Delayed(muxed.streams)[i]]
    BY <1>3 DEF Delayed
  <2> QED
    BY <2>1, FunctionsAreLists
<1>6. IsList(DamagedStreams(muxed.streams, damage))
  BY <1>1, <1>2, <1>4, <1>5 DEF DamagedStreams, IsReport
<1>7. /\ DOMAIN Damage(muxed, damage) = DOMAIN muxed
      /\ Damage(muxed, damage).streams = DamagedStreams(muxed.streams, damage)
  BY <1>1 DEF Damage, IsReport
<1> QED
  BY <1>1, <1>6, <1>7 DEF IsReport, muxed

LEMMA FoundFilesExist ==
  ASSUME NEW c \in Commands, Discoverable(Disk, c.request)
  PROVE  Discovered(Disk, c.request) \subseteq DOMAIN shelf
<1> DEFINE request == c.request
<1>1. Disk.files = DOMAIN shelf
  BY DEF Disk
<1>2. ASSUME NEW root \in request.roots
      PROVE  Collected(Disk, root, request) \subseteq DOMAIN shelf
  <2>1. RootCollects(Disk, root, request)
    BY DEF Discoverable
  <2>2. CASE root.kind = "path"
    BY <1>1, <2>1, <2>2 DEF RootCollects, PathCollects, Collected, Named
  <2>3. CASE root.kind = "dir"
    BY <1>1, <2>3 DEF Collected, Walk
  <2>4. CASE root.kind = "glob"
    <3>1. \A dir : Walk(Disk, dir, request) \subseteq DOMAIN shelf
      BY <1>1 DEF Walk
    <3>2. Named(Globbed(Disk, root), request) \subseteq DOMAIN shelf
      BY <1>1 DEF Named, Globbed
    <3> QED
      BY <2>4, <3>1, <3>2 DEF Collected
  <2> QED
    BY <2>2, <2>3, <2>4, CommandsAssumption
<1> QED
  BY <1>2 DEF Discovered

-----------------------------------------------------------------------------
(* The invariant holds at first, and every action keeps it.                *)
LEMMA IInvAtFirst == Init => IInv
<1> SUFFICES ASSUME Init PROVE IInv
  OBVIOUS
<1>1. fate = <<>> /\ DOMAIN fate = {}
  BY DEF Init
<1>2. ReportsAreReports
  BY ShelvesAssumption DEF Init, ReportsAreReports
<1>3. FilesAreFound /\ ModeIsKnown /\ FatesAreTrue /\ CodeIsTrue
  BY <1>1 DEF FilesAreFound, ModeIsKnown, FatesAreTrue, CodeIsTrue
<1>4. PhasesAreOver
  BY <1>1 DEF PhasesAreOver, Are
<1>5. NothingLost
  BY DEF Init, NothingLost
<1> QED
  BY <1>2, <1>3, <1>4, <1>5 DEF IInv

LEMMA RefuseKeeps ==
  ASSUME IInv, NEW c, NEW environment, NEW file, NEW toolchain,
         Refuse(c, environment, file, toolchain)
  PROVE  IInv'
<1>1. DOMAIN fate' = {} /\ UNCHANGED <<shelf, made>>
  BY DEF Refuse
<1>2. ReportsAreReports' /\ NothingLost'
  BY <1>1 DEF IInv, ReportsAreReports, NothingLost
<1>3. FilesAreFound' /\ ModeIsKnown' /\ FatesAreTrue' /\ CodeIsTrue'
  BY <1>1 DEF FilesAreFound, ModeIsKnown, FatesAreTrue, CodeIsTrue
<1>4. PhasesAreOver'
  BY <1>1 DEF PhasesAreOver, Are
<1> QED
  BY <1>2, <1>3, <1>4 DEF IInv

LEMMA BeginKeeps ==
  ASSUME IInv, NEW c \in Commands, NEW environment, NEW file, NEW toolchain,
         Begin(c, environment, file, toolchain)
  PROVE  IInv'
<1>1. /\ UNCHANGED <<shelf, made>>
      /\ phase' = "preparing"
      /\ settings' = Settings(c.options, environment, file)
      /\ fate' = [path \in Discovered(Disk, c.request) |-> Waiting]
      /\ Refusal(c, environment, file, toolchain) = 0
  BY DEF Begin
<1>2. ReportsAreReports' /\ NothingLost'
  BY <1>1 DEF IInv, ReportsAreReports, NothingLost
<1>3. Discoverable(Disk, c.request)
  BY <1>1 DEF Refusal
<1>4. FilesAreFound'
  BY <1>1, <1>3, FoundFilesExist DEF FilesAreFound
<1>5. ModeIsKnown'
  <2>1. ConfigLoads(c.options, environment, file, c.required)
    BY <1>1 DEF Refusal
  <2>2. Merged(c.options, environment, file.layer).mode \in Modes
    BY <2>1 DEF ConfigLoads, SettingsValid, Modes
  <2>3. settings'.mode \in Modes
    BY <1>1, <2>2 DEF Settings
  <2> QED
    BY <2>3 DEF ModeIsKnown
<1>6. \A path \in DOMAIN fate' : fate'[path] = Waiting
  BY <1>1
<1>7. FatesAreTrue'
  BY <1>6 DEF FatesAreTrue, IsTrue, Waiting
<1>8. PhasesAreOver' /\ CodeIsTrue'
  BY <1>1 DEF PhasesAreOver, CodeIsTrue
<1> QED
  BY <1>2, <1>4, <1>5, <1>7, <1>8 DEF IInv

(* A step that decides one file.                                           *)
LEMMA DecideKeeps ==
  ASSUME IInv, ShelfGrows, ReportsAreReports', NothingLost',
         UNCHANGED <<phase, command, settings, cancelled, code>>,
         NEW path \in DOMAIN fate, NEW outcome,
         Decide(path, outcome), IsTrue(path, outcome)',
         \/ phase = "preparing" /\ fate[path].is = "waiting"
         \/ phase = "executing" /\ fate[path].is = "ready" /\ outcome.is # "waiting"
  PROVE  IInv'
<1>1. FatesAreTrue' /\ DOMAIN fate' = DOMAIN fate
  BY DecisionsAreTrue DEF IInv, SameCommand
<1>2. FilesAreFound'
  BY <1>1 DEF IInv, FilesAreFound, ShelfGrows
<1>3. ModeIsKnown'
  BY <1>1 DEF IInv, ModeIsKnown
<1>4. CodeIsTrue'
  BY DEF CodeIsTrue
<1>5. PhasesAreOver'
  BY <1>1 DEF IInv, PhasesAreOver, Are, Decide, Cancelled
<1> QED
  BY <1>1, <1>2, <1>3, <1>4, <1>5 DEF IInv

LEMMA PrepareKeeps ==
  ASSUME IInv, NEW path \in DOMAIN fate, Prepare(path)
  PROVE  IInv'
<1>1. /\ UNCHANGED <<shelf, phase, command, settings, cancelled, code, made>>
      /\ phase = "preparing"
      /\ fate[path] = Waiting
  BY DEF Prepare
<1>2. PICK outcome : outcome = PrepareOne(path)
  OBVIOUS
<1>3. Decide(path, outcome)
  BY <1>2 DEF Prepare
<1>4. ReportsAreReports' /\ NothingLost' /\ ShelfGrows
  BY <1>1 DEF IInv, ReportsAreReports, NothingLost, ShelfGrows
<1>5. path \in DOMAIN shelf /\ IsReport(shelf[path]) /\ settings.mode \in Modes
  BY DEF IInv, FilesAreFound, ReportsAreReports, ModeIsKnown
<1>6. IsTrue(path, outcome)
  BY <1>2, <1>5, AnOutcomeIsTrue
<1>7. Are({"failed"}) # {} => Are({"failed"})' # {}
  BY <1>1, <1>3 DEF Are, Decide, Waiting
<1>8. IsTrue(path, outcome)'
  BY <1>1, <1>4, <1>5, <1>6, <1>7, TruthStays DEF SameCommand
<1> QED
  BY <1>1, <1>3, <1>4, <1>8, DecideKeeps DEF Waiting

LEMMA ToolFailsKeeps ==
  ASSUME IInv, NEW path \in DOMAIN fate, ToolFails(path)
  PROVE  IInv'
<1> DEFINE outcome == Failed("Execute")
<1>1. /\ UNCHANGED <<shelf, phase, command, settings, cancelled, code, made>>
      /\ phase = "executing"
      /\ fate[path].is = "ready"
      /\ Decide(path, outcome)
  BY DEF ToolFails
<1>2. ReportsAreReports' /\ NothingLost' /\ ShelfGrows
  BY <1>1 DEF IInv, ReportsAreReports, NothingLost, ShelfGrows
<1>3. IsTrue(path, outcome)' /\ outcome.is = "failed"
  BY DEF IsTrue, Failed, StageCodes
<1> QED
  BY <1>1, <1>2, <1>3, DecideKeeps

LEMMA TranscodeKeeps ==
  ASSUME IInv, NEW path \in DOMAIN fate, NEW damage, Transcode(path, damage)
  PROVE  IInv'
<1> DEFINE plan   == fate[path].plan
           staged == Damage(Mux(shelf[path], Arguments(plan)), damage)
           m      == [source |-> shelf[path], output |-> staged, mode |-> Mode,
                      settings |-> settings]
<1>1. /\ UNCHANGED <<phase, command, settings, cancelled, code>>
      /\ phase = "executing"
      /\ fate[path].is = "ready"
  BY DEF Transcode
<1>2. ShelfGrows
  BY TranscodingAdds
<1>3. path \in DOMAIN shelf /\ IsReport(shelf[path])
  BY DEF IInv, FilesAreFound, ReportsAreReports
<1>4. /\ Keeps(plan, ConvertDocument(shelf[path]), Mode)
      /\ plan.output = ResolveOutput(path)
  BY <1>1 DEF IInv, FatesAreTrue, IsTrue
<1>5. IsReport(staged)
  BY <1>3, <1>4, ReportsOfOutputs DEF Keeps
<1>6. CASE Publishable(plan, staged)
  <2>1. /\ Decide(path, Succeeded)
        /\ shelf' = [p \in DOMAIN shelf \cup {plan.output} |->
                       IF p = plan.output THEN staged ELSE shelf[p]]
        /\ made' = made \cup {m}
    BY <1>6 DEF Transcode
  <2>2. Validates(plan, ConvertDocument(staged)) /\ plan.output \notin DOMAIN shelf
    BY <1>6 DEF Publishable
  <2> HIDE DEF staged, plan
  <2>3. ReportsAreReports'
    BY <1>5, <2>1 DEF IInv, ReportsAreReports
  <2>4. Kept(m)
    BY <1>4, <2>2, ValidOutputsAreKept
  <2>5. NothingLost'
    <3> HIDE DEF m
    <3> QED
      BY <2>1, <2>4 DEF IInv, NothingLost
  <2>6. Answered(path)'
    <3>1. /\ ResolveOutput(path)' = ResolveOutput(path)
          /\ Mode' = Mode
      BY <1>1 DEF ResolveOutput, Mode
    <3>2. ResolveOutput(path) \in DOMAIN shelf' /\ shelf'[ResolveOutput(path)] = staged
      BY <1>4, <2>1
    <3>3. shelf'[path] = shelf[path]
      BY <1>2, <1>3 DEF ShelfGrows
    <3>4. Kept([source |-> shelf[path], output |-> staged, mode |-> Mode])
      BY <1>4, <2>2, ValidOutputsAreKept
    <3> QED
      BY <3>1, <3>2, <3>3, <3>4 DEF Answered
  <2>7. IsTrue(path, Succeeded)' /\ Succeeded.is = "succeeded"
    BY <2>6 DEF IsTrue, Succeeded
  <2> QED
    BY <1>1, <1>2, <2>1, <2>3, <2>5, <2>7, DecideKeeps
<1>7. CASE ~ Publishable(plan, staged)
  <2>1. Decide(path, Failed("Execute")) /\ UNCHANGED <<shelf, made>>
    BY <1>7 DEF Transcode
  <2>2. ReportsAreReports' /\ NothingLost'
    BY <2>1 DEF IInv, ReportsAreReports, NothingLost
  <2>3. IsTrue(path, Failed("Execute"))' /\ Failed("Execute").is = "failed"
    BY DEF IsTrue, Failed, StageCodes
  <2> QED
    BY <1>1, <1>2, <2>1, <2>2, <2>3, DecideKeeps
<1> QED
  BY <1>6, <1>7

(* A step that decides the files that have not been, and no others.        *)
LEMMA EnterExecutionKeeps ==
  ASSUME IInv, EnterExecution
  PROVE  IInv'
<1>1. /\ UNCHANGED <<shelf, command, settings, cancelled, code, made>>
      /\ phase' = "executing"
      /\ Are({"waiting"}) = {}
      /\ DOMAIN fate' = DOMAIN fate
  BY DEF EnterExecution
<1>2. \A path \in DOMAIN fate :
        \/ fate'[path] = Failed("Conflict") /\ path \in Colliding
        \/ fate'[path] = Cancelled /\ Colliding # {}
        \/ fate'[path] = fate[path] /\ path \notin Colliding
  BY DEF EnterExecution
<1>3. ReportsAreReports' /\ NothingLost' /\ ShelfGrows
  BY <1>1 DEF IInv, ReportsAreReports, NothingLost, ShelfGrows
<1>4. FilesAreFound' /\ ModeIsKnown' /\ CodeIsTrue'
  BY <1>1 DEF IInv, FilesAreFound, ModeIsKnown, CodeIsTrue
<1>5. Colliding \subseteq Are({"ready"}) /\ Are({"ready"}) \subseteq DOMAIN fate
  BY DEF Colliding, Are
<1>6. Colliding # {} => Are({"failed"})' # {}
  <2>1. \A path \in Colliding : fate'[path] = Failed("Conflict")
    BY <1>5 DEF EnterExecution
  <2> QED
    BY <1>1, <1>5, <2>1 DEF Are, Failed
<1>7. Are({"failed"}) # {} => Are({"failed"})' # {}
  <2>1. \A path \in DOMAIN fate : fate[path].is = "failed" => fate'[path] = fate[path]
    BY <1>5 DEF EnterExecution, Are
  <2> QED
    BY <1>1, <2>1 DEF Are
<1>8. ASSUME NEW path \in DOMAIN fate
      PROVE  IsTrue(path, fate[path])'
  <2>1. CASE fate'[path] = Failed("Conflict")
    BY <2>1 DEF IsTrue, Failed, StageCodes
  <2>2. CASE fate'[path] = Cancelled /\ Colliding # {}
    BY <1>6, <2>2 DEF IsTrue, Cancelled
  <2>3. CASE fate'[path] = fate[path]
    <3>1. PICK same : same = fate[path]
      OBVIOUS
    <3>2. IsTrue(path, same)
      BY <3>1 DEF IInv, FatesAreTrue
    <3>3. IsTrue(path, same)'
      BY <1>1, <1>3, <1>7, <3>2, TruthStays DEF IInv, FilesAreFound, SameCommand
    <3> QED
      BY <2>3, <3>1, <3>3 DEF IsTrue
  <2> QED
    BY <1>2, <2>1, <2>2, <2>3
<1>9. FatesAreTrue'
  BY <1>1, <1>8 DEF FatesAreTrue
<1>10. PhasesAreOver'
  BY <1>1, <1>2 DEF PhasesAreOver, Are, Failed, Cancelled
<1> QED
  BY <1>3, <1>4, <1>9, <1>10 DEF IInv

LEMMA InterruptKeeps ==
  ASSUME IInv, Interrupt
  PROVE  IInv'
<1>1. /\ UNCHANGED <<shelf, phase, command, settings, code, made>>
      /\ cancelled' = TRUE
      /\ phase # "idle"
      /\ DOMAIN fate' = DOMAIN fate
      /\ \A path \in DOMAIN fate : fate'[path] \in {fate[path], Cancelled}
  BY DEF Interrupt
<1>2. ReportsAreReports' /\ NothingLost' /\ ShelfGrows
  BY <1>1 DEF IInv, ReportsAreReports, NothingLost, ShelfGrows
<1>3. FilesAreFound' /\ ModeIsKnown' /\ CodeIsTrue'
  BY <1>1 DEF IInv, FilesAreFound, ModeIsKnown, CodeIsTrue
<1>4. ASSUME NEW path \in DOMAIN fate
      PROVE  IsTrue(path, fate[path])'
  <2>1. CASE fate'[path] = Cancelled
    BY <1>1, <2>1 DEF IsTrue, Cancelled
  <2>2. CASE fate'[path] = fate[path]
    <3>1. PICK same : same = fate[path]
      OBVIOUS
    <3>2. IsTrue(path, same)
      BY <3>1 DEF IInv, FatesAreTrue
    <3>3. IsTrue(path, same)'
      BY <1>1, <1>2, <3>2, TruthStays DEF IInv, FilesAreFound, SameCommand
    <3> QED
      BY <2>2, <3>1, <3>3 DEF IsTrue
  <2> QED
    BY <1>1, <2>1, <2>2
<1>5. FatesAreTrue'
  BY <1>1, <1>4 DEF FatesAreTrue
<1>6. PhasesAreOver'
  BY <1>1 DEF IInv, PhasesAreOver, Are, Cancelled
<1> QED
  BY <1>2, <1>3, <1>5, <1>6 DEF IInv

LEMMA FinishKeeps ==
  ASSUME IInv, Finish
  PROVE  IInv'
<1>1. /\ UNCHANGED <<shelf, command, settings, fate, cancelled, made>>
      /\ phase = "executing" /\ phase' = "idle"
      /\ Are({"ready"}) = {}
      /\ code' = IF cancelled THEN 130 ELSE BatchCode
  BY DEF Finish
<1>2. ReportsAreReports' /\ NothingLost' /\ FilesAreFound' /\ ModeIsKnown'
  BY <1>1 DEF IInv, ReportsAreReports, NothingLost, FilesAreFound, ModeIsKnown
<1>3. Are({"failed"})' = Are({"failed"}) /\ ShelfGrows
  BY <1>1 DEF Are, ShelfGrows
<1>4. ASSUME NEW path \in DOMAIN fate
      PROVE  IsTrue(path, fate[path])'
  <2>1. PICK same : same = fate[path]
    OBVIOUS
  <2>2. IsTrue(path, same)
    BY <2>1 DEF IInv, FatesAreTrue
  <2>3. IsTrue(path, same)'
    BY <1>1, <1>3, <2>2, TruthStays DEF IInv, FilesAreFound, SameCommand
  <2> QED
    BY <1>1, <2>1, <2>3 DEF IsTrue
<1>5. FatesAreTrue'
  BY <1>1, <1>4 DEF FatesAreTrue
<1>6. PhasesAreOver'
  BY <1>1 DEF IInv, PhasesAreOver, Are
<1>7. \A path \in Are({"failed"}) : StageCodes[fate[path].stage] # 0
  <2>1. \A stage \in DOMAIN StageCodes : StageCodes[stage] # 0
    BY DEF StageCodes
  <2> QED
    BY <2>1 DEF IInv, FatesAreTrue, IsTrue, Are
<1>8. ASSUME code' = 0
      PROVE  ~ cancelled /\ Are({"failed"}) = {}
  <2>1. ~ cancelled /\ BatchCode = 0
    BY <1>1, <1>8
  <2> QED
    BY <1>7, <2>1 DEF BatchCode
<1>9. CodeIsTrue'
  <2>1. \A path \in DOMAIN fate : fate[path].is \notin {"waiting", "ready"}
    BY <1>1 DEF IInv, PhasesAreOver, Are
  <2>2. \A path \in DOMAIN fate : Are({"failed"}) = {} => fate[path].is # "failed"
    BY DEF Are
  <2> QED
    BY <1>1, <1>8, <2>1, <2>2 DEF CodeIsTrue, IInv, FatesAreTrue, IsTrue
<1> QED
  BY <1>2, <1>5, <1>6, <1>9 DEF IInv

LEMMA StutteringKeeps == IInv /\ UNCHANGED vars => IInv'
<1> SUFFICES ASSUME IInv, UNCHANGED vars PROVE IInv'
  OBVIOUS
<1> QED
  BY DEF vars, IInv, ReportsAreReports, FilesAreFound, ModeIsKnown, FatesAreTrue, IsTrue,
         PhasesAreOver, CodeIsTrue, NothingLost, Answered, Are, Mode, ResolveOutput, StageCodes

THEOREM Invariance == Spec => []IInv
<1>1. ASSUME IInv, [Next]_vars
      PROVE  IInv'
  <2>1. CASE \E c \in Commands, environment \in Environments, file \in ConfigFiles,
                toolchain \in Toolchains :
               Refuse(c, environment, file, toolchain) \/ Begin(c, environment, file, toolchain)
    BY <1>1, <2>1, RefuseKeeps, BeginKeeps
  <2>2. CASE \E path \in DOMAIN fate : Step(path)
    BY <1>1, <2>2, PrepareKeeps, ToolFailsKeeps, TranscodeKeeps DEF Step
  <2>3. CASE EnterExecution
    BY <1>1, <2>3, EnterExecutionKeeps
  <2>4. CASE Interrupt
    BY <1>1, <2>4, InterruptKeeps
  <2>5. CASE Finish
    BY <1>1, <2>5, FinishKeeps
  <2>6. CASE UNCHANGED vars
    BY <1>1, <2>6, StutteringKeeps
  <2> QED
    BY <1>1, <2>1, <2>2, <2>3, <2>4, <2>5, <2>6 DEF Next
<1> QED
  BY <1>1, IInvAtFirst, PTL DEF Spec

(* Whatever FFmpeg gets wrong, a published output has every stream that    *)
(* its mode promises to preserve: validate_output lets nothing else pass.  *)
THEOREM NothingIsLost == Spec => []NothingLost
<1>1. IInv => NothingLost
  BY DEF IInv
<1> QED
  BY <1>1, Invariance, PTL

(* Exit code 0 is only given when every file that was found plays as it is *)
(* or has its output.                                                      *)
THEOREM ExitCodesTell == Spec => []ExitCodeTells
<1>1. IInv => ExitCodeTells
  BY DEF IInv, CodeIsTrue, FatesAreTrue, IsTrue, ExitCodeTells
<1> QED
  BY <1>1, Invariance, PTL

(* No command replaces, changes or removes a file.                         *)
THEOREM NothingIsReplaced == Spec => [][ShelfGrows]_vars
<1>1. [Next]_vars => [ShelfGrows]_vars
  BY TheShelfGrows
<1> QED
  BY <1>1, PTL DEF Spec

-----------------------------------------------------------------------------
(* What can be heard of an output.                                         *)

MostChannels(target) == IF target.layout = "stereo" THEN 2 ELSE 6

(* The profile accepts what the operation leaves, if it accepts the target.*)
Sounds(operation, media, s) ==
  IF operation.encode
  THEN operation.target = s.target /\ operation.channels \in 1 .. MostChannels(s.target)
  ELSE Compatible(s.compat, SourceOf(media, operation))

IsHeard(operation, media) == ExpectedStream(media, operation).kind = "audio"
IsFirst(operation, media) == /\ IsHeard(operation, media)
                             /\ IsDefault(ExpectedStream(media, operation))

(* An operation is about a stream of the source; audio is made of audio.   *)
HasSource(operation, media) ==
  \E i \in DOMAIN media.streams :
    /\ operation.source = media.streams[i].index
    /\ operation.encode => IsAudio(media.streams[i])

WellSourced(operations, media) ==
  /\ Listed(operations)
  /\ \A n \in DOMAIN operations : HasSource(operations[n], media)

WellHeard(operations, media, s, mode) ==
  /\ mode \in {"add", "remux"} =>
       /\ \E n \in DOMAIN operations : IsFirst(operations[n], media)
       /\ \A n \in DOMAIN operations :
            IsFirst(operations[n], media) => Sounds(operations[n], media, s)
  /\ mode \in {"replace", "only-new"} =>
       /\ \E n \in DOMAIN operations : IsHeard(operations[n], media)
       /\ \A n \in DOMAIN operations :
            IsHeard(operations[n], media) => Sounds(operations[n], media, s)
  /\ mode = "remux" => \A n \in DOMAIN operations : ~ operations[n].encode

(* Audio has a number of channels.                                         *)
Countable(media) ==
  \A i \in Audio(media) : media.streams[i].channels \in 1 .. MaxChannels

LEMMA ACopySounds ==
  ASSUME NEW media, Plannable(media), NEW i \in DOMAIN media.streams, NEW flags, NEW s
  PROVE  LET operation == Copy(media.streams[i], flags) IN
           /\ ~ operation.encode
           /\ HasSource(operation, media)
           /\ IsHeard(operation, media) <=> i \in Audio(media)
           /\ ExpectedStream(media, operation).flags = flags
           /\ Sounds(operation, media, s) <=> Compatible(s.compat, media.streams[i])
<1> DEFINE operation == Copy(media.streams[i], flags)
<1>1. /\ operation.source = media.streams[i].index
      /\ operation.encode = FALSE
      /\ operation.flags = flags
  BY DEF Copy
<1> HIDE DEF operation
<1>2. SourceOf(media, operation) = media.streams[i]
  BY <1>1, SourceIsFound
<1>3. /\ ExpectedStream(media, operation).kind = media.streams[i].kind
      /\ ExpectedStream(media, operation).flags = flags
  BY <1>1, <1>2 DEF ExpectedStream
<1>4. HasSource(operation, media)
  BY <1>1 DEF HasSource
<1>5. IsHeard(operation, media) <=> i \in Audio(media)
  BY <1>3 DEF IsHeard, Audio, IsAudio
<1>6. Sounds(operation, media, s) <=> Compatible(s.compat, media.streams[i])
  BY <1>1, <1>2 DEF Sounds
<1> QED
  BY <1>1, <1>3, <1>4, <1>5, <1>6 DEF operation

LEMMA FewChannels ==
  ASSUME NEW target, NEW stream, stream.channels \in 1 .. MaxChannels
  PROVE  EffectiveChannels(target, stream) \in 1 .. MostChannels(target)
<1>1. PICK k : k = stream.channels /\ k \in 1 .. MaxChannels
  OBVIOUS
<1>2. k \in Nat /\ 1 <= k
  BY <1>1
<1>3. Smaller(k, 6) \in 1 .. 6
  BY <1>2 DEF Smaller
<1> QED
  BY <1>1, <1>3 DEF EffectiveChannels, MostChannels

LEMMA ADerivativeSounds ==
  ASSUME NEW media, Plannable(media), Countable(media), NEW i \in Audio(media), NEW flags,
         NEW s
  PROVE  LET operation == Encode(s.target, media.streams[i], flags) IN
           /\ operation.encode
           /\ HasSource(operation, media)
           /\ IsHeard(operation, media)
           /\ ExpectedStream(media, operation).flags = flags
           /\ Sounds(operation, media, s)
<1> DEFINE operation == Encode(s.target, media.streams[i], flags)
<1>1. /\ operation.source = media.streams[i].index
      /\ operation.encode = TRUE
      /\ operation.flags = flags
      /\ operation.target = s.target
      /\ operation.channels = EffectiveChannels(s.target, media.streams[i])
  BY DEF Encode
<1> HIDE DEF operation
<1>2. i \in DOMAIN media.streams /\ IsAudio(media.streams[i])
  BY DEF Audio
<1>3. /\ ExpectedStream(media, operation).kind = "audio"
      /\ ExpectedStream(media, operation).flags = flags
  BY <1>1 DEF ExpectedStream
<1>4. HasSource(operation, media)
  BY <1>1, <1>2 DEF HasSource
<1>5. operation.channels \in 1 .. MostChannels(s.target)
  BY <1>1, FewChannels DEF Countable
<1> QED
  BY <1>1, <1>3, <1>4, <1>5 DEF operation, IsHeard, Sounds

LEMMA TailsJoin ==
  ASSUME NEW s, IsList(s), s = [i \in DOMAIN s |-> s[i]],
         NEW t, IsList(t), t = [i \in DOMAIN t |-> t[i]]
  PROVE  \A n \in DOMAIN (s \o t) :
           \/ n \in DOMAIN s /\ (s \o t)[n] = s[n]
           \/ \E k \in DOMAIN t : n = Len(s) + k /\ (s \o t)[n] = t[k]
<1> DEFINE T == {s[i] : i \in DOMAIN s} \cup {t[i] : i \in DOMAIN t}
<1>1. s \in [1 .. Len(s) -> T] /\ Len(s) \in Nat
  BY DEF IsList
<1>2. t \in [1 .. Len(t) -> T] /\ Len(t) \in Nat
  BY DEF IsList
<1>3. s \in Seq(T) /\ t \in Seq(T)
  BY <1>1, <1>2
<1> HIDE DEF T
<1>4. ASSUME NEW n \in DOMAIN (s \o t), n \notin DOMAIN s
      PROVE  \E k \in DOMAIN t : n = Len(s) + k /\ (s \o t)[n] = t[k]
  <2>1. n \in 1 .. (Len(s) + Len(t)) /\ DOMAIN s = 1 .. Len(s) /\ DOMAIN t = 1 .. Len(t)
    BY <1>3
  <2>2. n - Len(s) \in DOMAIN t /\ n = Len(s) + (n - Len(s))
    BY <1>1, <1>2, <1>4, <2>1
  <2>3. (s \o t)[n] = t[n - Len(s)]
    BY <1>3, <1>4, <2>1, <2>2
  <2> QED
    BY <2>2, <2>3
<1>5. \A n \in DOMAIN s : (s \o t)[n] = s[n]
  BY <1>3
<1> QED
  BY <1>4, <1>5

LEMMA TailsAreThere ==
  ASSUME NEW s, IsList(s), s = [i \in DOMAIN s |-> s[i]],
         NEW t, IsList(t), t = [i \in DOMAIN t |-> t[i]]
  PROVE  \A k \in DOMAIN t : /\ Len(s) + k \in DOMAIN (s \o t)
                             /\ (s \o t)[Len(s) + k] = t[k]
<1> DEFINE T == {s[i] : i \in DOMAIN s} \cup {t[i] : i \in DOMAIN t}
<1>1. s \in [1 .. Len(s) -> T] /\ Len(s) \in Nat
  BY DEF IsList
<1>2. t \in [1 .. Len(t) -> T] /\ Len(t) \in Nat
  BY DEF IsList
<1>3. s \in Seq(T) /\ t \in Seq(T)
  BY <1>1, <1>2
<1> HIDE DEF T
<1> QED
  BY <1>3

(* Adding: the default audio of the source, or what was made of it, is the *)
(* default audio of the output.                                            *)
LEMMA AddSounds ==
  ASSUME NEW media, Plannable(media), Countable(media), NEW policy, NEW s,
         s.compat = policy.compat, s.target = policy.target,
         Incompatible(media, policy) # {}
  PROVE  LET operations == AddOperations(media, policy) IN
           /\ WellSourced(operations, media)
           /\ WellHeard(operations, media, s, "add")
<1> DEFINE streams    == media.streams
           U          == Incompatible(media, policy)
           derived    == Ordered(U)
           copies     == [i \in DOMAIN streams |-> CopiedBeside(media, policy, i)]
           encodes    == [n \in DOMAIN derived |->
                            DerivedBeside(media, policy, derived[n], n = 1)]
           operations == AddOperations(media, policy)
<1>1. Len(streams) \in Nat /\ U \in SUBSET (1 .. Len(streams)) /\ DOMAIN streams = 1 .. Len(streams)
  BY DEF Incompatible, Audio, Plannable, IsList
<1>2. IsList(derived) /\ DOMAIN derived = 1 .. Cardinality(U) /\ Cardinality(U) \in Nat
  BY <1>1, PositionsOfAList, PlacesAreInOrder
<1>3. U \subseteq Audio(media)
  BY DEF Incompatible
<1>4. \A n \in DOMAIN derived : derived[n] \in U
  <2>1. \A n \in 1 .. Cardinality(U) : Nth(U, n) \in U
    BY <1>1, NthIsInverse
  <2> QED
    BY <1>2, <2>1 DEF Ordered
<1>5. \A i \in U : Place(U, i) \in DOMAIN derived /\ derived[Place(U, i)] = i
  BY <1>1, <1>2, PlacesAreInOrder, NthIsInverse DEF Ordered
<1> HIDE DEF U, derived
<1>6. /\ IsList(copies) /\ copies = [i \in DOMAIN copies |-> copies[i]]
      /\ IsList(encodes) /\ encodes = [i \in DOMAIN encodes |-> encodes[i]]
  BY <1>1, <1>2 DEF IsList
<1>7. operations = copies \o encodes
  BY DEF AddOperations, derived, U
<1>8. ASSUME NEW i \in DOMAIN streams
      PROVE  /\ HasSource(copies[i], media)
             /\ IsHeard(copies[i], media) => i \in Audio(media)
             /\ IsFirst(copies[i], media) => i \notin U /\ Sounds(copies[i], media, s)
             /\ i \in Audio(media) \ U /\ IsDefault(streams[i]) => IsFirst(copies[i], media)
  <2>1. PICK flags : /\ copies[i] = Copy(streams[i], flags)
                     /\ i \in U => "default" \notin flags
                     /\ i \notin U => flags = streams[i].flags
    BY DEF CopiedBeside, WithDefault, U
  <2>2. i \in Audio(media) \ U => Compatible(s.compat, streams[i])
    BY DEF U, Incompatible
  <2> HIDE DEF copies
  <2>3. /\ HasSource(copies[i], media)
        /\ IsHeard(copies[i], media) <=> i \in Audio(media)
        /\ ExpectedStream(media, copies[i]).flags = flags
        /\ Sounds(copies[i], media, s) <=> Compatible(s.compat, streams[i])
    BY <2>1, ACopySounds
  <2> QED
    BY <2>1, <2>2, <2>3 DEF IsFirst, IsDefault
<1>9. ASSUME NEW n \in DOMAIN encodes
      PROVE  /\ HasSource(encodes[n], media)
             /\ Sounds(encodes[n], media, s)
             /\ IsDefault(streams[derived[n]]) => IsFirst(encodes[n], media)
             /\ (\A j \in Audio(media) : ~ IsDefault(streams[j])) /\ n = 1 => IsFirst(encodes[n], media)
  <2>1. derived[n] \in Audio(media)
    BY <1>3, <1>4
  <2>2. PICK flags : /\ encodes[n] = Encode(s.target, streams[derived[n]], flags)
                     /\ IsDefault(streams[derived[n]]) => "default" \in flags
                     /\ (\A j \in Audio(media) : ~ IsDefault(streams[j])) /\ n = 1 => "default" \in flags
    BY DEF DerivedBeside, WithDefault
  <2> HIDE DEF encodes
  <2> QED
    BY <2>1, <2>2, ADerivativeSounds DEF IsFirst, IsDefault
<1>10. DOMAIN encodes = DOMAIN derived /\ DOMAIN copies = DOMAIN streams
  OBVIOUS
<1> HIDE DEF copies, encodes, operations
<1>11. \A n \in DOMAIN operations :
         \/ n \in DOMAIN copies /\ operations[n] = copies[n]
         \/ \E k \in DOMAIN encodes : operations[n] = encodes[k]
  BY <1>6, <1>7, TailsJoin
<1>12. /\ \A i \in DOMAIN copies : i \in DOMAIN operations /\ operations[i] = copies[i]
       /\ \A k \in DOMAIN encodes : \E n \in DOMAIN operations : operations[n] = encodes[k]
  <2>1. DOMAIN copies \subseteq DOMAIN operations
    BY <1>6, <1>7, ListsJoin DEF IsList
  <2>2. \A i \in DOMAIN copies : operations[i] = copies[i]
    BY <1>6, <1>7, ListsJoin
  <2>3. \A k \in DOMAIN encodes : /\ Len(copies) + k \in DOMAIN operations
                                 /\ operations[Len(copies) + k] = encodes[k]
    BY <1>6, <1>7, TailsAreThere
  <2> QED
    BY <2>1, <2>2, <2>3
<1>13. WellSourced(operations, media)
  BY <1>8, <1>9, <1>10, <1>11, OperationsAreListed DEF WellSourced, operations
<1>14. \A n \in DOMAIN operations :
         IsFirst(operations[n], media) => Sounds(operations[n], media, s)
  BY <1>8, <1>9, <1>10, <1>11
<1>15. \E n \in DOMAIN operations : IsFirst(operations[n], media)
  <2>1. CASE \E j \in Audio(media) : IsDefault(streams[j])
    <3>1. PICK j \in Audio(media) : IsDefault(streams[j])
      BY <2>1
    <3>2. CASE j \in U
      BY <1>5, <1>9, <1>10, <1>12, <3>1, <3>2
    <3>3. CASE j \notin U
      <4>1. j \in DOMAIN streams
        BY DEF Audio
      <4> QED
        BY <1>8, <1>10, <1>12, <3>1, <3>3, <4>1
    <3> QED
      BY <3>2, <3>3
  <2>2. CASE \A j \in Audio(media) : ~ IsDefault(streams[j])
    <3>1. 1 \in DOMAIN derived
      <4>1. PICK i \in U : TRUE
        BY DEF U
      <4>2. Place(U, i) \in 1 .. Cardinality(U)
        BY <1>2, <1>5, <4>1
      <4> QED
        BY <1>2, <4>2
    <3> QED
      BY <1>9, <1>10, <1>12, <2>2, <3>1
  <2> QED
    BY <2>1, <2>2
<1> QED
  BY <1>13, <1>14, <1>15 DEF WellHeard, operations

(* A stream where it stands.                                               *)
LEMMA InPlaceSounds ==
  ASSUME NEW media, Plannable(media), Countable(media), NEW policy, NEW s,
         s.compat = policy.compat, s.target = policy.target,
         NEW i \in DOMAIN media.streams
  PROVE  LET operation == InPlace(media, policy, i) IN
           /\ HasSource(operation, media)
           /\ IsHeard(operation, media) <=> i \in Audio(media)
           /\ i \in Audio(media) => Sounds(operation, media, s)
<1> DEFINE stream == media.streams[i]
           operation == InPlace(media, policy, i)
<1>1. CASE i \in Incompatible(media, policy)
  <2>1. operation = Encode(s.target, stream, stream.flags) /\ i \in Audio(media)
    BY <1>1 DEF InPlace, Incompatible
  <2> QED
    BY <2>1, ADerivativeSounds
<1>2. CASE i \notin Incompatible(media, policy)
  <2>1. operation = Copy(stream, stream.flags)
    BY <1>2 DEF InPlace
  <2>2. i \in Audio(media) => Compatible(s.compat, stream)
    BY <1>2 DEF Incompatible
  <2> HIDE DEF operation
  <2>3. /\ HasSource(operation, media)
        /\ IsHeard(operation, media) <=> i \in Audio(media)
        /\ Sounds(operation, media, s) <=> Compatible(s.compat, stream)
    BY <2>1, ACopySounds
  <2> QED
    BY <2>2, <2>3 DEF operation
<1> QED
  BY <1>1, <1>2

LEMMA ReplaceSounds ==
  ASSUME NEW media, Plannable(media), Countable(media), NEW policy, NEW s,
         s.compat = policy.compat, s.target = policy.target,
         Incompatible(media, policy) # {}
  PROVE  LET operations == ReplaceOperations(media, policy) IN
           /\ WellSourced(operations, media)
           /\ WellHeard(operations, media, s, "replace")
<1> DEFINE operations == ReplaceOperations(media, policy)
<1>1. /\ DOMAIN operations = DOMAIN media.streams
      /\ \A i \in DOMAIN operations : operations[i] = InPlace(media, policy, i)
  BY DEF ReplaceOperations
<1>2. Listed(operations)
  BY OperationsAreListed
<1> HIDE DEF operations
<1>3. \A i \in DOMAIN operations :
        /\ HasSource(operations[i], media)
        /\ IsHeard(operations[i], media) <=> i \in Audio(media)
        /\ i \in Audio(media) => Sounds(operations[i], media, s)
  BY <1>1, InPlaceSounds
<1>4. \E i \in DOMAIN operations : i \in Audio(media)
  BY <1>1 DEF Incompatible, Audio
<1> QED
  BY <1>2, <1>3, <1>4 DEF WellSourced, WellHeard, operations

LEMMA OnlyNewSounds ==
  ASSUME NEW media, Plannable(media), Countable(media), NEW policy, NEW s,
         s.compat = policy.compat, s.target = policy.target,
         Incompatible(media, policy) # {}
  PROVE  LET operations == OnlyNewOperations(media, policy) IN
           /\ WellSourced(operations, media)
           /\ WellHeard(operations, media, s, "only-new")
<1> DEFINE streams    == media.streams
           S          == Others(streams) \cup Incompatible(media, policy)
           operations == OnlyNewOperations(media, policy)
<1>1. /\ Len(streams) \in Nat /\ S \in SUBSET (1 .. Len(streams))
      /\ DOMAIN streams = 1 .. Len(streams)
  BY DEF Incompatible, Audio, Others, Plannable, IsList
<1>2. /\ DOMAIN operations = 1 .. Cardinality(S)
      /\ \A n \in DOMAIN operations : operations[n] = InPlace(media, policy, Nth(S, n))
  BY DEF OnlyNewOperations, Ordered
<1>3. Listed(operations)
  BY OperationsAreListed
<1>4. PICK first \in Incompatible(media, policy) : TRUE
  OBVIOUS
<1>5. first \in S /\ first \in Audio(media)
  BY DEF Incompatible
<1> HIDE DEF S, operations
<1>6. \A n \in DOMAIN operations : Nth(S, n) \in DOMAIN streams
  BY <1>1, <1>2, NthIsInverse
<1>7. \A n \in DOMAIN operations :
        /\ HasSource(operations[n], media)
        /\ IsHeard(operations[n], media) <=> Nth(S, n) \in Audio(media)
        /\ Nth(S, n) \in Audio(media) => Sounds(operations[n], media, s)
  BY <1>2, <1>6, InPlaceSounds
<1>8. \E n \in DOMAIN operations : Nth(S, n) \in Audio(media)
  <2>1. Place(S, first) \in DOMAIN operations
    BY <1>1, <1>2, <1>5, PlacesAreInOrder
  <2>2. Nth(S, Place(S, first)) = first
    BY <1>1, <1>5, NthIsInverse
  <2> QED
    BY <1>5, <2>1, <2>2
<1> QED
  BY <1>3, <1>7, <1>8 DEF WellSourced, WellHeard, operations

(* Remuxing makes one track the default one, which the profile accepts.    *)
LEMMA RemuxSounds ==
  ASSUME NEW media, Plannable(media), NEW policy, NEW s, s.compat = policy.compat,
         NEW i \in Audio(media) \ Incompatible(media, policy),
         NEW selected, selected = media.streams[i].index
  PROVE  LET operations == RemuxOperations(media, selected) IN
           /\ WellSourced(operations, media)
           /\ WellHeard(operations, media, s, "remux")
<1> DEFINE streams    == media.streams
           operations == RemuxOperations(media, selected)
<1>1. /\ DOMAIN operations = DOMAIN streams
      /\ Listed(operations)
  BY OperationsAreListed DEF RemuxOperations
<1>2. i \in DOMAIN streams /\ Compatible(s.compat, streams[i])
  BY DEF Audio, Incompatible
<1>3. ASSUME NEW j \in DOMAIN streams
      PROVE  /\ ~ operations[j].encode
             /\ HasSource(operations[j], media)
             /\ IsFirst(operations[j], media) <=> j = i
             /\ j = i => Sounds(operations[j], media, s)
  <2>1. PICK flags : /\ operations[j] = Copy(streams[j], flags)
                     /\ IsAudio(streams[j]) =>
                          ("default" \in flags <=> streams[j].index = selected)
    BY DEF RemuxOperations, WithDefault
  <2>2. streams[j].index = selected <=> j = i
    BY <1>2 DEF Plannable
  <2> HIDE DEF operations
  <2>3. /\ ~ operations[j].encode
        /\ HasSource(operations[j], media)
        /\ IsHeard(operations[j], media) <=> j \in Audio(media)
        /\ ExpectedStream(media, operations[j]).flags = flags
        /\ Sounds(operations[j], media, s) <=> Compatible(s.compat, streams[j])
    <3> DEFINE operation == Copy(streams[j], flags)
    <3>1. /\ ~ operation.encode
          /\ HasSource(operation, media)
          /\ IsHeard(operation, media) <=> j \in Audio(media)
          /\ ExpectedStream(media, operation).flags = flags
          /\ Sounds(operation, media, s) <=> Compatible(s.compat, streams[j])
      BY ACopySounds
    <3>2. operations[j] = operation
      BY <2>1
    <3> HIDE DEF operation
    <3> QED
      BY <3>1, <3>2
  <2> QED
    BY <1>2, <2>1, <2>2, <2>3 DEF IsFirst, IsDefault, Audio
<1> HIDE DEF operations
<1> QED
  BY <1>1, <1>2, <1>3 DEF WellSourced, WellHeard, operations

-----------------------------------------------------------------------------
(* A plan is its operations and what is expected of them.                  *)
Follows(plan, media) ==
  /\ plan.expected = [n \in DOMAIN plan.operations |->
                        ExpectedStream(media, plan.operations[n])]
  /\ plan.chapters = media.chapters
  /\ plan.tags = media.tags

(* An operation copies a stream of the source or encodes audio of it.      *)
IsMade(operation, media, target) ==
  \E i \in DOMAIN media.streams :
    \/ \E flags : operation = Copy(media.streams[i], flags)
    \/ i \in Audio(media) /\ \E flags : operation = Encode(target, media.streams[i], flags)

WellMade(operations, media, target) ==
  \A n \in DOMAIN operations : IsMade(operations[n], media, target)

WellPlanned(plan, media, s, mode) ==
  /\ IsMatroska(media)
  /\ Follows(plan, media)
  /\ WellMade(plan.operations, media, s.target)
  /\ WellSourced(plan.operations, media)
  /\ WellHeard(plan.operations, media, s, mode)

LEMMA JobPlansFollow ==
  ASSUME NEW media, NEW policy, NEW operations, NEW s, NEW mode, IsMatroska(media),
         WellMade(operations, media, s.target),
         WellSourced(operations, media), WellHeard(operations, media, s, mode)
  PROVE  WellPlanned(JobPlan(media, policy, operations), media, s, mode)
BY DEF JobPlan, WellPlanned, Follows

LEMMA OperationsAreMade ==
  ASSUME NEW media, Plannable(media), NEW policy
  PROVE  /\ WellMade(AddOperations(media, policy), media, policy.target)
         /\ WellMade(ReplaceOperations(media, policy), media, policy.target)
         /\ WellMade(OnlyNewOperations(media, policy), media, policy.target)
         /\ \A selected : WellMade(RemuxOperations(media, selected), media, policy.target)
<1> DEFINE streams == media.streams
           U       == Incompatible(media, policy)
           S       == Others(streams) \cup U
           derived == Ordered(U)
           copies  == [i \in DOMAIN streams |-> CopiedBeside(media, policy, i)]
           encodes == [n \in DOMAIN derived |->
                         DerivedBeside(media, policy, derived[n], n = 1)]
<1>1. /\ Len(streams) \in Nat /\ DOMAIN streams = 1 .. Len(streams)
      /\ U \in SUBSET (1 .. Len(streams)) /\ S \in SUBSET (1 .. Len(streams))
      /\ U \subseteq Audio(media)
  BY DEF Incompatible, Audio, Others, Plannable, IsList
<1>2. ASSUME NEW i \in DOMAIN streams
      PROVE  IsMade(InPlace(media, policy, i), media, policy.target)
  BY <1>1 DEF InPlace, IsMade
<1>3. WellMade(ReplaceOperations(media, policy), media, policy.target)
  BY <1>2 DEF WellMade, ReplaceOperations
<1>4. WellMade(OnlyNewOperations(media, policy), media, policy.target)
  <2>1. /\ DOMAIN OnlyNewOperations(media, policy) = 1 .. Cardinality(S)
        /\ \A n \in 1 .. Cardinality(S) :
             OnlyNewOperations(media, policy)[n] = InPlace(media, policy, Nth(S, n))
    BY DEF OnlyNewOperations, Ordered
  <2> HIDE DEF S
  <2>2. \A n \in 1 .. Cardinality(S) : Nth(S, n) \in DOMAIN streams
    BY <1>1, NthIsInverse
  <2> QED
    BY <1>2, <2>1, <2>2 DEF WellMade
<1>5. \A selected : WellMade(RemuxOperations(media, selected), media, policy.target)
  BY DEF WellMade, RemuxOperations, IsMade
<1>6. WellMade(AddOperations(media, policy), media, policy.target)
  <2>1. IsList(derived) /\ \A n \in DOMAIN derived : derived[n] \in U
    <3>1. \A n \in 1 .. Cardinality(U) : Nth(U, n) \in U
      BY <1>1, NthIsInverse
    <3> QED
      BY <1>1, <3>1, PositionsOfAList DEF Ordered
  <2> HIDE DEF U, derived
  <2>2. /\ IsList(copies) /\ copies = [i \in DOMAIN copies |-> copies[i]]
        /\ IsList(encodes) /\ encodes = [i \in DOMAIN encodes |-> encodes[i]]
    BY <1>1, <2>1 DEF IsList
  <2>3. \A i \in DOMAIN copies : IsMade(copies[i], media, policy.target)
    BY DEF CopiedBeside, IsMade
  <2>4. \A n \in DOMAIN encodes : IsMade(encodes[n], media, policy.target)
    <3>1. ASSUME NEW n \in DOMAIN derived
          PROVE  \E i \in Audio(media) : \E flags :
                   encodes[n] = Encode(policy.target, streams[i], flags)
      BY <1>1, <2>1 DEF DerivedBeside
    <3> QED
      BY <3>1 DEF IsMade, Audio
  <2>5. AddOperations(media, policy) = copies \o encodes
    BY DEF AddOperations, derived, U
  <2> HIDE DEF copies, encodes
  <2> QED
    BY <2>2, <2>3, <2>4, <2>5, TailsJoin DEF WellMade
<1> QED
  BY <1>3, <1>4, <1>5, <1>6

LEMMA PlansSound ==
  ASSUME NEW media, Plannable(media), Countable(media), NEW path, NEW policy, NEW s,
         s.compat = policy.compat, s.target = policy.target, policy.mode \in Modes,
         Build(media, path, policy).result = "Execute"
  PROVE  WellPlanned(Build(media, path, policy).plan, media, s, ModeOf(policy))
<1> DEFINE built == Build(media, path, policy)
           Of(operations) == Execute(JobPlan(media, policy, operations))
<1>1. \A operations : Of(operations).plan = JobPlan(media, policy, operations)
  BY DEF Execute
<1>2. IsMatroska(media)
  BY DEF Build, PlanError
<1>3. CASE policy.action = "Convert"
  <2>1. built = BuildConvert(media, policy) /\ Incompatible(media, policy) # {}
    BY <1>3 DEF Build, BuildConvert, PlanError, Skip
  <2>2. CASE policy.mode = "add"
    <3>1. built = Of(AddOperations(media, policy))
      BY <2>1, <2>2 DEF BuildConvert
    <3> QED
      BY <1>1, <1>3, <2>1, <2>2, <1>2, <3>1, AddSounds, OperationsAreMade, JobPlansFollow
      DEF ModeOf
  <2>3. CASE policy.mode = "replace"
    <3>1. built = Of(ReplaceOperations(media, policy))
      BY <2>1, <2>3 DEF BuildConvert
    <3> QED
      BY <1>1, <1>3, <2>1, <2>3, <1>2, <3>1, ReplaceSounds, OperationsAreMade, JobPlansFollow
      DEF ModeOf
  <2>4. CASE policy.mode = "only-new"
    <3>1. built = Of(OnlyNewOperations(media, policy))
      BY <2>1, <2>4 DEF BuildConvert
    <3> QED
      BY <1>1, <1>3, <2>1, <2>4, <1>2, <3>1, OnlyNewSounds, OperationsAreMade, JobPlansFollow
      DEF ModeOf
  <2> QED
    BY <2>2, <2>3, <2>4 DEF Modes
<1>4. CASE policy.action # "Convert"
  <2> DEFINE S          == Audio(media) \ Incompatible(media, policy)
             compatible == Ordered(S)
             indices    == [n \in DOMAIN compatible |-> media.streams[compatible[n]].index]
  <2>1. Len(media.streams) \in Nat /\ S \in SUBSET (1 .. Len(media.streams))
    BY DEF Audio, Plannable, IsList
  <2>2. \A n \in DOMAIN indices : \E i \in S : indices[n] = media.streams[i].index
    <3>1. \A n \in 1 .. Cardinality(S) : Nth(S, n) \in S
      BY <2>1, NthIsInverse
    <3> QED
      BY <3>1 DEF Ordered
  <2>3. Cardinality(S) \in Nat /\ DOMAIN indices = 1 .. Cardinality(S)
    BY <2>1, PlacesAreInOrder DEF Ordered
  <2>4. CompatibleIndices(media, policy) = indices
    BY DEF CompatibleIndices
  <2>5. built = BuildRemux(media, policy) /\ built.result = "Execute"
    BY <1>4 DEF Build, PlanError
  <2> HIDE DEF indices, S
  <2>6. \E n \in DOMAIN indices : built = Of(RemuxOperations(media, indices[n]))
    <3>1. CASE policy.selection = Null
      <4>1. DOMAIN indices # {}
        BY <2>4, <2>5, <3>1 DEF BuildRemux, PlanError
      <4>2. 1 \in DOMAIN indices
        BY <2>3, <4>1
      <4> QED
        BY <2>4, <2>5, <3>1, <4>1, <4>2 DEF BuildRemux, PlanError
    <3>2. CASE policy.selection # Null
      BY <2>4, <2>5, <3>2 DEF BuildRemux, PlanError
    <3> QED
      BY <3>1, <3>2
  <2>7. PICK i \in S : built = Of(RemuxOperations(media, media.streams[i].index))
    BY <2>2, <2>6
  <2> DEFINE operations == RemuxOperations(media, media.streams[i].index)
  <2>8. WellSourced(operations, media) /\ WellHeard(operations, media, s, "remux")
    BY <2>7, RemuxSounds DEF S
  <2> QED
    BY <1>1, <1>4, <1>2, <2>7, <2>8, OperationsAreMade, JobPlansFollow DEF ModeOf
<1> QED
  BY <1>3, <1>4

-----------------------------------------------------------------------------
(* FFmpeg leaves the channels of what it copies alone.                     *)

(* Encoder options go by the ordinal of the audio, which no two streams    *)
(* share.                                                                  *)
LEMMA OrdinalsDiffer ==
  ASSUME NEW k \in Nat, NEW S \in SUBSET (1 .. k), NEW m \in S, NEW n \in S, m < n
  PROVE  Cardinality({j \in 1 .. m - 1 : j \in S}) # Cardinality({j \in 1 .. n - 1 : j \in S})
<1> DEFINE Before(i) == {j \in 1 .. i - 1 : j \in S}
<1>0. \A i \in S : i \in Nat /\ 1 <= i
  OBVIOUS
<1>1. ASSUME NEW i \in S
      PROVE  Cardinality(Before(i)) \in Nat /\ Place(S, i) = Cardinality(Before(i)) + 1
  <2>1. IsFiniteSet(Before(i))
    <3>1. IsFiniteSet(S) /\ Before(i) \subseteq S
      BY PlacesAreInOrder
    <3> QED
      BY <3>1, FS_Subset
  <2>2. {j \in S : j <= i} = Before(i) \cup {i} /\ i \notin Before(i)
    <3>1. \A j \in S : j <= i <=> j \in 1 .. i - 1 \/ j = i
      BY <1>0
    <3>2. i \notin 1 .. i - 1
      BY <1>0
    <3> QED
      BY <3>1, <3>2
  <2> HIDE DEF Before
  <2> QED
    BY <2>1, <2>2, FS_AddElement, FS_CardinalityType DEF Place
<1>2. Place(S, m) < Place(S, n)
  BY PlacesAreInOrder
<1> HIDE DEF Before
<1>3. Cardinality(Before(m)) # Cardinality(Before(n))
  BY <1>1, <1>2
<1> QED
  BY <1>3 DEF Before

(* What Mux names inside.                                                  *)
Mapped(report, arguments, n) ==
  report.streams[CHOOSE i \in DOMAIN report.streams :
                   report.streams[i].index = arguments.map[n]]
MappedBefore(report, arguments, n) ==
  Cardinality({m \in 1 .. n - 1 : Mapped(report, arguments, m).type = "audio"})
EncodesAt(report, arguments, n) ==
  /\ Mapped(report, arguments, n).type = "audio"
  /\ MappedBefore(report, arguments, n) \in DOMAIN arguments.audio

LEMMA StreamsOfAMux ==
  ASSUME NEW report, IsReport(report), NEW arguments, NEW n \in DOMAIN arguments.map
  PROVE  Mux(report, arguments).streams[n]
           = MuxedStream(Mapped(report, arguments, n), n,
                         IF EncodesAt(report, arguments, n)
                         THEN arguments.audio[MappedBefore(report, arguments, n)] ELSE Null,
                         IF n \in DOMAIN arguments.tags THEN arguments.tags[n] ELSE <<>>,
                         arguments.disposition[n])
<1> DEFINE Options(i) == IF EncodesAt(report, arguments, i)
                         THEN arguments.audio[MappedBefore(report, arguments, i)]
                         ELSE Null
           TagsOf(i)  == IF i \in DOMAIN arguments.tags THEN arguments.tags[i] ELSE <<>>
           streams    == [i \in DOMAIN arguments.map |->
                            MuxedStream(Mapped(report, arguments, i), i, Options(i),
                                        TagsOf(i), arguments.disposition[i])]
<1>1. Mux(report, arguments) = [report EXCEPT !.streams = streams]
  BY DEF Mux, Mapped, MappedBefore, EncodesAt
<1> HIDE DEF streams
<1>2. Mux(report, arguments).streams = streams
  BY <1>1 DEF IsReport
<1>3. streams[n] = MuxedStream(Mapped(report, arguments, n), n, Options(n), TagsOf(n),
                               arguments.disposition[n])
  BY DEF streams
<1> QED
  BY <1>2, <1>3

LEMMA FieldsOfAStream ==
  ASSUME NEW raw
  PROVE  /\ ConvertStream(raw).index = raw.index
         /\ ConvertStream(raw).kind = raw.type
         /\ ConvertStream(raw).channels = raw.channels
         /\ ConvertStream(raw).layout = raw.layout
         /\ ConvertStream(raw).flags = raw.flags
         /\ ConvertStream(raw).codec = IF raw.name = Null THEN "unknown" ELSE raw.name
         /\ ConvertStream(raw).rate = PositiveOrNull(raw.rate)
         /\ ConvertStream(raw).start = Start(raw)
         /\ ConvertStream(raw).duration = IntegerOrNull(raw.duration)
         /\ ConvertStream(raw).tags = Metadata(raw.tags)
BY DEF ConvertStream

(* What FFmpeg is told for each stream of the output: the encoder options  *)
(* it finds by the ordinal are those of the operation.                     *)
OptionsOf(operation) == IF operation.encode THEN EncoderOptions(operation) ELSE Null
TagsGiven(operation) == IF operation.encode THEN TagOptions(operation) ELSE <<>>

LEMMA MuxObeys ==
  ASSUME NEW report, IsReport(report), Readable(report),
         NEW plan, Follows(plan, ConvertDocument(report)),
         WellSourced(plan.operations, ConvertDocument(report)),
         NEW n \in DOMAIN plan.operations
  PROVE  LET operation == plan.operations[n] IN
         \E j \in DOMAIN report.streams :
           /\ operation.source = report.streams[j].index
           /\ SourceOf(ConvertDocument(report), operation) = ConvertStream(report.streams[j])
           /\ operation.encode => report.streams[j].type = "audio"
           /\ Mux(report, Arguments(plan)).streams[n]
                = MuxedStream(report.streams[j], n, OptionsOf(operation),
                              TagsGiven(operation), operation.flags)
<1> DEFINE media      == ConvertDocument(report)
           arguments  == Arguments(plan)
           Op(i)      == plan.operations[i]
           Source(i)  == Mapped(report, arguments, i)
           Ordinal(i) == MappedBefore(report, arguments, i)
           muxed      == Mux(report, arguments).streams[n]
           encoded    == {i \in DOMAIN plan.operations : plan.operations[i].encode}
           At(a)      == CHOOSE i \in encoded : AudioOrdinal(plan, i) = a
           audio      == {i \in DOMAIN plan.operations : plan.expected[i].kind = "audio"}
<1>1. Plannable(media)
  BY ReportsCanBePlanned
<1>2. /\ DOMAIN media.streams = DOMAIN report.streams
      /\ \A i \in DOMAIN report.streams : media.streams[i] = ConvertStream(report.streams[i])
  BY DEF ConvertDocument
<1>3. /\ DOMAIN arguments.map = DOMAIN plan.operations
      /\ \A i \in DOMAIN plan.operations : arguments.map[i] = plan.operations[i].source
      /\ DOMAIN arguments.audio = {AudioOrdinal(plan, m) : m \in encoded}
      /\ \A a \in DOMAIN arguments.audio :
           arguments.audio[a] = EncoderOptions(plan.operations[At(a)])
      /\ DOMAIN arguments.tags = encoded
      /\ \A i \in encoded : arguments.tags[i] = TagOptions(plan.operations[i])
      /\ \A i \in DOMAIN plan.operations : arguments.disposition[i] = plan.operations[i].flags
  BY DEF Arguments
<1> HIDE DEF media, muxed, arguments
<1>4. muxed = MuxedStream(Source(n), n,
                          IF EncodesAt(report, arguments, n)
                          THEN arguments.audio[Ordinal(n)] ELSE Null,
                          IF n \in encoded THEN arguments.tags[n] ELSE <<>>,
                          arguments.disposition[n])
  BY <1>3, StreamsOfAMux DEF muxed
<1>5. ASSUME NEW i \in DOMAIN plan.operations
      PROVE  \E j \in DOMAIN report.streams :
               /\ plan.operations[i].source = report.streams[j].index
               /\ Source(i) = report.streams[j]
               /\ SourceOf(media, plan.operations[i]) = media.streams[j]
               /\ plan.operations[i].encode => IsAudio(media.streams[j])
  <2>1. PICK j \in DOMAIN media.streams :
          /\ plan.operations[i].source = media.streams[j].index
          /\ plan.operations[i].encode => IsAudio(media.streams[j])
    BY DEF WellSourced, HasSource, media
  <2>2. SourceOf(media, plan.operations[i]) = media.streams[j]
    BY <1>1, <2>1, SourceIsFound
  <2>3. report.streams[j].index = arguments.map[i]
    BY <1>2, <1>3, <2>1, FieldsOfAStream
  <2>4. \A l \in DOMAIN report.streams :
          report.streams[l].index = arguments.map[i] => l = j
    BY <1>2, <2>1, <2>3 DEF Readable
  <2>5. Source(i) = report.streams[j]
    BY <1>2, <2>1, <2>3, <2>4 DEF Mapped
  <2> QED
    BY <1>2, <1>3, <2>1, <2>2, <2>3, <2>5
<1>6. ASSUME NEW i \in DOMAIN plan.operations
      PROVE  /\ Source(i).type = "audio" <=> i \in audio
             /\ plan.operations[i].encode => i \in audio
  <2>1. plan.expected[i].kind = IF plan.operations[i].encode THEN "audio"
                                ELSE SourceOf(media, plan.operations[i]).kind
    BY DEF Follows, ExpectedStream, media
  <2>2. PICK j \in DOMAIN report.streams :
               /\ Source(i) = report.streams[j]
               /\ SourceOf(media, plan.operations[i]) = media.streams[j]
               /\ plan.operations[i].encode => IsAudio(media.streams[j])
    BY <1>5
  <2>3. media.streams[j].kind = report.streams[j].type
    BY <1>2, FieldsOfAStream
  <2> QED
    BY <2>1, <2>2, <2>3 DEF IsAudio
<1>7. PICK k \in Nat : DOMAIN plan.operations = 1 .. k
  BY DEF WellSourced, Listed
<1>8. ASSUME NEW i \in 1 .. k
      PROVE  /\ Ordinal(i) = Cardinality({m \in 1 .. i - 1 : m \in audio})
             /\ AudioOrdinal(plan, i) = Ordinal(i)
  <2>1. \A m \in 1 .. i - 1 : m \in DOMAIN plan.operations
    BY <1>7
  <2>2. \A m \in 1 .. i - 1 : Source(m).type = "audio" <=> m \in audio
    BY <1>6, <2>1
  <2>3. {m \in 1 .. i - 1 : Source(m).type = "audio"} = {m \in 1 .. i - 1 : m \in audio}
    BY <2>2
  <2>4. {m \in 1 .. i - 1 : plan.expected[m].kind = "audio"} = {m \in 1 .. i - 1 : m \in audio}
    BY <2>1
  <2> QED
    BY <2>3, <2>4 DEF AudioOrdinal, MappedBefore
<1>9. ASSUME NEW i \in encoded, NEW m \in audio, AudioOrdinal(plan, i) = AudioOrdinal(plan, m)
      PROVE  i = m
  <2>1. i \in audio /\ audio \in SUBSET (1 .. k) /\ i \in 1 .. k /\ m \in 1 .. k
    BY <1>6, <1>7
  <2>2. Cardinality({j \in 1 .. m - 1 : j \in audio}) = Cardinality({j \in 1 .. i - 1 : j \in audio})
    BY <1>8, <1>9, <2>1
  <2> HIDE DEF audio
  <2>3. ~ m < i
    BY <2>1, <2>2, OrdinalsDiffer
  <2>4. ~ i < m
    BY <2>1, <2>2, OrdinalsDiffer
  <2> QED
    BY <2>1, <2>3, <2>4
<1>10. Ordinal(n) = AudioOrdinal(plan, n)
  BY <1>7, <1>8
<1>11. CASE n \in encoded
  <2>1. n \in audio /\ AudioOrdinal(plan, n) \in DOMAIN arguments.audio
    BY <1>3, <1>6, <1>11
  <2>2. EncodesAt(report, arguments, n)
    BY <1>6, <1>10, <2>1 DEF EncodesAt
  <2>3. At(AudioOrdinal(plan, n)) = n
    BY <1>9, <1>11, <2>1
  <2>4. arguments.audio[Ordinal(n)] = EncoderOptions(plan.operations[n])
    BY <1>3, <1>10, <2>1, <2>3
  <2>5. muxed = MuxedStream(Source(n), n, OptionsOf(Op(n)), TagsGiven(Op(n)), Op(n).flags)
    BY <1>3, <1>4, <1>11, <2>2, <2>4 DEF OptionsOf, TagsGiven
  <2> QED
    BY <1>2, <1>5, <2>5, FieldsOfAStream DEF IsAudio, muxed, media, arguments
<1>12. CASE n \notin encoded
  <2>1. ~ EncodesAt(report, arguments, n)
    <3> SUFFICES ASSUME n \in audio, Ordinal(n) \in DOMAIN arguments.audio
                 PROVE  FALSE
      BY <1>6 DEF EncodesAt
    <3>1. PICK m \in encoded : AudioOrdinal(plan, m) = AudioOrdinal(plan, n)
      BY <1>3, <1>10
    <3> QED
      BY <1>9, <1>12, <3>1
  <2>2. muxed = MuxedStream(Source(n), n, OptionsOf(Op(n)), TagsGiven(Op(n)), Op(n).flags)
    BY <1>3, <1>4, <1>12, <2>1 DEF OptionsOf, TagsGiven
  <2> QED
    BY <1>2, <1>5, <2>2, FieldsOfAStream DEF IsAudio, muxed, media, arguments
<1> QED
  BY <1>11, <1>12

LEMMA FieldsOfAMuxedStream ==
  ASSUME NEW raw, DOMAIN raw = StreamFields, NEW n, NEW options, NEW tags, NEW flags
  PROVE  LET new == MuxedStream(raw, n, options, tags, flags) IN
           /\ DOMAIN new = StreamFields
           /\ new.index = n - 1
           /\ new.tags = MuxedTags(raw.tags, tags)
           /\ new.flags = flags
           /\ new.type = raw.type /\ new.rate = raw.rate
           /\ new.start = raw.start /\ new.duration = raw.duration /\ new.base = raw.base
           /\ options = Null => /\ new.name = raw.name /\ new.channels = raw.channels
                                /\ new.layout = raw.layout
           /\ options # Null => new.name = options.encoder /\ new.channels = options.channels
<1> DEFINE placed == [raw EXCEPT !.index = n - 1, !.tags = MuxedTags(@, tags), !.flags = flags]
<1>1. /\ DOMAIN placed = StreamFields
      /\ placed.index = n - 1
      /\ placed.tags = MuxedTags(raw.tags, tags)
      /\ placed.flags = flags
      /\ \A field \in StreamFields \ {"index", "tags", "flags"} : placed[field] = raw[field]
  BY DEF StreamFields
<1>2. CASE options = Null
  <2>1. MuxedStream(raw, n, options, tags, flags) = placed
    BY <1>2 DEF MuxedStream
  <2> HIDE DEF placed
  <2> QED
    BY <1>1, <1>2, <2>1 DEF StreamFields
<1>3. CASE options # Null
  <2>1. MuxedStream(raw, n, options, tags, flags)
          = [placed EXCEPT !.name = options.encoder, !.channels = options.channels,
                           !.layout = LayoutLabels[options.channels]]
    BY <1>3 DEF MuxedStream
  <2> HIDE DEF placed
  <2> QED
    BY <1>1, <1>3, <2>1 DEF StreamFields
<1> QED
  BY <1>2, <1>3

LEMMA MuxCopies ==
  ASSUME NEW report, IsReport(report), Readable(report), HasFields(report),
         NEW plan, Follows(plan, ConvertDocument(report)),
         WellSourced(plan.operations, ConvertDocument(report)),
         NEW n \in DOMAIN plan.operations
  PROVE  LET muxed  == Mux(report, Arguments(plan)).streams[n]
             source == SourceOf(ConvertDocument(report), plan.operations[n])
         IN /\ DOMAIN muxed = StreamFields
            /\ ~ plan.operations[n].encode => /\ muxed.channels = source.channels
                                              /\ muxed.layout = source.layout
<1> DEFINE operation == plan.operations[n]
           muxed     == Mux(report, Arguments(plan)).streams[n]
<1>1. PICK j \in DOMAIN report.streams :
        /\ SourceOf(ConvertDocument(report), operation) = ConvertStream(report.streams[j])
        /\ muxed = MuxedStream(report.streams[j], n, OptionsOf(operation),
                               TagsGiven(operation), operation.flags)
  BY MuxObeys
<1>2. DOMAIN report.streams[j] = StreamFields
  BY DEF HasFields
<1>3. ~ operation.encode => OptionsOf(operation) = Null
  BY DEF OptionsOf
<1> HIDE DEF muxed, operation
<1> QED
  BY <1>1, <1>2, <1>3, FieldsOfAStream, FieldsOfAMuxedStream DEF muxed, operation

(* What damage does not touch of a stream.                                 *)
Tells(new, old) ==
  /\ DOMAIN new = StreamFields
  /\ new.type = old.type /\ new.base = old.base /\ new.rate = old.rate
  /\ new.duration = old.duration /\ new.tags = old.tags
  /\ \/ new.start = old.start
     \/ /\ old.start \notin {Null, Bad}
        /\ new.start = old.start + 1000

LEMMA DamageSpares ==
  ASSUME NEW report, IsReport(report), HasFields(report),
         report.streams = [i \in DOMAIN report.streams |-> report.streams[i]],
         NEW damage
  PROVE  LET damaged == Damage(report, damage) IN
           /\ HasFields(damaged)
           /\ \A n \in DOMAIN damaged.streams :
                /\ n \in DOMAIN report.streams
                /\ damaged.streams[n].channels = report.streams[n].channels
                /\ damaged.streams[n].layout = report.streams[n].layout
                /\ Tells(damaged.streams[n], report.streams[n])
<1> DEFINE old == report.streams
           new == Damage(report, damage).streams
<1>1. new = DamagedStreams(old, damage)
  BY DEF Damage, IsReport
<1>2. Len(old) \in Nat /\ DOMAIN old = 1 .. Len(old)
  BY DEF IsReport, IsList
<1>3. \A i \in DOMAIN old : DOMAIN old[i] = StreamFields
  BY DEF HasFields
<1>4. \/ new = old
      \/ new = WithoutLast(old)
      \/ new = WithoutDefaults(old)
      \/ new = Delayed(old)
  BY <1>1 DEF DamagedStreams
<1> HIDE DEF new
<1>5. \A n \in DOMAIN new : /\ n \in DOMAIN old
                            /\ DOMAIN new[n] = StreamFields
                            /\ new[n].channels = old[n].channels
                            /\ new[n].layout = old[n].layout
                            /\ Tells(new[n], old[n])
  <2>1. CASE new = old
    BY <1>3, <2>1 DEF Tells
  <2>2. CASE new = WithoutLast(old)
    <3> DEFINE T == {old[i] : i \in 1 .. Len(old)}
    <3>1. old \in [1 .. Len(old) -> T]
      BY <1>2
    <3> HIDE DEF T
    <3>2. old \in Seq(T)
      BY <1>2, <3>1
    <3>3. \A n \in DOMAIN new : n \in DOMAIN old /\ new[n] = old[n]
      BY <1>2, <2>2, <3>2 DEF WithoutLast
    <3> QED
      BY <1>3, <3>3 DEF Tells
  <2>3. CASE new = WithoutDefaults(old)
    <3>1. \A n \in DOMAIN new :
            n \in DOMAIN old /\ new[n] = [old[n] EXCEPT !.flags = @ \ {"default"}]
      BY <2>3 DEF WithoutDefaults
    <3> QED
      BY <1>3, <3>1 DEF StreamFields, Tells
  <2>4. CASE new = Delayed(old)
    <3>1. \A n \in DOMAIN new :
            /\ n \in DOMAIN old
            /\ \/ new[n] = old[n]
               \/ /\ old[n].start \notin {Null, Bad}
                  /\ new[n] = [old[n] EXCEPT !.start = @ + 1000]
      BY <2>4 DEF Delayed
    <3> QED
      BY <1>3, <3>1 DEF StreamFields, Tells
  <2> QED
    BY <1>4, <2>1, <2>2, <2>3, <2>4
<1> QED
  BY <1>5 DEF HasFields, new

-----------------------------------------------------------------------------
(* What is published plays.                                                *)

(* Settings name a codec that there is; bitrates and channels are numbers. *)
Sensible(s) ==
  /\ s.target.codec \in DOMAIN CodecNames
  /\ s.target.bitrate \in Int
  /\ \A family \in DOMAIN s.compat.rules : s.compat.rules[family].max \in Nat \cup {Null}

LEMMA TargetsPlay ==
  ASSUME NEW s, Sensible(s), TargetPlays(s), NEW stream,
         stream.codec = CodecNames[s.target.codec],
         stream.channels \in 1 .. MostChannels(s.target)
  PROVE  Compatible(s.compat, stream)
<1> DEFINE family == CodecNames[s.target.codec]
           rule   == s.compat.rules[family]
<1>1. family \in {"ac3", "eac3", "aac"}
  BY DEF Sensible, CodecNames
<1>2. Family(stream.codec) = family
  BY <1>1 DEF Family, Families, PcmCodecs
<1>3. /\ family \in DOMAIN s.compat.rules
      /\ rule.max # Null => rule.max >= MostChannels(s.target)
      /\ rule.layouts = Null
  BY DEF TargetPlays, MostChannels
<1>4. rule.max # Null => rule.max \in Nat
  BY <1>3 DEF Sensible
<1>5. MostChannels(s.target) \in Nat
  BY DEF MostChannels
<1>6. rule.max # Null => stream.channels <= rule.max
  <2>1. PICK count : count = stream.channels /\ count \in 1 .. MostChannels(s.target)
    OBVIOUS
  <2>2. PICK most : most = MostChannels(s.target)
    OBVIOUS
  <2>3. PICK max : max = rule.max
    OBVIOUS
  <2> HIDE DEF rule
  <2> QED
    BY <1>3, <1>4, <1>5, <2>1, <2>2, <2>3
<1> HIDE DEF family
<1> QED
  BY <1>2, <1>3, <1>6 DEF Compatible

LEMMA CompatibilityIsOfThree ==
  ASSUME NEW policy, NEW one, NEW other,
         one.codec = other.codec, one.channels = other.channels, one.layout = other.layout,
         Compatible(policy, one)
  PROVE  Compatible(policy, other)
BY DEF Compatible

LEMMA WhatIsMadePlays ==
  ASSUME NEW report, IsReport(report), Readable(report), HasFields(report),
         NEW plan, NEW s, Sensible(s), NEW mode, mode \in Modes \cup {"remux"},
         WellPlanned(plan, ConvertDocument(report), s, mode),
         NEW damage,
         Validates(plan, ConvertDocument(Damage(Mux(report, Arguments(plan)), damage))),
         NEW m, m.settings = s, m.mode = mode,
         m.output = Damage(Mux(report, Arguments(plan)), damage)
  PROVE  PlaysWell(m)
<1> DEFINE media   == ConvertDocument(report)
           muxed   == Mux(report, Arguments(plan))
           streams == m.output.streams
           Op(n)   == plan.operations[n]
           Now(n)  == ConvertStream(streams[n])
<1>1. /\ Follows(plan, media)
      /\ WellSourced(plan.operations, media)
      /\ WellHeard(plan.operations, media, s, mode)
  BY DEF WellPlanned
<1>2. /\ IsReport(muxed)
      /\ DOMAIN muxed.streams = DOMAIN plan.operations
      /\ muxed.streams = [i \in DOMAIN muxed.streams |-> muxed.streams[i]]
  BY <1>1, MuxesAreReports DEF WellSourced
<1>3. \A n \in DOMAIN plan.operations :
        /\ DOMAIN muxed.streams[n] = StreamFields
        /\ ~ Op(n).encode => /\ muxed.streams[n].channels = SourceOf(media, Op(n)).channels
                             /\ muxed.streams[n].layout = SourceOf(media, Op(n)).layout
  BY <1>1, MuxCopies
<1>4. HasFields(muxed)
  BY <1>2, <1>3 DEF HasFields
<1>5. \A n \in DOMAIN streams : /\ streams[n].channels = muxed.streams[n].channels
                                /\ streams[n].layout = muxed.streams[n].layout
  BY <1>2, <1>4, DamageSpares
<1>6. /\ DOMAIN plan.expected = DOMAIN streams
      /\ \A n \in DOMAIN streams : StreamMatches(plan.expected[n], Op(n), Now(n))
  <2>1. /\ DOMAIN ConvertDocument(m.output).streams = DOMAIN streams
        /\ \A n \in DOMAIN streams : ConvertDocument(m.output).streams[n] = Now(n)
    BY DEF ConvertDocument
  <2> QED
    BY <2>1 DEF Validates
<1>7. /\ DOMAIN plan.operations = DOMAIN streams
      /\ \A n \in DOMAIN streams : plan.expected[n] = ExpectedStream(media, Op(n))
  BY <1>1, <1>6 DEF Follows
<1> HIDE DEF media, muxed, streams
<1>8. ASSUME NEW n \in DOMAIN streams
      PROVE  /\ streams[n].type = "audio" <=> IsHeard(Op(n), media)
             /\ streams[n].type = "audio" /\ IsDefault(streams[n]) <=> IsFirst(Op(n), media)
  <2>1. plan.expected[n].kind = Now(n).kind /\ plan.expected[n].flags = Now(n).flags
    BY <1>6 DEF StreamMatches
  <2>2. Now(n).kind = streams[n].type /\ Now(n).flags = streams[n].flags
    BY FieldsOfAStream
  <2> HIDE DEF Now, Op
  <2> QED
    BY <1>7, <2>1, <2>2 DEF IsHeard, IsFirst, IsDefault, Op
<1>9. ASSUME NEW n \in DOMAIN streams, Sounds(Op(n), media, s),
             TargetPlays(s) \/ ~ Op(n).encode
      PROVE  Plays(m, n)
  <2>1. CodecMatches(plan.expected[n], Now(n)) /\ ChannelsMatch(Op(n), Now(n))
    BY <1>6 DEF StreamMatches
  <2>2. plan.expected[n] = ExpectedStream(media, Op(n))
    BY <1>7
  <2>3. CASE Op(n).encode
    <3>1. Op(n).target = s.target /\ Op(n).channels \in 1 .. MostChannels(s.target)
      BY <1>9, <2>3 DEF Sounds
    <3>2. Now(n).codec = CodecNames[s.target.codec] /\ Now(n).channels = Op(n).channels
      <4> HIDE DEF Now, Op
      <4>1. plan.expected[n].encoded /\ plan.expected[n].codec = s.target.codec
        BY <2>2, <2>3, <3>1 DEF ExpectedStream
      <4> QED
        BY <2>1, <2>3, <4>1 DEF CodecMatches, ChannelsMatch
    <3> HIDE DEF Now
    <3>3. Compatible(s.compat, Now(n))
      BY <1>9, <2>3, <3>1, <3>2, TargetsPlay
    <3> QED
      BY <3>3 DEF Plays, Now, streams
  <2>4. CASE ~ Op(n).encode
    <3>1. Compatible(s.compat, SourceOf(media, Op(n)))
      BY <1>9, <2>4 DEF Sounds
    <3>2. Now(n).codec = SourceOf(media, Op(n)).codec
      <4> HIDE DEF Now, Op
      <4>1. /\ ~ plan.expected[n].encoded
            /\ plan.expected[n].codec = SourceOf(media, Op(n)).codec
        BY <2>2, <2>4 DEF ExpectedStream
      <4> QED
        BY <2>1, <4>1 DEF CodecMatches
    <3>3. /\ Now(n).channels = SourceOf(media, Op(n)).channels
          /\ Now(n).layout = SourceOf(media, Op(n)).layout
      BY <1>3, <1>5, <1>7, <2>4, FieldsOfAStream
    <3> HIDE DEF Now
    <3>4. Compatible(s.compat, Now(n))
      BY <3>1, <3>2, <3>3, CompatibilityIsOfThree
    <3> QED
      BY <3>4 DEF Plays, Now, streams
  <2> QED
    BY <2>3, <2>4
<1> SUFFICES ASSUME TargetPlays(s) \/ mode = "remux"
             PROVE  IF mode \in {"add", "remux"}
                    THEN /\ \E n \in DOMAIN streams :
                              streams[n].type = "audio" /\ IsDefault(streams[n])
                         /\ \A n \in DOMAIN streams :
                              streams[n].type = "audio" /\ IsDefault(streams[n]) => Plays(m, n)
                    ELSE /\ \E n \in DOMAIN streams : streams[n].type = "audio"
                         /\ \A n \in DOMAIN streams :
                              streams[n].type = "audio" => Plays(m, n)
  BY DEF PlaysWell, streams
<1>10. \A n \in DOMAIN streams : TargetPlays(s) \/ ~ Op(n).encode
  BY <1>1, <1>7 DEF WellHeard
<1>11. CASE mode \in {"add", "remux"}
  BY <1>1, <1>7, <1>8, <1>9, <1>10, <1>11 DEF WellHeard
<1>12. CASE mode \in {"replace", "only-new"}
  BY <1>1, <1>7, <1>8, <1>9, <1>10, <1>12 DEF WellHeard
<1> QED
  BY <1>11, <1>12 DEF Modes

-----------------------------------------------------------------------------
(* A second invariant, of plans under way: they follow from the report of  *)
(* their file and make audio that the profile accepts.                     *)
ShelfIsProbed        == \A path \in DOMAIN shelf : HasFields(shelf[path])
SettingsAreSensible  == DOMAIN fate # {} => Sensible(settings)
IsGood(path, plan)   == /\ Readable(shelf[path])
                        /\ WellPlanned(plan, ConvertDocument(shelf[path]), settings, Mode)
PlansAreGood         == \A path \in Are({"ready"}) : IsGood(path, fate[path].plan)

PInv == ShelfIsProbed /\ SettingsAreSensible /\ PlansAreGood /\ OutputPlays

LEMMA PInvAtFirst == Init => PInv
<1> SUFFICES ASSUME Init PROVE PInv
  OBVIOUS
<1>1. fate = <<>> /\ DOMAIN fate = {}
  BY DEF Init
<1>2. ShelfIsProbed
  BY ShelvesAssumption DEF Init, ShelfIsProbed
<1>3. SettingsAreSensible /\ PlansAreGood
  BY <1>1 DEF SettingsAreSensible, PlansAreGood, Are
<1>4. OutputPlays
  BY DEF Init, OutputPlays
<1> QED
  BY <1>2, <1>3, <1>4 DEF PInv

LEMMA GoodPlansStay ==
  ASSUME ShelfGrows, SameCommand, NEW path \in DOMAIN shelf, NEW plan, IsGood(path, plan)
  PROVE  IsGood(path, plan)'
<1>1. shelf'[path] = shelf[path] /\ settings' = settings /\ Mode' = Mode
  BY DEF ShelfGrows, SameCommand, Mode
<1> QED
  BY <1>1 DEF IsGood

(* A step that makes no new plan and changes no settings.                  *)
LEMMA NoNewPlan ==
  ASSUME IInv, PInv, ShelfGrows, SameCommand, DOMAIN fate' = DOMAIN fate,
         ShelfIsProbed', OutputPlays',
         \A path \in DOMAIN fate :
           fate'[path].is = "ready" => \/ fate'[path] = fate[path]
                                       \/ IsGood(path, fate'[path].plan)
  PROVE  PInv'
<1>1. SettingsAreSensible'
  BY DEF PInv, SettingsAreSensible, SameCommand
<1>2. ASSUME NEW path \in DOMAIN fate, fate'[path].is = "ready"
      PROVE  IsGood(path, fate[path].plan)'
  <2>1. PICK plan : plan = fate'[path].plan
    OBVIOUS
  <2>2. IsGood(path, plan)
    BY <1>2, <2>1 DEF PInv, PlansAreGood, Are
  <2>3. IsGood(path, plan)'
    BY <2>2, GoodPlansStay DEF IInv, FilesAreFound
  <2> QED
    BY <2>1, <2>3 DEF IsGood
<1>3. PlansAreGood'
  BY <1>2 DEF PlansAreGood, Are
<1> QED
  BY <1>1, <1>3 DEF PInv

LEMMA BitratesHaveCodecs ==
  ASSUME NEW codec, NEW text, BitrateValid(codec, text)
  PROVE  codec \in {"ac3", "eac3", "aac"} /\ Bitrate(text) \in Int
<1>1. CASE codec = "ac3"
  <2>1. Ac3Bitrates \subseteq Int
    BY DEF Ac3Bitrates
  <2> QED
    BY <1>1, <2>1 DEF BitrateValid
<1>2. CASE codec = "eac3"
  <2>1. Eac3Bitrates \subseteq Int
    BY DEF Eac3Bitrates
  <2> QED
    BY <1>2, <2>1 DEF BitrateValid
<1>3. CASE codec = "aac"
  <2>1. AacBitrates \subseteq Int
    BY DEF AacBitrates
  <2> QED
    BY <1>3, <2>1 DEF BitrateValid
<1> QED
  BY <1>1, <1>2, <1>3 DEF BitrateValid

(* What is loaded makes sense.                                             *)
LEMMA SettingsMakeSense ==
  ASSUME NEW options, NEW environment, NEW file \in ConfigFiles, NEW required,
         ConfigLoads(options, environment, file, required)
  PROVE  Sensible(Settings(options, environment, file))
<1> DEFINE merged   == Merged(options, environment, file.layer)
           settled  == Settings(options, environment, file)
           profiles == file.profiles
<1>1. SettingsValid(merged, profiles)
  BY DEF ConfigLoads
<1> HIDE DEF merged
<1>2. merged.codec \in {"ac3", "eac3", "aac"} /\ Bitrate(merged.bitrate) \in Int
  BY <1>1, BitratesHaveCodecs DEF SettingsValid
<1>3. merged.profile \in BuiltInProfiles \cup DOMAIN profiles
  BY <1>1 DEF SettingsValid
<1>4. /\ settled.compat = PolicyNamed(merged.profile, profiles)
      /\ settled.target.codec = CodecLabels[merged.codec]
      /\ settled.target.bitrate = Bitrate(merged.bitrate)
  BY DEF Settings, merged
<1> HIDE DEF settled, profiles
<1>5. settled.target.codec \in DOMAIN CodecNames /\ settled.target.bitrate \in Int
  BY <1>2, <1>4 DEF CodecLabels, CodecNames
<1>6. \A family \in DOMAIN BuiltInRules : BuiltInRules[family].max \in Nat \cup {Null}
  BY DEF BuiltInRules
<1>7. CASE merged.profile \in BuiltInProfiles
  <2>1. settled.compat.rules = BuiltInRules
    BY <1>4, <1>7 DEF PolicyNamed, BuiltInPolicy
  <2>2. Sensible(settled)
    BY <1>5, <1>6, <2>1 DEF Sensible
  <2> QED
    BY <2>2 DEF settled
<1>8. CASE merged.profile \notin BuiltInProfiles
  <2> DEFINE codecs == profiles[merged.profile].codecs
  <2>1. settled.compat.rules = Over(codecs, BuiltInRules)
    BY <1>4, <1>8 DEF PolicyNamed
  <2>2. \A family \in DOMAIN codecs : codecs[family].max \in Nat \cup {Null}
    BY <1>3, <1>8, ConfigFilesAssumption DEF profiles
  <2> HIDE DEF codecs
  <2>3. \A family \in DOMAIN Over(codecs, BuiltInRules) :
          Over(codecs, BuiltInRules)[family].max \in Nat \cup {Null}
    BY <1>6, <2>2 DEF Over
  <2>4. Sensible(settled)
    BY <1>5, <2>1, <2>3 DEF Sensible
  <2> QED
    BY <2>4 DEF settled
<1> QED
  BY <1>7, <1>8

(* What is ready is planned from the report of the file.                   *)
LEMMA ReadyPlansAreGood ==
  ASSUME NEW path \in DOMAIN shelf, IsReport(shelf[path]), settings.mode \in Modes,
         PrepareOne(path).is = "ready"
  PROVE  IsGood(path, PrepareOne(path).plan)
<1> DEFINE media  == ConvertDocument(shelf[path])
           policy == PlanningPolicy(path, Selection(media, path))
           built  == Build(media, path, policy)
<1>1. Readable(shelf[path]) /\ PrepareOne(path) = OutcomeOfMedia(media, path)
  BY DEF PrepareOne, Failed
<1>2. PrepareOne(path) = CASE built.result = "Execute" -> OutcomeOfPlan(built.plan)
                           [] built.result = "Skip"    -> Skipped
                           [] built.result = "Error"   -> Failed("Plan")
  <2>1. ~ SelectionFails(media, path)
    <3>1. CASE SelectionFails(media, path)
      <4>1. PrepareOne(path) = Failed("Selection")
        BY <1>1, <3>1 DEF OutcomeOfMedia
      <4> QED
        BY <4>1 DEF Failed
    <3> QED
      BY <3>1
  <2> QED
    BY <1>1, <2>1 DEF OutcomeOfMedia
<1>3. Plannable(media)
  BY <1>1, ReportsCanBePlanned
<1>4. Countable(media)
  <2>1. ASSUME NEW i \in Audio(media)
        PROVE  media.streams[i].channels \in 1 .. MaxChannels
    <3>1. i \in DOMAIN shelf[path].streams /\ media.streams[i] = ConvertStream(shelf[path].streams[i])
      BY DEF Audio, ConvertDocument
    <3>2. shelf[path].streams[i].type = "audio"
      BY <3>1, FieldsOfAStream DEF Audio, IsAudio
    <3>3. ChannelCount(shelf[path].streams[i].channels)
      BY <1>1, <3>1, <3>2 DEF Readable, StreamReadable
    <3> QED
      BY <3>1, <3>3, FieldsOfAStream DEF ChannelCount
  <2> QED
    BY <2>1 DEF Countable
<1>5. /\ policy.mode = settings.mode
      /\ policy.compat = settings.compat
      /\ policy.target = settings.target
      /\ policy.action = IF command.remux THEN "Remux" ELSE "Convert"
  BY DEF PlanningPolicy
<1>6. ModeOf(policy) = Mode
  BY <1>5 DEF ModeOf, Mode
<1> HIDE DEF policy, media
<1>7. built.result \in {"Execute", "Skip", "Error"}
  BY <1>3, <1>5, PlansKeep
<1> HIDE DEF built
<1>8. built.result = "Execute" /\ PrepareOne(path) = OutcomeOfPlan(built.plan)
  BY <1>2, <1>7 DEF Skipped, Failed
<1>9. PrepareOne(path).plan = built.plan
  BY <1>8 DEF OutcomeOfPlan, Planned, Skipped, Failed, Ready
<1>10. WellPlanned(built.plan, media, settings, Mode)
  BY <1>3, <1>4, <1>5, <1>6, <1>8, PlansSound DEF built
<1> QED
  BY <1>1, <1>9, <1>10 DEF IsGood, media

LEMMA PlansStep == ASSUME IInv, PInv, [Next]_vars PROVE PInv'
<1>1. ShelfGrows
  BY TheShelfGrows
<1>2. ASSUME UNCHANGED <<shelf, made>>
      PROVE  ShelfIsProbed' /\ OutputPlays'
  BY <1>2 DEF PInv, ShelfIsProbed, OutputPlays
<1>3. ASSUME NEW c, NEW environment, NEW file, NEW toolchain,
             Refuse(c, environment, file, toolchain)
      PROVE  PInv'
  <2>1. DOMAIN fate' = {} /\ UNCHANGED <<shelf, made>>
    BY <1>3 DEF Refuse
  <2> QED
    BY <1>2, <2>1 DEF PInv, SettingsAreSensible, PlansAreGood, Are
<1>4. ASSUME NEW c, NEW environment, NEW file \in ConfigFiles, NEW toolchain,
             Begin(c, environment, file, toolchain)
      PROVE  PInv'
  <2>1. /\ UNCHANGED <<shelf, made>>
        /\ settings' = Settings(c.options, environment, file)
        /\ fate' = [path \in Discovered(Disk, c.request) |-> Waiting]
        /\ ConfigLoads(c.options, environment, file, c.required)
    BY <1>4 DEF Begin, Refusal
  <2>2. SettingsAreSensible'
    BY <2>1, SettingsMakeSense DEF SettingsAreSensible
  <2>3. PlansAreGood'
    BY <2>1 DEF PlansAreGood, Are, Waiting
  <2> QED
    BY <1>2, <2>1, <2>2, <2>3 DEF PInv
<1>5. ASSUME NEW path \in DOMAIN fate, Prepare(path)
      PROVE  PInv'
  <2>1. /\ UNCHANGED <<shelf, command, settings, made>>
        /\ Decide(path, PrepareOne(path))
    BY <1>5 DEF Prepare
  <2>2. path \in DOMAIN shelf /\ IsReport(shelf[path]) /\ settings.mode \in Modes
    BY DEF IInv, FilesAreFound, ReportsAreReports, ModeIsKnown
  <2>3. PICK outcome : outcome = PrepareOne(path)
    OBVIOUS
  <2>4. outcome.is = "ready" => IsGood(path, outcome.plan)
    BY <2>2, <2>3, ReadyPlansAreGood
  <2>5. /\ DOMAIN fate' = DOMAIN fate
        /\ fate'[path] = outcome
        /\ \A other \in DOMAIN fate \ {path} : fate'[other] \in {fate[other], Cancelled}
    BY <2>1, <2>3 DEF Decide
  <2> QED
    BY <1>1, <1>2, <2>1, <2>4, <2>5, NoNewPlan DEF SameCommand, Cancelled
<1>6. ASSUME NEW path \in DOMAIN fate, ToolFails(path)
      PROVE  PInv'
  <2>1. /\ UNCHANGED <<shelf, command, settings, made>>
        /\ Decide(path, Failed("Execute"))
    BY <1>6 DEF ToolFails
  <2>2. /\ DOMAIN fate' = DOMAIN fate
        /\ \A other \in DOMAIN fate :
             fate'[other] \in {fate[other], Cancelled, Failed("Execute")}
    BY <2>1 DEF Decide
  <2> QED
    BY <1>1, <1>2, <2>1, <2>2, NoNewPlan DEF SameCommand, Cancelled, Failed
<1>7. ASSUME NEW path \in DOMAIN fate, NEW damage, Transcode(path, damage)
      PROVE  PInv'
  <2> DEFINE plan   == fate[path].plan
             muxed  == Mux(shelf[path], Arguments(plan))
             staged == Damage(muxed, damage)
             m      == [source |-> shelf[path], output |-> staged, mode |-> Mode,
                        settings |-> settings]
  <2>1. UNCHANGED <<command, settings>> /\ fate[path].is = "ready"
    BY <1>7 DEF Transcode
  <2>2. path \in DOMAIN shelf /\ IsReport(shelf[path]) /\ HasFields(shelf[path])
    BY DEF IInv, PInv, FilesAreFound, ReportsAreReports, ShelfIsProbed
  <2>3. /\ Readable(shelf[path])
        /\ WellPlanned(plan, ConvertDocument(shelf[path]), settings, Mode)
        /\ Sensible(settings)
    BY <2>1 DEF PInv, PlansAreGood, IsGood, SettingsAreSensible, Are
  <2>4. Mode \in Modes \cup {"remux"}
    BY DEF IInv, ModeIsKnown, Mode
  <2>5. CASE Publishable(plan, staged)
    <3>1. /\ Decide(path, Succeeded)
          /\ shelf' = [p \in DOMAIN shelf \cup {plan.output} |->
                         IF p = plan.output THEN staged ELSE shelf[p]]
          /\ made' = made \cup {m}
      BY <2>5, <1>7 DEF Transcode
    <3>2. Validates(plan, ConvertDocument(staged))
      BY <2>5 DEF Publishable
    <3>3. PlaysWell(m)
      <4>1. m.settings = settings /\ m.mode = Mode /\ m.output = staged
        OBVIOUS
      <4> HIDE DEF m, plan
      <4> QED
        BY <2>2, <2>3, <2>4, <3>2, <4>1, WhatIsMadePlays
    <3>4. HasFields(staged)
      <4> HIDE DEF plan
      <4>1. WellSourced(plan.operations, ConvertDocument(shelf[path]))
            /\ Follows(plan, ConvertDocument(shelf[path]))
        BY <2>3 DEF WellPlanned
      <4>2. /\ IsReport(muxed)
            /\ DOMAIN muxed.streams = DOMAIN plan.operations
            /\ muxed.streams = [i \in DOMAIN muxed.streams |-> muxed.streams[i]]
        BY <2>2, <4>1, MuxesAreReports DEF WellSourced
      <4>3. \A n \in DOMAIN plan.operations : DOMAIN muxed.streams[n] = StreamFields
        BY <2>2, <2>3, <4>1, MuxCopies
      <4> HIDE DEF muxed
      <4>4. HasFields(muxed)
        BY <4>2, <4>3 DEF HasFields
      <4> QED
        BY <4>2, <4>4, DamageSpares
    <3> HIDE DEF staged, plan, m
    <3>5. ShelfIsProbed'
      BY <3>1, <3>4 DEF PInv, ShelfIsProbed
    <3>6. OutputPlays'
      BY <3>1, <3>3 DEF PInv, OutputPlays
    <3>7. /\ DOMAIN fate' = DOMAIN fate
          /\ \A other \in DOMAIN fate : fate'[other] \in {fate[other], Cancelled, Succeeded}
      BY <3>1 DEF Decide
    <3> QED
      BY <1>1, <2>1, <3>5, <3>6, <3>7, NoNewPlan DEF SameCommand, Cancelled, Succeeded
  <2>6. CASE ~ Publishable(plan, staged)
    <3>1. Decide(path, Failed("Execute")) /\ UNCHANGED <<shelf, made>>
      BY <2>6, <1>7 DEF Transcode
    <3>2. /\ DOMAIN fate' = DOMAIN fate
          /\ \A other \in DOMAIN fate :
               fate'[other] \in {fate[other], Cancelled, Failed("Execute")}
      BY <3>1 DEF Decide
    <3> QED
      BY <1>1, <1>2, <2>1, <3>1, <3>2, NoNewPlan DEF SameCommand, Cancelled, Failed
  <2> QED
    BY <2>5, <2>6
<1>8. CASE EnterExecution
  <2>1. /\ UNCHANGED <<shelf, command, settings, made>>
        /\ DOMAIN fate' = DOMAIN fate
        /\ \A path \in DOMAIN fate :
             fate'[path] \in {fate[path], Cancelled, Failed("Conflict")}
    BY <1>8 DEF EnterExecution
  <2> QED
    BY <1>1, <1>2, <2>1, NoNewPlan DEF SameCommand, Cancelled, Failed
<1>9. CASE Interrupt
  <2>1. /\ UNCHANGED <<shelf, command, settings, made>>
        /\ DOMAIN fate' = DOMAIN fate
        /\ \A path \in DOMAIN fate : fate'[path] \in {fate[path], Cancelled}
    BY <1>9 DEF Interrupt
  <2> QED
    BY <1>1, <1>2, <2>1, NoNewPlan DEF SameCommand, Cancelled
<1>10. CASE Finish \/ UNCHANGED vars
  <2>1. UNCHANGED <<shelf, command, settings, made, fate>>
    BY <1>10 DEF Finish, vars
  <2> QED
    BY <1>1, <1>2, <2>1, NoNewPlan DEF SameCommand
<1> QED
  BY <1>3, <1>4, <1>5, <1>6, <1>7, <1>8, <1>9, <1>10 DEF Next, Step

(* What is published plays: with a target that the profile accepts, the    *)
(* audio a player starts with is audio the profile accepts, and all audio  *)
(* when the originals go.  It needs of FFmpeg that a copied stream keeps   *)
(* its channels and that encoder options go by the ordinal of the audio;   *)
(* the rest validate_output has seen.                                      *)
THEOREM OutputsPlay == Spec => []OutputPlays
<1>1. IInv /\ PInv /\ [Next]_vars => PInv'
  BY PlansStep
<1>2. PInv => OutputPlays
  BY DEF PInv
<1> QED
  BY <1>1, <1>2, PInvAtFirst, Invariance, PTL DEF Spec

-----------------------------------------------------------------------------
(* If FFmpeg does what it is told, its output passes.                      *)

(* No two keys differ only in case, so that keys are found where they were.*)
Distinct(tags) == \A j, k \in DOMAIN tags : FoldedKey(j) = FoldedKey(k) => j = k

LEMMA FoundAsSpelled ==
  ASSUME NEW tags, Distinct(tags), NEW key \in DOMAIN tags
  PROVE  Lookup(tags, key) = tags[key]
<1> DEFINE alike == {k \in DOMAIN tags : FoldedKey(k) = FoldedKey(key)}
           upper == {k \in alike : k # FoldedKey(k)}
<1>1. alike = {key} /\ upper \subseteq {key}
  BY DEF Distinct
<1>2. Lookup(tags, key) = IF alike = {} THEN Null
                          ELSE IF upper # {} THEN tags[CHOOSE k \in upper : TRUE]
                          ELSE tags[CHOOSE k \in alike : TRUE]
  BY DEF Lookup
<1> HIDE DEF alike, upper
<1>3. (CHOOSE k \in alike : TRUE) = key
  BY <1>1
<1>4. upper # {} => (CHOOSE k \in upper : TRUE) = key
  BY <1>1
<1> QED
  BY <1>1, <1>2, <1>3, <1>4

LEMMA MuxedTagsAreDistinct ==
  ASSUME NEW tags, Distinct(tags),
         NEW options, DOMAIN options \subseteq {"language", "title"}
  PROVE  Distinct(MuxedTags(tags, options))
<1> DEFINE new == MuxedTags(tags, options)
<1>1. FoldedKey("language") = "language" /\ FoldedKey("title") = "title"
  BY DEF FoldedKey
<1>2. /\ DOMAIN new \subseteq DOMAIN tags \cup DOMAIN options
      /\ \A key \in DOMAIN new \ DOMAIN options :
           /\ key \in DOMAIN tags
           /\ \A o \in DOMAIN options : FoldedKey(key) # FoldedKey(o)
  BY DEF MuxedTags
<1> HIDE DEF new
<1>3. ASSUME NEW j \in DOMAIN new, NEW k \in DOMAIN new, FoldedKey(j) = FoldedKey(k)
      PROVE  j = k
  <2>1. CASE j \in DOMAIN options /\ k \in DOMAIN options
    BY <1>1, <1>3, <2>1
  <2>2. CASE j \notin DOMAIN options /\ k \notin DOMAIN options
    BY <1>2, <1>3, <2>2 DEF Distinct
  <2> QED
    BY <1>2, <1>3, <2>1, <2>2
<1> QED
  BY <1>3 DEF Distinct, new

LEMMA OneWordIsAText == ASSUME NEW T, NEW word \in T PROVE <<word>> \in Seq(T)
OBVIOUS

LEMMA MuxedTagsAreTexts ==
  ASSUME NEW tags, IsText(tags), NEW options, IsText(options)
  PROVE  /\ IsText(MuxedTags(tags, options))
         /\ DOMAIN MuxedTags(tags, options) \subseteq DOMAIN tags \cup DOMAIN options
<1> DEFINE new == MuxedTags(tags, options)
<1>1. /\ DOMAIN new \subseteq DOMAIN tags \cup DOMAIN options
      /\ \A key \in DOMAIN new :
           \/ key \in DOMAIN options /\ new[key] = options[key]
           \/ key \notin DOMAIN options /\ new[key] = <<"measured">>
           \/ key \in DOMAIN tags /\ new[key] = tags[key]
  BY DEF MuxedTags
<1> HIDE DEF new
<1>2. <<"measured">> \in Seq(STRING)
  <2>1. "measured" \in STRING
    BY WordsAssumption
  <2> QED
    BY <2>1, OneWordIsAText
<1>3. IsText(new)
  BY <1>1, <1>2 DEF IsText
<1> QED
  BY <1>1, <1>3 DEF new

(* Tags come through: those given by option, and the rest as they were,    *)
(* if no option is spelled like one of them.                               *)
LEMMA TagsSurvive ==
  ASSUME NEW tags, Distinct(tags),
         NEW options, DOMAIN options \subseteq {"language", "title"},
         \A key \in DOMAIN options : options[key] # Bad,
         NEW expected,
         \A key \in DOMAIN expected \ DOMAIN options :
           /\ key \in DOMAIN tags
           /\ tags[key] # Bad
           /\ expected[key] = tags[key]
           /\ \A o \in DOMAIN options : FoldedKey(key) # FoldedKey(o),
         \A key \in DOMAIN expected \cap DOMAIN options : expected[key] = options[key]
  PROVE  MetadataMatches(expected, Metadata(MuxedTags(tags, options)))
<1> DEFINE new  == MuxedTags(tags, options)
           read == Metadata(new)
<1>1. Distinct(new)
  BY MuxedTagsAreDistinct
<1>2. ASSUME NEW key \in DOMAIN expected, key # "DURATION"
      PROVE  key \in DOMAIN new /\ new[key] = expected[key] /\ new[key] # Bad
  <2>1. CASE key \in DOMAIN options
    BY <2>1 DEF MuxedTags
  <2>2. CASE key \notin DOMAIN options
    <3>1. key \in DOMAIN tags \ {k \in DOMAIN tags : \E o \in DOMAIN options :
                                                       FoldedKey(k) = FoldedKey(o)}
      BY <2>2
    <3> QED
      BY <1>2, <2>2, <3>1 DEF MuxedTags
  <2> QED
    BY <2>1, <2>2
<1> HIDE DEF new
<1>3. /\ DOMAIN read = {k \in DOMAIN new : new[k] # Bad}
      /\ \A key \in DOMAIN read : read[key] = new[key]
  BY DEF Metadata
<1> HIDE DEF read
<1>4. Distinct(read)
  BY <1>1, <1>3 DEF Distinct
<1>5. ASSUME NEW key \in DOMAIN expected \ Volatile
      PROVE  Lookup(read, key) = expected[key]
  <2>1. key # "DURATION"
    BY DEF Volatile
  <2>2. key \in DOMAIN read /\ read[key] = expected[key]
    BY <1>2, <1>3, <2>1
  <2> QED
    BY <1>4, <2>2, FoundAsSpelled
<1> QED
  BY <1>5 DEF MetadataMatches, read, new

(* Tags that nobody touches are the same.                                  *)
LEMMA TagsStay ==
  ASSUME NEW tags, Distinct(tags)
  PROVE  MetadataMatches(Metadata(tags), Metadata(tags))
<1> DEFINE read == Metadata(tags)
<1>1. DOMAIN read \subseteq DOMAIN tags
  BY DEF Metadata
<1> HIDE DEF read
<1>2. Distinct(read)
  BY <1>1 DEF Distinct
<1> QED
  BY <1>2, FoundAsSpelled DEF MetadataMatches, read

(* Times that are left alone have no distance.                             *)
IsTimed(raw) == /\ {raw.start, raw.duration} \subseteq Number
                /\ raw.base \in Fraction

LEMMA NoDistance ==
  ASSUME NEW time \in Int, NEW base \in Int \X Int, base[1] > 0, base[2] > 0
  PROVE  /\ ScaledDifference(time, base, time, base) = 0
         /\ WithinTick(time, base, time, base)
         /\ \A codec : \A rate \in Int : rate # Null => WithinFrame(time, base, time, base, rate, codec)
<1>1. PICK p \in Int, q \in Int : p = base[1] /\ q = base[2]
  OBVIOUS
<1>2. p > 0 /\ q > 0
  BY <1>1
<1>3. \A a, b, c \in Int : a * b * c \in Int
  BY Z3
<1>4. \A a, b \in Int : a > 0 /\ b > 0 => 0 <= a * b
  BY Z3
<1>5. \A a \in Int : 0 * a = 0
  BY Z3
<1>6. \A a \in Int : Distance(a, a) = 0
  BY DEF Distance
<1>7. ScaledDifference(time, base, time, base) = 0
  BY <1>1, <1>3, <1>6 DEF ScaledDifference
<1>8. WithinTick(time, base, time, base)
  BY <1>1, <1>2, <1>4, <1>7 DEF WithinTick
<1>9. ASSUME NEW codec, NEW rate \in Int, rate # Null
      PROVE  WithinFrame(time, base, time, base, rate, codec)
  <2>1. FrameSamples(codec) \in Int /\ FrameSamples(codec) > 0
    BY DEF FrameSamples
  <2>2. PICK samples \in Int : samples = FrameSamples(codec) /\ samples > 0
    BY <2>1
  <2>3. \A a, b \in Int : a > 0 /\ b > 0 => 0 <= a * a * b
    BY Z3
  <2>4. 0 * rate <= q * q * samples
    BY <1>2, <1>5, <2>2, <2>3
  <2> QED
    BY <1>1, <1>7, <1>9, <2>2, <2>4 DEF WithinFrame
<1> QED
  BY <1>7, <1>8, <1>9

LEMMA TimesMatch ==
  ASSUME NEW raw, IsTimed(raw), raw.base # Null => TimeBase(raw.base),
         NEW expected, NEW actual,
         expected.start = Start(raw), expected.duration = IntegerOrNull(raw.duration),
         actual.start = Start(raw), actual.duration = IntegerOrNull(raw.duration),
         expected.encoded => IsAudio(actual) /\ actual.rate \in Int /\ actual.rate # Null
  PROVE  StartMatches(expected, actual) /\ DurationMatches(expected, actual)
<1>1. ASSUME Start(raw) # Null
      PROVE  /\ Start(raw)[1] \in Int
             /\ Start(raw)[2] \in Int \X Int /\ Start(raw)[2][1] > 0 /\ Start(raw)[2][2] > 0
  <2>1. /\ raw.start \in Int
        /\ raw.base # Null
        /\ Start(raw)[1] = raw.start /\ Start(raw)[2] = raw.base
    BY <1>1 DEF Start, IntegerOrNull, IsTimed, Number
  <2>2. raw.base \in Int \X Int /\ raw.base[1] > 0 /\ raw.base[2] > 0
    BY <2>1 DEF IsTimed, Fraction, TimeBase
  <2> QED
    BY <2>1, <2>2
<1>2. IntegerOrNull(raw.duration) # Null => IntegerOrNull(raw.duration) \in Int
  BY DEF IntegerOrNull, IsTimed, Number
<1>3. ASSUME NEW time \in Int, Start(raw) # Null
      PROVE  Close(expected, actual, time, Start(raw)[2], time, Start(raw)[2])
  <2>1. PICK base \in Int \X Int : base = Start(raw)[2] /\ base[1] > 0 /\ base[2] > 0
    BY <1>1, <1>3
  <2>2. WithinTick(time, base, time, base)
    BY <2>1, NoDistance
  <2>3. expected.encoded => WithinFrame(time, base, time, base, actual.rate, expected.codec)
    BY <2>1, NoDistance
  <2> QED
    BY <2>1, <2>2, <2>3 DEF Close
<1>4. StartMatches(expected, actual)
  BY <1>1, <1>3 DEF StartMatches
<1>5. DurationMatches(expected, actual)
  BY <1>2, <1>3 DEF DurationMatches
<1> QED
  BY <1>4, <1>5

(* A copy is what it was.                                                  *)
LEMMA CopySurvives ==
  ASSUME NEW raw, DOMAIN raw = StreamFields, IsTimed(raw), Distinct(raw.tags),
         raw.base # Null => TimeBase(raw.base),
         NEW media, NEW operation, NEW n, ~ operation.encode,
         SourceOf(media, operation) = ConvertStream(raw)
  PROVE  StreamMatches(ExpectedStream(media, operation), operation,
                       ConvertStream(MuxedStream(raw, n, Null, <<>>, operation.flags)))
<1> DEFINE new      == MuxedStream(raw, n, Null, <<>>, operation.flags)
           expected == ExpectedStream(media, operation)
           actual   == ConvertStream(new)
<1>1. /\ new.tags = MuxedTags(raw.tags, <<>>) /\ new.flags = operation.flags
      /\ new.type = raw.type /\ new.name = raw.name /\ new.start = raw.start
      /\ new.duration = raw.duration /\ new.base = raw.base
  BY FieldsOfAMuxedStream
<1> HIDE DEF new
<1>2. /\ actual.kind = raw.type
      /\ actual.codec = IF raw.name = Null THEN "unknown" ELSE raw.name
      /\ actual.flags = operation.flags
      /\ actual.start = Start(raw) /\ actual.duration = IntegerOrNull(raw.duration)
      /\ actual.tags = Metadata(MuxedTags(raw.tags, <<>>))
  BY <1>1, FieldsOfAStream DEF Start
<1> HIDE DEF actual
<1>3. PICK s : s = ConvertStream(raw)
  OBVIOUS
<1>4. /\ s.kind = raw.type
      /\ s.codec = IF raw.name = Null THEN "unknown" ELSE raw.name
      /\ s.start = Start(raw) /\ s.duration = IntegerOrNull(raw.duration)
      /\ s.tags = Metadata(raw.tags)
  BY <1>3, FieldsOfAStream
<1>5. /\ expected.kind = s.kind /\ ~ expected.encoded /\ expected.codec = s.codec
      /\ expected.start = s.start /\ expected.duration = s.duration
      /\ expected.tags = s.tags /\ expected.flags = operation.flags
  BY <1>3 DEF ExpectedStream
<1> HIDE DEF expected
<1>6. MetadataMatches(expected.tags, actual.tags)
  <2>1. DOMAIN <<>> = {}
    OBVIOUS
  <2>2. \A key \in DOMAIN Metadata(raw.tags) :
          /\ key \in DOMAIN raw.tags
          /\ raw.tags[key] # Bad
          /\ Metadata(raw.tags)[key] = raw.tags[key]
    BY DEF Metadata
  <2>3. PICK none : none = <<>> /\ DOMAIN none = {}
    BY <2>1
  <2>4. MetadataMatches(Metadata(raw.tags), Metadata(MuxedTags(raw.tags, none)))
    BY <2>2, <2>3, TagsSurvive
  <2> QED
    BY <1>2, <1>4, <1>5, <2>3, <2>4
<1>7. StartMatches(expected, actual) /\ DurationMatches(expected, actual)
  BY <1>2, <1>4, <1>5, TimesMatch
<1> QED
  BY <1>2, <1>4, <1>5, <1>6, <1>7 DEF StreamMatches, CodecMatches, ChannelsMatch, expected, actual, new

LEMMA SmallerIsSmall ==
  ASSUME NEW count \in 1 .. MaxChannels
  PROVE  Smaller(count, 6) \in 1 .. 6
<1>1. count \in Nat /\ 1 <= count
  OBVIOUS
<1> QED
  BY <1>1 DEF Smaller

(* The tags of a derivative are texts, and those that are not given by     *)
(* option were those of the source.                                        *)
LEMMA DerivedTagsAreTexts ==
  ASSUME NEW stream, stream.channels \in 1 .. MaxChannels,
         \A key \in DOMAIN stream.tags : stream.tags[key] \in Seq(STRING),
         NEW target, target.codec \in DOMAIN CodecNames
  PROVE  LET tags == DerivedTags(target, stream) IN
           /\ \A key \in DOMAIN tags : tags[key] \in Seq(STRING)
           /\ \A key \in DOMAIN tags \ {"title"} :
                key \in DOMAIN stream.tags /\ tags[key] = stream.tags[key]
<1> DEFINE tags == DerivedTags(target, stream)
<1>1. target.codec \in STRING
  BY WordsAssumption DEF CodecNames
<1>2. LayoutLabel(target, stream) \in STRING
  <2>1. CASE target.layout \in {"stereo", "5.1"}
    BY <2>1, WordsAssumption DEF LayoutLabel
  <2>2. CASE target.layout \notin {"stereo", "5.1"}
    <3>1. Smaller(stream.channels, 6) \in 1 .. 6
      BY SmallerIsSmall
    <3>2. \A i \in 1 .. 6 : LayoutLabels[i] \in {"mono", "stereo", "3.0", "4.0", "5.0", "5.1"}
      BY DEF LayoutLabels
    <3> QED
      BY <2>2, <3>1, <3>2, WordsAssumption DEF LayoutLabel
  <2> QED
    BY <2>1, <2>2
<1>3. Suffix(target, stream) \in Seq(STRING)
  BY <1>1, <1>2 DEF Suffix
<1>4. \A a, b \in Seq(STRING) : a \o b \in Seq(STRING)
  OBVIOUS
<1>5. /\ DOMAIN tags = DOMAIN stream.tags \cup {"title"}
      /\ \A key \in DOMAIN tags \ {"title"} : tags[key] = stream.tags[key]
      /\ tags["title"] = IF "title" \in DOMAIN stream.tags
                         THEN stream.tags["title"] \o Suffix(target, stream)
                         ELSE Suffix(target, stream)
  BY DEF DerivedTags
<1> HIDE DEF tags
<1>6. tags["title"] \in Seq(STRING)
  BY <1>3, <1>4, <1>5
<1> QED
  BY <1>5, <1>6 DEF tags

(* Audio that is encoded has a sample rate, which validation needs, and a  *)
(* number of channels that an encoder can make.                            *)
EncodesWell(operation, raw) ==
  /\ operation.encode
  /\ \E target, flags : operation = Encode(target, ConvertStream(raw), flags)
  /\ operation.target.codec \in DOMAIN CodecNames
  /\ operation.target.bitrate \in Int

LEMMA EncoderOptionsAreOptions ==
  ASSUME NEW raw, raw.channels \in 1 .. MaxChannels,
         NEW operation, EncodesWell(operation, raw)
  PROVE  /\ operation.channels \in 1 .. 6
         /\ EncoderOptions(operation) # Null
         /\ EncoderOptions(operation).encoder = CodecNames[operation.target.codec]
         /\ EncoderOptions(operation).channels = operation.channels
<1>1. PICK target, flags : operation = Encode(target, ConvertStream(raw), flags)
  BY DEF EncodesWell
<1>2. operation.channels = EffectiveChannels(target, ConvertStream(raw))
  BY <1>1 DEF Encode
<1>3. \A c \in 1 .. MaxChannels : Smaller(c, 6) \in 1 .. 6
  BY SmallerIsSmall
<1>4. ConvertStream(raw).channels = raw.channels
  BY FieldsOfAStream
<1>5. operation.channels \in 1 .. 6
  BY <1>2, <1>3, <1>4 DEF EffectiveChannels
<1>6. CodecNames[operation.target.codec] \in {"ac3", "eac3", "aac"}
  BY DEF EncodesWell, CodecNames
<1>7. PICK options : options = EncoderOptions(operation)
  OBVIOUS
<1>8. \A name \in {"ac3", "eac3", "aac"}, bitrate \in Int, channels \in Int :
        [encoder |-> name, bitrate |-> bitrate, channels |-> channels]
          \in [encoder : {"ac3", "eac3", "aac"}, bitrate : Int, channels : Int]
  OBVIOUS
<1>9. EncoderOptions(operation) \in [encoder : {"ac3", "eac3", "aac"}, bitrate : Int, channels : Int]
  BY <1>5, <1>6, <1>8 DEF EncoderOptions, EncodesWell
<1> QED
  BY <1>5, <1>9, OptionsAssumption DEF EncoderOptions

(* A derivative is what was planned.                                       *)
LEMMA DerivativeSurvives ==
  ASSUME NEW raw, DOMAIN raw = StreamFields, IsTimed(raw), Distinct(raw.tags), IsText(raw.tags),
         raw.base # Null => TimeBase(raw.base), raw.type = "audio", "TITLE" \notin DOMAIN raw.tags,
         raw.channels \in 1 .. MaxChannels, raw.rate \in Number, PositiveOrNull(raw.rate) # Null,
         NEW media, NEW operation, NEW n, EncodesWell(operation, raw),
         SourceOf(media, operation) = ConvertStream(raw)
  PROVE  StreamMatches(ExpectedStream(media, operation), operation,
                       ConvertStream(MuxedStream(raw, n, EncoderOptions(operation),
                                                 TagOptions(operation), operation.flags)))
<1> DEFINE options  == EncoderOptions(operation)
           given    == TagOptions(operation)
           new      == MuxedStream(raw, n, options, given, operation.flags)
           expected == ExpectedStream(media, operation)
           actual   == ConvertStream(new)
           stream   == ConvertStream(raw)
<1>1. /\ operation.channels \in 1 .. 6
      /\ options # Null
      /\ options.encoder = CodecNames[operation.target.codec]
      /\ options.channels = operation.channels
  BY EncoderOptionsAreOptions
<1>2. CodecNames[operation.target.codec] # Null
  <2>1. CodecNames[operation.target.codec] \in {"ac3", "eac3", "aac"}
    BY DEF EncodesWell, CodecNames
  <2> QED
    BY <2>1, NullAssumption, WordsAssumption
<1> HIDE DEF options, given
<1>3. /\ new.tags = MuxedTags(raw.tags, given) /\ new.flags = operation.flags
      /\ new.type = "audio" /\ new.name = CodecNames[operation.target.codec]
      /\ new.channels = operation.channels /\ new.rate = raw.rate
      /\ new.start = raw.start /\ new.duration = raw.duration /\ new.base = raw.base
  BY <1>1, FieldsOfAMuxedStream
<1> HIDE DEF new
<1>4. /\ actual.kind = "audio"
      /\ actual.codec = CodecNames[operation.target.codec]
      /\ actual.channels = operation.channels
      /\ actual.rate = PositiveOrNull(raw.rate)
      /\ actual.flags = operation.flags
      /\ actual.start = Start(raw) /\ actual.duration = IntegerOrNull(raw.duration)
      /\ actual.tags = Metadata(MuxedTags(raw.tags, given))
  BY <1>2, <1>3, FieldsOfAStream DEF Start
<1> HIDE DEF actual
<1>5. actual.rate \in Int /\ actual.rate # Null
  BY <1>4 DEF PositiveOrNull, Number
<1>6. /\ stream.start = Start(raw) /\ stream.duration = IntegerOrNull(raw.duration)
      /\ stream.tags = Metadata(raw.tags) /\ stream.channels = raw.channels
  BY FieldsOfAStream
<1> HIDE DEF stream
<1>7. /\ expected.kind = "audio" /\ expected.encoded
      /\ expected.codec = operation.target.codec
      /\ expected.start = stream.start /\ expected.duration = stream.duration
      /\ expected.tags = operation.tags /\ expected.flags = operation.flags
  BY DEF ExpectedStream, EncodesWell, stream
<1> HIDE DEF expected
<1>8. PICK target, flags : operation = Encode(target, stream, flags)
  BY DEF EncodesWell, stream
<1>9. operation.tags = DerivedTags(target, stream) /\ operation.target = target
  BY <1>8 DEF Encode
<1>10. /\ \A key \in DOMAIN stream.tags :
            /\ key \in DOMAIN raw.tags /\ raw.tags[key] # Bad
            /\ stream.tags[key] = raw.tags[key]
       /\ \A key \in DOMAIN stream.tags : stream.tags[key] \in Seq(STRING)
  BY <1>6 DEF Metadata, IsText
<1>11. /\ \A key \in DOMAIN operation.tags : operation.tags[key] \in Seq(STRING)
       /\ \A key \in DOMAIN operation.tags \ {"title"} :
            key \in DOMAIN stream.tags /\ operation.tags[key] = stream.tags[key]
  BY <1>6, <1>9, <1>10, DerivedTagsAreTexts DEF EncodesWell
<1>12. /\ DOMAIN given = {"language", "title"} \cap DOMAIN operation.tags
       /\ \A key \in DOMAIN given : given[key] = operation.tags[key]
  BY DEF TagOptions, given
<1>13. MetadataMatches(operation.tags, Metadata(MuxedTags(raw.tags, given)))
  <2>1. \A key \in DOMAIN given : given[key] # Bad
    BY <1>11, <1>12, NullAssumption
  <2>2. \A key \in DOMAIN operation.tags \ DOMAIN given :
          /\ key \in DOMAIN raw.tags
          /\ raw.tags[key] # Bad
          /\ operation.tags[key] = raw.tags[key]
    BY <1>10, <1>11, <1>12
  <2>3. ASSUME NEW key \in DOMAIN operation.tags \ DOMAIN given, NEW o \in DOMAIN given
        PROVE  FoldedKey(key) # FoldedKey(o)
    <3>1. CASE key = "LANGUAGE"
      <4>1. "language" \notin DOMAIN raw.tags
        BY <2>2, <3>1 DEF Distinct, FoldedKey
      <4>2. "language" \notin DOMAIN given
        BY <1>10, <1>11, <1>12, <4>1
      <4> QED
        BY <1>12, <3>1, <4>2 DEF FoldedKey
    <3>2. CASE key # "LANGUAGE"
      <4>1. key \notin {"TITLE", "language", "title"}
        BY <1>12, <2>2
      <4> QED
        BY <1>12, <3>2, <4>1 DEF FoldedKey
    <3> QED
      BY <3>1, <3>2
  <2> QED
    BY <1>12, <2>1, <2>2, <2>3, TagsSurvive
<1>14. StartMatches(expected, actual) /\ DurationMatches(expected, actual)
  BY <1>4, <1>5, <1>6, <1>7, TimesMatch DEF IsAudio
<1> QED
  BY <1>4, <1>7, <1>13, <1>14
  DEF StreamMatches, CodecMatches, ChannelsMatch, IsAudio, expected, actual, new, options, given

LEMMA SixIsFew == \A c \in 1 .. 6 : c \in 1 .. MaxChannels
BY DEF MaxChannels

(* A report without doubled keys, whose audio has a sample rate and no     *)
(* title in upper case.                                                    *)
IsTidyStream(raw) ==
  /\ DOMAIN raw = StreamFields
  /\ IsTimed(raw) /\ raw.rate \in Number
  /\ IsText(raw.tags) /\ Distinct(raw.tags)
  /\ raw.type = "audio" => "TITLE" \notin DOMAIN raw.tags /\ PositiveOrNull(raw.rate) # Null

Tidy(report) ==
  /\ Distinct(report.tags)
  /\ \A i \in DOMAIN report.streams :
       LET raw == report.streams[i] IN
         /\ Distinct(raw.tags)
         /\ raw.type = "audio" => /\ "TITLE" \notin DOMAIN raw.tags
                                  /\ PositiveOrNull(raw.rate) # Null
  /\ \A i \in DOMAIN report.chapters : Distinct(report.chapters[i].tags)

IsTidyReport(report) == HasFields(report) /\ HasTypes(report) /\ Tidy(report)

LEMMA TidyStreams ==
  ASSUME NEW report, IsTidyReport(report), NEW i \in DOMAIN report.streams
  PROVE  IsTidyStream(report.streams[i])
BY DEF IsTidyReport, HasFields, HasTypes, Tidy, IsTidyStream, IsTimed

(* One stream of the output.                                               *)
LEMMA OneStreamSurvives ==
  ASSUME NEW report, IsReport(report), Readable(report), IsTidyReport(report),
         NEW s, Sensible(s), NEW mode, NEW plan, WellPlanned(plan, ConvertDocument(report), s, mode),
         NEW n \in DOMAIN plan.operations
  PROVE  LET new == Mux(report, Arguments(plan)).streams[n] IN
           /\ IsTidyStream(new)
           /\ new.index = n - 1
           /\ n - 1 # Null => StreamReadable(new)
           /\ StreamMatches(plan.expected[n], plan.operations[n], ConvertStream(new))
<1> DEFINE media     == ConvertDocument(report)
           operation == plan.operations[n]
           new       == Mux(report, Arguments(plan)).streams[n]
<1>1. /\ Plannable(media) /\ DOMAIN media.streams = DOMAIN report.streams
      /\ \A i \in DOMAIN report.streams : media.streams[i] = ConvertStream(report.streams[i])
  BY ReportsCanBePlanned DEF ConvertDocument
<1>2. PICK j \in DOMAIN report.streams :
        /\ operation.source = report.streams[j].index
        /\ SourceOf(media, operation) = ConvertStream(report.streams[j])
        /\ operation.encode => report.streams[j].type = "audio"
        /\ new = MuxedStream(report.streams[j], n, OptionsOf(operation),
                             TagsGiven(operation), operation.flags)
  BY MuxObeys DEF WellPlanned
<1>3. plan.expected[n] = ExpectedStream(media, operation)
  BY DEF WellPlanned, Follows
<1>4. PICK raw : raw = report.streams[j]
  OBVIOUS
<1>5. IsTidyStream(raw) /\ StreamReadable(raw)
  BY <1>4, TidyStreams DEF Readable
<1>6. PICK i \in DOMAIN media.streams :
        \/ \E flags : operation = Copy(media.streams[i], flags)
        \/ \E flags : operation = Encode(s.target, media.streams[i], flags)
  BY DEF WellPlanned, WellMade, IsMade
<1>7. i = j
  <2>1. operation.source = media.streams[i].index
    <3>1. \A stream, flags : Copy(stream, flags).source = stream.index
      BY DEF Copy
    <3>2. \A target, stream, flags : Encode(target, stream, flags).source = stream.index
      BY DEF Encode
    <3> QED
      BY <1>6, <3>1, <3>2
  <2>2. media.streams[i].index = report.streams[i].index
    BY <1>1, FieldsOfAStream
  <2> QED
    BY <1>1, <1>2, <2>1, <2>2 DEF Readable
<1> HIDE DEF new, operation, media
<1>8. CASE ~ operation.encode
  <2>1. new = MuxedStream(raw, n, Null, <<>>, operation.flags)
    BY <1>2, <1>4, <1>8 DEF OptionsOf, TagsGiven
  <2>2. StreamMatches(plan.expected[n], operation, ConvertStream(new))
    BY <1>2, <1>3, <1>4, <1>5, <1>8, <2>1, CopySurvives DEF IsTidyStream, StreamReadable
  <2>3. /\ DOMAIN new = StreamFields /\ new.index = n - 1
        /\ new.tags = MuxedTags(raw.tags, <<>>)
        /\ new.type = raw.type /\ new.rate = raw.rate /\ new.start = raw.start
        /\ new.duration = raw.duration /\ new.base = raw.base /\ new.channels = raw.channels
    BY <1>5, <2>1, FieldsOfAMuxedStream DEF IsTidyStream
  <2>4. PICK none : none = <<>> /\ DOMAIN none = {}
    OBVIOUS
  <2>5. /\ Distinct(new.tags) /\ IsText(new.tags)
        /\ "TITLE" \in DOMAIN new.tags => "TITLE" \in DOMAIN raw.tags
    <3>1. IsText(none) /\ DOMAIN none \subseteq {"language", "title"}
      BY <2>4 DEF IsText
    <3> QED
      BY <1>5, <2>3, <2>4, <3>1, MuxedTagsAreDistinct, MuxedTagsAreTexts DEF IsTidyStream
  <2>6. IsTidyStream(new)
    BY <1>5, <2>3, <2>5 DEF IsTidyStream, IsTimed
  <2>7. n - 1 # Null => StreamReadable(new)
    BY <1>5, <2>3 DEF StreamReadable
  <2> QED
    BY <2>2, <2>3, <2>6, <2>7 DEF new, operation
<1>9. CASE operation.encode
  <2>1. EncodesWell(operation, raw)
    <3>1. media.streams[i] = ConvertStream(raw)
      BY <1>1, <1>4, <1>7
    <3>2. PICK flags : operation = Encode(s.target, ConvertStream(raw), flags)
      BY <1>6, <1>9, <3>1 DEF Copy
    <3>3. operation.target = s.target
      BY <3>2 DEF Encode
    <3> QED
      BY <1>9, <3>2, <3>3 DEF EncodesWell, Sensible
  <2>2. raw.type = "audio" /\ raw.channels \in 1 .. MaxChannels
    BY <1>2, <1>4, <1>5, <1>9 DEF StreamReadable, ChannelCount
  <2>3. new = MuxedStream(raw, n, EncoderOptions(operation), TagOptions(operation),
                          operation.flags)
    BY <1>2, <1>4, <1>9 DEF OptionsOf, TagsGiven
  <2>4. StreamMatches(plan.expected[n], operation, ConvertStream(new))
    BY <1>2, <1>3, <1>4, <1>5, <2>1, <2>2, <2>3, DerivativeSurvives
    DEF IsTidyStream, StreamReadable
  <2>5. EncoderOptions(operation) # Null
        /\ EncoderOptions(operation).channels \in 1 .. 6
    BY <2>1, <2>2, EncoderOptionsAreOptions
  <2>6. /\ DOMAIN new = StreamFields /\ new.index = n - 1
        /\ new.tags = MuxedTags(raw.tags, TagOptions(operation))
        /\ new.type = raw.type /\ new.rate = raw.rate /\ new.start = raw.start
        /\ new.duration = raw.duration /\ new.base = raw.base /\ new.channels \in 1 .. 6
    BY <1>5, <2>3, <2>5, FieldsOfAMuxedStream DEF IsTidyStream
  <2>7. /\ Distinct(new.tags) /\ IsText(new.tags)
        /\ "TITLE" \in DOMAIN new.tags => "TITLE" \in DOMAIN raw.tags
    <3>1. PICK target, flags : operation = Encode(target, ConvertStream(raw), flags)
      BY <2>1 DEF EncodesWell
    <3>2. PICK stream : stream = ConvertStream(raw)
      OBVIOUS
    <3>3. operation.tags = DerivedTags(target, stream) /\ operation.target = target
      BY <3>1, <3>2 DEF Encode
    <3>4. stream.tags = Metadata(raw.tags) /\ stream.channels = raw.channels
      BY <3>2, FieldsOfAStream
    <3>5. \A key \in DOMAIN stream.tags : stream.tags[key] \in Seq(STRING)
      BY <1>5, <3>4 DEF Metadata, IsText, IsTidyStream
    <3>6. \A key \in DOMAIN operation.tags : operation.tags[key] \in Seq(STRING)
      BY <2>1, <2>2, <3>3, <3>4, <3>5, DerivedTagsAreTexts DEF EncodesWell
    <3>7. IsText(TagOptions(operation)) /\ DOMAIN TagOptions(operation) \subseteq {"language", "title"}
      BY <3>6 DEF TagOptions, IsText
    <3> QED
      BY <1>5, <2>6, <3>7, MuxedTagsAreDistinct, MuxedTagsAreTexts DEF IsTidyStream
  <2>8. IsTidyStream(new)
    BY <1>5, <2>6, <2>7 DEF IsTidyStream, IsTimed
  <2>9. n - 1 # Null => StreamReadable(new)
    <3>1. \A c \in 1 .. 6 : ChannelCount(c)
      <4>1. \A c \in 1 .. 6 : c \in Int
        OBVIOUS
      <4>2. \A c \in 1 .. 6 : c \in 1 .. MaxChannels
        BY SixIsFew
      <4> QED
        BY <4>1, <4>2, NullAssumption DEF ChannelCount
    <3> QED
      BY <1>5, <2>6, <3>1 DEF StreamReadable
  <2> QED
    BY <2>4, <2>6, <2>8, <2>9 DEF new, operation
<1> QED
  BY <1>8, <1>9

(* All of the output.                                                      *)
LEMMA MuxChangesStreamsOnly ==
  ASSUME NEW report, IsReport(report), NEW arguments
  PROVE  /\ DOMAIN Mux(report, arguments) = DOMAIN report
         /\ Mux(report, arguments).names = report.names
         /\ Mux(report, arguments).start = report.start
         /\ Mux(report, arguments).duration = report.duration
         /\ Mux(report, arguments).tags = report.tags
         /\ Mux(report, arguments).chapters = report.chapters
BY DEF Mux, IsReport

LEMMA MuxSucceeds ==
  ASSUME NEW report, IsReport(report), Readable(report), IsTidyReport(report),
         NEW s, Sensible(s), NEW mode \in Modes \cup {"remux"},
         NEW plan, WellPlanned(plan, ConvertDocument(report), s, mode)
  PROVE  LET output == Mux(report, Arguments(plan)) IN
           Readable(output) /\ Validates(plan, ConvertDocument(output))
<1> DEFINE media  == ConvertDocument(report)
           output == Mux(report, Arguments(plan))
           actual == ConvertDocument(output)
           C(i)   == report.chapters[i]
<1>1. /\ output.names = report.names /\ output.tags = report.tags
      /\ output.start = report.start /\ output.duration = report.duration
      /\ output.chapters = report.chapters
  BY MuxChangesStreamsOnly
<1>2. DOMAIN output.streams = DOMAIN plan.operations
  BY MuxesAreReports DEF WellPlanned, WellSourced
<1>3. PICK k \in Nat : DOMAIN plan.operations = 1 .. k
  BY DEF WellPlanned, WellSourced, Listed
<1>4. DOMAIN plan.operations # {}
  BY DEF WellPlanned, WellHeard, Modes
<1>5. \A n \in DOMAIN plan.operations :
        /\ output.streams[n].index = n - 1
        /\ StreamReadable(output.streams[n])
        /\ StreamMatches(plan.expected[n], plan.operations[n], ConvertStream(output.streams[n]))
  <2>1. \A n \in DOMAIN plan.operations : n - 1 # Null
    <3>1. \A n \in DOMAIN plan.operations : n - 1 \in Int
      BY <1>3
    <3> QED
      BY <3>1, NullAssumption
  <2> QED
    BY <2>1, OneStreamSurvives
<1>6. /\ actual.names = report.names
      /\ actual.tags = Metadata(report.tags)
      /\ actual.chapters = media.chapters
      /\ media.tags = Metadata(report.tags)
      /\ DOMAIN actual.streams = DOMAIN plan.operations
      /\ \A n \in DOMAIN plan.operations : actual.streams[n] = ConvertStream(output.streams[n])
  BY <1>1, <1>2 DEF ConvertDocument
<1> HIDE DEF output, actual
<1>7. Readable(output)
  <2>1. output.streams # <<>>
    BY <1>2, <1>4
  <2>2. \A i, j \in DOMAIN output.streams :
          output.streams[i].index = output.streams[j].index => i = j
    BY <1>2, <1>3, <1>5
  <2> QED
    BY <1>1, <1>2, <1>5, <2>1, <2>2 DEF Readable
<1>8. ASSUME NEW i \in DOMAIN report.chapters
      PROVE  ChapterMatches(media.chapters[i], media.chapters[i])
  <2>1. /\ DOMAIN C(i) = {"id", "base", "start", "end", "tags"}
        /\ {C(i).id, C(i).start, C(i).end} \subseteq Number /\ C(i).base \in Fraction
    BY DEF IsTidyReport, HasTypes
  <2>2. Distinct(C(i).tags) /\ ChapterReadable(C(i))
    BY DEF IsTidyReport, Tidy, Readable
  <2>3. media.chapters[i] = [C(i) EXCEPT !.tags = Metadata(@)]
    BY DEF ConvertDocument
  <2>4. PICK new : new = media.chapters[i]
    OBVIOUS
  <2>5. /\ new.base = C(i).base /\ new.start = C(i).start /\ new.end = C(i).end
        /\ new.tags = Metadata(C(i).tags)
    BY <2>1, <2>3, <2>4
  <2>6. /\ C(i).start \in Int /\ C(i).end \in Int
        /\ C(i).base \in Int \X Int /\ C(i).base[1] > 0 /\ C(i).base[2] > 0
    BY <2>1, <2>2 DEF ChapterReadable, TimeBase, Number, Fraction
  <2>7. /\ RationalEqual(C(i).start, C(i).base, C(i).start, C(i).base)
        /\ RationalEqual(C(i).end, C(i).base, C(i).end, C(i).base)
    BY <2>6, NoDistance DEF RationalEqual
  <2>8. MetadataMatches(new.tags, new.tags)
    BY <2>2, <2>5, TagsStay
  <2> QED
    BY <2>4, <2>5, <2>7, <2>8 DEF ChapterMatches
<1>9. DOMAIN media.chapters = DOMAIN report.chapters
  BY DEF ConvertDocument
<1>10. MetadataMatches(media.tags, actual.tags)
  BY <1>6, TagsStay DEF IsTidyReport, Tidy
<1>11. /\ plan.chapters = media.chapters /\ plan.tags = media.tags
       /\ DOMAIN plan.expected = DOMAIN plan.operations
  BY DEF WellPlanned, Follows
<1>12. IsMatroska(actual)
  BY <1>6 DEF WellPlanned, IsMatroska, ConvertDocument
<1> HIDE DEF media
<1>13. Validates(plan, actual)
  BY <1>5, <1>6, <1>8, <1>9, <1>10, <1>11, <1>12 DEF Validates
<1> QED
  BY <1>7, <1>13 DEF actual, output

-----------------------------------------------------------------------------
(* What FFmpeg writes is as tidy as what it reads.                         *)
LEMMA DamageStaysTidy ==
  ASSUME NEW report, IsReport(report), IsTidyReport(report),
         report.streams = [i \in DOMAIN report.streams |-> report.streams[i]],
         NEW damage
  PROVE  IsTidyReport(Damage(report, damage))
<1> DEFINE new == Damage(report, damage)
<1>1. /\ new.tags = report.tags
      /\ new.start = report.start /\ new.duration = report.duration
      /\ \/ new.chapters = report.chapters
         \/ new.chapters = <<>>
  BY DEF Damage, IsReport
<1>2. /\ HasFields(new)
      /\ \A n \in DOMAIN new.streams :
           n \in DOMAIN report.streams /\ Tells(new.streams[n], report.streams[n])
  BY DamageSpares DEF IsTidyReport
<1> HIDE DEF new
<1>3. \A n \in DOMAIN new.streams : IsTidyStream(new.streams[n])
  <2>1. ASSUME NEW n \in DOMAIN new.streams
        PROVE  IsTidyStream(new.streams[n])
    <3>1. IsTidyStream(report.streams[n]) /\ Tells(new.streams[n], report.streams[n])
      BY <1>2, TidyStreams
    <3>2. PICK raw, changed : raw = report.streams[n] /\ changed = new.streams[n]
      OBVIOUS
    <3>3. IsTidyStream(raw) /\ Tells(changed, raw)
      BY <3>1, <3>2
    <3>4. changed.start \in Number
      <4>1. \A v \in Int : v + 1000 \in Int
        OBVIOUS
      <4> QED
        BY <3>3, <4>1 DEF Tells, IsTidyStream, IsTimed, Number
    <3>5. IsTidyStream(changed)
      BY <3>3, <3>4 DEF IsTidyStream, IsTimed, Tells
    <3> QED
      BY <3>2, <3>5
  <2> QED
    BY <2>1
<1>4. DOMAIN <<>> = {}
  OBVIOUS
<1>5. HasTypes(new)
  BY <1>1, <1>3, <1>4 DEF IsTidyReport, HasTypes, IsTidyStream, IsTimed
<1>6. Tidy(new)
  BY <1>1, <1>3, <1>4 DEF IsTidyReport, Tidy, IsTidyStream
<1> QED
  BY <1>2, <1>5, <1>6 DEF IsTidyReport, new

LEMMA OutputsAreTidy ==
  ASSUME NEW report, IsReport(report), Readable(report), IsTidyReport(report),
         NEW s, Sensible(s), NEW mode,
         NEW plan, WellPlanned(plan, ConvertDocument(report), s, mode), NEW damage
  PROVE  IsTidyReport(Damage(Mux(report, Arguments(plan)), damage))
<1> DEFINE muxed == Mux(report, Arguments(plan))
<1>1. /\ IsReport(muxed)
      /\ DOMAIN muxed.streams = DOMAIN plan.operations
      /\ muxed.streams = [i \in DOMAIN muxed.streams |-> muxed.streams[i]]
  BY MuxesAreReports DEF WellPlanned, WellSourced
<1>2. /\ muxed.tags = report.tags /\ muxed.chapters = report.chapters
      /\ muxed.start = report.start /\ muxed.duration = report.duration
  BY MuxChangesStreamsOnly
<1>3. \A n \in DOMAIN plan.operations : IsTidyStream(muxed.streams[n])
  BY OneStreamSurvives
<1> HIDE DEF muxed
<1>4. HasFields(muxed)
  BY <1>1, <1>3 DEF HasFields, IsTidyStream
<1>5. HasTypes(muxed)
  BY <1>1, <1>2, <1>3 DEF IsTidyReport, HasTypes, IsTidyStream, IsTimed
<1>6. Tidy(muxed)
  BY <1>1, <1>2, <1>3 DEF IsTidyReport, Tidy, IsTidyStream
<1>7. IsTidyReport(muxed)
  BY <1>4, <1>5, <1>6 DEF IsTidyReport
<1> QED
  BY <1>1, <1>7, DamageStaysTidy DEF muxed

(* Where all that is found at first is tidy, all remains so.               *)
TidyShelves == \A files \in Shelves : \A path \in DOMAIN files : Tidy(files[path])
ShelfIsTidy == \A path \in DOMAIN shelf : IsTidyReport(shelf[path])

LEMMA TidyAtFirst == ASSUME TidyShelves, Init PROVE ShelfIsTidy
<1>1. shelf \in Shelves
  BY DEF Init
<1>2. ASSUME NEW path \in DOMAIN shelf
      PROVE  HasFields(shelf[path]) /\ HasTypes(shelf[path]) /\ Tidy(shelf[path])
  BY <1>1, ShelvesAssumption DEF TidyShelves
<1> QED
  BY <1>2 DEF ShelfIsTidy, IsTidyReport

LEMMA TidyStep == ASSUME IInv, PInv, ShelfIsTidy, [Next]_vars PROVE ShelfIsTidy'
<1>1. CASE UNCHANGED shelf
  BY <1>1 DEF ShelfIsTidy
<1>2. ASSUME NEW path \in DOMAIN fate, NEW damage, Transcode(path, damage)
      PROVE  ShelfIsTidy'
  <2> DEFINE plan   == fate[path].plan
             staged == Damage(Mux(shelf[path], Arguments(plan)), damage)
  <2>1. fate[path].is = "ready"
    BY <1>2 DEF Transcode
  <2>2. path \in DOMAIN shelf /\ IsReport(shelf[path]) /\ IsTidyReport(shelf[path])
    BY DEF IInv, FilesAreFound, ReportsAreReports, ShelfIsTidy
  <2>3. /\ Readable(shelf[path])
        /\ WellPlanned(plan, ConvertDocument(shelf[path]), settings, Mode)
        /\ Sensible(settings)
    BY <2>1 DEF PInv, PlansAreGood, IsGood, SettingsAreSensible, Are
  <2>4. IsTidyReport(staged)
    <3> HIDE DEF plan
    <3> QED
      BY <2>2, <2>3, OutputsAreTidy
  <2>5. CASE Publishable(plan, staged)
    <3>1. shelf' = [p \in DOMAIN shelf \cup {plan.output} |->
                      IF p = plan.output THEN staged ELSE shelf[p]]
      BY <2>5, <1>2 DEF Transcode
    <3> HIDE DEF staged, plan
    <3> QED
      BY <2>4, <3>1 DEF ShelfIsTidy
  <2>6. CASE ~ Publishable(plan, staged)
    <3>1. UNCHANGED shelf
      BY <2>6, <1>2 DEF Transcode
    <3> QED
      BY <3>1, <1>1
  <2> QED
    BY <2>5, <2>6
<1>3. \/ UNCHANGED shelf
      \/ \E path \in DOMAIN fate : \E damage \in Damages : Transcode(path, damage)
  BY DEF Next, Step, Refuse, Begin, Prepare, ToolFails, EnterExecution, Interrupt, Finish, vars
<1> QED
  BY <1>1, <1>2, <1>3

LEMMA TidyPlansCanSucceed == ASSUME IInv, PInv, ShelfIsTidy PROVE PlansCanSucceed
<1>1. ASSUME NEW path \in Are({"ready"})
      PROVE  LET output == Mux(shelf[path], Arguments(fate[path].plan)) IN
               Readable(output) /\ Validates(fate[path].plan, ConvertDocument(output))
  <2>1. path \in DOMAIN fate /\ fate[path].is = "ready"
    BY DEF Are
  <2>2. path \in DOMAIN shelf /\ IsReport(shelf[path]) /\ IsTidyReport(shelf[path])
    BY <2>1 DEF IInv, FilesAreFound, ReportsAreReports, ShelfIsTidy
  <2>3. /\ Readable(shelf[path])
        /\ WellPlanned(fate[path].plan, ConvertDocument(shelf[path]), settings, Mode)
        /\ Sensible(settings)
    BY <2>1 DEF PInv, PlansAreGood, IsGood, SettingsAreSensible, Are
  <2>4. Mode \in Modes \cup {"remux"}
    BY <2>1 DEF IInv, ModeIsKnown, Mode
  <2> QED
    BY <2>2, <2>3, <2>4, MuxSucceeds
<1> QED
  BY <1>1 DEF PlansCanSucceed

(* A plan that was made can succeed, if no keys of a report differ only in *)
(* case, no audio has a TITLE in upper case and all of it a sample rate:   *)
(* what FFmpeg writes when it does as it is told passes validate_output.   *)
THEOREM PlansSucceed == TidyShelves => (Spec => []PlansCanSucceed)
<1> SUFFICES ASSUME TidyShelves PROVE Spec => []PlansCanSucceed
  OBVIOUS
<1>1. Init => ShelfIsTidy
  BY TidyAtFirst
<1>2. IInv /\ PInv /\ ShelfIsTidy /\ [Next]_vars => ShelfIsTidy'
  BY TidyStep
<1>3. IInv /\ PInv /\ ShelfIsTidy => PlansCanSucceed
  BY TidyPlansCanSucceed
<1>4. IInv /\ PInv /\ [Next]_vars => PInv'
  BY PlansStep
<1> QED
  BY <1>1, <1>2, <1>3, <1>4, PInvAtFirst, Invariance, PTL DEF Spec
=============================================================================
