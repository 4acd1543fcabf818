--------------------------- MODULE OutputTransaction ---------------------------
(***************************************************************************)
(* `execute_safely` of crates/runtime/src/execution.rs: an output is       *)
(* written into a private staging directory beside its destination,        *)
(* examined, probed, validated, synchronized, and published by one         *)
(* non-replacing rename.  It is preceded by the look that preparation      *)
(* takes at the destination (`inspect_existing_output` of application.rs), *)
(* so that a second run of the same plan is modelled too.                  *)
(*                                                                         *)
(* Several transactions, of one or several processes, share a directory    *)
(* with programs that know nothing of them; a process may die anywhere.    *)
(* Each action is what happens between two awaits: a blocking filesystem   *)
(* task or a call of the backend.                                          *)
(***************************************************************************)
CONSTANTS Writers,           \* transactions
          Paths,             \* final destinations
          Plans,             \* the destinations plans give to the transactions
          OthersMayRemove,   \* may other programs delete outputs?
          CleanupMayFail,    \* may removing a staging directory fail?
          BlockingMayFail    \* may a spawn_blocking task be lost?

ASSUME TransactionAssumption ==
  /\ {"Absent", "Foreign"} \cap Writers = {}
  /\ Plans \subseteq [Writers -> Paths]
  /\ OthersMayRemove \in BOOLEAN
  /\ CleanupMayFail \in BOOLEAN
  /\ BlockingMayFail \in BOOLEAN

VARIABLES
  dest,       \* transaction -> destination of its plan
  shelf,      \* destination -> "Absent", "Foreign", or the writer it is from
  worth,      \* destination -> content of what a writer put there
  suits,      \* destination -> the transactions whose plan's postconditions
              \*   what is there satisfies, if it is a regular file
  pc,         \* transaction -> where it is
  file,       \* transaction -> content of its staging file
  dir,        \* transactions whose staging directory exists
  cancelled,  \* transactions whose token is cancelled
  published,  \* transactions whose rename succeeded
  result      \* transaction -> its Result, "None" before one is known

vars == <<dest, shelf, worth, suits, pc, file, dir, cancelled, published, result>>

-----------------------------------------------------------------------------
Absent  == "Absent"
Foreign == "Foreign"
Empty   == {"none", "empty"}

(* "valid" satisfies the plan's postconditions; "durable" was synchronized *)
(* after it was found valid.                                               *)
Contents == Empty \cup {"invalid", "valid", "durable"}

Failures == {"Cancelled", "InspectOutput", "Conflict", "OutputExists",
             "Preflight", "CreateStaging", "Backend", "InvalidStagingFile",
             "Validation", "Sync", "CommitCollision",
             "AtomicCommitUnsupported", "Commit"}
Results  == Failures \cup {"Ok", "OkWithWarning", "ValidExisting", "Cleanup",
                           "BlockingTask", "Died"}
Places   == {"look", "compare", "begin", "preflight", "create", "fill", "write",
             "examine", "probe", "sync", "commit", "finish", "clean", "done"}

TypeOK ==
  /\ dest \in [Writers -> Paths]
  /\ shelf \in [Paths -> {Absent, Foreign} \cup Writers]
  /\ worth \in [Paths -> Contents]
  /\ suits \in [Paths -> SUBSET Writers]
  /\ pc \in [Writers -> Places]
  /\ file \in [Writers -> Contents]
  /\ dir \in SUBSET Writers
  /\ cancelled \in SUBSET Writers
  /\ published \in SUBSET Writers
  /\ result \in [Writers -> Results \cup {"None"}]

(* The transactions that are about a destination; no other looks at it.     *)
Users(p) == {w \in Writers : dest[w] = p}

Init ==
  /\ dest \in Plans
  /\ shelf \in [Paths -> {Absent, Foreign}]
  /\ worth = [p \in Paths |-> "none"]
  /\ suits \in [Paths -> SUBSET Writers]
  /\ \A p \in Paths : suits[p] \subseteq IF shelf[p] = Absent THEN {} ELSE Users(p)
  /\ pc = [w \in Writers |-> "look"]
  /\ file = [w \in Writers |-> "none"]
  /\ dir = {}
  /\ cancelled = {}
  /\ published = {}
  /\ result = [w \in Writers |-> "None"]

-----------------------------------------------------------------------------
(* Everybody else.  What another program puts there may be a directory, a  *)
(* link, a file of any content, or just what some plan expects.            *)

Meddle(p) ==
  /\ \/ /\ shelf[p] = Absent
        /\ shelf' = [shelf EXCEPT ![p] = Foreign]
        /\ \E S \in SUBSET Users(p) : suits' = [suits EXCEPT ![p] = S]
     \/ /\ shelf[p] # Absent /\ OthersMayRemove
        /\ shelf' = [shelf EXCEPT ![p] = Absent]
        /\ suits' = [suits EXCEPT ![p] = {}]
  /\ worth' = [worth EXCEPT ![p] = "none"]
  /\ UNCHANGED <<dest, pc, file, dir, cancelled, published, result>>

Cancel(w) ==
  /\ pc[w] # "done"
  /\ cancelled' = cancelled \cup {w}
  /\ UNCHANGED <<dest, shelf, worth, suits, pc, file, dir, published, result>>

(* The staging file is removed, or not, then the directory with what is    *)
(* left in it, or not.                                                     *)
Swept(w, fileGone, dirGone) ==
  /\ file' = IF fileGone \/ dirGone THEN [file EXCEPT ![w] = "none"] ELSE file
  /\ dir' = IF dirGone THEN dir \ {w} ELSE dir

(* The process is killed, or its runtime is shut down and drops the        *)
(* future; in the second case the guards try to remove what they own.      *)
Die(w) ==
  /\ pc[w] # "done"
  /\ pc' = [pc EXCEPT ![w] = "done"]
  /\ result' = [result EXCEPT ![w] = "Died"]
  /\ \E fileGone, dirGone \in BOOLEAN : Swept(w, fileGone, dirGone)
  /\ UNCHANGED <<dest, shelf, worth, suits, cancelled, published>>

(* The plan is run again, by a retry or by a new process, with a new token *)
(* and a new staging name: leftovers are not looked for.                   *)
Again(w) ==
  /\ pc[w] = "done"
  /\ pc' = [pc EXCEPT ![w] = "look"]
  /\ file' = [file EXCEPT ![w] = "none"]
  /\ dir' = dir \ {w}
  /\ cancelled' = cancelled \ {w}
  /\ published' = published \ {w}
  /\ result' = [result EXCEPT ![w] = "None"]
  /\ UNCHANGED <<dest, shelf, worth, suits>>

-----------------------------------------------------------------------------
(* How a step of a transaction goes on.                                    *)

GoTo(w, place) == /\ pc' = [pc EXCEPT ![w] = place]
                  /\ UNCHANGED result

Return(w, r) == /\ pc' = [pc EXCEPT ![w] = "done"]
                /\ result' = [result EXCEPT ![w] = r]

(* cleanup_or: the staging directory is removed before the error returns.  *)
Abort(w, r) == /\ pc' = [pc EXCEPT ![w] = "clean"]
               /\ result' = [result EXCEPT ![w] = r]

(* A blocking task is lost: `?` returns at once, and dropping the guard    *)
(* removes the staging directory if that is possible.                      *)
Lost(w) == /\ BlockingMayFail
           /\ Return(w, "BlockingTask")
           /\ \E fileGone, dirGone \in BOOLEAN :
                /\ CleanupMayFail \/ (fileGone /\ dirGone)
                /\ Swept(w, fileGone, dirGone)

outside == <<dest, shelf, worth, suits, cancelled, published>>

-----------------------------------------------------------------------------
(* inspect_existing_output, and what prepare_one makes of its answer: what *)
(* is no regular file is a conflict at once.                               *)
Look(w) ==
  /\ pc[w] = "look"
  /\ \/ shelf[dest[w]] = Absent /\ GoTo(w, "begin")
     \/ shelf[dest[w]] # Absent /\ GoTo(w, "compare")
     \/ /\ shelf[dest[w]] = Foreign /\ suits[dest[w]] = {}
        /\ Return(w, "Conflict")
     \/ Return(w, "InspectOutput")
  /\ UNCHANGED <<outside, file, dir>>

(* Mutant: whatever is found at the destination counts as converted.       *)
Compare_AnyFile(w) ==
  /\ pc[w] = "compare"
  /\ \/ w \in cancelled /\ Return(w, "Cancelled")
     \/ Return(w, "Backend")
     \/ Return(w, "ValidExisting")
  /\ UNCHANGED <<outside, file, dir>>

(* Whoever wrote a file, it is valid if its report satisfies the plan; it  *)
(* may also have gone, or been replaced, since it was looked at.           *)
Compare(w) ==
  /\ pc[w] = "compare"
  /\ \/ w \in cancelled /\ Return(w, "Cancelled")
     \/ Return(w, "Backend")
     \/ /\ shelf[dest[w]] # Absent
        /\ Return(w, IF w \in suits[dest[w]] THEN "ValidExisting" ELSE "Conflict")
  /\ UNCHANGED <<outside, file, dir>>

(* execute_safely.                                                         *)
Begin(w) ==
  /\ pc[w] = "begin"
  /\ IF w \in cancelled THEN Return(w, "Cancelled") ELSE GoTo(w, "preflight")
  /\ UNCHANGED <<outside, file, dir>>

Preflight(w) ==
  /\ pc[w] = "preflight"
  /\ \/ /\ \/ shelf[dest[w]] = Absent /\ GoTo(w, "create")
           \/ shelf[dest[w]] # Absent /\ Return(w, "OutputExists")
           \/ Return(w, "Preflight")
        /\ UNCHANGED <<file, dir>>
     \/ Lost(w)
  /\ UNCHANGED outside

(* StagingGuard::create: the directory, then the file in it.               *)
Create(w) ==
  /\ pc[w] = "create"
  /\ \/ GoTo(w, "fill") /\ dir' = dir \cup {w} /\ UNCHANGED file
     \/ Return(w, "CreateStaging") /\ UNCHANGED <<file, dir>>
     \/ Lost(w)
  /\ UNCHANGED outside

(* Without the file the directory is dropped, and nobody hears whether it  *)
(* could be removed.                                                       *)
CreateFile(w) ==
  /\ pc[w] = "fill"
  /\ \/ /\ GoTo(w, "write")
        /\ file' = [file EXCEPT ![w] = "empty"]
        /\ UNCHANGED dir
     \/ /\ Return(w, "CreateStaging")
        /\ \E dirGone \in BOOLEAN : /\ CleanupMayFail \/ dirGone
                                    /\ Swept(w, FALSE, dirGone)
     \/ Lost(w)
  /\ UNCHANGED outside

(* Mutant: the backend is given a token of its own.                        *)
Write_FreshToken(w) ==
  /\ pc[w] = "write"
  /\ \E c \in Contents \ {"durable"} : file' = [file EXCEPT ![w] = c]
  /\ GoTo(w, "examine") \/ Abort(w, "Backend")
  /\ UNCHANGED <<outside, dir>>

(* backend.execute: whatever it returns, it leaves some staging content.   *)
Write(w) ==
  /\ pc[w] = "write"
  /\ \E c \in Contents \ {"durable"} : file' = [file EXCEPT ![w] = c]
  /\ \/ GoTo(w, "examine")
     \/ w \in cancelled /\ Abort(w, "Cancelled")
     \/ Abort(w, "Backend")
  /\ UNCHANGED <<outside, dir>>

(* Mutant: `?` instead of cleanup_or.                                      *)
Examine_NoCleanup(w) ==
  /\ pc[w] = "examine"
  /\ IF file[w] \in Empty THEN Return(w, "InvalidStagingFile")
     ELSE GoTo(w, "probe")
  /\ UNCHANGED <<outside, file, dir>>

Examine(w) ==
  /\ pc[w] = "examine"
  /\ IF file[w] \in Empty THEN Abort(w, "InvalidStagingFile")
     ELSE GoTo(w, "probe")
  /\ UNCHANGED <<outside, file, dir>>

(* backend.probe of the staging file, then validate_output.                *)
Probe(w) ==
  /\ pc[w] = "probe"
  /\ \/ w \in cancelled /\ Abort(w, "Cancelled")
     \/ Abort(w, "Backend")
     \/ file[w] = "valid" /\ GoTo(w, "sync")
     \/ file[w] # "valid" /\ Abort(w, "Validation")
  /\ UNCHANGED <<outside, file, dir>>

(* Mutant: the staging file is published without being synchronized.       *)
Sync_Skipped(w) ==
  /\ pc[w] = "sync"
  /\ GoTo(w, "commit")
  /\ UNCHANGED <<outside, file, dir>>

Sync(w) ==
  /\ pc[w] = "sync"
  /\ \/ GoTo(w, "commit") /\ file' = [file EXCEPT ![w] = "durable"]
     \/ Abort(w, "Sync") /\ UNCHANGED file
  /\ UNCHANGED <<outside, dir>>

(* Mutant: a rename that replaces.                                         *)
Rename_Replaces(w) ==
  /\ shelf' = [shelf EXCEPT ![dest[w]] = w]
  /\ worth' = [worth EXCEPT ![dest[w]] = file[w]]
  /\ file' = [file EXCEPT ![w] = "none"]
  /\ published' = published \cup {w}
  /\ UNCHANGED <<dest, suits, dir, cancelled>>

(* rename_exclusive: one namespace operation, which never replaces.  What  *)
(* satisfies this plan may satisfy another's, since structure is compared. *)
Rename(w) ==
  /\ shelf[dest[w]] = Absent
  /\ shelf' = [shelf EXCEPT ![dest[w]] = w]
  /\ worth' = [worth EXCEPT ![dest[w]] = file[w]]
  /\ file' = [file EXCEPT ![w] = "none"]
  /\ published' = published \cup {w}
  /\ \E S \in SUBSET Users(dest[w]) :
       /\ w \in S <=> file[w] \in {"valid", "durable"}
       /\ suits' = [suits EXCEPT ![dest[w]] = S]
  /\ UNCHANGED <<dest, dir, cancelled>>

Commit(w) ==
  /\ pc[w] = "commit"
  /\ \/ Rename(w) /\ GoTo(w, "finish")
     \/ /\ \/ shelf[dest[w]] # Absent /\ Abort(w, "CommitCollision")
           \/ \E r \in {"AtomicCommitUnsupported", "Commit"} : Abort(w, r)
        /\ UNCHANGED <<outside, file, dir>>
     \/ Lost(w) /\ UNCHANGED outside

(* Mutant: a directory that stays makes a published output an error.       *)
FinishCommit_Fails(w) ==
  /\ pc[w] = "finish"
  /\ \/ Return(w, "Ok") /\ dir' = dir \ {w} /\ UNCHANGED file
     \/ CleanupMayFail /\ Return(w, "Cleanup") /\ UNCHANGED <<dir, file>>
     \/ Lost(w)
  /\ UNCHANGED outside

(* finish_commit: a directory that stays is only worth a warning.          *)
FinishCommit(w) ==
  /\ pc[w] = "finish"
  /\ \/ Return(w, "Ok") /\ dir' = dir \ {w} /\ UNCHANGED file
     \/ CleanupMayFail /\ Return(w, "OkWithWarning") /\ UNCHANGED <<dir, file>>
     \/ Lost(w)
  /\ UNCHANGED outside

(* StagingGuard::cleanup: the file, then the directory with what is left   *)
(* in it; either may fail, and a failure is reported with the first error. *)
Cleanup(w) ==
  /\ pc[w] = "clean"
  /\ \E fileGone, dirGone \in BOOLEAN :
       /\ CleanupMayFail \/ (fileGone /\ dirGone)
       /\ Return(w, IF fileGone /\ dirGone THEN result[w] ELSE "Cleanup")
       /\ Swept(w, fileGone, dirGone)
  /\ UNCHANGED outside

-----------------------------------------------------------------------------
(* What waits for a media process, and what does not.                      *)
Backend(w) == Compare(w) \/ Write(w) \/ Probe(w)
Local(w)   == \/ Look(w) \/ Begin(w) \/ Preflight(w) \/ Create(w) \/ CreateFile(w)
              \/ Examine(w) \/ Sync(w) \/ Commit(w) \/ FinishCommit(w) \/ Cleanup(w)

Next == \/ \E p \in Paths : Meddle(p)
        \/ \E w \in Writers : \/ Cancel(w) \/ Die(w) \/ Again(w)
                              \/ Local(w) \/ Backend(w)

Spec == Init /\ [][Next]_vars

(* The runtime polls every transaction and its blocking tasks end.  A      *)
(* media process may run for ever, except that a backend whose token is    *)
(* cancelled returns (MediaProcess.tla, StopReturns).                      *)
Interrupted(w) == Backend(w) /\ result'[w] = "Cancelled"

StopFairSpec ==
  /\ Spec
  /\ \A w \in Writers : WF_vars(Local(w))
  /\ \A w \in Writers : WF_vars(Interrupted(w))

-----------------------------------------------------------------------------
(* Properties.                                                             *)

(* No partial, invalid or unsynchronized output is ever visible under a    *)
(* destination, and none under a destination that is not its plan's.       *)
OnlyFinishedOutput ==
  \A p \in Paths : shelf[p] \in Writers =>
    worth[p] = "durable" /\ dest[shelf[p]] = p

(* No step of a transaction changes what exists under any destination,     *)
(* whoever put it there and however late it appeared.                      *)
NeverReplaces ==
  [][pc' # pc => \A p \in Paths : shelf[p] # Absent => shelf'[p] = shelf[p]]_vars

(* The result tells whether the output was published: success only after   *)
(* the rename, an error never after it, unless the blocking task that      *)
(* removes the staging directory was lost or the process died.             *)
ResultIsTrue ==
  \A w \in Writers : pc[w] = "done" =>
    /\ result[w] \in {"Ok", "OkWithWarning"} => w \in published
    /\ w \in published =>
         result[w] \in {"Ok", "OkWithWarning", "BlockingTask", "Died"}

(* A transaction that returns leaves nothing in the directory but its      *)
(* output, unless it says so.  The code has one exception: where the       *)
(* staging file could not be created, an empty directory may stay that no  *)
(* result mentions.                                                        *)
NothingLeftBehind ==
  \A w \in Writers : pc[w] = "done" =>
    /\ file[w] # "none" =>
         result[w] \in {"Cleanup", "BlockingTask", "Died"}
    /\ w \in dir =>
         result[w] \in {"Cleanup", "OkWithWarning", "BlockingTask", "Died",
                       "CreateStaging"}

(* While nobody deletes outputs, transactions that race for a destination  *)
(* have one winner, and its output stays.                                  *)
OneWinner ==
  \A w \in Writers : w \in published => shelf[dest[w]] = w

(* A cancelled transaction returns, however long its media process would   *)
(* have run.                                                               *)
CancelEndsTransaction ==
  \A w \in Writers : (w \in cancelled) ~> (pc[w] = "done")

(* The transaction implements Publication.                                 *)
VerdictOf(r) == CASE r \in {"Ok", "OkWithWarning"}   -> "Succeeded"
                  [] r = "ValidExisting"             -> "Skipped"
                  [] r \in {"BlockingTask", "Died"}  -> "Unknown"
                  [] OTHER                           -> "Failed"

Promise == INSTANCE Publication
  WITH mine    <- published,
       verdict <- [w \in Writers |-> IF pc[w] = "done" THEN VerdictOf(result[w])
                                     ELSE "Open"]

KeepsPromise == Promise!Spec

-----------------------------------------------------------------------------
(* The inductive invariant behind OutputTransactionProofs: which staging   *)
(* resources a transaction has at each place, and what it knows of them.   *)
Staged == {"fill", "write", "examine", "probe", "sync", "commit", "clean"}

Resources ==
  \A w \in Writers :
    /\ pc[w] \in Places \ (Staged \cup {"finish", "done"}) =>
         w \notin dir /\ file[w] = "none"
    /\ pc[w] = "fill" => file[w] = "none"
    /\ pc[w] = "sync" => file[w] = "valid"
    /\ pc[w] = "commit" => file[w] = "durable"
    /\ pc[w] = "finish" => file[w] = "none"
    /\ pc[w] = "clean" => result[w] \in Failures
    /\ pc[w] \notin {"finish", "done"} => w \notin published
    /\ pc[w] = "finish" => w \in published
    /\ pc[w] = "done" => result[w] # "None"
    /\ w \in suits[dest[w]] => shelf[dest[w]] # Absent

IInv == /\ TypeOK /\ Resources /\ OnlyFinishedOutput
        /\ ResultIsTrue /\ NothingLeftBehind
=============================================================================
