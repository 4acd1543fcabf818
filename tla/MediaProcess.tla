------------------------------ MODULE MediaProcess ------------------------------
(***************************************************************************)
(* One media tool run by crates/ffmpeg: FFmpeg in `execute_typed` of       *)
(* execute.rs, FFprobe in `probe_with_cancel` of probe.rs, which share     *)
(* their loop.  The child writes to two pipes, two reader tasks empty      *)
(* them, and the supervising future polls the readers, the child and the   *)
(* cancellation token, kills and reaps the child when it must, and decides *)
(* what the run amounts to.                                                *)
(*                                                                         *)
(* The child, the readers and the future are separate actors; each action  *)
(* of the future is what it does between two awaits or system calls.       *)
(***************************************************************************)
EXTENDS Naturals, Sequences

CONSTANTS Tool,         \* "ffmpeg" or "ffprobe"
          PipeCap,      \* items a pipe holds before its writer blocks
          MaxRecords,   \* records the child writes at most (bound)
          WaitMayFail,  \* may waiting for the child fail?
          KillMayFail   \* may signalling the process group fail?

ASSUME ProcessAssumption ==
  /\ Tool \in {"ffmpeg", "ffprobe"}
  /\ PipeCap \in Nat \ {0}
  /\ MaxRecords \in Nat
  /\ WaitMayFail \in BOOLEAN
  /\ KillMayFail \in BOOLEAN

VARIABLES
  child,      \* the process
  blocked,    \* the pipe the child is blocked on, or "no"
  success,    \* its exit status
  killed,     \* the process group was sent the kill signal
  stdout,     \* items in the standard output pipe
  stderr,     \* number of items in the standard error pipe
  wrote,      \* records written to standard output
  reader,     \* task that parses standard output
  parsed,     \* records it has parsed
  sawEnd,     \* it has parsed `progress=end`
  tail,       \* task that reads standard error
  cancelled,  \* the token
  pc,         \* where the supervising future is
  intent,     \* the error to return once the child is reaped
  result      \* what it returned

process == <<child, blocked, success, killed, wrote>>
output  == <<stdout, reader, parsed, sawEnd>>
errors  == <<stderr, tail>>
future  == <<pc, intent, result>>
vars    == <<process, output, errors, cancelled, future>>

-----------------------------------------------------------------------------
(* What the child may write: a record, the terminal record, or something   *)
(* the parser refuses (malformed, not UTF-8, too long).                    *)
Items == {"record", "end", "bad"}

Intents == {"none", "MissingPipe", "Output", "Cancelled"}
Results == {"none", "Ok", "Spawn", "MissingPipe", "Output", "Wait", "Terminate",
            "Cancelled", "ReaderTask", "Failed", "MissingProgressEnd", "Parse"}

TypeOK ==
  /\ child \in {"absent", "running", "exited", "reaped"}
  /\ blocked \in {"no", "stdout", "stderr"}
  /\ success \in BOOLEAN
  /\ killed \in BOOLEAN
  /\ stdout \in Seq(Items)
  /\ stderr \in 0 .. PipeCap
  /\ wrote \in 0 .. MaxRecords
  /\ reader \in {"absent", "reading", "ok", "failed", "joined"}
  /\ parsed \in Nat
  /\ sawEnd \in BOOLEAN
  /\ tail \in {"absent", "reading", "ok", "failed"}
  /\ cancelled \in BOOLEAN
  /\ pc \in {"spawn", "poll", "wait", "select", "terminate", "reap",
             "reapUnkilled", "drain", "joinStdout", "joinStderr", "done"}
  /\ intent \in Intents
  /\ result \in Results

Init ==
  /\ child = "absent" /\ blocked = "no" /\ success = FALSE /\ killed = FALSE
  /\ stdout = <<>> /\ stderr = 0 /\ wrote = 0
  /\ reader = "absent" /\ parsed = 0 /\ sawEnd = FALSE /\ tail = "absent"
  /\ cancelled = FALSE
  /\ pc = "spawn" /\ intent = "none" /\ result = "none"

Cancel == /\ ~cancelled
          /\ pc # "done"
          /\ cancelled' = TRUE
          /\ UNCHANGED <<process, output, errors, future>>

-----------------------------------------------------------------------------
(* The child.  It runs while it is not blocked on a pipe that is full.     *)
Runs == child = "running" /\ blocked = "no" /\ ~killed

Emit(item) ==
  /\ Runs
  /\ reader = "reading"
  /\ Len(stdout) < PipeCap
  /\ wrote < MaxRecords
  /\ stdout' = Append(stdout, item)
  /\ wrote' = wrote + 1
  /\ UNCHANGED <<child, blocked, success, killed, reader, parsed, sawEnd,
                 errors, cancelled, future>>

Complain ==
  /\ Runs
  /\ tail = "reading"
  /\ stderr < PipeCap
  /\ stderr' = stderr + 1
  /\ UNCHANGED <<process, output, tail, cancelled, future>>

Block ==
  /\ Runs
  /\ \/ blocked' = "stdout" /\ reader = "reading" /\ Len(stdout) = PipeCap
     \/ blocked' = "stderr" /\ tail = "reading" /\ stderr = PipeCap
  /\ UNCHANGED <<child, success, killed, wrote, output, errors, cancelled, future>>

(* Room in the pipe, or a reader that is gone (the write fails).           *)
Unblock ==
  /\ child = "running"
  /\ \/ blocked = "stdout" /\ (Len(stdout) < PipeCap \/ reader # "reading")
     \/ blocked = "stderr" /\ (stderr < PipeCap \/ tail # "reading")
  /\ blocked' = "no"
  /\ UNCHANGED <<child, success, killed, wrote, output, errors, cancelled, future>>

Exit ==
  /\ child = "running"
  /\ killed \/ blocked = "no"
  /\ child' = "exited"
  /\ blocked' = "no"
  /\ success' \in IF killed THEN {FALSE} ELSE BOOLEAN
  /\ UNCHANGED <<killed, wrote, output, errors, cancelled, future>>

-----------------------------------------------------------------------------
(* The reader tasks.  A pipe ends when the child has exited; reading may   *)
(* fail, and what a failed reader left in its pipe is lost.                *)
Gone == child \in {"exited", "reaped"}

(* read_progress and push_line: nothing may follow `progress=end`.         *)
Refused(item) == item = "bad" \/ (Tool = "ffmpeg" /\ sawEnd)

ReadRecord ==
  /\ reader = "reading"
  /\ stdout # <<>>
  /\ ~Refused(Head(stdout))
  /\ stdout' = Tail(stdout)
  /\ parsed' = parsed + 1
  /\ sawEnd' = (sawEnd \/ Head(stdout) = "end")
  /\ UNCHANGED <<process, reader, errors, cancelled, future>>

ReaderEnds ==
  /\ reader = "reading"
  /\ \/ reader' = "ok" /\ Gone /\ stdout = <<>> /\ UNCHANGED stdout
     \/ /\ stdout # <<>> => Refused(Head(stdout))
        /\ reader' = "failed"
        /\ stdout' = <<>>
  /\ UNCHANGED <<process, parsed, sawEnd, errors, cancelled, future>>

(* Mutant: standard error is read after standard output.                   *)
ReadTail_Afterwards ==
  /\ tail = "reading"
  /\ reader # "reading"
  /\ \/ stderr > 0 /\ stderr' = 0 /\ UNCHANGED tail
     \/ stderr = 0 /\ Gone /\ tail' = "ok" /\ UNCHANGED stderr
     \/ tail' = "failed" /\ stderr' = 0
  /\ UNCHANGED <<process, output, cancelled, future>>

(* read_tail: standard error is read to its end, however long it is.       *)
ReadTail ==
  /\ tail = "reading"
  /\ \/ stderr > 0 /\ stderr' = 0 /\ UNCHANGED tail
     \/ stderr = 0 /\ Gone /\ tail' = "ok" /\ UNCHANGED stderr
     \/ tail' = "failed" /\ stderr' = 0
  /\ UNCHANGED <<process, output, cancelled, future>>

-----------------------------------------------------------------------------
(* The supervising future.                                                 *)

GoTo(place) == pc' = place /\ UNCHANGED <<intent, result>>
Return(r)   == pc' = "done" /\ result' = r /\ UNCHANGED intent
Stop(r)     == pc' = "terminate" /\ intent' = r /\ UNCHANGED result

(* Returning drops the handle of a child that was not reaped: kill_on_drop *)
(* still signals it.                                                       *)
WaitFails == /\ WaitMayFail
             /\ Return("Wait")
             /\ killed' = TRUE
             /\ UNCHANGED <<child, blocked, success, wrote>>

Spawn ==
  /\ pc = "spawn"
  /\ \/ Return("Spawn") /\ UNCHANGED <<child, reader, tail>>
     \/ child' = "running" /\ Stop("MissingPipe") /\ UNCHANGED <<reader, tail>>
     \/ /\ child' = "running"
        /\ reader' = "reading"
        /\ tail' = "reading"
        /\ GoTo("poll")
  /\ UNCHANGED <<blocked, success, killed, stdout, stderr, wrote, parsed, sawEnd,
                 cancelled>>

(* Mutant: a finished reader is joined and its error dropped.              *)
Poll_DropsError ==
  /\ pc = "poll"
  /\ reader' = IF reader \in {"ok", "failed"} THEN "joined" ELSE reader
  /\ GoTo("wait")
  /\ UNCHANGED <<process, stdout, parsed, sawEnd, errors, cancelled>>

(* Top of the loop: a finished reader is joined; its error ends the run.   *)
Poll ==
  /\ pc = "poll"
  /\ \/ reader = "failed" /\ reader' = "joined" /\ Stop("Output")
     \/ reader = "ok" /\ reader' = "joined" /\ GoTo("wait")
     \/ reader \in {"reading", "joined"} /\ GoTo("wait") /\ UNCHANGED reader
  /\ UNCHANGED <<process, stdout, parsed, sawEnd, errors, cancelled>>

TryWait ==
  /\ pc = "wait"
  /\ \/ /\ child = "exited"
        /\ child' = "reaped"
        /\ GoTo("joinStdout")
        /\ UNCHANGED <<blocked, success, killed, wrote>>
     \/ child = "running" /\ GoTo("select") /\ UNCHANGED process
     \/ WaitFails
  /\ UNCHANGED <<output, errors, cancelled>>

(* select!: the token, or the poll interval.                               *)
SelectCancel == /\ pc = "select"
                /\ cancelled
                /\ Stop("Cancelled")
                /\ UNCHANGED <<process, output, errors, cancelled>>

SelectTimer == /\ pc = "select"
               /\ GoTo("poll")
               /\ UNCHANGED <<process, output, errors, cancelled>>

(* Mutant: a tool that was signalled is not waited for.                    *)
Terminate_NoWait ==
  /\ pc = "terminate"
  /\ \/ /\ child = "exited"
        /\ child' = "reaped"
        /\ UNCHANGED <<blocked, success, killed, wrote>>
     \/ /\ child = "running"
        /\ killed' = TRUE
        /\ UNCHANGED <<child, blocked, success, wrote>>
  /\ GoTo("drain")
  /\ UNCHANGED <<output, errors, cancelled>>

(* terminate_and_reap: a child that has already exited is not signalled.   *)
Terminate ==
  /\ pc = "terminate"
  /\ \/ /\ child = "exited"
        /\ child' = "reaped"
        /\ GoTo("drain")
        /\ UNCHANGED <<blocked, success, killed, wrote>>
     \/ /\ child = "running"
        /\ killed' = TRUE
        /\ GoTo("reap")
        /\ UNCHANGED <<child, blocked, success, wrote>>
     \/ /\ KillMayFail
        /\ child = "running"
        /\ GoTo("reapUnkilled")
        /\ UNCHANGED process
     \/ WaitFails
  /\ UNCHANGED <<output, errors, cancelled>>

Reap ==
  /\ pc \in {"reap", "reapUnkilled"}
  /\ \/ /\ child = "exited"
        /\ child' = "reaped"
        /\ IF pc = "reap" THEN GoTo("drain") ELSE Return("Terminate")
        /\ UNCHANGED <<blocked, success, killed, wrote>>
     \/ WaitFails
  /\ UNCHANGED <<output, errors, cancelled>>

(* join_after_termination: both readers end before the error returns.      *)
Drain ==
  /\ pc = "drain"
  /\ reader # "reading"
  /\ tail # "reading"
  /\ Return(intent)
  /\ UNCHANGED <<process, output, errors, cancelled>>

(* After a normal exit nothing listens to the token any more.              *)
JoinStdout ==
  /\ pc = "joinStdout"
  /\ \/ reader \in {"ok", "joined"} /\ reader' = "joined" /\ GoTo("joinStderr")
     \/ reader = "failed" /\ reader' = "joined" /\ Return("Output")
  /\ UNCHANGED <<process, stdout, parsed, sawEnd, errors, cancelled>>

(* Mutant: an exit status of zero is enough.                               *)
Verdict_StatusOnly == IF ~success THEN {"Failed"} ELSE {"Ok"}

Verdict == IF ~success THEN {"Failed"}
           ELSE IF Tool = "ffprobe" THEN {"Ok", "Parse"}
           ELSE IF ~sawEnd THEN {"MissingProgressEnd"}
           ELSE {"Ok"}

JoinStderr ==
  /\ pc = "joinStderr"
  /\ \/ tail = "failed" /\ Return("ReaderTask")
     \/ tail = "ok" /\ \E r \in Verdict : Return(r)
  /\ UNCHANGED <<process, output, errors, cancelled>>

Done == pc = "done" /\ child # "running" /\ UNCHANGED vars

-----------------------------------------------------------------------------
Child      == (\E item \in Items : Emit(item)) \/ Complain \/ Block \/ Unblock \/ Exit
Readers    == ReadRecord \/ ReaderEnds \/ ReadTail
Supervisor == \/ Spawn \/ Poll \/ TryWait \/ SelectCancel \/ SelectTimer
              \/ Terminate \/ Reap \/ Drain \/ JoinStdout \/ JoinStderr

Next == Cancel \/ Child \/ Readers \/ Supervisor \/ Done

Spec == Init /\ [][Next]_vars

(* What a reader does once there is something to read, or the end of the   *)
(* pipe; that reading fails is nothing to count on.                        *)
Reads     == ReadRecord \/ (ReaderEnds /\ (stdout # <<>> \/ Gone))
ReadsTail == ReadTail /\ (stderr > 0 \/ Gone)

(* The runtime polls the future and the reader tasks; select! does not     *)
(* neglect a cancelled token for ever; a killed process dies.              *)
StopFairSpec ==
  /\ Spec
  /\ WF_vars(Supervisor) /\ SF_vars(SelectCancel)
  /\ WF_vars(Reads) /\ WF_vars(ReadsTail)
  /\ WF_vars(killed /\ Exit)

(* A tool that nobody stops ends too, if its pipes let it.                 *)
ToolEnds == WF_vars(Unblock) /\ SF_vars(Exit)

-----------------------------------------------------------------------------
(* Properties.                                                             *)

(* Success means that the tool exited with success on its own and that     *)
(* everything it wrote was parsed, to the terminal record (FFmpeg).        *)
OkIsComplete ==
  result = "Ok" => /\ success /\ ~killed
                   /\ parsed = wrote
                   /\ Tool = "ffmpeg" => sawEnd

(* When the run returns, the tool has been reaped, unless waiting for it   *)
(* failed: nothing writes to the staging file that the transaction probes  *)
(* or removes next.                                                        *)
ReapedWhenReturned ==
  pc = "done" /\ result # "Wait" => child \in {"absent", "reaped"}

(* "Cancelled" is returned only for a cancelled token, after the tool and  *)
(* both readers have ended, so that a new run may start.                   *)
CancelledIsQuiet ==
  result = "Cancelled" =>
    /\ cancelled
    /\ child = "reaped"
    /\ reader # "reading" /\ tail # "reading"

(* A cancellation, or output the parser refuses, ends the run even if the  *)
(* tool would never end or sits blocked on a pipe; only a tool that could  *)
(* not be signalled is waited for as long as it runs.                      *)
StopReturns ==
  (pc # "spawn" /\ (cancelled \/ reader = "failed"))
    ~> (pc \in {"done", "reapUnkilled"})

(* Neither pipe can block the tool for ever: both are read, concurrently,  *)
(* until the tool exits.                                                   *)
RunEnds == ToolEnds => <>(pc = "done")

-----------------------------------------------------------------------------
(* The inductive invariant behind MediaProcessProofs.                      *)

(* Which child each place of the future has to do with.                    *)
Conduct ==
  /\ pc = "spawn" => child = "absent" /\ ~killed /\ intent = "none"
  /\ pc \in {"poll", "wait", "select", "terminate", "reap", "reapUnkilled"} =>
       child \in {"running", "exited"}
  /\ pc \in {"drain", "joinStdout", "joinStderr"} => child = "reaped"
  /\ pc \in {"poll", "wait", "select", "joinStdout", "joinStderr"} =>
       ~killed /\ intent = "none"
  /\ pc = "joinStderr" => reader = "joined"
  /\ pc \in {"terminate", "reap", "reapUnkilled", "drain"} => intent # "none"
  /\ pc # "done" => result = "none"
  /\ intent = "Cancelled" => cancelled
  /\ result = "Ok" => child = "reaped" /\ reader = "joined" /\ intent = "none"
  /\ result = "Cancelled" => intent = "Cancelled"
  /\ ReapedWhenReturned

(* Where the records are that the child has written.                       *)
Flow ==
  /\ child = "absent" => /\ reader = "absent" /\ tail = "absent"
                         /\ stdout = <<>> /\ wrote = 0 /\ parsed = 0
  /\ reader \in {"reading", "ok"} => wrote = parsed + Len(stdout)
  /\ reader = "ok" => stdout = <<>> /\ Gone
  /\ reader = "joined" =>
       (wrote = parsed /\ Gone) \/ intent = "Output" \/ result = "Output"

IInv == TypeOK /\ Conduct /\ Flow /\ OkIsComplete /\ CancelledIsQuiet
=============================================================================
