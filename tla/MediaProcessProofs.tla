--------------------------- MODULE MediaProcessProofs ---------------------------
(***************************************************************************)
(* Proofs about MediaProcess, for either tool and pipes of any capacity:   *)
(* its inductive invariant and the safety properties that follow.          *)
(***************************************************************************)
EXTENDS MediaProcess, TLAPS

(* An empty pipe is a pipe.                                                *)
LEMMA EmptyPipe == <<>> \in Seq(Items) /\ Len(<<>>) = 0
  OBVIOUS

(* The initial state satisfies the invariant.                              *)
LEMMA InitInv == Init => IInv
<1> SUFFICES ASSUME Init PROVE IInv
  OBVIOUS
<1>1. TypeOK
  <2>1. success \in BOOLEAN /\ killed \in BOOLEAN /\ sawEnd \in BOOLEAN
        /\ cancelled \in BOOLEAN
    BY DEF Init
  <2>2. stderr \in 0 .. PipeCap /\ wrote \in 0 .. MaxRecords /\ parsed \in Nat
    BY ProcessAssumption DEF Init
  <2>3. stdout \in Seq(Items)
    BY EmptyPipe DEF Init
  <2> QED
    BY <2>1, <2>2, <2>3 DEF Init, TypeOK, Intents, Results
<1>2. Conduct /\ Flow /\ OkIsComplete /\ CancelledIsQuiet
  BY EmptyPipe DEF Init, Conduct, Flow, OkIsComplete, CancelledIsQuiet,
                   ReapedWhenReturned, Gone
<1> QED
  BY <1>1, <1>2 DEF IInv

(* The caller cancels.                                                     *)
LEMMA CancelInv ==
  ASSUME IInv, Cancel PROVE IInv'
<1> USE ProcessAssumption
        DEF Cancel, IInv, process, output, errors, future, GoTo, Return, Stop,
            WaitFails, Runs, Gone, Refused, Verdict
<1>1. TypeOK'
  <2>1. success' \in BOOLEAN /\ killed' \in BOOLEAN /\ sawEnd' \in BOOLEAN
    BY DEF TypeOK
  <2>2. cancelled' \in BOOLEAN
    BY DEF TypeOK
  <2>3. /\ child' \in {"absent", "running", "exited", "reaped"}
        /\ blocked' \in {"no", "stdout", "stderr"}
        /\ stderr' \in 0 .. PipeCap /\ wrote' \in 0 .. MaxRecords
        /\ parsed' \in Nat
    BY DEF TypeOK
  <2>4. stdout' \in Seq(Items)
    BY EmptyPipe DEF TypeOK
  <2>5. /\ reader' \in {"absent", "reading", "ok", "failed", "joined"}
        /\ tail' \in {"absent", "reading", "ok", "failed"}
        /\ pc' \in {"spawn", "poll", "wait", "select", "terminate", "reap",
                     "reapUnkilled", "drain", "joinStdout", "joinStderr", "done"}
        /\ intent' \in Intents /\ result' \in Results
    BY DEF TypeOK, Intents, Results
  <2> QED
    BY <2>1, <2>2, <2>3, <2>4, <2>5 DEF TypeOK
<1>2. Conduct'
  BY DEF TypeOK, Conduct, Flow, ReapedWhenReturned, Intents, Results
<1>3. Flow'
  BY DEF TypeOK, Conduct, Flow, Items
<1>4. OkIsComplete'
  BY DEF TypeOK, Conduct, Flow, OkIsComplete, Intents
<1>5. CancelledIsQuiet'
  BY DEF TypeOK, Conduct, CancelledIsQuiet
<1> QED
  BY <1>1, <1>2, <1>3, <1>4, <1>5

(* The child writes a record.                                              *)
LEMMA EmitInv ==
  ASSUME IInv, NEW item \in Items, Emit(item) PROVE IInv'
<1> USE ProcessAssumption
        DEF Emit, IInv, process, output, errors, future, GoTo, Return, Stop,
            WaitFails, Runs, Gone, Refused, Verdict
<1>1. TypeOK'
  <2>1. success' \in BOOLEAN /\ killed' \in BOOLEAN /\ sawEnd' \in BOOLEAN
    BY DEF TypeOK
  <2>2. cancelled' \in BOOLEAN
    BY DEF TypeOK
  <2>3. /\ child' \in {"absent", "running", "exited", "reaped"}
        /\ blocked' \in {"no", "stdout", "stderr"}
        /\ stderr' \in 0 .. PipeCap /\ wrote' \in 0 .. MaxRecords
        /\ parsed' \in Nat
    BY DEF TypeOK
  <2>4. stdout' \in Seq(Items)
    BY EmptyPipe DEF TypeOK
  <2>5. /\ reader' \in {"absent", "reading", "ok", "failed", "joined"}
        /\ tail' \in {"absent", "reading", "ok", "failed"}
        /\ pc' \in {"spawn", "poll", "wait", "select", "terminate", "reap",
                     "reapUnkilled", "drain", "joinStdout", "joinStderr", "done"}
        /\ intent' \in Intents /\ result' \in Results
    BY DEF TypeOK, Intents, Results
  <2> QED
    BY <2>1, <2>2, <2>3, <2>4, <2>5 DEF TypeOK
<1>2. Conduct'
  BY DEF TypeOK, Conduct, Flow, ReapedWhenReturned, Intents, Results
<1>3. Flow'
  BY DEF TypeOK, Conduct, Flow, Items
<1>4. OkIsComplete'
  BY DEF TypeOK, Conduct, Flow, OkIsComplete, Intents
<1>5. CancelledIsQuiet'
  BY DEF TypeOK, Conduct, CancelledIsQuiet
<1> QED
  BY <1>1, <1>2, <1>3, <1>4, <1>5

(* Complain keeps the invariant.                                           *)
LEMMA ComplainInv ==
  ASSUME IInv, Complain PROVE IInv'
<1> USE ProcessAssumption
        DEF Complain, IInv, process, output, errors, future, GoTo, Return, Stop,
            WaitFails, Runs, Gone, Refused, Verdict
<1>1. TypeOK'
  <2>1. success' \in BOOLEAN /\ killed' \in BOOLEAN /\ sawEnd' \in BOOLEAN
    BY DEF TypeOK
  <2>2. cancelled' \in BOOLEAN
    BY DEF TypeOK
  <2>3. /\ child' \in {"absent", "running", "exited", "reaped"}
        /\ blocked' \in {"no", "stdout", "stderr"}
        /\ stderr' \in 0 .. PipeCap /\ wrote' \in 0 .. MaxRecords
        /\ parsed' \in Nat
    BY DEF TypeOK
  <2>4. stdout' \in Seq(Items)
    BY EmptyPipe DEF TypeOK
  <2>5. /\ reader' \in {"absent", "reading", "ok", "failed", "joined"}
        /\ tail' \in {"absent", "reading", "ok", "failed"}
        /\ pc' \in {"spawn", "poll", "wait", "select", "terminate", "reap",
                     "reapUnkilled", "drain", "joinStdout", "joinStderr", "done"}
        /\ intent' \in Intents /\ result' \in Results
    BY DEF TypeOK, Intents, Results
  <2> QED
    BY <2>1, <2>2, <2>3, <2>4, <2>5 DEF TypeOK
<1>2. Conduct'
  BY DEF TypeOK, Conduct, Flow, ReapedWhenReturned, Intents, Results
<1>3. Flow'
  BY DEF TypeOK, Conduct, Flow, Items
<1>4. OkIsComplete'
  BY DEF TypeOK, Conduct, Flow, OkIsComplete, Intents
<1>5. CancelledIsQuiet'
  BY DEF TypeOK, Conduct, CancelledIsQuiet
<1> QED
  BY <1>1, <1>2, <1>3, <1>4, <1>5

(* Block keeps the invariant.                                              *)
LEMMA BlockInv ==
  ASSUME IInv, Block PROVE IInv'
<1> USE ProcessAssumption
        DEF Block, IInv, process, output, errors, future, GoTo, Return, Stop,
            WaitFails, Runs, Gone, Refused, Verdict
<1>1. TypeOK'
  <2>1. success' \in BOOLEAN /\ killed' \in BOOLEAN /\ sawEnd' \in BOOLEAN
    BY DEF TypeOK
  <2>2. cancelled' \in BOOLEAN
    BY DEF TypeOK
  <2>3. /\ child' \in {"absent", "running", "exited", "reaped"}
        /\ blocked' \in {"no", "stdout", "stderr"}
        /\ stderr' \in 0 .. PipeCap /\ wrote' \in 0 .. MaxRecords
        /\ parsed' \in Nat
    BY DEF TypeOK
  <2>4. stdout' \in Seq(Items)
    BY EmptyPipe DEF TypeOK
  <2>5. /\ reader' \in {"absent", "reading", "ok", "failed", "joined"}
        /\ tail' \in {"absent", "reading", "ok", "failed"}
        /\ pc' \in {"spawn", "poll", "wait", "select", "terminate", "reap",
                     "reapUnkilled", "drain", "joinStdout", "joinStderr", "done"}
        /\ intent' \in Intents /\ result' \in Results
    BY DEF TypeOK, Intents, Results
  <2> QED
    BY <2>1, <2>2, <2>3, <2>4, <2>5 DEF TypeOK
<1>2. Conduct'
  BY DEF TypeOK, Conduct, Flow, ReapedWhenReturned, Intents, Results
<1>3. Flow'
  BY DEF TypeOK, Conduct, Flow, Items
<1>4. OkIsComplete'
  BY DEF TypeOK, Conduct, Flow, OkIsComplete, Intents
<1>5. CancelledIsQuiet'
  BY DEF TypeOK, Conduct, CancelledIsQuiet
<1> QED
  BY <1>1, <1>2, <1>3, <1>4, <1>5

(* Unblock keeps the invariant.                                            *)
LEMMA UnblockInv ==
  ASSUME IInv, Unblock PROVE IInv'
<1> USE ProcessAssumption
        DEF Unblock, IInv, process, output, errors, future, GoTo, Return, Stop,
            WaitFails, Runs, Gone, Refused, Verdict
<1>1. TypeOK'
  <2>1. success' \in BOOLEAN /\ killed' \in BOOLEAN /\ sawEnd' \in BOOLEAN
    BY DEF TypeOK
  <2>2. cancelled' \in BOOLEAN
    BY DEF TypeOK
  <2>3. /\ child' \in {"absent", "running", "exited", "reaped"}
        /\ blocked' \in {"no", "stdout", "stderr"}
        /\ stderr' \in 0 .. PipeCap /\ wrote' \in 0 .. MaxRecords
        /\ parsed' \in Nat
    BY DEF TypeOK
  <2>4. stdout' \in Seq(Items)
    BY EmptyPipe DEF TypeOK
  <2>5. /\ reader' \in {"absent", "reading", "ok", "failed", "joined"}
        /\ tail' \in {"absent", "reading", "ok", "failed"}
        /\ pc' \in {"spawn", "poll", "wait", "select", "terminate", "reap",
                     "reapUnkilled", "drain", "joinStdout", "joinStderr", "done"}
        /\ intent' \in Intents /\ result' \in Results
    BY DEF TypeOK, Intents, Results
  <2> QED
    BY <2>1, <2>2, <2>3, <2>4, <2>5 DEF TypeOK
<1>2. Conduct'
  BY DEF TypeOK, Conduct, Flow, ReapedWhenReturned, Intents, Results
<1>3. Flow'
  BY DEF TypeOK, Conduct, Flow, Items
<1>4. OkIsComplete'
  BY DEF TypeOK, Conduct, Flow, OkIsComplete, Intents
<1>5. CancelledIsQuiet'
  BY DEF TypeOK, Conduct, CancelledIsQuiet
<1> QED
  BY <1>1, <1>2, <1>3, <1>4, <1>5

(* Exit keeps the invariant.                                               *)
LEMMA ExitInv ==
  ASSUME IInv, Exit PROVE IInv'
<1> USE ProcessAssumption
        DEF Exit, IInv, process, output, errors, future, GoTo, Return, Stop,
            WaitFails, Runs, Gone, Refused, Verdict
<1>1. TypeOK'
  <2>1. success' \in BOOLEAN /\ killed' \in BOOLEAN /\ sawEnd' \in BOOLEAN
    BY DEF TypeOK
  <2>2. cancelled' \in BOOLEAN
    BY DEF TypeOK
  <2>3. /\ child' \in {"absent", "running", "exited", "reaped"}
        /\ blocked' \in {"no", "stdout", "stderr"}
        /\ stderr' \in 0 .. PipeCap /\ wrote' \in 0 .. MaxRecords
        /\ parsed' \in Nat
    BY DEF TypeOK
  <2>4. stdout' \in Seq(Items)
    BY EmptyPipe DEF TypeOK
  <2>5. /\ reader' \in {"absent", "reading", "ok", "failed", "joined"}
        /\ tail' \in {"absent", "reading", "ok", "failed"}
        /\ pc' \in {"spawn", "poll", "wait", "select", "terminate", "reap",
                     "reapUnkilled", "drain", "joinStdout", "joinStderr", "done"}
        /\ intent' \in Intents /\ result' \in Results
    BY DEF TypeOK, Intents, Results
  <2> QED
    BY <2>1, <2>2, <2>3, <2>4, <2>5 DEF TypeOK
<1>2. Conduct'
  BY DEF TypeOK, Conduct, Flow, ReapedWhenReturned, Intents, Results
<1>3. Flow'
  BY DEF TypeOK, Conduct, Flow, Items
<1>4. OkIsComplete'
  BY DEF TypeOK, Conduct, Flow, OkIsComplete, Intents
<1>5. CancelledIsQuiet'
  BY DEF TypeOK, Conduct, CancelledIsQuiet
<1> QED
  BY <1>1, <1>2, <1>3, <1>4, <1>5

(* ReadRecord keeps the invariant.                                         *)
LEMMA ReadRecordInv ==
  ASSUME IInv, ReadRecord PROVE IInv'
<1> USE ProcessAssumption
        DEF ReadRecord, IInv, process, output, errors, future, GoTo, Return, Stop,
            WaitFails, Runs, Gone, Refused, Verdict
<1>1. TypeOK'
  <2>1. success' \in BOOLEAN /\ killed' \in BOOLEAN /\ sawEnd' \in BOOLEAN
    BY DEF TypeOK
  <2>2. cancelled' \in BOOLEAN
    BY DEF TypeOK
  <2>3. /\ child' \in {"absent", "running", "exited", "reaped"}
        /\ blocked' \in {"no", "stdout", "stderr"}
        /\ stderr' \in 0 .. PipeCap /\ wrote' \in 0 .. MaxRecords
        /\ parsed' \in Nat
    BY DEF TypeOK
  <2>4. stdout' \in Seq(Items)
    BY EmptyPipe DEF TypeOK
  <2>5. /\ reader' \in {"absent", "reading", "ok", "failed", "joined"}
        /\ tail' \in {"absent", "reading", "ok", "failed"}
        /\ pc' \in {"spawn", "poll", "wait", "select", "terminate", "reap",
                     "reapUnkilled", "drain", "joinStdout", "joinStderr", "done"}
        /\ intent' \in Intents /\ result' \in Results
    BY DEF TypeOK, Intents, Results
  <2> QED
    BY <2>1, <2>2, <2>3, <2>4, <2>5 DEF TypeOK
<1>2. Conduct'
  BY DEF TypeOK, Conduct, Flow, ReapedWhenReturned, Intents, Results
<1>3. Flow'
  BY DEF TypeOK, Conduct, Flow, Items
<1>4. OkIsComplete'
  BY DEF TypeOK, Conduct, Flow, OkIsComplete, Intents
<1>5. CancelledIsQuiet'
  BY DEF TypeOK, Conduct, CancelledIsQuiet
<1> QED
  BY <1>1, <1>2, <1>3, <1>4, <1>5

(* ReaderEnds keeps the invariant.                                         *)
LEMMA ReaderEndsInv ==
  ASSUME IInv, ReaderEnds PROVE IInv'
<1> USE ProcessAssumption
        DEF ReaderEnds, IInv, process, output, errors, future, GoTo, Return, Stop,
            WaitFails, Runs, Gone, Refused, Verdict
<1>1. TypeOK'
  <2>1. success' \in BOOLEAN /\ killed' \in BOOLEAN /\ sawEnd' \in BOOLEAN
    BY DEF TypeOK
  <2>2. cancelled' \in BOOLEAN
    BY DEF TypeOK
  <2>3. /\ child' \in {"absent", "running", "exited", "reaped"}
        /\ blocked' \in {"no", "stdout", "stderr"}
        /\ stderr' \in 0 .. PipeCap /\ wrote' \in 0 .. MaxRecords
        /\ parsed' \in Nat
    BY DEF TypeOK
  <2>4. stdout' \in Seq(Items)
    BY EmptyPipe DEF TypeOK
  <2>5. /\ reader' \in {"absent", "reading", "ok", "failed", "joined"}
        /\ tail' \in {"absent", "reading", "ok", "failed"}
        /\ pc' \in {"spawn", "poll", "wait", "select", "terminate", "reap",
                     "reapUnkilled", "drain", "joinStdout", "joinStderr", "done"}
        /\ intent' \in Intents /\ result' \in Results
    BY DEF TypeOK, Intents, Results
  <2> QED
    BY <2>1, <2>2, <2>3, <2>4, <2>5 DEF TypeOK
<1>2. Conduct'
  BY DEF TypeOK, Conduct, Flow, ReapedWhenReturned, Intents, Results
<1>3. Flow'
  BY DEF TypeOK, Conduct, Flow, Items
<1>4. OkIsComplete'
  BY DEF TypeOK, Conduct, Flow, OkIsComplete, Intents
<1>5. CancelledIsQuiet'
  BY DEF TypeOK, Conduct, CancelledIsQuiet
<1> QED
  BY <1>1, <1>2, <1>3, <1>4, <1>5

(* ReadTail keeps the invariant.                                           *)
LEMMA ReadTailInv ==
  ASSUME IInv, ReadTail PROVE IInv'
<1> USE ProcessAssumption
        DEF ReadTail, IInv, process, output, errors, future, GoTo, Return, Stop,
            WaitFails, Runs, Gone, Refused, Verdict
<1>1. TypeOK'
  <2>1. success' \in BOOLEAN /\ killed' \in BOOLEAN /\ sawEnd' \in BOOLEAN
    BY DEF TypeOK
  <2>2. cancelled' \in BOOLEAN
    BY DEF TypeOK
  <2>3. /\ child' \in {"absent", "running", "exited", "reaped"}
        /\ blocked' \in {"no", "stdout", "stderr"}
        /\ stderr' \in 0 .. PipeCap /\ wrote' \in 0 .. MaxRecords
        /\ parsed' \in Nat
    BY DEF TypeOK
  <2>4. stdout' \in Seq(Items)
    BY EmptyPipe DEF TypeOK
  <2>5. /\ reader' \in {"absent", "reading", "ok", "failed", "joined"}
        /\ tail' \in {"absent", "reading", "ok", "failed"}
        /\ pc' \in {"spawn", "poll", "wait", "select", "terminate", "reap",
                     "reapUnkilled", "drain", "joinStdout", "joinStderr", "done"}
        /\ intent' \in Intents /\ result' \in Results
    BY DEF TypeOK, Intents, Results
  <2> QED
    BY <2>1, <2>2, <2>3, <2>4, <2>5 DEF TypeOK
<1>2. Conduct'
  BY DEF TypeOK, Conduct, Flow, ReapedWhenReturned, Intents, Results
<1>3. Flow'
  BY DEF TypeOK, Conduct, Flow, Items
<1>4. OkIsComplete'
  BY DEF TypeOK, Conduct, Flow, OkIsComplete, Intents
<1>5. CancelledIsQuiet'
  BY DEF TypeOK, Conduct, CancelledIsQuiet
<1> QED
  BY <1>1, <1>2, <1>3, <1>4, <1>5

(* Spawn keeps the invariant.                                              *)
LEMMA SpawnInv ==
  ASSUME IInv, Spawn PROVE IInv'
<1> USE ProcessAssumption
        DEF Spawn, IInv, process, output, errors, future, GoTo, Return, Stop,
            WaitFails, Runs, Gone, Refused, Verdict
<1>1. TypeOK'
  <2>1. success' \in BOOLEAN /\ killed' \in BOOLEAN /\ sawEnd' \in BOOLEAN
    BY DEF TypeOK
  <2>2. cancelled' \in BOOLEAN
    BY DEF TypeOK
  <2>3. /\ child' \in {"absent", "running", "exited", "reaped"}
        /\ blocked' \in {"no", "stdout", "stderr"}
        /\ stderr' \in 0 .. PipeCap /\ wrote' \in 0 .. MaxRecords
        /\ parsed' \in Nat
    BY DEF TypeOK
  <2>4. stdout' \in Seq(Items)
    BY EmptyPipe DEF TypeOK
  <2>5. /\ reader' \in {"absent", "reading", "ok", "failed", "joined"}
        /\ tail' \in {"absent", "reading", "ok", "failed"}
        /\ pc' \in {"spawn", "poll", "wait", "select", "terminate", "reap",
                     "reapUnkilled", "drain", "joinStdout", "joinStderr", "done"}
        /\ intent' \in Intents /\ result' \in Results
    BY DEF TypeOK, Intents, Results
  <2> QED
    BY <2>1, <2>2, <2>3, <2>4, <2>5 DEF TypeOK
<1>2. Conduct'
  BY DEF TypeOK, Conduct, Flow, ReapedWhenReturned, Intents, Results
<1>3. Flow'
  BY DEF TypeOK, Conduct, Flow, Items
<1>4. OkIsComplete'
  BY DEF TypeOK, Conduct, Flow, OkIsComplete, Intents
<1>5. CancelledIsQuiet'
  BY DEF TypeOK, Conduct, CancelledIsQuiet
<1> QED
  BY <1>1, <1>2, <1>3, <1>4, <1>5

(* Poll keeps the invariant.                                               *)
LEMMA PollInv ==
  ASSUME IInv, Poll PROVE IInv'
<1> USE ProcessAssumption
        DEF Poll, IInv, process, output, errors, future, GoTo, Return, Stop,
            WaitFails, Runs, Gone, Refused, Verdict
<1>1. TypeOK'
  <2>1. success' \in BOOLEAN /\ killed' \in BOOLEAN /\ sawEnd' \in BOOLEAN
    BY DEF TypeOK
  <2>2. cancelled' \in BOOLEAN
    BY DEF TypeOK
  <2>3. /\ child' \in {"absent", "running", "exited", "reaped"}
        /\ blocked' \in {"no", "stdout", "stderr"}
        /\ stderr' \in 0 .. PipeCap /\ wrote' \in 0 .. MaxRecords
        /\ parsed' \in Nat
    BY DEF TypeOK
  <2>4. stdout' \in Seq(Items)
    BY EmptyPipe DEF TypeOK
  <2>5. /\ reader' \in {"absent", "reading", "ok", "failed", "joined"}
        /\ tail' \in {"absent", "reading", "ok", "failed"}
        /\ pc' \in {"spawn", "poll", "wait", "select", "terminate", "reap",
                     "reapUnkilled", "drain", "joinStdout", "joinStderr", "done"}
        /\ intent' \in Intents /\ result' \in Results
    BY DEF TypeOK, Intents, Results
  <2> QED
    BY <2>1, <2>2, <2>3, <2>4, <2>5 DEF TypeOK
<1>2. Conduct'
  BY DEF TypeOK, Conduct, Flow, ReapedWhenReturned, Intents, Results
<1>3. Flow'
  BY DEF TypeOK, Conduct, Flow, Items
<1>4. OkIsComplete'
  BY DEF TypeOK, Conduct, Flow, OkIsComplete, Intents
<1>5. CancelledIsQuiet'
  BY DEF TypeOK, Conduct, CancelledIsQuiet
<1> QED
  BY <1>1, <1>2, <1>3, <1>4, <1>5

(* TryWait keeps the invariant.                                            *)
LEMMA TryWaitInv ==
  ASSUME IInv, TryWait PROVE IInv'
<1> USE ProcessAssumption
        DEF TryWait, IInv, process, output, errors, future, GoTo, Return, Stop,
            WaitFails, Runs, Gone, Refused, Verdict
<1>1. TypeOK'
  <2>1. success' \in BOOLEAN /\ killed' \in BOOLEAN /\ sawEnd' \in BOOLEAN
    BY DEF TypeOK
  <2>2. cancelled' \in BOOLEAN
    BY DEF TypeOK
  <2>3. /\ child' \in {"absent", "running", "exited", "reaped"}
        /\ blocked' \in {"no", "stdout", "stderr"}
        /\ stderr' \in 0 .. PipeCap /\ wrote' \in 0 .. MaxRecords
        /\ parsed' \in Nat
    BY DEF TypeOK
  <2>4. stdout' \in Seq(Items)
    BY EmptyPipe DEF TypeOK
  <2>5. /\ reader' \in {"absent", "reading", "ok", "failed", "joined"}
        /\ tail' \in {"absent", "reading", "ok", "failed"}
        /\ pc' \in {"spawn", "poll", "wait", "select", "terminate", "reap",
                     "reapUnkilled", "drain", "joinStdout", "joinStderr", "done"}
        /\ intent' \in Intents /\ result' \in Results
    BY DEF TypeOK, Intents, Results
  <2> QED
    BY <2>1, <2>2, <2>3, <2>4, <2>5 DEF TypeOK
<1>2. Conduct'
  BY DEF TypeOK, Conduct, Flow, ReapedWhenReturned, Intents, Results
<1>3. Flow'
  BY DEF TypeOK, Conduct, Flow, Items
<1>4. OkIsComplete'
  BY DEF TypeOK, Conduct, Flow, OkIsComplete, Intents
<1>5. CancelledIsQuiet'
  BY DEF TypeOK, Conduct, CancelledIsQuiet
<1> QED
  BY <1>1, <1>2, <1>3, <1>4, <1>5

(* SelectCancel keeps the invariant.                                       *)
LEMMA SelectCancelInv ==
  ASSUME IInv, SelectCancel PROVE IInv'
<1> USE ProcessAssumption
        DEF SelectCancel, IInv, process, output, errors, future, GoTo, Return, Stop,
            WaitFails, Runs, Gone, Refused, Verdict
<1>1. TypeOK'
  <2>1. success' \in BOOLEAN /\ killed' \in BOOLEAN /\ sawEnd' \in BOOLEAN
    BY DEF TypeOK
  <2>2. cancelled' \in BOOLEAN
    BY DEF TypeOK
  <2>3. /\ child' \in {"absent", "running", "exited", "reaped"}
        /\ blocked' \in {"no", "stdout", "stderr"}
        /\ stderr' \in 0 .. PipeCap /\ wrote' \in 0 .. MaxRecords
        /\ parsed' \in Nat
    BY DEF TypeOK
  <2>4. stdout' \in Seq(Items)
    BY EmptyPipe DEF TypeOK
  <2>5. /\ reader' \in {"absent", "reading", "ok", "failed", "joined"}
        /\ tail' \in {"absent", "reading", "ok", "failed"}
        /\ pc' \in {"spawn", "poll", "wait", "select", "terminate", "reap",
                     "reapUnkilled", "drain", "joinStdout", "joinStderr", "done"}
        /\ intent' \in Intents /\ result' \in Results
    BY DEF TypeOK, Intents, Results
  <2> QED
    BY <2>1, <2>2, <2>3, <2>4, <2>5 DEF TypeOK
<1>2. Conduct'
  BY DEF TypeOK, Conduct, Flow, ReapedWhenReturned, Intents, Results
<1>3. Flow'
  BY DEF TypeOK, Conduct, Flow, Items
<1>4. OkIsComplete'
  BY DEF TypeOK, Conduct, Flow, OkIsComplete, Intents
<1>5. CancelledIsQuiet'
  BY DEF TypeOK, Conduct, CancelledIsQuiet
<1> QED
  BY <1>1, <1>2, <1>3, <1>4, <1>5

(* SelectTimer keeps the invariant.                                        *)
LEMMA SelectTimerInv ==
  ASSUME IInv, SelectTimer PROVE IInv'
<1> USE ProcessAssumption
        DEF SelectTimer, IInv, process, output, errors, future, GoTo, Return, Stop,
            WaitFails, Runs, Gone, Refused, Verdict
<1>1. TypeOK'
  <2>1. success' \in BOOLEAN /\ killed' \in BOOLEAN /\ sawEnd' \in BOOLEAN
    BY DEF TypeOK
  <2>2. cancelled' \in BOOLEAN
    BY DEF TypeOK
  <2>3. /\ child' \in {"absent", "running", "exited", "reaped"}
        /\ blocked' \in {"no", "stdout", "stderr"}
        /\ stderr' \in 0 .. PipeCap /\ wrote' \in 0 .. MaxRecords
        /\ parsed' \in Nat
    BY DEF TypeOK
  <2>4. stdout' \in Seq(Items)
    BY EmptyPipe DEF TypeOK
  <2>5. /\ reader' \in {"absent", "reading", "ok", "failed", "joined"}
        /\ tail' \in {"absent", "reading", "ok", "failed"}
        /\ pc' \in {"spawn", "poll", "wait", "select", "terminate", "reap",
                     "reapUnkilled", "drain", "joinStdout", "joinStderr", "done"}
        /\ intent' \in Intents /\ result' \in Results
    BY DEF TypeOK, Intents, Results
  <2> QED
    BY <2>1, <2>2, <2>3, <2>4, <2>5 DEF TypeOK
<1>2. Conduct'
  BY DEF TypeOK, Conduct, Flow, ReapedWhenReturned, Intents, Results
<1>3. Flow'
  BY DEF TypeOK, Conduct, Flow, Items
<1>4. OkIsComplete'
  BY DEF TypeOK, Conduct, Flow, OkIsComplete, Intents
<1>5. CancelledIsQuiet'
  BY DEF TypeOK, Conduct, CancelledIsQuiet
<1> QED
  BY <1>1, <1>2, <1>3, <1>4, <1>5

(* Terminate keeps the invariant.                                          *)
LEMMA TerminateInv ==
  ASSUME IInv, Terminate PROVE IInv'
<1> USE ProcessAssumption
        DEF Terminate, IInv, process, output, errors, future, GoTo, Return, Stop,
            WaitFails, Runs, Gone, Refused, Verdict
<1>1. TypeOK'
  <2>1. success' \in BOOLEAN /\ killed' \in BOOLEAN /\ sawEnd' \in BOOLEAN
    BY DEF TypeOK
  <2>2. cancelled' \in BOOLEAN
    BY DEF TypeOK
  <2>3. /\ child' \in {"absent", "running", "exited", "reaped"}
        /\ blocked' \in {"no", "stdout", "stderr"}
        /\ stderr' \in 0 .. PipeCap /\ wrote' \in 0 .. MaxRecords
        /\ parsed' \in Nat
    BY DEF TypeOK
  <2>4. stdout' \in Seq(Items)
    BY EmptyPipe DEF TypeOK
  <2>5. /\ reader' \in {"absent", "reading", "ok", "failed", "joined"}
        /\ tail' \in {"absent", "reading", "ok", "failed"}
        /\ pc' \in {"spawn", "poll", "wait", "select", "terminate", "reap",
                     "reapUnkilled", "drain", "joinStdout", "joinStderr", "done"}
        /\ intent' \in Intents /\ result' \in Results
    BY DEF TypeOK, Intents, Results
  <2> QED
    BY <2>1, <2>2, <2>3, <2>4, <2>5 DEF TypeOK
<1>2. Conduct'
  BY DEF TypeOK, Conduct, Flow, ReapedWhenReturned, Intents, Results
<1>3. Flow'
  BY DEF TypeOK, Conduct, Flow, Items
<1>4. OkIsComplete'
  BY DEF TypeOK, Conduct, Flow, OkIsComplete, Intents
<1>5. CancelledIsQuiet'
  BY DEF TypeOK, Conduct, CancelledIsQuiet
<1> QED
  BY <1>1, <1>2, <1>3, <1>4, <1>5

(* Reap keeps the invariant.                                               *)
LEMMA ReapInv ==
  ASSUME IInv, Reap PROVE IInv'
<1> USE ProcessAssumption
        DEF Reap, IInv, process, output, errors, future, GoTo, Return, Stop,
            WaitFails, Runs, Gone, Refused, Verdict
<1>1. TypeOK'
  <2>1. success' \in BOOLEAN /\ killed' \in BOOLEAN /\ sawEnd' \in BOOLEAN
    BY DEF TypeOK
  <2>2. cancelled' \in BOOLEAN
    BY DEF TypeOK
  <2>3. /\ child' \in {"absent", "running", "exited", "reaped"}
        /\ blocked' \in {"no", "stdout", "stderr"}
        /\ stderr' \in 0 .. PipeCap /\ wrote' \in 0 .. MaxRecords
        /\ parsed' \in Nat
    BY DEF TypeOK
  <2>4. stdout' \in Seq(Items)
    BY EmptyPipe DEF TypeOK
  <2>5. /\ reader' \in {"absent", "reading", "ok", "failed", "joined"}
        /\ tail' \in {"absent", "reading", "ok", "failed"}
        /\ pc' \in {"spawn", "poll", "wait", "select", "terminate", "reap",
                     "reapUnkilled", "drain", "joinStdout", "joinStderr", "done"}
        /\ intent' \in Intents /\ result' \in Results
    BY DEF TypeOK, Intents, Results
  <2> QED
    BY <2>1, <2>2, <2>3, <2>4, <2>5 DEF TypeOK
<1>2. Conduct'
  BY DEF TypeOK, Conduct, Flow, ReapedWhenReturned, Intents, Results
<1>3. Flow'
  BY DEF TypeOK, Conduct, Flow, Items
<1>4. OkIsComplete'
  BY DEF TypeOK, Conduct, Flow, OkIsComplete, Intents
<1>5. CancelledIsQuiet'
  BY DEF TypeOK, Conduct, CancelledIsQuiet
<1> QED
  BY <1>1, <1>2, <1>3, <1>4, <1>5

(* Drain keeps the invariant.                                              *)
LEMMA DrainInv ==
  ASSUME IInv, Drain PROVE IInv'
<1> USE ProcessAssumption
        DEF Drain, IInv, process, output, errors, future, GoTo, Return, Stop,
            WaitFails, Runs, Gone, Refused, Verdict
<1>1. TypeOK'
  <2>1. success' \in BOOLEAN /\ killed' \in BOOLEAN /\ sawEnd' \in BOOLEAN
    BY DEF TypeOK
  <2>2. cancelled' \in BOOLEAN
    BY DEF TypeOK
  <2>3. /\ child' \in {"absent", "running", "exited", "reaped"}
        /\ blocked' \in {"no", "stdout", "stderr"}
        /\ stderr' \in 0 .. PipeCap /\ wrote' \in 0 .. MaxRecords
        /\ parsed' \in Nat
    BY DEF TypeOK
  <2>4. stdout' \in Seq(Items)
    BY EmptyPipe DEF TypeOK
  <2>5. /\ reader' \in {"absent", "reading", "ok", "failed", "joined"}
        /\ tail' \in {"absent", "reading", "ok", "failed"}
        /\ pc' \in {"spawn", "poll", "wait", "select", "terminate", "reap",
                     "reapUnkilled", "drain", "joinStdout", "joinStderr", "done"}
        /\ intent' \in Intents /\ result' \in Results
    BY DEF TypeOK, Intents, Results
  <2> QED
    BY <2>1, <2>2, <2>3, <2>4, <2>5 DEF TypeOK
<1>2. Conduct'
  BY DEF TypeOK, Conduct, Flow, ReapedWhenReturned, Intents, Results
<1>3. Flow'
  BY DEF TypeOK, Conduct, Flow, Items
<1>4. OkIsComplete'
  BY DEF TypeOK, Conduct, Flow, OkIsComplete, Intents
<1>5. CancelledIsQuiet'
  BY DEF TypeOK, Conduct, CancelledIsQuiet
<1> QED
  BY <1>1, <1>2, <1>3, <1>4, <1>5

(* JoinStdout keeps the invariant.                                         *)
LEMMA JoinStdoutInv ==
  ASSUME IInv, JoinStdout PROVE IInv'
<1> USE ProcessAssumption
        DEF JoinStdout, IInv, process, output, errors, future, GoTo, Return, Stop,
            WaitFails, Runs, Gone, Refused, Verdict
<1>1. TypeOK'
  <2>1. success' \in BOOLEAN /\ killed' \in BOOLEAN /\ sawEnd' \in BOOLEAN
    BY DEF TypeOK
  <2>2. cancelled' \in BOOLEAN
    BY DEF TypeOK
  <2>3. /\ child' \in {"absent", "running", "exited", "reaped"}
        /\ blocked' \in {"no", "stdout", "stderr"}
        /\ stderr' \in 0 .. PipeCap /\ wrote' \in 0 .. MaxRecords
        /\ parsed' \in Nat
    BY DEF TypeOK
  <2>4. stdout' \in Seq(Items)
    BY EmptyPipe DEF TypeOK
  <2>5. /\ reader' \in {"absent", "reading", "ok", "failed", "joined"}
        /\ tail' \in {"absent", "reading", "ok", "failed"}
        /\ pc' \in {"spawn", "poll", "wait", "select", "terminate", "reap",
                     "reapUnkilled", "drain", "joinStdout", "joinStderr", "done"}
        /\ intent' \in Intents /\ result' \in Results
    BY DEF TypeOK, Intents, Results
  <2> QED
    BY <2>1, <2>2, <2>3, <2>4, <2>5 DEF TypeOK
<1>2. Conduct'
  BY DEF TypeOK, Conduct, Flow, ReapedWhenReturned, Intents, Results
<1>3. Flow'
  BY DEF TypeOK, Conduct, Flow, Items
<1>4. OkIsComplete'
  BY DEF TypeOK, Conduct, Flow, OkIsComplete, Intents
<1>5. CancelledIsQuiet'
  BY DEF TypeOK, Conduct, CancelledIsQuiet
<1> QED
  BY <1>1, <1>2, <1>3, <1>4, <1>5

(* JoinStderr keeps the invariant.                                         *)
LEMMA JoinStderrInv ==
  ASSUME IInv, JoinStderr PROVE IInv'
<1> USE ProcessAssumption
        DEF JoinStderr, IInv, process, output, errors, future, GoTo, Return, Stop,
            WaitFails, Runs, Gone, Refused, Verdict
<1>1. TypeOK'
  <2>1. success' \in BOOLEAN /\ killed' \in BOOLEAN /\ sawEnd' \in BOOLEAN
    BY DEF TypeOK
  <2>2. cancelled' \in BOOLEAN
    BY DEF TypeOK
  <2>3. /\ child' \in {"absent", "running", "exited", "reaped"}
        /\ blocked' \in {"no", "stdout", "stderr"}
        /\ stderr' \in 0 .. PipeCap /\ wrote' \in 0 .. MaxRecords
        /\ parsed' \in Nat
    BY DEF TypeOK
  <2>4. stdout' \in Seq(Items)
    BY EmptyPipe DEF TypeOK
  <2>5. /\ reader' \in {"absent", "reading", "ok", "failed", "joined"}
        /\ tail' \in {"absent", "reading", "ok", "failed"}
        /\ pc' \in {"spawn", "poll", "wait", "select", "terminate", "reap",
                     "reapUnkilled", "drain", "joinStdout", "joinStderr", "done"}
        /\ intent' \in Intents /\ result' \in Results
    BY DEF TypeOK, Intents, Results
  <2> QED
    BY <2>1, <2>2, <2>3, <2>4, <2>5 DEF TypeOK
<1>2. Conduct'
  BY DEF TypeOK, Conduct, Flow, ReapedWhenReturned, Intents, Results
<1>3. Flow'
  BY DEF TypeOK, Conduct, Flow, Items
<1>4. OkIsComplete'
  BY DEF TypeOK, Conduct, Flow, OkIsComplete, Intents
<1>5. CancelledIsQuiet'
  BY DEF TypeOK, Conduct, CancelledIsQuiet
<1> QED
  BY <1>1, <1>2, <1>3, <1>4, <1>5

(* Every step keeps the invariant.                                         *)
LEMMA StepInv == IInv /\ [Next]_vars => IInv'
<1> SUFFICES ASSUME IInv, [Next]_vars PROVE IInv'
  OBVIOUS
<1>1. CASE Cancel
  BY <1>1, CancelInv
<1>2. CASE Child
  BY <1>2, EmitInv, ComplainInv, BlockInv, UnblockInv, ExitInv DEF Child
<1>3. CASE Readers
  BY <1>3, ReadRecordInv, ReaderEndsInv, ReadTailInv DEF Readers
<1>4. CASE Supervisor
  BY <1>4, SpawnInv, PollInv, TryWaitInv, SelectCancelInv, SelectTimerInv,
     TerminateInv, ReapInv, DrainInv, JoinStdoutInv, JoinStderrInv
     DEF Supervisor
<1>5. CASE UNCHANGED vars
  BY <1>5 DEF vars, process, output, errors, future, IInv, TypeOK, Conduct, Flow,
              OkIsComplete, CancelledIsQuiet, ReapedWhenReturned, Gone
<1> QED
  BY <1>1, <1>2, <1>3, <1>4, <1>5 DEF Next, Done

(* The inductive invariant holds in every reachable state.                 *)
THEOREM Invariant == Spec => []IInv
  BY InitInv, StepInv, PTL DEF Spec

(* Every variable keeps its type.                                          *)
THEOREM TypeCorrect == Spec => []TypeOK
  BY Invariant, PTL DEF IInv

(* A run reported as a success was parsed completely.                      *)
THEOREM SuccessIsComplete == Spec => []OkIsComplete
  BY Invariant, PTL DEF IInv

(* A run reported as cancelled has neither a process nor a reader left.    *)
THEOREM CancellationIsQuiet == Spec => []CancelledIsQuiet
  BY Invariant, PTL DEF IInv

(* A child is reaped before the run returns, unless waiting for it failed. *)
THEOREM ChildIsReaped == Spec => []ReapedWhenReturned
<1>1. IInv => ReapedWhenReturned
  BY DEF IInv, Conduct
<1> QED
  BY <1>1, Invariant, PTL
=============================================================================
