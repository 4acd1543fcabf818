--------------------------- MODULE SchedulerProofs ---------------------------
(***************************************************************************)
(* Theorems about Scheduler, for every number of files, every concurrency  *)
(* limit and every request.                                                *)
(***************************************************************************)
EXTENDS Scheduler, FiniteSetTheorems, TLAPS

DecideTyped == /\ terminal \in [Files -> Outcomes \cup {None}]
               /\ status \in [Files -> Statuses]
               /\ finished \in [Files -> Nat]

(* Deciding a set of files keeps the three tables well typed.              *)
LEMMA DecideType ==
  ASSUME TypeOK, NEW S \in SUBSET Files, NEW o,
         \A f \in S : o[f] \in Outcomes, Decide(S, o)
  PROVE  DecideTyped'
  BY DEF TypeOK, Decide, StatusOf, Outcomes, Statuses, None, DecideTyped

(* A worker that has ended, other than with a plan to execute, has an      *)
(* outcome.                                                                *)
LEMMA OutcomeType ==
  ASSUME TypeOK, NEW f \in Joinable, task[f] # "Ready"
  PROVE  OutcomeOf(task[f]) \in Outcomes
<1>1. task[f] \in {"Skipped", "Planned", "Succeeded", "Failed", "Cancelled",
                  "CleanupFailed", "Panicked"}
  BY DEF TypeOK, Joinable, TaskStates, Running, PrepareEndings, ExecuteEndings
<1>2. Blame(root) \in Outcomes /\ Blame(userCancelled) \in Outcomes
  BY DEF Blame, Outcomes
<1> QED
  BY <1>1, <1>2 DEF OutcomeOf, Outcomes

(* What each outcome of a joined worker goes back to.                      *)
LEMMA OutcomeCause ==
  ASSUME TypeOK, NEW f \in Joinable, task[f] # "Ready"
  PROVE  /\ OutcomeOf(task[f]) = "CancelledUser" => Noticed(f) \/ userCancelled
         /\ OutcomeOf(task[f]) = "CancelledFailFast" => failFast
         /\ OutcomeOf(task[f]) = "Succeeded" => task[f] = "Succeeded"
         /\ OutcomeOf(task[f]) = "Planned" => task[f] = "Planned"
<1>1. task[f] \in {"Skipped", "Planned", "Succeeded", "Failed", "Cancelled",
                  "CleanupFailed", "Panicked"}
  BY DEF TypeOK, Joinable, TaskStates, Running, PrepareEndings, ExecuteEndings
<1> QED
  BY <1>1 DEF OutcomeOf, Blame, Noticed

LEMMA InitType == Init => TypeOK
<1> SUFFICES ASSUME Init PROVE TypeOK
  OBVIOUS
<1>1. backlog \in 0 .. ProgressCap
  BY ConstantsAssumption DEF Init
<1> QED
  BY <1>1 DEF Init, TypeOK, Statuses, TaskStates

LEMMA StepType == TypeOK /\ [Next]_vars => TypeOK'
<1> SUFFICES ASSUME TypeOK, [Next]_vars PROVE TypeOK'
  OBVIOUS
<1> USE DEF supervisor, flags, books, ending
<1>1. CASE CancelRoot
  BY <1>1 DEF CancelRoot, TypeOK
<1>2. CASE StartPrepare
  <2> DEFINE drained == {f \in pending : root}
  <2>1. drained \in SUBSET Files /\ "CancelledUser" \in Outcomes
    BY DEF TypeOK, Outcomes
  <2>2. Decide(drained, All(drained, "CancelledUser"))
    BY <1>2 DEF StartPrepare
  <2>3. DecideTyped'
    BY <2>1, <2>2, DecideType DEF All
  <2> QED
    BY <1>2, <2>3 DEF StartPrepare, TypeOK, DecideTyped
<1>3. CASE Admit
  BY <1>3 DEF Admit, TypeOK, Statuses, TaskStates, Running
<1>4. CASE Wait
  BY <1>4 DEF Wait, TypeOK
<1>5. CASE ObserveCancel
  <2>1. pending \in SUBSET Files /\ "CancelledUser" \in Outcomes
    BY DEF TypeOK, Outcomes
  <2>2. Decide(pending, All(pending, "CancelledUser"))
    BY <1>5 DEF ObserveCancel
  <2>3. DecideTyped'
    BY <2>1, <2>2, DecideType DEF All
  <2> QED
    BY <1>5, <2>3 DEF ObserveCancel, TypeOK, DecideTyped
<1>6. CASE ReceiveProgress
  BY <1>6, ConstantsAssumption DEF ReceiveProgress, TypeOK
<1>7. ASSUME NEW f \in Files, JoinReady(f) PROVE TypeOK'
  BY <1>7 DEF JoinReady, TypeOK, Statuses, TaskStates
<1>8. ASSUME NEW f \in Files, JoinTerminal(f) PROVE TypeOK'
  <2>1. OutcomeOf(task[f]) \in Outcomes
    BY <1>8, OutcomeType DEF JoinTerminal, Outcomes
  <2>2. {"CancelledUser", "CancelledFailFast"} \subseteq Outcomes
    BY DEF Outcomes
  <2> DEFINE o == [g \in Drained(f) \cup {f} |->
                    IF g = f THEN OutcomeOf(task[f])
                    ELSE IF Noticed(f) THEN "CancelledUser"
                    ELSE "CancelledFailFast"]
  <2>3. Decide(Drained(f) \cup {f}, o)
    BY <1>8 DEF JoinTerminal
  <2>4. \A g \in Drained(f) \cup {f} : o[g] \in Outcomes
    BY <2>1, <2>2
  <2>5. Drained(f) \cup {f} \in SUBSET Files
    BY DEF TypeOK, Drained
  <2>6. DecideTyped'
    BY <2>3, <2>4, <2>5, DecideType
  <2> QED
    BY <1>8, <2>6 DEF JoinTerminal, TypeOK, TaskStates, DecideTyped
<1>9. CASE PrepareDone
  <2>1. Blame(userCancelled) \in Outcomes
    BY DEF Blame, Outcomes
  <2> DEFINE dropped == {f \in prepared : userCancelled \/ failFast}
  <2>2. dropped \in SUBSET Files
    BY DEF TypeOK
  <2>3. Decide(dropped, All(dropped, Blame(userCancelled)))
    BY <1>9 DEF PrepareDone
  <2>4. DecideTyped'
    BY <2>1, <2>2, <2>3, DecideType DEF All
  <2> QED
    BY <1>9, <2>4 DEF PrepareDone, PhaseOver, TypeOK, DecideTyped
<1>10. CASE Resolve
  <2>1. {"Failed", "CancelledFailFast"} \subseteq Outcomes
    BY DEF Outcomes
  <2>2. PICK unresolved \in SUBSET prepared :
          Decide(Resolved(unresolved),
                 [f \in Resolved(unresolved) |->
                    IF f \in Rejected(unresolved) THEN "Failed"
                    ELSE "CancelledFailFast"])
    BY <1>10 DEF Resolve
  <2>3. Resolved(unresolved) \in SUBSET Files
    BY DEF TypeOK, Resolved, Rejected, Colliding
  <2>4. DecideTyped'
    BY <2>1, <2>2, <2>3, DecideType
  <2> QED
    BY <1>10, <2>4 DEF Resolve, TypeOK, DecideTyped
<1>11. CASE EnterExecute
  <2> DEFINE drained == {f \in prepared : root}
  <2>1. drained \in SUBSET Files /\ "CancelledUser" \in Outcomes
    BY DEF TypeOK, Outcomes
  <2>2. Decide(drained, All(drained, "CancelledUser"))
    BY <1>11 DEF EnterExecute
  <2>3. DecideTyped'
    BY <2>1, <2>2, DecideType DEF All
  <2> QED
    BY <1>11, <2>3 DEF EnterExecute, TypeOK, DecideTyped
<1>12. CASE ExecuteDone
  BY <1>12, ConstantsAssumption DEF ExecuteDone, PhaseOver, TypeOK
<1>13. CASE Finish
  BY <1>13 DEF Finish, TypeOK, None
<1>14. ASSUME NEW f \in Files, Worker(f) PROVE TypeOK'
  <2>1. ASSUME NEW how \in TaskStates, End(f, how) PROVE TypeOK'
    BY <1>14, <2>1 DEF End, TypeOK
  <2>2. CASE PrepareEnd(f)
    BY <2>1, <2>2 DEF PrepareEnd, TaskStates
  <2>3. CASE ExecuteBegin(f)
    BY <2>1, <2>3 DEF ExecuteBegin, TypeOK, TaskStates, Running, PrepareEndings
  <2>4. CASE ExecuteEnd(f)
    BY <2>1, <2>4 DEF ExecuteEnd, TaskStates
  <2>5. CASE Report(f)
    BY <2>5, ConstantsAssumption DEF Report, TypeOK
  <2> QED
    BY <1>14, <2>2, <2>3, <2>4, <2>5 DEF Worker
<1>15. CASE UNCHANGED vars
  BY <1>15 DEF vars, TypeOK
<1>16. CASE \E f \in Files : JoinReady(f) \/ JoinTerminal(f)
  BY <1>7, <1>8, <1>16
<1>17. CASE \E f \in Files : Worker(f)
  BY <1>14, <1>17
<1> QED
  BY <1>1, <1>2, <1>3, <1>4, <1>5, <1>6, <1>9, <1>10, <1>11, <1>12, <1>13,
     <1>15, <1>16, <1>17 DEF Next, Supervise, Done

(* Types are correct in every reachable state.                             *)
THEOREM TypeCorrect == Spec => []TypeOK
<1>1. Init => TypeOK
  BY InitType
<1>2. TypeOK /\ [Next]_vars => TypeOK'
  BY StepType
<1> QED
  BY <1>1, <1>2, PTL DEF Spec

-----------------------------------------------------------------------------
(* What Decide does, file by file.                                         *)
LEMMA DecideEach ==
  ASSUME NEW S \in SUBSET Files, NEW o, Decide(S, o), NEW f \in Files
  PROVE  /\ f \in S => /\ terminal'[f] = o[f]
                       /\ status'[f] = StatusOf(o[f])
                       /\ finished'[f] = finished[f] + 1
         /\ f \notin S => /\ terminal'[f] = terminal[f]
                          /\ status'[f] = status[f]
                          /\ finished'[f] = finished[f]
  BY DEF Decide

(* No outcome is mistaken for the absence of one.                          *)
LEMMA NoneIsNoOutcome == None \notin Outcomes
  BY DEF None, Outcomes

LEMMA HoldingFinite == IsFiniteSet(Files) /\ IsFiniteSet(Holding)
<1>1. IsFiniteSet(Files)
  BY ConstantsAssumption, FS_Interval DEF Files
<1> QED
  BY <1>1, FS_Subset DEF Holding

LEMMA InitInv == Init => IInv
<1> SUFFICES ASSUME Init PROVE IInv
  OBVIOUS
<1>1. TypeOK
  BY InitType
<1>2. Ledger /\ Control
  BY DEF Init, Ledger, Control
<1>5. Reasons
  BY DEF Init, Reasons, None
<1>6. Exclusive /\ SnapshotAgrees
  BY DEF Init, Exclusive, Live, SnapshotAgrees
<1>3. Holding = {}
  BY DEF Init, Holding, Running
<1>4. Workers
  BY <1>3, FS_EmptySet, ConstantsAssumption DEF Init, Workers
<1> QED
  BY <1>1, <1>2, <1>4, <1>5, <1>6 DEF IInv

-----------------------------------------------------------------------------
(* One lemma for each action.                                              *)

LEMMA CancelRootInv == IInv /\ CancelRoot => IInv'
<1> SUFFICES ASSUME IInv, CancelRoot PROVE IInv'
  OBVIOUS
<1> USE DEF IInv, CancelRoot, supervisor, flags, books, ending
<1>1. TypeOK'
  BY DEF TypeOK
<1>2. Ledger' /\ Control' /\ Exclusive' /\ SnapshotAgrees'
  BY DEF Ledger, Control, Exclusive, Live, SnapshotAgrees
<1>3. Workers' /\ Reasons'
  BY DEF Workers, Holding, Reasons
<1> QED
  BY <1>1, <1>2, <1>3

LEMMA StartPrepareInv == IInv /\ StartPrepare => IInv'
<1> SUFFICES ASSUME IInv, StartPrepare PROVE IInv'
  OBVIOUS
<1> USE DEF IInv, ending
<1> DEFINE drained == {f \in pending : root}
           o == All(drained, "CancelledUser")
<1>1. TypeOK'
  BY StepType DEF Next, Supervise
<1>2. drained \in SUBSET Files /\ Decide(drained, o)
  BY DEF StartPrepare, TypeOK
<1>3. \A f \in drained : o[f] = "CancelledUser"
  BY DEF All
<1> HIDE DEF o
<1>9. \A f \in Files :
        /\ f \in drained => /\ terminal'[f] = "CancelledUser"
                         /\ status'[f] = "Cancelled"
                         /\ finished'[f] = finished[f] + 1
        /\ f \notin drained => /\ terminal'[f] = terminal[f]
                            /\ status'[f] = status[f]
                            /\ finished'[f] = finished[f]
  BY <1>2, <1>3, DecideEach DEF StatusOf
<1>4. Ledger'
  BY <1>9 DEF StartPrepare, Ledger, TypeOK, None
<1>5. Control'
  BY DEF StartPrepare, Control, TypeOK
<1>6. Workers'
  BY DEF StartPrepare, Workers, Holding
<1>7. Reasons'
  BY <1>9 DEF StartPrepare, Reasons, Control, Ledger, TypeOK, None
<1>8. Exclusive'
  BY DEF StartPrepare, Control, Exclusive
<1>10. SnapshotAgrees'
  BY <1>9 DEF StartPrepare, Control, Ledger, SnapshotAgrees, StatusOf, TypeOK, None
<1> QED
  BY <1>1, <1>4, <1>5, <1>6, <1>7, <1>8, <1>10

LEMMA AdmitInv == IInv /\ Admit => IInv'
<1> SUFFICES ASSUME IInv, Admit PROVE IInv'
  OBVIOUS
<1> USE DEF IInv, flags, ending
<1>1. TypeOK'
  BY StepType DEF Next, Supervise
<1>2. PICK f \in pending :
        /\ pending' = pending \ {f}
        /\ \/ /\ phase = "Prepare"
              /\ status' = [status EXCEPT ![f] = "Preparing"]
              /\ task' = [task EXCEPT ![f] = "working"]
           \/ /\ phase = "Execute"
              /\ status' = [status EXCEPT ![f] = "Running"]
              /\ task' = [task EXCEPT ![f] = "spawned"]
  BY DEF Admit
<1>3. f \in Files /\ task[f] = "none" /\ terminal[f] = None /\ f \notin prepared
  BY <1>2 DEF TypeOK, Ledger
<1>4. /\ task'[f] \in Running
      /\ \A g \in Files \ {f} : task'[g] = task[g] /\ status'[g] = status[g]
  BY <1>2, <1>3 DEF TypeOK, Running
<1>5. Ledger'
  BY <1>2, <1>3, <1>4 DEF Admit, Ledger, Running
<1>6. Control'
  BY <1>2 DEF Admit, Control
<1>7. Holding' = Holding \cup {f} /\ f \notin Holding
  BY <1>3, <1>4 DEF Holding, Running
<1>8. Cardinality(Holding') <= MaxConcurrency
  <2>1. Cardinality(Holding') = Cardinality(Holding) + 1 /\ Cardinality(Holding) \in Nat
    BY <1>7, HoldingFinite, FS_AddElement, FS_CardinalityType
  <2> QED
    BY <2>1, ConstantsAssumption DEF Admit, MayAdmit
<1>9. Workers'
  BY <1>2, <1>3, <1>4, <1>8 DEF Admit, Workers, Running, PrepareEndings, TypeOK
<1>10. Reasons'
  BY <1>2, <1>3, <1>4 DEF Admit, MayAdmit, Reasons, TypeOK
<1>11. Exclusive'
  <2>1. Live' = Live
    BY <1>2, <1>3, <1>4 DEF Admit, Live, Running
  <2> QED
    BY <2>1 DEF Exclusive, Admit
<1>12. SnapshotAgrees'
  BY <1>2, <1>3, <1>4 DEF Admit, SnapshotAgrees, TypeOK
<1> QED
  BY <1>1, <1>5, <1>6, <1>9, <1>10, <1>11, <1>12

LEMMA WaitInv == IInv /\ Wait => IInv'
<1> SUFFICES ASSUME IInv, Wait PROVE IInv'
  OBVIOUS
<1> USE DEF IInv, Wait, flags, books, ending
<1>1. TypeOK'
  BY DEF TypeOK
<1>2. Ledger' /\ Control' /\ Workers'
  BY DEF Ledger, Control, Workers, Holding
<1>3. Reasons' /\ Exclusive' /\ SnapshotAgrees'
  BY DEF Reasons, Exclusive, Live, SnapshotAgrees
<1> QED
  BY <1>1, <1>2, <1>3

LEMMA ReceiveProgressInv == IInv /\ ReceiveProgress => IInv'
<1> SUFFICES ASSUME IInv, ReceiveProgress PROVE IInv'
  OBVIOUS
<1> USE DEF IInv, flags, books, ending
<1>1. TypeOK'
  BY StepType DEF Next, Supervise
<1>2. Ledger' /\ Control' /\ Workers'
  BY DEF ReceiveProgress, Ledger, Control, Workers, Holding
<1>3. Reasons' /\ Exclusive' /\ SnapshotAgrees'
  BY DEF ReceiveProgress, Reasons, Exclusive, Live, SnapshotAgrees
<1> QED
  BY <1>1, <1>2, <1>3

LEMMA ObserveCancelInv == IInv /\ ObserveCancel => IInv'
<1> SUFFICES ASSUME IInv, ObserveCancel PROVE IInv'
  OBVIOUS
<1> USE DEF IInv, ending
<1> DEFINE o == All(pending, "CancelledUser")
<1>1. TypeOK'
  BY StepType DEF Next, Supervise
<1>2. pending \in SUBSET Files /\ Decide(pending, o)
  BY DEF ObserveCancel, TypeOK
<1>3. \A f \in pending : o[f] = "CancelledUser"
  BY DEF All
<1> HIDE DEF o
<1>9. \A f \in Files :
        /\ f \in pending => /\ terminal'[f] = "CancelledUser"
                         /\ status'[f] = "Cancelled"
                         /\ finished'[f] = finished[f] + 1
        /\ f \notin pending => /\ terminal'[f] = terminal[f]
                            /\ status'[f] = status[f]
                            /\ finished'[f] = finished[f]
  BY <1>2, <1>3, DecideEach DEF StatusOf
<1>4. Ledger'
  BY <1>9 DEF ObserveCancel, Ledger, TypeOK, None
<1>5. Control'
  BY DEF ObserveCancel, Control, TypeOK
<1>6. Workers'
  BY DEF ObserveCancel, Workers, Holding
<1>7. Reasons'
  BY <1>9 DEF ObserveCancel, Reasons, Control, Ledger, TypeOK, None
<1>8. Exclusive' /\ SnapshotAgrees'
  BY <1>9
     DEF ObserveCancel, Control, Ledger, Exclusive, Live, SnapshotAgrees, StatusOf,
         TypeOK, None
<1> QED
  BY <1>1, <1>4, <1>5, <1>6, <1>7, <1>8

LEMMA JoinReadyInv == ASSUME NEW f \in Files PROVE IInv /\ JoinReady(f) => IInv'
<1> SUFFICES ASSUME IInv, JoinReady(f) PROVE IInv'
  OBVIOUS
<1> USE DEF IInv, flags, ending
<1>1. TypeOK'
  BY StepType DEF Next, Supervise
<1>2. /\ task[f] = "Ready" /\ task'[f] = "none"
      /\ status'[f] = "Ready"
      /\ prepared' = prepared \cup {f}
      /\ terminal[f] = None /\ f \notin prepared /\ f \notin pending
      /\ \A g \in Files \ {f} : task'[g] = task[g] /\ status'[g] = status[g]
  BY DEF JoinReady, TypeOK, Ledger
<1>3. phase = "Prepare" /\ ~request.dryRun
  BY <1>2 DEF Workers, TypeOK, Running, ExecuteEndings
<1>4. Ledger'
  BY <1>2 DEF JoinReady, Ledger
<1>5. Control'
  BY <1>2, <1>3 DEF JoinReady, Control
<1>6. Holding' = Holding
  BY <1>2 DEF Holding, Running
<1>7. Workers'
  BY <1>2, <1>3, <1>6 DEF JoinReady, Workers
<1>8. Reasons'
  BY <1>2 DEF JoinReady, Reasons
<1>9. Exclusive'
  BY <1>3 DEF JoinReady, Exclusive
<1>10. SnapshotAgrees'
  BY <1>2, <1>3 DEF JoinReady, SnapshotAgrees
<1> QED
  BY <1>1, <1>4, <1>5, <1>7, <1>8, <1>9, <1>10

(* Joining a terminal result removes one worker, and decides its file and  *)
(* perhaps the whole queue.                                                *)
LEMMA JoinTerminalInv ==
  ASSUME NEW f \in Files PROVE IInv /\ JoinTerminal(f) => IInv'
<1> SUFFICES ASSUME IInv, JoinTerminal(f) PROVE IInv'
  OBVIOUS
<1> USE DEF IInv, ending
<1> DEFINE S == Drained(f) \cup {f}
           reason == IF Noticed(f) THEN "CancelledUser" ELSE "CancelledFailFast"
           o == [g \in S |-> IF g = f THEN OutcomeOf(task[f])
                             ELSE IF Noticed(f) THEN "CancelledUser"
                             ELSE "CancelledFailFast"]
<1>1. TypeOK'
  BY StepType DEF Next, Supervise
<1>2. S \in SUBSET Files /\ Drained(f) \in SUBSET pending /\ Decide(S, o)
  BY DEF JoinTerminal, TypeOK, Drained
<1>3. /\ task[f] # "none" /\ terminal[f] = None /\ f \notin prepared
      /\ f \notin pending /\ f \notin Holding
      /\ task'[f] = "none"
      /\ \A g \in Files \ {f} : task'[g] = task[g]
  BY DEF JoinTerminal, Joinable, Holding, Ledger, TypeOK
<1>4. o[f] = OutcomeOf(task[f]) /\ \A g \in Drained(f) : o[g] = reason
  BY <1>2, <1>3
<1>5. OutcomeOf(task[f]) \in Outcomes
  BY OutcomeType DEF JoinTerminal
<1> HIDE DEF o
<1>6. /\ terminal'[f] = OutcomeOf(task[f])
      /\ status'[f] = StatusOf(OutcomeOf(task[f]))
      /\ finished'[f] = finished[f] + 1
      /\ \A g \in Drained(f) : /\ terminal'[g] = reason
                               /\ status'[g] = "Cancelled"
                               /\ finished'[g] = finished[g] + 1
      /\ \A g \in Files \ S : /\ terminal'[g] = terminal[g]
                              /\ status'[g] = status[g]
                              /\ finished'[g] = finished[g]
  BY <1>2, <1>4, DecideEach DEF StatusOf
<1>7. reason \in Outcomes
  BY DEF Outcomes
<1>8. \A g \in Drained(f) : /\ task[g] = "none" /\ g \notin prepared
                            /\ terminal[g] = None /\ g \in Files
  BY <1>2 DEF Ledger, TypeOK
<1> HIDE DEF reason
<1>9. Ledger'
  BY <1>2, <1>3, <1>5, <1>6, <1>7, <1>8, NoneIsNoOutcome DEF JoinTerminal, Ledger
<1>10. Control'
  BY <1>2 DEF JoinTerminal, Control, TypeOK
<1>11. Holding' = Holding
  BY <1>3 DEF Holding, Running
<1>12. Workers'
  BY <1>3, <1>11 DEF JoinTerminal, Workers
<1>13. Reasons'
  <2>1. /\ OutcomeOf(task[f]) = "CancelledUser" => Noticed(f) \/ userCancelled
        /\ OutcomeOf(task[f]) = "CancelledFailFast" => failFast
        /\ OutcomeOf(task[f]) = "Succeeded" => task[f] = "Succeeded"
        /\ OutcomeOf(task[f]) = "Planned" => task[f] = "Planned"
    BY OutcomeCause DEF JoinTerminal
  <2>2. /\ Noticed(f) => root
        /\ stopAdmission => pending = {}
        /\ pending' = {} \/ ~(Noticed(f) \/ Tripped(f))
    BY DEF Noticed, JoinTerminal, Reasons, Drained, TypeOK
  <2>3. \A g \in Files : terminal[g] = "Failed" => terminal'[g] = "Failed"
    BY <1>3, <1>6, <1>8 DEF None
  <2>4. Tripped(f) => request.policy = "FailFast" /\ terminal'[f] = "Failed"
    BY <1>6 DEF Tripped
  <2>5. /\ userCancelled' => root'
        /\ stopAdmission' <=> userCancelled' \/ failFast'
        /\ stopAdmission' => pending' = {}
    BY <2>2 DEF JoinTerminal, Reasons, Drained, TypeOK
  <2>6. failFast' => /\ request'.policy = "FailFast"
                     /\ \E g \in Files : terminal'[g] = "Failed"
    BY <2>3, <2>4 DEF JoinTerminal, Reasons
  <2>7. \A g \in Files : terminal'[g] = "Failed" => terminal[g] = "Failed" \/ g = f
    BY <1>6 DEF reason
  <2>8. ASSUME request'.policy = "FailFast", NEW g \in Files, terminal'[g] = "Failed"
        PROVE  failFast'
    BY <2>7, <2>8, <1>6 DEF JoinTerminal, Reasons, Tripped
  <2>9. ASSUME NEW g \in Files
        PROVE  /\ terminal'[g] = "CancelledUser" => userCancelled'
               /\ terminal'[g] = "CancelledFailFast" =>
                    /\ request'.policy = "FailFast"
                    /\ \E h \in Files : terminal'[h] = "Failed"
               /\ terminal'[g] = "Succeeded" => phase' = "Execute"
               /\ terminal'[g] = "Planned" => request'.dryRun
    <3>1. CASE g = f
      BY <3>1, <1>6, <2>1, <2>6 DEF JoinTerminal, Workers, Running, PrepareEndings, TypeOK
    <3>2. CASE g \in Drained(f)
      BY <3>2, <1>6, <2>4 DEF JoinTerminal, Drained, reason
    <3>3. CASE g \notin S
      <4>1. terminal'[g] = terminal[g]
        BY <3>3, <1>6
      <4>2. /\ userCancelled => userCancelled'
            /\ request' = request /\ phase' = phase
        BY DEF JoinTerminal
      <4> QED
        BY <4>1, <4>2, <2>3 DEF Reasons
    <3> QED
      BY <3>1, <3>2, <3>3
  <2>10. ASSUME ~CleanupMayFail, NEW g \in interrupted'
         PROVE  userCancelled' \/ (root' /\ task'[g] = "Cancelled")
    <3>1. userCancelled \/ (root /\ task[g] = "Cancelled")
      BY <2>10 DEF JoinTerminal, Reasons
    <3>2. g \in Files
      BY <2>10 DEF JoinTerminal, TypeOK
    <3> QED
      BY <3>1, <3>2, <1>3 DEF JoinTerminal, Noticed
  <2> QED
    BY <2>5, <2>6, <2>8, <2>9, <2>10 DEF Reasons
<1>14. Exclusive'
  <2>1. CASE phase = "Execute"
    <3>1. Live' \subseteq Live
      BY <2>1, <1>2, <1>3, <1>6, <1>7, <1>8 DEF JoinTerminal, Live, reason
    <3> QED
      BY <2>1, <3>1 DEF JoinTerminal, Exclusive
  <2>2. CASE phase # "Execute"
    BY <2>2 DEF JoinTerminal, Exclusive
  <2> QED
    BY <2>1, <2>2
<1>15. SnapshotAgrees'
  <2> SUFFICES ASSUME NEW g \in Files
               PROVE  /\ terminal'[g] # None => status'[g] = StatusOf(terminal'[g])
                      /\ terminal'[g] = None =>
                           status'[g] = IF task'[g] # "none"
                             THEN IF phase' = "Prepare" THEN "Preparing" ELSE "Running"
                             ELSE IF g \in prepared' \/ phase' = "Execute" THEN "Ready"
                             ELSE "Queued"
    BY DEF SnapshotAgrees
  <2>1. CASE g = f
    BY <2>1, <1>5, <1>6, NoneIsNoOutcome
  <2>2. CASE g \in Drained(f)
    BY <2>2, <1>6, <1>7, NoneIsNoOutcome DEF StatusOf, reason
  <2>3. CASE g \notin S
    BY <2>3, <1>3, <1>6 DEF JoinTerminal, SnapshotAgrees
  <2> QED
    BY <2>1, <2>2, <2>3
<1> QED
  BY <1>1, <1>9, <1>10, <1>12, <1>13, <1>14, <1>15

LEMMA PrepareDoneInv == IInv /\ PrepareDone => IInv'
<1> SUFFICES ASSUME IInv, PrepareDone PROVE IInv'
  OBVIOUS
<1> USE DEF IInv, flags, ending
<1> DEFINE dropped == {f \in prepared : userCancelled \/ failFast}
           o == All(dropped, Blame(userCancelled))
<1>1. TypeOK'
  BY StepType DEF Next, Supervise
<1>2. dropped \in SUBSET Files /\ Decide(dropped, o)
  BY DEF PrepareDone, TypeOK
<1>3. \A f \in dropped : o[f] = Blame(userCancelled)
  BY DEF All
<1> HIDE DEF o
<1>4. \A f \in Files :
        /\ f \in dropped => /\ terminal'[f] = Blame(userCancelled)
                            /\ status'[f] = StatusOf(Blame(userCancelled))
                            /\ finished'[f] = finished[f] + 1
        /\ f \notin dropped => /\ terminal'[f] = terminal[f]
                               /\ status'[f] = status[f]
                               /\ finished'[f] = finished[f]
  BY <1>2, <1>3, DecideEach
<1>5. \A f \in dropped : /\ Blame(userCancelled) \in {"CancelledUser", "CancelledFailFast"}
                         /\ Blame(userCancelled) = "CancelledUser" => userCancelled
                         /\ Blame(userCancelled) = "CancelledFailFast" => failFast
  BY DEF Blame
<1>6. /\ pending = {} /\ phase = "Prepare" /\ pc = "admit"
      /\ \A f \in Files : task[f] = "none"
  <2>1. Holding = {}
    BY DEF PrepareDone, PhaseOver, Holding, Running
  <2>2. Cardinality(Holding) < MaxConcurrency
    BY <2>1, FS_EmptySet, ConstantsAssumption
  <2> QED
    BY <2>2 DEF PrepareDone, PhaseOver, MayAdmit, Reasons
<1>7. Ledger'
  BY <1>4, <1>5 DEF PrepareDone, Ledger, TypeOK, None
<1>8. Control'
  <2>1. pc' = "finish" => prepared' = {}
    BY DEF PrepareDone, Control
  <2> QED
    BY <2>1, <1>6 DEF PrepareDone, Control, TypeOK
<1>9. Workers'
  BY DEF PrepareDone, Workers, Holding
<1>10. Reasons'
  <2>1. \A f \in Files : terminal'[f] = "Failed" <=> terminal[f] = "Failed"
    BY <1>4, <1>5 DEF Ledger, None
  <2>2. \A f \in Files : f \notin dropped => terminal'[f] = terminal[f]
    BY <1>4
  <2>3. \A f \in dropped : /\ terminal'[f] \in {"CancelledUser", "CancelledFailFast"}
                           /\ terminal'[f] = "CancelledUser" => userCancelled
                           /\ terminal'[f] = "CancelledFailFast" => failFast
    BY <1>2, <1>4, <1>5
  <2> HIDE DEF dropped
  <2> QED
    BY <2>1, <2>2, <2>3, <1>6 DEF PrepareDone, Reasons, TypeOK
<1>11. Exclusive'
  BY <1>6 DEF PrepareDone, Exclusive
<1>12. SnapshotAgrees'
  BY <1>4, <1>5, <1>6 DEF PrepareDone, SnapshotAgrees, Ledger, StatusOf, TypeOK, None
<1> QED
  BY <1>1, <1>7, <1>8, <1>9, <1>10, <1>11, <1>12

LEMMA ResolveInv == IInv /\ Resolve => IInv'
<1> SUFFICES ASSUME IInv, Resolve PROVE IInv'
  OBVIOUS
<1> USE DEF IInv, flags, ending
<1>1. TypeOK'
  BY StepType DEF Next, Supervise
<1>2. PICK unresolved \in SUBSET prepared :
        /\ Decide(Resolved(unresolved),
                  [f \in Resolved(unresolved) |->
                     IF f \in Rejected(unresolved) THEN "Failed"
                     ELSE "CancelledFailFast"])
        /\ prepared' = prepared \ Resolved(unresolved)
  BY DEF Resolve
<1> DEFINE D == Resolved(unresolved)
           R == Rejected(unresolved)
<1>3. R \subseteq D /\ D \subseteq prepared /\ D \in SUBSET Files
  BY DEF Resolved, Rejected, Colliding, TypeOK
<1>4. \A f \in Files :
        /\ f \in D => /\ terminal'[f] = IF f \in R THEN "Failed" ELSE "CancelledFailFast"
                      /\ status'[f] = IF f \in R THEN "Failed" ELSE "Cancelled"
                      /\ finished'[f] = finished[f] + 1
        /\ f \notin D => /\ terminal'[f] = terminal[f]
                         /\ status'[f] = status[f]
                         /\ finished'[f] = finished[f]
  BY <1>2, <1>3, DecideEach DEF StatusOf
<1>5. /\ pending = {} /\ phase = "Prepare" /\ pc = "resolve" /\ ~userCancelled
      /\ \A f \in Files : task[f] = "none"
  BY DEF Resolve, Control
<1>6. \A f, g \in prepared \ D : f # g => request.dest[f] # request.dest[g]
  BY <1>3 DEF Resolved, Rejected, Colliding
<1>7. \A f \in D \ R : /\ request.policy = "FailFast"
                       /\ R # {} \/ \E g \in Files : terminal[g] = "Failed"
  BY DEF Resolved
<1>8. request.policy = "FailFast" /\ (R # {} \/ \E g \in Files : terminal[g] = "Failed")
        => D = prepared
  BY DEF Resolved
<1> HIDE DEF D, R
<1>9. Ledger'
  BY <1>2, <1>3, <1>4, <1>5 DEF Resolve, Ledger, TypeOK, None, D
<1>10. Control'
  BY <1>2, <1>5 DEF Resolve, Control, TypeOK
<1>11. Workers'
  BY DEF Resolve, Workers, Holding
<1>12. Reasons'
  <2>1. \A f \in Files : terminal[f] = "Failed" => terminal'[f] = "Failed"
    BY <1>3, <1>4 DEF Ledger, None
  <2>2. \A f \in D \ R : \E g \in Files : terminal'[g] = "Failed"
    <3>1. \A g \in R : g \in Files /\ terminal'[g] = "Failed"
      BY <1>3, <1>4
    <3> QED
      BY <1>7, <3>1, <2>1
  <2>3. ASSUME request.policy = "FailFast", \E g \in Files : terminal'[g] = "Failed"
        PROVE  pc' = "finish"
    <3>1. R # {} \/ \E g \in Files : terminal[g] = "Failed"
      BY <2>3, <1>4
    <3>2. prepared' = {}
      BY <3>1, <2>3, <1>8, <1>2 DEF D
    <3> QED
      BY <3>2 DEF Resolve
  <2>4. ASSUME NEW f \in Files
        PROVE  /\ terminal'[f] = "CancelledUser" => userCancelled
               /\ terminal'[f] = "CancelledFailFast" =>
                    /\ request.policy = "FailFast"
                    /\ \E g \in Files : terminal'[g] = "Failed"
               /\ terminal'[f] = "Succeeded" => phase = "Execute"
               /\ terminal'[f] = "Planned" => request.dryRun
    <3>1. CASE f \in D
      BY <3>1, <1>4, <1>7, <2>2
    <3>2. CASE f \notin D
      BY <3>2, <1>4, <2>1 DEF Reasons
    <3> QED
      BY <3>1, <3>2
  <2>5. failFast => \E f \in Files : terminal'[f] = "Failed"
    BY <2>1 DEF Reasons
  <2> QED
    BY <2>3, <2>4, <2>5, <1>5 DEF Resolve, Reasons
<1>13. Exclusive'
  <2>1. \A f \in Live' : f \in prepared \ D
    BY <1>1, <1>2, <1>3, <1>4, <1>5 DEF Live, Resolve, Reasons, TypeOK, D
  <2> QED
    BY <2>1, <1>6 DEF Resolve, Exclusive
<1>14. SnapshotAgrees'
  BY <1>2, <1>3, <1>4, <1>5
     DEF Resolve, SnapshotAgrees, Ledger, StatusOf, TypeOK, None, D
<1> QED
  BY <1>1, <1>9, <1>10, <1>11, <1>12, <1>13, <1>14

LEMMA EnterExecuteInv == IInv /\ EnterExecute => IInv'
<1> SUFFICES ASSUME IInv, EnterExecute PROVE IInv'
  OBVIOUS
<1> USE DEF IInv, ending
<1> DEFINE drained == {f \in prepared : root}
           o == All(drained, "CancelledUser")
<1>1. TypeOK'
  BY StepType DEF Next, Supervise
<1>2. drained \in SUBSET Files /\ Decide(drained, o)
  BY DEF EnterExecute, TypeOK
<1>3. \A f \in drained : o[f] = "CancelledUser"
  BY DEF All
<1> HIDE DEF o
<1>4. \A f \in Files :
        /\ f \in drained => /\ terminal'[f] = "CancelledUser"
                            /\ status'[f] = "Cancelled"
                            /\ finished'[f] = finished[f] + 1
        /\ f \notin drained => /\ terminal'[f] = terminal[f]
                               /\ status'[f] = status[f]
                               /\ finished'[f] = finished[f]
  BY <1>2, <1>3, DecideEach DEF StatusOf
<1>5. /\ pending = {} /\ phase = "Prepare" /\ pc = "enter" /\ ~userCancelled
      /\ ~request.dryRun
      /\ \A f \in Files : task[f] = "none"
  BY DEF EnterExecute, Control
<1>6. Ledger'
  BY <1>4, <1>5 DEF EnterExecute, Ledger, TypeOK, None
<1>7. Control'
  BY <1>5 DEF EnterExecute, Control
<1>8. Workers'
  BY <1>5 DEF EnterExecute, Workers, Holding
<1>9. Reasons'
  <2>1. \A f \in Files : /\ terminal'[f] = "Failed" <=> terminal[f] = "Failed"
                         /\ terminal'[f] = "CancelledFailFast" <=> terminal[f] = "CancelledFailFast"
                         /\ terminal'[f] = "Planned" <=> terminal[f] = "Planned"
                         /\ terminal'[f] = "CancelledUser" => terminal[f] = "CancelledUser" \/ root
    BY <1>4 DEF Ledger, None
  <2>2. root => pending' = {}
    BY DEF EnterExecute
  <2>3. ~failFast
    BY DEF EnterExecute, Control
  <2> QED
    BY <2>1, <2>2, <2>3, <1>5 DEF EnterExecute, Reasons
<1>10. Exclusive'
  <2>1. \A f \in Live' : f \in Live
    BY <1>4, <1>5 DEF EnterExecute, Live
  <2> QED
    BY <2>1, <1>5 DEF EnterExecute, Exclusive
<1>11. SnapshotAgrees'
  BY <1>4, <1>5 DEF EnterExecute, SnapshotAgrees, Ledger, StatusOf, TypeOK, None
<1> QED
  BY <1>1, <1>6, <1>7, <1>8, <1>9, <1>10, <1>11

LEMMA ExecuteDoneInv == IInv /\ ExecuteDone => IInv'
<1> SUFFICES ASSUME IInv, ExecuteDone PROVE IInv'
  OBVIOUS
<1> USE DEF IInv, flags, books, ending
<1>1. TypeOK'
  BY StepType DEF Next, Supervise
<1>2. /\ pending = {} /\ phase = "Execute" /\ pc = "admit"
      /\ \A f \in Files : task[f] = "none"
  <2>1. Holding = {}
    BY DEF ExecuteDone, PhaseOver, Holding, Running
  <2>2. Cardinality(Holding) < MaxConcurrency
    BY <2>1, FS_EmptySet, ConstantsAssumption
  <2> QED
    BY <2>2 DEF ExecuteDone, PhaseOver, MayAdmit, Reasons
<1>3. Ledger' /\ Control' /\ Workers'
  BY <1>2 DEF ExecuteDone, Ledger, Control, Workers, Holding
<1>4. Reasons' /\ Exclusive' /\ SnapshotAgrees'
  BY <1>2 DEF ExecuteDone, Reasons, Exclusive, Live, SnapshotAgrees
<1> QED
  BY <1>1, <1>3, <1>4

LEMMA FinishInv == IInv /\ Finish => IInv'
<1> SUFFICES ASSUME IInv, Finish PROVE IInv'
  OBVIOUS
<1> USE DEF IInv, flags, books
<1>1. TypeOK'
  BY StepType DEF Next, Supervise
<1>2. \A f \in Files : terminal[f] # None
  BY DEF Finish, Ledger, Control
<1>3. report' = terminal
  BY <1>2 DEF Finish, TypeOK
<1>4. Ledger' /\ Control' /\ Workers'
  BY <1>3 DEF Finish, Ledger, Control, Workers, Holding
<1>5. Reasons' /\ Exclusive' /\ SnapshotAgrees'
  BY DEF Finish, Reasons, Exclusive, Live, SnapshotAgrees
<1> QED
  BY <1>1, <1>4, <1>5

(* A worker that ends gives its permit back and leaves the books alone.    *)
LEMMA WorkerInv == ASSUME NEW f \in Files PROVE IInv /\ Worker(f) => IInv'
<1> SUFFICES ASSUME IInv, Worker(f) PROVE IInv'
  OBVIOUS
<1> USE DEF IInv, supervisor, flags, books, ending
<1>1. TypeOK'
  BY StepType DEF Next
<1>2. /\ task[f] # "none" \/ UNCHANGED task
      /\ task'[f] # "none" \/ UNCHANGED task
      /\ \A g \in Files \ {f} : task'[g] = task[g]
      /\ UNCHANGED <<request, root, supervisor>>
  BY DEF Worker, PrepareEnd, ExecuteBegin, ExecuteEnd, Report, End, TypeOK,
         PrepareEndings, ExecuteEndings
<1>3. Ledger'
  BY <1>2 DEF Ledger
<1>4. Control'
  BY <1>2 DEF Control
<1>5. Holding' \subseteq Holding
  BY DEF Worker, PrepareEnd, ExecuteBegin, ExecuteEnd, Report, End, TypeOK,
         Holding, Running
<1>6. Cardinality(Holding') <= MaxConcurrency
  <2>1. Cardinality(Holding') <= Cardinality(Holding)
    BY <1>5, HoldingFinite, FS_Subset
  <2>2. Cardinality(Holding') \in Nat /\ Cardinality(Holding) \in Nat
    BY <1>5, HoldingFinite, FS_Subset, FS_CardinalityType
  <2> QED
    BY <2>1, <2>2, ConstantsAssumption DEF Workers
<1>7. Workers'
  BY <1>2, <1>6
     DEF Worker, PrepareEnd, ExecuteBegin, ExecuteEnd, Report, End, TypeOK,
         Workers, PrepareEndings, ExecuteEndings, Running
<1>8. Reasons'
  <2>1. ASSUME NEW g \in interrupted', ~CleanupMayFail
        PROVE  g \in interrupted \/ (g = f /\ root /\ task'[g] = "Cancelled")
    <3>1. ASSUME NEW how, how # "CleanupFailed", End(f, how)
          PROVE  g \in interrupted \/ (g = f /\ root /\ task'[g] = "Cancelled")
      BY <2>1, <3>1 DEF End, TypeOK
    <3>2. CASE PrepareEnd(f)
      BY <3>1, <3>2 DEF PrepareEnd, PrepareEndings
    <3>3. CASE ExecuteBegin(f)
      BY <2>1, <3>1, <3>3 DEF ExecuteBegin
    <3>4. CASE ExecuteEnd(f)
      BY <2>1, <3>1, <3>4 DEF ExecuteEnd
    <3>5. CASE Report(f)
      BY <2>1, <3>5 DEF Report
    <3> QED
      BY <3>2, <3>3, <3>4, <3>5 DEF Worker
  <2>2. ASSUME NEW g \in interrupted, ~CleanupMayFail, ~userCancelled
        PROVE  root /\ task'[g] = "Cancelled"
    <3>1. root /\ task[g] = "Cancelled" /\ g \in Files
      BY <2>2 DEF Reasons, TypeOK
    <3>2. task'[g] = task[g]
      BY <3>1, <1>2 DEF Worker, PrepareEnd, ExecuteBegin, ExecuteEnd, Report
    <3> QED
      BY <3>1, <3>2
  <2> QED
    BY <1>2, <2>1, <2>2 DEF Reasons
<1>9. Exclusive'
  <2>1. Live' = Live
    BY <1>2 DEF Live
  <2> QED
    BY <1>2, <2>1 DEF Exclusive
<1>10. SnapshotAgrees'
  BY <1>2 DEF SnapshotAgrees
<1> QED
  BY <1>1, <1>3, <1>4, <1>7, <1>8, <1>9, <1>10

LEMMA StutterInv == IInv /\ UNCHANGED vars => IInv'
<1> SUFFICES ASSUME IInv, UNCHANGED vars PROVE IInv'
  OBVIOUS
<1> USE DEF IInv, vars, supervisor, flags, books, ending
<1>1. TypeOK'
  BY DEF TypeOK
<1>2. Ledger' /\ Control' /\ Workers'
  BY DEF Ledger, Control, Workers, Holding
<1>3. Reasons' /\ Exclusive' /\ SnapshotAgrees'
  BY DEF Reasons, Exclusive, Live, SnapshotAgrees
<1> QED
  BY <1>1, <1>2, <1>3

LEMMA StepInv == IInv /\ [Next]_vars => IInv'
<1>1. ASSUME IInv, \E f \in Files : JoinReady(f) \/ JoinTerminal(f) PROVE IInv'
  BY <1>1, JoinReadyInv, JoinTerminalInv
<1>2. ASSUME IInv, \E f \in Files : Worker(f) PROVE IInv'
  BY <1>2, WorkerInv
<1> QED
  BY <1>1, <1>2, CancelRootInv, StartPrepareInv, AdmitInv, WaitInv,
     ObserveCancelInv, ReceiveProgressInv, PrepareDoneInv, ResolveInv,
     EnterExecuteInv, ExecuteDoneInv, FinishInv, StutterInv
     DEF Next, Supervise, Done

-----------------------------------------------------------------------------
(* The theorems.                                                           *)

(* The bookkeeping invariant: every file is waiting, with a worker,        *)
(* prepared or decided, and the supervisor's flags say why work stopped.   *)
THEOREM Invariant == Spec => []IInv
<1>1. Init => IInv
  BY InitInv
<1>2. IInv /\ [Next]_vars => IInv'
  BY StepInv
<1> QED
  BY <1>1, <1>2, PTL DEF Spec

(* No input is lost and none is reported twice, for any batch.             *)
THEOREM EveryFileHasOneResult == Spec => []OneResultPerFile
<1>1. IInv => OneResultPerFile
  BY DEF IInv, OneResultPerFile, Ledger, Control, TypeOK
<1> QED
  BY <1>1, Invariant, PTL

(* The last snapshot tells the same story as the report.                   *)
THEOREM SnapshotIsTrue == Spec => []SnapshotAgrees
<1>1. IInv => SnapshotAgrees
  BY DEF IInv
<1> QED
  BY <1>1, Invariant, PTL

(* Backend work never exceeds the concurrency limit.                       *)
THEOREM WorkIsBounded == Spec => []BoundedWork
<1>1. IInv => BoundedWork
  BY DEF IInv, BoundedWork, Workers, Running, PrepareEndings, ExecuteEndings
<1> QED
  BY <1>1, Invariant, PTL

(* No two files are written to one destination.                            *)
THEOREM OneWriterPerDestination == Spec => []DistinctDestinations
<1> SUFFICES ASSUME IInv PROVE DistinctDestinations
  BY Invariant, PTL
<1>1. ASSUME NEW f \in Files, status[f] \in {"Running", "Succeeded"}
      PROVE  phase = "Execute" /\ f \in Live
  <2>1. CASE terminal[f] = None
    BY <1>1, <2>1 DEF IInv, SnapshotAgrees, Live, TypeOK
  <2>2. CASE terminal[f] # None
    <3>1. terminal[f] \in Outcomes /\ status[f] = StatusOf(terminal[f])
      BY <2>2 DEF IInv, TypeOK, SnapshotAgrees
    <3>2. terminal[f] = "Succeeded"
      BY <1>1, <3>1 DEF StatusOf, Outcomes
    <3> QED
      BY <3>2 DEF IInv, Reasons, Live
  <2> QED
    BY <2>1, <2>2
<1> QED
  BY <1>1 DEF IInv, Exclusive, DistinctDestinations

(* Cancellation reasons are true.                                          *)
THEOREM CancelReasonsAreTrue == Spec => []ReasonsAreTrue
<1>1. IInv => ReasonsAreTrue
  BY DEF IInv, ReasonsAreTrue, Reasons, Control, TypeOK
<1> QED
  BY <1>1, Invariant, PTL

(* If staging cleanup never fails, a batch in which the user interrupted a *)
(* worker closes as cancelled.                                             *)
THEOREM CancellationIsReported ==
  ASSUME ~CleanupMayFail PROVE Spec => []CancellationReported
<1>1. IInv => CancellationReported
  <2> SUFFICES ASSUME IInv, closing = "BatchFinished" PROVE interrupted = {}
    BY DEF CancellationReported
  <2>1. pc = "done" /\ ~userCancelled /\ \A f \in Files : task[f] = "none"
    BY DEF IInv, Control
  <2> QED
    BY <2>1 DEF IInv, Reasons, TypeOK
<1> QED
  BY <1>1, Invariant, PTL

(* Deciding files starts none.                                             *)
LEMMA DecideStartsNone ==
  ASSUME TypeOK', NEW S \in SUBSET Files, NEW o, Decide(S, o), NEW f \in Files,
         \A g \in S : o[g] \in Outcomes
  PROVE  status'[f] \in {"Preparing", "Running"} => status'[f] = status[f]
  BY DEF Decide, StatusOf, Outcomes

(* Nothing is started once a stop has been noticed.                        *)
THEOREM NothingStartsAfterStop == Spec => NoStartAfterStop
<1> DEFINE Stopped == userCancelled \/
                        (request.policy = "FailFast" /\
                          \E g \in Files : terminal[g] = "Failed")
           Starts(f) == /\ status[f] \in {"Queued", "Ready"}
                        /\ status'[f] \in {"Preparing", "Running"}
<1>1. ASSUME IInv, IInv', Next, NEW f \in Files, Starts(f) PROVE ~Stopped
  <2>1. CASE Admit
    BY <1>1, <2>1 DEF Admit, MayAdmit, IInv, Reasons
  <2>2. ASSUME UNCHANGED status PROVE FALSE
    BY <1>1, <2>2
  <2>3. ASSUME NEW S \in SUBSET Files, NEW o, Decide(S, o),
               \A g \in S : o[g] \in Outcomes
        PROVE  FALSE
    BY <1>1, <2>3, DecideStartsNone DEF IInv
  <2> USE DEF supervisor, books
  <2>4. CASE CancelRoot \/ Wait \/ ReceiveProgress \/ ExecuteDone \/ Finish \/ Done
    BY <2>2, <2>4 DEF CancelRoot, Wait, ReceiveProgress, ExecuteDone, Finish, Done, vars
  <2>5. CASE \E g \in Files : Worker(g)
    BY <2>2, <2>5 DEF Worker, PrepareEnd, ExecuteBegin, ExecuteEnd, Report, End
  <2>6. CASE StartPrepare \/ ObserveCancel \/ EnterExecute
    <3>1. \E S \in SUBSET Files : Decide(S, All(S, "CancelledUser"))
      BY <2>6, <1>1 DEF StartPrepare, ObserveCancel, EnterExecute, IInv, TypeOK
    <3>2. \A S : \A g \in S : All(S, "CancelledUser")[g] \in Outcomes
      BY DEF All, Outcomes
    <3> QED
      BY <3>1, <3>2, <2>3
  <2>7. CASE PrepareDone
    <3>1. \E S \in SUBSET Files : Decide(S, All(S, Blame(userCancelled)))
      BY <2>7, <1>1 DEF PrepareDone, IInv, TypeOK
    <3>2. \A S : \A g \in S : All(S, Blame(userCancelled))[g] \in Outcomes
      BY DEF All, Blame, Outcomes
    <3> QED
      BY <3>1, <3>2, <2>3
  <2>8. CASE Resolve
    <3>1. PICK unresolved \in SUBSET prepared :
            Decide(Resolved(unresolved),
                   [g \in Resolved(unresolved) |->
                      IF g \in Rejected(unresolved) THEN "Failed"
                      ELSE "CancelledFailFast"])
      BY <2>8 DEF Resolve
    <3>2. Resolved(unresolved) \in SUBSET Files
      BY <1>1 DEF IInv, TypeOK, Resolved, Rejected, Colliding
    <3>3. {"Failed", "CancelledFailFast"} \subseteq Outcomes
      BY DEF Outcomes
    <3> QED
      BY <3>1, <3>2, <3>3, <2>3
  <2>9. CASE \E g \in Files : JoinReady(g)
    BY <1>1, <2>9 DEF JoinReady, IInv, TypeOK
  <2>10. ASSUME NEW h \in Files, JoinTerminal(h) PROVE FALSE
    <3>1. OutcomeOf(task[h]) \in Outcomes
      BY <1>1, <2>10, OutcomeType DEF JoinTerminal, IInv
    <3>2. {"CancelledUser", "CancelledFailFast"} \subseteq Outcomes
      BY DEF Outcomes
    <3>3. Drained(h) \cup {h} \in SUBSET Files
      BY <1>1 DEF Drained, IInv, TypeOK
    <3> QED
      BY <2>10, <3>1, <3>2, <3>3, <2>3 DEF JoinTerminal
  <2> QED
    BY <1>1, <2>1, <2>4, <2>5, <2>6, <2>7, <2>8, <2>9, <2>10 DEF Next, Supervise
<1>2. IInv /\ IInv' /\ [Next]_vars =>
        [\A f \in Files : Starts(f) => ~Stopped]_vars
  BY <1>1
<1>3. [\A f \in Files : Starts(f) => ~Stopped]_vars =>
        [\A f \in Files :
           status[f] \in {"Queued", "Ready"} /\ status'[f] \in {"Preparing", "Running"}
           => /\ ~userCancelled
              /\ request.policy = "FailFast" =>
                   \A g \in Files : terminal[g] # "Failed"]_vars
  OBVIOUS
<1> QED
  BY <1>2, <1>3, Invariant, PTL DEF Spec, NoStartAfterStop

(* An outcome, once given, stays.                                          *)
LEMMA OutcomesStay ==
  ASSUME IInv, [Next]_vars, NEW f \in Files, terminal[f] # None
  PROVE  terminal'[f] = terminal[f]
<1> USE DEF supervisor, books
<1>1. ASSUME NEW S \in SUBSET Files, NEW o, Decide(S, o), f \notin S
      PROVE  terminal'[f] = terminal[f]
  BY <1>1, DecideEach
<1>2. f \notin pending /\ f \notin prepared
  BY DEF IInv, Ledger
<1>3. CASE CancelRoot \/ Admit \/ Wait \/ ReceiveProgress \/ ExecuteDone \/ Finish
           \/ Done \/ UNCHANGED vars
  BY <1>3 DEF CancelRoot, Admit, Wait, ReceiveProgress, ExecuteDone, Finish, Done, vars
<1>4. CASE \E g \in Files : Worker(g)
  BY <1>4 DEF Worker, PrepareEnd, ExecuteBegin, ExecuteEnd, Report, End
<1>5. CASE StartPrepare \/ ObserveCancel \/ EnterExecute
  <2>1. \E S \in SUBSET Files : f \notin S /\ Decide(S, All(S, "CancelledUser"))
    BY <1>2, <1>5 DEF StartPrepare, ObserveCancel, EnterExecute, IInv, TypeOK
  <2> QED
    BY <2>1, <1>1
<1>6. CASE PrepareDone
  <2>1. \E S \in SUBSET Files : f \notin S /\ Decide(S, All(S, Blame(userCancelled)))
    BY <1>2, <1>6 DEF PrepareDone, IInv, TypeOK
  <2> QED
    BY <2>1, <1>1
<1>7. CASE Resolve
  <2>1. PICK unresolved \in SUBSET prepared :
          Decide(Resolved(unresolved),
                 [g \in Resolved(unresolved) |->
                    IF g \in Rejected(unresolved) THEN "Failed"
                    ELSE "CancelledFailFast"])
    BY <1>7 DEF Resolve
  <2>2. Resolved(unresolved) \subseteq prepared /\ prepared \subseteq Files
    BY DEF IInv, TypeOK, Resolved, Rejected, Colliding
  <2> QED
    BY <1>1, <1>2, <2>1, <2>2
<1>8. CASE \E g \in Files : JoinReady(g)
  BY <1>8 DEF JoinReady
<1>9. ASSUME NEW h \in Files, JoinTerminal(h) PROVE terminal'[f] = terminal[f]
  <2>1. Drained(h) \cup {h} \in SUBSET Files /\ f \notin Drained(h) \cup {h}
    BY <1>2, <1>9 DEF JoinTerminal, Joinable, Drained, IInv, TypeOK, Ledger
  <2> QED
    BY <1>1, <1>9, <2>1 DEF JoinTerminal
<1> QED
  BY <1>3, <1>4, <1>5, <1>6, <1>7, <1>8, <1>9 DEF Next, Supervise

(* The scheduler's initial states are initial states of Batch.             *)
LEMMA PromiseInit == Init => Promise!Init
  BY ConstantsAssumption
     DEF Init, Promise!Init, Requests, Promise!Requests, Files, Promise!Files,
         Promise!Undecided, None

(* What the invariant says of the outcomes is what Batch calls honest.     *)
LEMMA InvIsHonest ==
  ASSUME IInv
  PROVE  /\ \A f \in Files : terminal[f] = "CancelledUser" => root
         /\ \A f \in Files : terminal[f] = "CancelledFailFast" =>
               /\ request.policy = "FailFast"
               /\ \E g \in Files : terminal[g] = "Failed"
         /\ \A f \in Files : terminal[f] = "Succeeded" => ~request.dryRun
         /\ \A f \in Files : terminal[f] = "Planned" => request.dryRun
         /\ \A f, g \in Files :
               f # g /\ terminal[f] = "Succeeded" /\ terminal[g] = "Succeeded" =>
                 request.dest[f] # request.dest[g]
  BY DEF IInv, Reasons, Control, Exclusive, Live

(* Every scheduler step is a step of Batch or leaves Batch's state alone.  *)
LEMMA PromiseStep ==
  ASSUME IInv, IInv', [Next]_vars PROVE [Promise!Next]_(Promise!vars)
<1> DEFINE shown == [f \in Files |-> IF terminal[f] = None THEN "Undecided"
                                    ELSE terminal[f]]
<1>1. shown \in [Files -> Outcomes \cup {"Undecided"}]
  BY DEF IInv, TypeOK
<1>2. shown' \in [Files -> Outcomes \cup {"Undecided"}]
  BY DEF IInv, TypeOK
<1>3. \A f \in Files : shown[f] # "Undecided" => shown'[f] = shown[f]
  BY OutcomesStay
<1>4. CASE CancelRoot
  BY <1>4 DEF CancelRoot, supervisor, books, ending, Promise!Next, Promise!Ask
<1>5. CASE Finish
  <2>1. \A f \in Files : terminal[f] # None
    BY <1>5 DEF Finish, IInv, Ledger, Control
  <2>2. \A f \in Files : terminal[f] = "CancelledUser" => userCancelled
    BY DEF IInv, Reasons
  <2>3. userCancelled => root
    BY DEF IInv, Reasons
  <2>4. closing = "none"
    BY <1>5 DEF Finish, IInv, Control
  <2>5. UNCHANGED <<request, root, terminal>>
    BY <1>5 DEF Finish, books
  <2>6. closing' = IF userCancelled THEN "BatchCancelled" ELSE "BatchFinished"
    BY <1>5 DEF Finish
  <2>7. \A f \in Files : shown[f] # "Undecided"
    BY <2>1 DEF IInv, TypeOK, Outcomes
  <2> QED
    BY <2>1, <2>2, <2>3, <2>4, <2>5, <2>6, <2>7
       DEF Promise!Next, Promise!Close, Promise!Files, Files, Promise!Undecided
<1>6. CASE UNCHANGED <<request, root, closing>>
  <2>1. CASE shown' = shown
    BY <1>6, <2>1 DEF Promise!vars
  <2>2. CASE shown' # shown
    <3>1. closing = "none"
      <4>1. PICK f \in Files : shown'[f] # shown[f]
        BY <1>1, <1>2, <2>2
      <4>2. terminal[f] = None
        <5>1. shown[f] = "Undecided"
          BY <1>3, <4>1
        <5> QED
          BY <5>1 DEF IInv, TypeOK, Outcomes, None
      <4>3. ASSUME pc = "done" PROVE FALSE
        <5>2. f \notin pending /\ task[f] = "none" /\ f \notin prepared
          BY <4>1, <4>3 DEF IInv, Control
        <5> QED
          BY <4>1, <4>2, <5>2 DEF IInv, Ledger
      <4> QED
        BY <4>3 DEF IInv, Control, TypeOK
    <3>2. /\ \A f \in Files : terminal'[f] = "CancelledUser" => root
          /\ \A f \in Files : terminal'[f] = "CancelledFailFast" =>
                /\ request.policy = "FailFast"
                /\ \E g \in Files : terminal'[g] = "Failed"
          /\ \A f \in Files : terminal'[f] = "Succeeded" => ~request.dryRun
          /\ \A f \in Files : terminal'[f] = "Planned" => request.dryRun
          /\ \A f, g \in Files :
                f # g /\ terminal'[f] = "Succeeded" /\ terminal'[g] = "Succeeded" =>
                  request.dest[f] # request.dest[g]
      BY <1>6 DEF IInv, Reasons, Control, Exclusive, Live
    <3>3. /\ \A f \in Files : shown'[f] = "CancelledUser" => root
          /\ \A f \in Files : shown'[f] = "CancelledFailFast" =>
                /\ request.policy = "FailFast"
                /\ \E g \in Files : shown'[g] = "Failed"
          /\ \A f \in Files : shown'[f] = "Succeeded" => ~request.dryRun
          /\ \A f \in Files : shown'[f] = "Planned" => request.dryRun
          /\ \A f, g \in Files :
                f # g /\ shown'[f] = "Succeeded" /\ shown'[g] = "Succeeded" =>
                  request.dest[f] # request.dest[g]
      BY <3>2 DEF None
    <3> HIDE DEF shown
    <3> QED
      BY <1>2, <1>3, <1>6, <2>2, <3>1, <3>3
         DEF Promise!Next, Promise!Decide, Promise!Honest, Promise!Files, Files,
             Promise!Outcomes, Outcomes, Promise!Undecided, shown
  <2> QED
    BY <2>1, <2>2
<1>7. CancelRoot \/ Finish \/ UNCHANGED <<request, root, closing>>
  BY DEF Next, Supervise, Worker, Done, vars, supervisor, ending, StartPrepare,
         Admit, Wait, ObserveCancel, ReceiveProgress, JoinReady, JoinTerminal,
         PrepareDone, Resolve, EnterExecute, ExecuteDone, PrepareEnd,
         ExecuteBegin, ExecuteEnd, Report, End
<1> QED
  BY <1>4, <1>5, <1>6, <1>7

(* The scheduler implements the promise of Batch, for every batch.         *)
THEOREM SchedulerKeepsPromise == Spec => KeepsPromise
<1>1. IInv /\ IInv' /\ [Next]_vars => [Promise!Next]_(Promise!vars)
  BY PromiseStep
<1> QED
  BY <1>1, PromiseInit, Invariant, PTL DEF Spec, KeepsPromise, Promise!Spec
(* A batch that nothing will be published for any more: it is still being  *)
(* prepared and was cancelled (or is a dry run), or it entered execution   *)
(* with nothing left to run.                                               *)
Barren == /\ root \/ request.dryRun
          /\ \/ phase = "Prepare"
             \/ /\ pending = {}
                /\ \A f \in Files : task[f] = "none"
                /\ \A f \in Files : terminal[f] # "Succeeded"

(* A barren batch stays barren.                                            *)
LEMMA BarrenStays ==
  ASSUME IInv, Barren, [Next]_vars PROVE Barren'
<1>1. root' \/ request'.dryRun
  BY DEF Barren, Next, Supervise, Worker, Done, vars, supervisor, ending,
         CancelRoot, StartPrepare, Admit, Wait, ObserveCancel, ReceiveProgress,
         JoinReady, JoinTerminal, PrepareDone, Resolve, EnterExecute,
         ExecuteDone, Finish, PrepareEnd, ExecuteBegin, ExecuteEnd, Report, End
<1>2. CASE EnterExecute
  <2>1. root /\ ~request.dryRun
    BY <1>2 DEF EnterExecute, Barren, IInv, Control
  <2>2. pending' = {} /\ \A f \in Files : task'[f] = "none"
    BY <1>2, <2>1 DEF EnterExecute, IInv, Control
  <2>3. \A f \in Files : terminal[f] # "Succeeded"
    BY <1>2 DEF EnterExecute, IInv, Control, Reasons
  <2>4. \A f \in Files : terminal'[f] # "Succeeded"
    BY <1>2, <2>3 DEF EnterExecute, Decide, All
  <2> QED
    BY <1>1, <2>2, <2>4 DEF Barren
<1>3. CASE phase' = "Prepare"
  BY <1>1, <1>3 DEF Barren
<1>4. CASE phase = "Execute" /\ ~EnterExecute
  <2>1. /\ pending = {}
        /\ \A f \in Files : task[f] = "none"
        /\ \A f \in Files : terminal[f] # "Succeeded"
    BY <1>4 DEF Barren
  <2>2. pc # "start"
    BY <1>4 DEF IInv, Control
  <2>3. ~PrepareDone /\ ~Resolve
    BY <1>4 DEF PrepareDone, Resolve, IInv, Control
  <2>4. CASE ObserveCancel
    BY <1>1, <2>1, <2>4 DEF ObserveCancel, Barren, Decide, All
  <2>5. CASE ~ObserveCancel
    BY <1>1, <1>4, <2>1, <2>2, <2>3, <2>5
       DEF Barren, Next, Supervise, Worker, Done, vars, supervisor, ending, books,
           CancelRoot, StartPrepare, Admit, MayAdmit, Wait, ReceiveProgress,
           JoinReady, JoinTerminal, Joinable, ExecuteDone, Finish, PrepareEnd,
           ExecuteBegin, ExecuteEnd, Report
  <2> QED
    BY <2>4, <2>5
<1>5. phase' = phase \/ EnterExecute
  BY DEF Next, Supervise, Worker, Done, vars, supervisor, ending, CancelRoot,
         StartPrepare, Admit, Wait, ObserveCancel, ReceiveProgress, JoinReady,
         JoinTerminal, PrepareDone, Resolve, ExecuteDone, Finish, PrepareEnd,
         ExecuteBegin, ExecuteEnd, Report, End
<1> QED
  BY <1>2, <1>3, <1>4, <1>5 DEF IInv, TypeOK

(* A cancellation that comes before the execution phase, like a dry run,   *)
(* starts no execution.                                                    *)
THEOREM CancelledEarlyExecutesNothing == Spec => CancelBeforeExecution
<1>1. IInv /\ phase = "Prepare" /\ (root \/ request.dryRun) => Barren
  BY DEF Barren
<1>2. IInv /\ Barren => \A f \in Files : status[f] \notin {"Running", "Succeeded"}
  BY DEF Barren, IInv, SnapshotAgrees, Reasons, StatusOf, TypeOK, Outcomes, None
<1>3. IInv /\ Barren /\ [Next]_vars => Barren'
  BY BarrenStays
<1> QED
  BY <1>1, <1>2, <1>3, Invariant, PTL DEF Spec, CancelBeforeExecution
=============================================================================
