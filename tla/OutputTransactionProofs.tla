------------------------ MODULE OutputTransactionProofs ------------------------
(***************************************************************************)
(* Proofs about OutputTransaction, for every set of transactions and       *)
(* destinations: its inductive invariant, the safety properties that       *)
(* follow from it, and that it implements Publication.                     *)
(***************************************************************************)
EXTENDS OutputTransaction, TLAPS

(* The initial states satisfy the invariant.                               *)
LEMMA InitInv == Init => IInv
  BY TransactionAssumption
     DEF Init, IInv, TypeOK, Resources, OnlyFinishedOutput, ResultIsTrue,
         NothingLeftBehind, Places, Staged, Contents, Empty, Results, Absent,
         Foreign, Users

(* Another program creates or removes a file.                              *)
LEMMA MeddleInv ==
  ASSUME IInv, NEW p \in Paths, Meddle(p) PROVE IInv'
<1> USE TransactionAssumption
        DEF Meddle, Users, IInv, outside, Absent, Foreign
<1>1. TypeOK'
  <2>1. PICK S \in SUBSET Writers : suits' = [suits EXCEPT ![p] = S]
    OBVIOUS
  <2> QED
    BY <2>1 DEF TypeOK, Places, Contents, Empty, Results, Failures
<1>2. Resources'
  BY DEF TypeOK, Resources, Places, Staged, Contents, Empty, Results, Failures
<1>3. OnlyFinishedOutput'
  BY DEF TypeOK, Resources, OnlyFinishedOutput
<1>4. ResultIsTrue'
  BY DEF TypeOK, Resources, ResultIsTrue, Failures, Places, Staged
<1>5. NothingLeftBehind'
  BY DEF TypeOK, Resources, NothingLeftBehind, Failures, Places, Staged
<1> QED
  BY <1>1, <1>2, <1>3, <1>4, <1>5

(* The caller cancels.                                                     *)
LEMMA CancelInv ==
  ASSUME IInv, NEW w \in Writers, Cancel(w) PROVE IInv'
<1> USE TransactionAssumption
        DEF Cancel, IInv, outside, Absent, Foreign
<1>1. TypeOK'
  BY DEF TypeOK, Places, Contents, Empty, Results, Failures
<1>2. Resources'
  BY DEF TypeOK, Resources, Places, Staged, Contents, Empty, Results, Failures
<1>3. OnlyFinishedOutput'
  BY DEF TypeOK, Resources, OnlyFinishedOutput
<1>4. ResultIsTrue'
  BY DEF TypeOK, Resources, ResultIsTrue, Failures, Places, Staged
<1>5. NothingLeftBehind'
  BY DEF TypeOK, Resources, NothingLeftBehind, Failures, Places, Staged
<1> QED
  BY <1>1, <1>2, <1>3, <1>4, <1>5

(* A process dies.                                                         *)
LEMMA DieInv ==
  ASSUME IInv, NEW w \in Writers, Die(w) PROVE IInv'
<1> USE TransactionAssumption
        DEF Die, Swept, IInv, outside, Absent, Foreign
<1>1. TypeOK'
  BY DEF TypeOK, Places, Contents, Empty, Results, Failures
<1>2. Resources'
  BY DEF TypeOK, Resources, Places, Staged, Contents, Empty, Results, Failures
<1>3. OnlyFinishedOutput'
  BY DEF TypeOK, Resources, OnlyFinishedOutput
<1>4. ResultIsTrue'
  BY DEF TypeOK, Resources, ResultIsTrue, Failures, Places, Staged
<1>5. NothingLeftBehind'
  BY DEF TypeOK, Resources, NothingLeftBehind, Failures, Places, Staged
<1> QED
  BY <1>1, <1>2, <1>3, <1>4, <1>5

(* A plan is run again.                                                    *)
LEMMA AgainInv ==
  ASSUME IInv, NEW w \in Writers, Again(w) PROVE IInv'
<1> USE TransactionAssumption
        DEF Again, IInv, outside, Absent, Foreign
<1>1. TypeOK'
  BY DEF TypeOK, Places, Contents, Empty, Results, Failures
<1>2. Resources'
  BY DEF TypeOK, Resources, Places, Staged, Contents, Empty, Results, Failures
<1>3. OnlyFinishedOutput'
  BY DEF TypeOK, Resources, OnlyFinishedOutput
<1>4. ResultIsTrue'
  BY DEF TypeOK, Resources, ResultIsTrue, Failures, Places, Staged
<1>5. NothingLeftBehind'
  BY DEF TypeOK, Resources, NothingLeftBehind, Failures, Places, Staged
<1> QED
  BY <1>1, <1>2, <1>3, <1>4, <1>5

(* Look keeps the invariant.                                               *)
LEMMA LookInv ==
  ASSUME IInv, NEW w \in Writers, Look(w) PROVE IInv'
<1> USE DEF IInv, outside
<1>1. /\ pc[w] = "look"
      /\ UNCHANGED <<outside, file, dir>>
      /\ \/ GoTo(w, "begin") \/ GoTo(w, "compare")
         \/ Return(w, "Conflict") \/ Return(w, "InspectOutput")
  BY DEF Look
<1> USE DEF GoTo, Return
<1>2. TypeOK'
  BY <1>1 DEF TypeOK, Places, Results, Failures
<1>3. Resources'
  BY <1>1 DEF TypeOK, Resources, Places, Staged
<1>4. OnlyFinishedOutput'
  BY <1>1 DEF OnlyFinishedOutput
<1>5. ResultIsTrue'
  BY <1>1 DEF TypeOK, Resources, ResultIsTrue
<1>6. NothingLeftBehind'
  BY <1>1 DEF TypeOK, Resources, NothingLeftBehind, Places, Staged
<1> QED
  BY <1>2, <1>3, <1>4, <1>5, <1>6

(* Compare keeps the invariant.                                            *)
LEMMA CompareInv ==
  ASSUME IInv, NEW w \in Writers, Compare(w) PROVE IInv'
<1> USE DEF IInv, outside
<1>1. PICK r \in {"Cancelled", "Backend", "ValidExisting", "Conflict"} :
        pc[w] = "compare" /\ Return(w, r) /\ UNCHANGED <<outside, file, dir>>
  BY DEF Compare
<1> USE DEF Return
<1>2. TypeOK'
  BY <1>1 DEF TypeOK, Places, Results, Failures
<1>3. Resources'
  BY <1>1 DEF TypeOK, Resources, Places, Staged
<1>4. OnlyFinishedOutput'
  BY <1>1 DEF OnlyFinishedOutput
<1>5. ResultIsTrue'
  BY <1>1 DEF TypeOK, Resources, ResultIsTrue
<1>6. NothingLeftBehind'
  BY <1>1 DEF TypeOK, Resources, NothingLeftBehind, Places, Staged
<1> QED
  BY <1>2, <1>3, <1>4, <1>5, <1>6

(* Begin keeps the invariant.                                              *)
LEMMA BeginInv ==
  ASSUME IInv, NEW w \in Writers, Begin(w) PROVE IInv'
<1> USE TransactionAssumption
        DEF Begin, IInv, GoTo, Return, outside, Absent, Foreign
<1>1. TypeOK'
  BY DEF TypeOK, Places, Contents, Empty, Results, Failures
<1>2. Resources'
  BY DEF TypeOK, Resources, Places, Staged, Contents, Empty, Results, Failures
<1>3. OnlyFinishedOutput'
  BY DEF TypeOK, Resources, OnlyFinishedOutput
<1>4. ResultIsTrue'
  BY DEF TypeOK, Resources, ResultIsTrue, Failures, Places, Staged
<1>5. NothingLeftBehind'
  BY DEF TypeOK, Resources, NothingLeftBehind, Failures, Places, Staged
<1> QED
  BY <1>1, <1>2, <1>3, <1>4, <1>5

(* Preflight keeps the invariant.                                          *)
LEMMA PreflightInv ==
  ASSUME IInv, NEW w \in Writers, Preflight(w) PROVE IInv'
<1> USE TransactionAssumption
        DEF Preflight, IInv, GoTo, Return, Lost, Swept, outside, Absent, Foreign
<1>1. TypeOK'
  BY DEF TypeOK, Places, Contents, Empty, Results, Failures
<1>2. Resources'
  BY DEF TypeOK, Resources, Places, Staged, Contents, Empty, Results, Failures
<1>3. OnlyFinishedOutput'
  BY DEF TypeOK, Resources, OnlyFinishedOutput
<1>4. ResultIsTrue'
  BY DEF TypeOK, Resources, ResultIsTrue, Failures, Places, Staged
<1>5. NothingLeftBehind'
  BY DEF TypeOK, Resources, NothingLeftBehind, Failures, Places, Staged
<1> QED
  BY <1>1, <1>2, <1>3, <1>4, <1>5

(* Create keeps the invariant.                                             *)
LEMMA CreateInv ==
  ASSUME IInv, NEW w \in Writers, Create(w) PROVE IInv'
<1> USE TransactionAssumption
        DEF Create, IInv, GoTo, Return, Lost, Swept, outside, Absent, Foreign
<1>1. TypeOK'
  BY DEF TypeOK, Places, Contents, Empty, Results, Failures
<1>2. Resources'
  BY DEF TypeOK, Resources, Places, Staged, Contents, Empty, Results, Failures
<1>3. OnlyFinishedOutput'
  BY DEF TypeOK, Resources, OnlyFinishedOutput
<1>4. ResultIsTrue'
  BY DEF TypeOK, Resources, ResultIsTrue, Failures, Places, Staged
<1>5. NothingLeftBehind'
  BY DEF TypeOK, Resources, NothingLeftBehind, Failures, Places, Staged
<1> QED
  BY <1>1, <1>2, <1>3, <1>4, <1>5

(* CreateFile keeps the invariant.                                         *)
LEMMA CreateFileInv ==
  ASSUME IInv, NEW w \in Writers, CreateFile(w) PROVE IInv'
<1> USE TransactionAssumption
        DEF CreateFile, IInv, GoTo, Return, Lost, Swept, outside, Absent, Foreign
<1>1. TypeOK'
  BY DEF TypeOK, Places, Contents, Empty, Results, Failures
<1>2. Resources'
  BY DEF TypeOK, Resources, Places, Staged, Contents, Empty, Results, Failures
<1>3. OnlyFinishedOutput'
  BY DEF TypeOK, Resources, OnlyFinishedOutput
<1>4. ResultIsTrue'
  BY DEF TypeOK, Resources, ResultIsTrue, Failures, Places, Staged
<1>5. NothingLeftBehind'
  BY DEF TypeOK, Resources, NothingLeftBehind, Failures, Places, Staged
<1> QED
  BY <1>1, <1>2, <1>3, <1>4, <1>5

(* Write keeps the invariant.                                              *)
LEMMA WriteInv ==
  ASSUME IInv, NEW w \in Writers, Write(w) PROVE IInv'
<1> USE TransactionAssumption
        DEF Write, IInv, GoTo, Abort, outside, Absent, Foreign
<1>1. TypeOK'
  BY DEF TypeOK, Places, Contents, Empty, Results, Failures
<1>2. Resources'
  BY DEF TypeOK, Resources, Places, Staged, Contents, Empty, Results, Failures
<1>3. OnlyFinishedOutput'
  BY DEF TypeOK, Resources, OnlyFinishedOutput
<1>4. ResultIsTrue'
  BY DEF TypeOK, Resources, ResultIsTrue, Failures, Places, Staged
<1>5. NothingLeftBehind'
  BY DEF TypeOK, Resources, NothingLeftBehind, Failures, Places, Staged
<1> QED
  BY <1>1, <1>2, <1>3, <1>4, <1>5

(* Examine keeps the invariant.                                            *)
LEMMA ExamineInv ==
  ASSUME IInv, NEW w \in Writers, Examine(w) PROVE IInv'
<1> USE TransactionAssumption
        DEF Examine, IInv, GoTo, Abort, outside, Absent, Foreign
<1>1. TypeOK'
  BY DEF TypeOK, Places, Contents, Empty, Results, Failures
<1>2. Resources'
  BY DEF TypeOK, Resources, Places, Staged, Contents, Empty, Results, Failures
<1>3. OnlyFinishedOutput'
  BY DEF TypeOK, Resources, OnlyFinishedOutput
<1>4. ResultIsTrue'
  BY DEF TypeOK, Resources, ResultIsTrue, Failures, Places, Staged
<1>5. NothingLeftBehind'
  BY DEF TypeOK, Resources, NothingLeftBehind, Failures, Places, Staged
<1> QED
  BY <1>1, <1>2, <1>3, <1>4, <1>5

(* Probe keeps the invariant.                                              *)
LEMMA ProbeInv ==
  ASSUME IInv, NEW w \in Writers, Probe(w) PROVE IInv'
<1> USE TransactionAssumption
        DEF Probe, IInv, GoTo, Abort, outside, Absent, Foreign
<1>1. TypeOK'
  BY DEF TypeOK, Places, Contents, Empty, Results, Failures
<1>2. Resources'
  BY DEF TypeOK, Resources, Places, Staged, Contents, Empty, Results, Failures
<1>3. OnlyFinishedOutput'
  BY DEF TypeOK, Resources, OnlyFinishedOutput
<1>4. ResultIsTrue'
  BY DEF TypeOK, Resources, ResultIsTrue, Failures, Places, Staged
<1>5. NothingLeftBehind'
  BY DEF TypeOK, Resources, NothingLeftBehind, Failures, Places, Staged
<1> QED
  BY <1>1, <1>2, <1>3, <1>4, <1>5

(* Sync keeps the invariant.                                               *)
LEMMA SyncInv ==
  ASSUME IInv, NEW w \in Writers, Sync(w) PROVE IInv'
<1> USE TransactionAssumption
        DEF Sync, IInv, GoTo, Abort, outside, Absent, Foreign
<1>1. TypeOK'
  BY DEF TypeOK, Places, Contents, Empty, Results, Failures
<1>2. Resources'
  BY DEF TypeOK, Resources, Places, Staged, Contents, Empty, Results, Failures
<1>3. OnlyFinishedOutput'
  BY DEF TypeOK, Resources, OnlyFinishedOutput
<1>4. ResultIsTrue'
  BY DEF TypeOK, Resources, ResultIsTrue, Failures, Places, Staged
<1>5. NothingLeftBehind'
  BY DEF TypeOK, Resources, NothingLeftBehind, Failures, Places, Staged
<1> QED
  BY <1>1, <1>2, <1>3, <1>4, <1>5

(* Commit keeps the invariant.                                             *)
LEMMA CommitInv ==
  ASSUME IInv, NEW w \in Writers, Commit(w) PROVE IInv'
<1> USE TransactionAssumption
        DEF Commit, IInv, GoTo, Abort, Return, Lost, Swept, Rename, Users, outside, Absent, Foreign
<1>1. TypeOK'
  BY DEF TypeOK, Places, Contents, Empty, Results, Failures
<1>2. Resources'
  BY DEF TypeOK, Resources, Places, Staged, Contents, Empty, Results, Failures
<1>3. OnlyFinishedOutput'
  BY DEF TypeOK, Resources, OnlyFinishedOutput
<1>4. ResultIsTrue'
  BY DEF TypeOK, Resources, ResultIsTrue, Failures, Places, Staged
<1>5. NothingLeftBehind'
  BY DEF TypeOK, Resources, NothingLeftBehind, Failures, Places, Staged
<1> QED
  BY <1>1, <1>2, <1>3, <1>4, <1>5

(* FinishCommit keeps the invariant.                                       *)
LEMMA FinishCommitInv ==
  ASSUME IInv, NEW w \in Writers, FinishCommit(w) PROVE IInv'
<1> USE TransactionAssumption
        DEF FinishCommit, IInv, Return, Lost, Swept, outside, Absent, Foreign
<1>1. TypeOK'
  BY DEF TypeOK, Places, Contents, Empty, Results, Failures
<1>2. Resources'
  BY DEF TypeOK, Resources, Places, Staged, Contents, Empty, Results, Failures
<1>3. OnlyFinishedOutput'
  BY DEF TypeOK, Resources, OnlyFinishedOutput
<1>4. ResultIsTrue'
  BY DEF TypeOK, Resources, ResultIsTrue, Failures, Places, Staged
<1>5. NothingLeftBehind'
  BY DEF TypeOK, Resources, NothingLeftBehind, Failures, Places, Staged
<1> QED
  BY <1>1, <1>2, <1>3, <1>4, <1>5

(* Cleanup keeps the invariant.                                            *)
LEMMA CleanupInv ==
  ASSUME IInv, NEW w \in Writers, Cleanup(w) PROVE IInv'
<1> USE TransactionAssumption
        DEF Cleanup, IInv, Return, Swept, outside, Absent, Foreign
<1>1. TypeOK'
  BY DEF TypeOK, Places, Contents, Empty, Results, Failures
<1>2. Resources'
  BY DEF TypeOK, Resources, Places, Staged, Contents, Empty, Results, Failures
<1>3. OnlyFinishedOutput'
  BY DEF TypeOK, Resources, OnlyFinishedOutput
<1>4. ResultIsTrue'
  BY DEF TypeOK, Resources, ResultIsTrue, Failures, Places, Staged
<1>5. NothingLeftBehind'
  BY DEF TypeOK, Resources, NothingLeftBehind, Failures, Places, Staged
<1> QED
  BY <1>1, <1>2, <1>3, <1>4, <1>5
(* Every step keeps the invariant.                                         *)
LEMMA StepInv == IInv /\ [Next]_vars => IInv'
<1> SUFFICES ASSUME IInv, [Next]_vars PROVE IInv'
  OBVIOUS
<1>1. CASE \E p \in Paths : Meddle(p)
  BY <1>1, MeddleInv
<1>2. CASE \E w \in Writers : Cancel(w) \/ Die(w) \/ Again(w)
  BY <1>2, CancelInv, DieInv, AgainInv
<1>3. CASE \E w \in Writers : Local(w)
  BY <1>3, LookInv, BeginInv, PreflightInv, CreateInv, CreateFileInv, ExamineInv,
     SyncInv, CommitInv, FinishCommitInv, CleanupInv DEF Local
<1>4. CASE \E w \in Writers : Backend(w)
  BY <1>4, CompareInv, WriteInv, ProbeInv DEF Backend
<1>5. CASE UNCHANGED vars
  BY <1>5 DEF vars, IInv, TypeOK, Resources, OnlyFinishedOutput, ResultIsTrue,
              NothingLeftBehind
<1> QED
  BY <1>1, <1>2, <1>3, <1>4, <1>5 DEF Next

THEOREM Invariant == Spec => []IInv
  BY InitInv, StepInv, PTL DEF Spec

(* Every variable keeps its type.                                          *)
THEOREM TypeCorrect == Spec => []TypeOK
  BY Invariant, PTL DEF IInv

(* What is visible under a destination is complete, valid and on disk.     *)
THEOREM OutputIsFinished == Spec => []OnlyFinishedOutput
  BY Invariant, PTL DEF IInv

(* The result says whether the output was published.                       *)
THEOREM ResultsAreTrue == Spec => []ResultIsTrue
  BY Invariant, PTL DEF IInv

(* A transaction that returns leaves no media file beside its output       *)
(* unless it says so, and no directory but one that is empty.              *)
THEOREM NothingIsLeftBehind == Spec => []NothingLeftBehind
  BY Invariant, PTL DEF IInv

(* Only Commit changes a destination, and only an absent one.              *)
THEOREM NothingIsReplaced == Spec => NeverReplaces
<1>1. ASSUME IInv, [Next]_vars, pc' # pc, NEW p \in Paths, shelf[p] # Absent
      PROVE shelf'[p] = shelf[p]
  <2>1. CASE \E w \in Writers : Commit(w)
    <3>1. PICK w \in Writers : Commit(w)
      BY <2>1
    <3>2. CASE Rename(w)
      BY <1>1, <3>2 DEF Rename, IInv, TypeOK
    <3>3. CASE ~Rename(w)
      BY <3>1, <3>3 DEF Commit, outside
    <3> QED
      BY <3>2, <3>3
  <2>2. CASE \E w \in Writers : Local(w) /\ ~Commit(w)
    BY <2>2 DEF Local, Look, Begin, Preflight, Create, CreateFile, Examine, Sync,
                FinishCommit, Cleanup, outside
  <2>3. CASE \E w \in Writers : Backend(w) \/ Cancel(w) \/ Die(w) \/ Again(w)
    BY <2>3 DEF Backend, Compare, Write, Probe, Cancel, Die, Again, outside
  <2>4. CASE (\E q \in Paths : Meddle(q)) \/ UNCHANGED vars
    BY <1>1, <2>4 DEF Meddle, vars
  <2> QED
    BY <1>1, <2>1, <2>2, <2>3, <2>4 DEF Next
<1>2. IInv /\ [Next]_vars => [pc' # pc => \A p \in Paths :
                                shelf[p] # Absent => shelf'[p] = shelf[p]]_vars
  BY <1>1
<1> QED
  BY <1>2, Invariant, PTL DEF Spec, NeverReplaces

(* Where nobody deletes outputs, the winner of a race keeps its place: its *)
(* destination still holds its output.                                     *)
THEOREM TheWinnerStays == ASSUME ~OthersMayRemove PROVE Spec => []OneWinner
<1>1. Init => OneWinner
  BY DEF Init, OneWinner
<1>2. IInv /\ OneWinner /\ [Next]_vars => OneWinner'
  <2> SUFFICES ASSUME IInv, OneWinner, [Next]_vars, NEW v \in Writers,
                      v \in published'
               PROVE shelf'[dest'[v]] = v
    BY DEF OneWinner
  <2>1. CASE \E p \in Paths : Meddle(p)
    BY <2>1, TransactionAssumption
       DEF Meddle, OneWinner, IInv, TypeOK, Absent, Foreign
  <2>2. CASE \E w \in Writers : Again(w)
    BY <2>2 DEF Again, OneWinner
  <2>3. CASE \E w \in Writers : Rename(w) /\ Commit(w)
    BY <2>3, TransactionAssumption
       DEF Rename, OneWinner, IInv, TypeOK, Absent, Foreign
  <2>4. CASE UNCHANGED <<dest, shelf, published>>
    BY <2>4 DEF OneWinner
  <2>5. \/ \E p \in Paths : Meddle(p)
        \/ \E w \in Writers : Again(w)
        \/ \E w \in Writers : Rename(w) /\ Commit(w)
        \/ UNCHANGED <<dest, shelf, published>>
    BY DEF Next, Local, Backend, Look, Begin, Preflight, Create, CreateFile, Examine, Sync,
           Commit, FinishCommit, Cleanup, Compare, Write, Probe, Cancel, Die,
           outside, vars
  <2> QED
    BY <2>1, <2>2, <2>3, <2>4, <2>5
<1> QED
  BY <1>1, <1>2, Invariant, PTL DEF Spec
(* What the caller of each transaction has been told so far.               *)
told == [w \in Writers |-> IF pc[w] = "done" THEN VerdictOf(result[w]) ELSE "Open"]

(* A result is translated to a verdict that is not open.                   *)
LEMMA VerdictIsClosed ==
  ASSUME NEW r \in Results
  PROVE  /\ VerdictOf(r) \in {"Succeeded", "Skipped", "Failed", "Unknown"}
         /\ VerdictOf(r) = "Succeeded" <=> r \in {"Ok", "OkWithWarning"}
         /\ VerdictOf(r) = "Skipped" <=> r = "ValidExisting"
         /\ VerdictOf(r) = "Unknown" <=> r \in {"BlockingTask", "Died"}
<1>1. CASE r \in {"Ok", "OkWithWarning"}
  BY <1>1 DEF VerdictOf
<1>2. CASE r = "ValidExisting"
  BY <1>2 DEF VerdictOf
<1>3. CASE r \in {"BlockingTask", "Died"}
  BY <1>3 DEF VerdictOf
<1>4. CASE r \notin {"Ok", "OkWithWarning", "ValidExisting", "BlockingTask", "Died"}
  BY <1>4 DEF VerdictOf
<1> QED
  BY <1>1, <1>2, <1>3, <1>4

(* A step in which transaction w returns a result that agrees with what    *)
(* was published is the step Conclude of Publication.                      *)
LEMMA ReturnConcludes ==
  ASSUME IInv, NEW w \in Writers, NEW r \in Results, pc[w] # "done", Return(w, r),
         UNCHANGED <<dest, shelf, suits, published>>,
         r \in {"Ok", "OkWithWarning"} => w \in published,
         w \in published =>
           r \in {"Ok", "OkWithWarning", "BlockingTask", "Died"},
         r = "ValidExisting" => w \in suits[dest[w]]
  PROVE  Promise!Conclude(w)
<1>1. told' = [told EXCEPT ![w] = VerdictOf(r)]
  BY DEF told, Return, IInv, TypeOK
<1>2. told[w] = "Open"
  BY DEF told
<1>3. /\ VerdictOf(r) \in {"Succeeded", "Skipped", "Failed", "Unknown"}
      /\ VerdictOf(r) = "Succeeded" => w \in published
      /\ VerdictOf(r) = "Failed" => w \notin published
      /\ VerdictOf(r) = "Skipped" => w \notin published /\ w \in suits[dest[w]]
  BY VerdictIsClosed
<1> HIDE DEF VerdictOf
<1> QED
  BY <1>1, <1>2, <1>3 DEF Promise!Conclude, Promise!Verdicts, told

(* A step that returns nothing and leaves the directory alone stutters.    *)
LEMMA InnerStepStutters ==
  ASSUME IInv, NEW w \in Writers, NEW place \in Places \ {"done"}, pc[w] # "done",
         pc' = [pc EXCEPT ![w] = place], \A v \in Writers : v # w => result'[v] = result[v],
         UNCHANGED <<dest, shelf, suits, published>>
  PROVE  UNCHANGED Promise!vars
<1>1. told' = told
  BY DEF told, IInv, TypeOK
<1> QED
  BY <1>1 DEF Promise!vars, told

(* Every step of the transaction is a step of Publication or stutters.     *)
LEMMA PromiseStep == ASSUME IInv, IInv', [Next]_vars
                     PROVE  [Promise!Next]_(Promise!vars)
<1>1. ASSUME NEW p \in Paths, Meddle(p) PROVE Promise!Meddle(p)
  <2>1. told' = told
    BY <1>1 DEF Meddle, told
  <2> QED
    BY <1>1, <2>1, TransactionAssumption
       DEF Meddle, Users, Promise!Meddle, told, IInv, TypeOK, Absent, Foreign,
           Promise!Absent, Promise!Foreign
<1>2. ASSUME NEW w \in Writers, Cancel(w) PROVE UNCHANGED Promise!vars
  BY <1>2 DEF Cancel, Promise!vars
<1>3. ASSUME NEW w \in Writers, Die(w) PROVE Promise!Conclude(w)
  BY <1>3, ReturnConcludes DEF Die, Return, Results
<1>4. ASSUME NEW w \in Writers, Again(w) PROVE Promise!Again(w)
  <2>1. told' = [told EXCEPT ![w] = "Open"]
    BY <1>4 DEF Again, told, IInv, TypeOK
  <2>2. told[w] # "Open"
    BY <1>4, VerdictIsClosed DEF Again, told, IInv, TypeOK, Resources
  <2> QED
    BY <1>4, <2>1, <2>2 DEF Again, Promise!Again, told
<1>5. ASSUME NEW w \in Writers, Commit(w), Rename(w), GoTo(w, "finish")
      PROVE Promise!Publish(w)
  <2>1. told' = told /\ told[w] = "Open"
    BY <1>5 DEF Commit, GoTo, told, IInv, TypeOK
  <2> QED
    BY <1>5, <2>1 DEF Rename, Users, Promise!Publish, told, Commit, IInv, Resources,
                      Promise!Absent, Absent, Places
<1>6. ASSUME NEW w \in Writers, Local(w) \/ Backend(w), ~Rename(w)
      PROVE Promise!Conclude(w) \/ UNCHANGED Promise!vars
  <2>1. pc[w] # "done" /\ UNCHANGED <<dest, shelf, suits, published>>
    BY <1>6 DEF Local, Backend, Look, Compare, Begin, Preflight, Create, CreateFile, Write,
                Examine, Probe, Sync, Commit, FinishCommit, Cleanup, outside
  <2>2. \/ \E place \in Places \ {"done"} :
             /\ pc' = [pc EXCEPT ![w] = place]
             /\ \A v \in Writers : v # w => result'[v] = result[v]
        \/ \E r \in Results : Return(w, r)
    BY <1>6 DEF Local, Backend, Look, Compare, Begin, Preflight, Create, CreateFile, Write,
                Examine, Probe, Sync, Commit, FinishCommit, Cleanup, Places,
                GoTo, Abort, Return, Lost, Swept, Results, Failures, IInv, TypeOK,
                Resources
  <2>3. CASE \E place \in Places \ {"done"} :
               /\ pc' = [pc EXCEPT ![w] = place]
               /\ \A v \in Writers : v # w => result'[v] = result[v]
    BY <2>1, <2>3, InnerStepStutters
  <2>4. CASE \E r \in Results : Return(w, r)
    <3>1. PICK r \in Results : Return(w, r)
      BY <2>4
    <3>2. pc'[w] = "done" /\ result'[w] = r
      BY <3>1 DEF Return, IInv, TypeOK
    <3>3. /\ r \in {"Ok", "OkWithWarning"} => w \in published
          /\ w \in published =>
               r \in {"Ok", "OkWithWarning", "BlockingTask", "Died"}
      BY <2>1, <3>2 DEF IInv, ResultIsTrue
    <3>4. r = "ValidExisting" => w \in suits[dest[w]]
      BY <1>6, <3>2 DEF Local, Backend, Look, Compare, Begin, Preflight, Create,
                CreateFile, Write, Examine, Probe, Sync, Commit, FinishCommit, Cleanup,
                GoTo, Abort, Return, Lost, Swept, Failures, IInv, TypeOK, Resources
    <3> QED
      BY <2>1, <3>1, <3>3, <3>4, ReturnConcludes
  <2> QED
    BY <2>2, <2>3, <2>4
<1>7. ASSUME UNCHANGED vars PROVE UNCHANGED Promise!vars
  BY <1>7 DEF vars, Promise!vars
<1>8. ASSUME NEW w \in Writers, Local(w) \/ Backend(w), Rename(w)
      PROVE Commit(w) /\ GoTo(w, "finish")
  <2>1. shelf' # shelf
    BY <1>8, TransactionAssumption DEF Rename, Absent, IInv, TypeOK
  <2> QED
    BY <1>8, <2>1 DEF Local, Backend, Look, Compare, Begin, Preflight, Create,
                CreateFile, Write, Examine, Probe, Sync, Commit, FinishCommit, Cleanup, outside
<1> QED
  BY <1>1, <1>2, <1>3, <1>4, <1>5, <1>6, <1>7, <1>8 DEF Next, Promise!Next

(* The transaction implements Publication.                                 *)
THEOREM TransactionKeepsPromise == Spec => KeepsPromise
<1>1. Init => Promise!Init
  BY TransactionAssumption
     DEF Init, Promise!Init, Users, Absent, Foreign, Promise!Absent, Promise!Foreign
<1>2. IInv /\ IInv' /\ [Next]_vars => [Promise!Next]_(Promise!vars)
  BY PromiseStep
<1> QED
  BY <1>1, <1>2, Invariant, PTL DEF Spec, KeepsPromise, Promise!Spec
=============================================================================
