------------------------------ MODULE Publication ------------------------------
(***************************************************************************)
(* What the output transaction of crates/runtime/src/execution.rs promises *)
(* to its caller and to everybody else who uses the output directory: a    *)
(* destination changes from absent to one finished output in a single      *)
(* step, nothing that exists is ever replaced, and the caller's verdict    *)
(* says truthfully which of the two happened.  OutputTransaction.tla is    *)
(* shown to implement it.                                                  *)
(***************************************************************************)
CONSTANTS Writers,   \* output transactions
          Paths      \* final destinations

Absent  == "Absent"
Foreign == "Foreign"

VARIABLES dest,      \* transaction -> its destination
          shelf,     \* destination -> Absent, Foreign or the writer it is from
          suits,     \* destination -> transactions whose plan what is there
                     \*   satisfies
          mine,      \* transactions that have published
          verdict    \* transaction -> what its caller was told

vars == <<dest, shelf, suits, mine, verdict>>

Verdicts == {"Open", "Succeeded", "Skipped", "Failed", "Unknown"}

Init == /\ dest \in [Writers -> Paths]
        /\ shelf \in [Paths -> {Absent, Foreign}]
        /\ suits \in [Paths -> SUBSET Writers]
        /\ \A p \in Paths : shelf[p] = Absent => suits[p] = {}
        /\ mine = {}
        /\ verdict = [w \in Writers |-> "Open"]

(* Everybody else may create and remove files at any time.                 *)
Meddle(p) == /\ shelf' \in [Paths -> {Absent, Foreign} \cup Writers]
             /\ shelf'[p] = IF shelf[p] = Absent THEN Foreign ELSE Absent
             /\ suits' \in [Paths -> SUBSET Writers]
             /\ shelf'[p] = Absent => suits'[p] = {}
             /\ \A q \in Paths \ {p} : shelf'[q] = shelf[q] /\ suits'[q] = suits[q]
             /\ UNCHANGED <<dest, mine, verdict>>

(* What is published satisfies the plan it was made for, and perhaps       *)
(* others.                                                                 *)
Publish(w) == /\ verdict[w] = "Open"
              /\ w \notin mine
              /\ shelf[dest[w]] = Absent
              /\ shelf' = [shelf EXCEPT ![dest[w]] = w]
              /\ \E S \in SUBSET Writers :
                   w \in S /\ suits' = [suits EXCEPT ![dest[w]] = S]
              /\ mine' = mine \cup {w}
              /\ UNCHANGED <<dest, verdict>>

(* A skip is only told where a file that satisfies the plan is there       *)
(* already, whoever wrote it.  "Unknown" is what remains of a transaction  *)
(* nobody reported on: its process died, or the runtime lost a filesystem  *)
(* task.                                                                   *)
Conclude(w) == /\ verdict[w] = "Open"
               /\ \E v \in Verdicts \ {"Open"} :
                    /\ v = "Succeeded" => w \in mine
                    /\ v = "Failed"    => w \notin mine
                    /\ v = "Skipped"   => w \notin mine /\ w \in suits[dest[w]]
                    /\ verdict' = [verdict EXCEPT ![w] = v]
               /\ UNCHANGED <<dest, shelf, suits, mine>>

(* The same plan is run again.                                             *)
Again(w) == /\ verdict[w] # "Open"
            /\ verdict' = [verdict EXCEPT ![w] = "Open"]
            /\ mine' = mine \ {w}
            /\ UNCHANGED <<dest, shelf, suits>>

Next == \/ \E p \in Paths : Meddle(p)
        \/ \E w \in Writers : Publish(w) \/ Conclude(w) \/ Again(w)

Spec == Init /\ [][Next]_vars
=============================================================================
