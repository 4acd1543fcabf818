-------------------------- MODULE BatchProgressProofs --------------------------
(***************************************************************************)
(* Proofs about BatchProgress, for any files, durations and channel: the   *)
(* inductive invariant, that no file's share of the aggregate shrinks, and  *)
(* then, by lemmas about sums over a finite set, that the sum of all does  *)
(* not shrink and is the total in the end.                                 *)
(***************************************************************************)
EXTENDS BatchProgress, ListingProofs

(* Clamping moves a time down only, never beyond the duration, and keeps   *)
(* the order of times.                                                     *)
LEMMA ClampFacts ==
  ASSUME TypeOK, NEW f \in Files, NEW t \in Nat \cup {Unknown},
         NEW u \in Nat \cup {Unknown}
  PROVE  /\ Clamp(f, t) \in Int /\ Clamp(f, t) <= t
         /\ duration[f] # Unknown => Clamp(f, t) <= duration[f]
         /\ duration[f] # Unknown => Clamp(f, t) \in Nat \cup {Unknown}
         /\ duration[f] = Unknown => Clamp(f, t) = t
         /\ t <= u => Clamp(f, t) <= Clamp(f, u)
<1>1. duration[f] \in Nat \cup {Unknown}
  BY ProgressAssumption DEF TypeOK
<1> QED
  BY <1>1 DEF Clamp, Least, Unknown

(* The first record of the channel, and where the others move.             *)
LEMMA QueueFacts ==
  ASSUME TypeOK, queue # <<>>
  PROVE  /\ Head(queue) = queue[1] /\ Head(queue) \in Records
         /\ Tail(queue) \in Seq(Records)
         /\ Len(queue) \in Nat /\ Len(queue) >= 1
         /\ Len(Tail(queue)) = Len(queue) - 1
         /\ \A i \in 1 .. Len(Tail(queue)) : Tail(queue)[i] = queue[i + 1]
  BY DEF TypeOK

(* The initial states satisfy the invariant.                               *)
LEMMA InitInv == Init => IInv
<1> SUFFICES ASSUME Init PROVE IInv
  OBVIOUS
<1>1. <<>> \in Seq(Records) /\ Len(<<>>) = 0
  OBVIOUS
<1>2. TypeOK
  BY <1>1, ProgressAssumption DEF Init, TypeOK, Statuses
<1>3. InOrder
  BY <1>1 DEF Init, InOrder
<1>4. Fits
  <2>1. \A f \in Files : duration[f] \in Nat \cup {Unknown}
    BY <1>2, ProgressAssumption DEF TypeOK
  <2>2. \A f \in Files : position[f] = Unknown /\ sent[f] = Unknown
    BY DEF Init
  <2> QED
    BY <2>1, <2>2 DEF Fits, Unknown
<1> QED
  BY <1>2, <1>3, <1>4 DEF IInv

(* A record that is sent goes behind the records of its file.              *)
LEMMA SendInv == ASSUME IInv, NEW f \in Files, Send(f) PROVE IInv'
<1>1. PICK time \in Positions, speed \in Speeds :
        /\ f \in Steady => time >= sent[f]
        /\ queue' = Append(queue, [file |-> f, time |-> time, speed |-> speed])
        /\ sent' = [sent EXCEPT ![f] = time]
  BY DEF Send
<1> DEFINE r == [file |-> f, time |-> time, speed |-> speed]
<1>2. r \in Records /\ queue \in Seq(Records)
  BY DEF Records, IInv, TypeOK
<1>3. /\ Len(queue') = Len(queue) + 1 /\ Len(queue) \in Nat
      /\ queue'[Len(queue) + 1] = r
      /\ \A i \in 1 .. Len(queue) : queue'[i] = queue[i] /\ queue[i] \in Records
  BY <1>1, <1>2
<1>4. TypeOK'
  <2>1. queue' \in Seq(Records)
    BY <1>1, <1>2
  <2> QED
    BY <1>1, <2>1 DEF Send, IInv, TypeOK
<1>5. \A i \in 1 .. Len(queue') : i \in 1 .. Len(queue) \/ i = Len(queue) + 1
  BY <1>3
<1>6. time \in Nat \cup {Unknown} /\ sent[f] \in Nat \cup {Unknown}
  BY ProgressAssumption DEF IInv, TypeOK
<1>7. InOrder'
  <2>1. \A i \in 1 .. Len(queue) :
          /\ queue[i].file \in Files /\ queue[i].time \in Nat \cup {Unknown}
          /\ queue[i].file \in Steady => queue[i].time <= sent[queue[i].file]
    BY <1>3, ProgressAssumption DEF Records, IInv, InOrder
  <2>2. \A i \in 1 .. Len(queue') :
          queue'[i].file \in Steady => queue'[i].time <= sent'[queue'[i].file]
    <3> SUFFICES ASSUME NEW i \in 1 .. Len(queue'), queue'[i].file \in Steady
                 PROVE  queue'[i].time <= sent'[queue'[i].file]
      OBVIOUS
    <3>1. CASE i \in 1 .. Len(queue)
      <4>1. queue[i].file # f => sent'[queue[i].file] = sent[queue[i].file]
        BY <1>1, <2>1, <3>1 DEF IInv, TypeOK
      <4>2. queue[i].file = f => sent'[queue[i].file] = time
        BY <1>1 DEF IInv, TypeOK
      <4>3. sent[queue[i].file] \in Nat \cup {Unknown}
        BY <2>1, <3>1, ProgressAssumption DEF IInv, TypeOK
      <4> QED
        BY <1>1, <1>3, <1>6, <2>1, <3>1, <4>1, <4>2, <4>3 DEF Unknown
    <3>2. CASE i = Len(queue) + 1
      BY <1>1, <1>3, <1>6, <3>2 DEF IInv, TypeOK, Unknown
    <3> QED
      BY <1>5, <3>1, <3>2
  <2>3. \A i, j \in 1 .. Len(queue') :
          /\ i < j
          /\ queue'[i].file = queue'[j].file
          /\ queue'[i].file \in Steady
          => queue'[i].time <= queue'[j].time
    <3> SUFFICES ASSUME NEW i \in 1 .. Len(queue'), NEW j \in 1 .. Len(queue'),
                        i < j, queue'[i].file = queue'[j].file,
                        queue'[i].file \in Steady
                 PROVE  queue'[i].time <= queue'[j].time
      OBVIOUS
    <3>1. i \in 1 .. Len(queue)
      BY <1>3
    <3>2. CASE j \in 1 .. Len(queue)
      BY <1>3, <3>1, <3>2 DEF IInv, InOrder
    <3>3. CASE j = Len(queue) + 1
      BY <1>1, <1>3, <1>6, <2>1, <3>1, <3>3 DEF Unknown
    <3> QED
      BY <1>5, <3>2, <3>3
  <2>4. \A i \in 1 .. Len(queue') :
          queue'[i].file \in Steady /\ status'[queue'[i].file] # "Succeeded" =>
            position'[queue'[i].file] <= Clamp(queue[i].file, queue[i].time)'
    <3> SUFFICES ASSUME NEW i \in 1 .. Len(queue'), queue'[i].file \in Steady,
                        status'[queue'[i].file] # "Succeeded"
                 PROVE  position'[queue'[i].file] <=
                          Clamp(queue[i].file, queue[i].time)'
      OBVIOUS
    <3>1. UNCHANGED <<status, position, duration>>
      BY DEF Send
    <3>2. CASE i \in 1 .. Len(queue)
      <4>1. position[queue[i].file] <= Clamp(queue[i].file, queue[i].time)
        BY <1>3, <3>1, <3>2 DEF IInv, InOrder
      <4> QED
        BY <1>3, <3>1, <3>2, <4>1 DEF Clamp
    <3>3. CASE i = Len(queue) + 1
      <4>1. position[f] <= sent[f] /\ sent[f] <= time
        BY <1>1, <1>3, <3>1, <3>3, <1>6 DEF IInv, Fits, Unknown
      <4>2. position[f] \in Nat \cup {Unknown}
        BY DEF IInv, TypeOK
      <4>3. duration[f] # Unknown => position[f] <= duration[f]
        BY DEF IInv, Fits
      <4>4. duration[f] \in Nat \cup {Unknown}
        BY ProgressAssumption DEF IInv, TypeOK
      <4>5. position[f] <= Clamp(f, time)
        BY <1>6, <4>1, <4>2, <4>3, <4>4 DEF Clamp, Least, Unknown
      <4>6. queue'[i].file = f /\ queue'[i].time = time
        BY <1>3, <3>3
      <4> QED
        BY <3>1, <4>5, <4>6 DEF Clamp
    <3> QED
      BY <1>5, <3>2, <3>3
  <2> QED
    BY <2>2, <2>3, <2>4 DEF InOrder
<1>8. Fits'
  BY <1>1, <1>6 DEF Send, IInv, Fits, TypeOK, Unknown
<1> QED
  BY <1>4, <1>7, <1>8 DEF IInv

(* A record that is received moves its file up to it.                      *)
LEMMA ReceiveInv == ASSUME IInv, Receive PROVE IInv'
<1> DEFINE r == Head(queue)
           f == r.file
           place == Clamp(f, r.time)
<1>1. /\ queue # <<>> /\ queue' = Tail(queue)
      /\ position' = [position EXCEPT ![f] = place]
      /\ fileEta' = [fileEta EXCEPT ![f] = RemainingTime(f, place, r.speed)]
      /\ samples' = IF place > position[f] THEN Least(samples + 1, 2) ELSE samples
      /\ UNCHANGED <<rejected, stage, status, duration, elapsed, working, sent>>
  BY DEF Receive
<1>2. /\ r = queue[1] /\ r \in Records /\ Tail(queue) \in Seq(Records)
      /\ Len(queue) \in Nat /\ Len(queue) >= 1
      /\ Len(queue') = Len(queue) - 1
      /\ \A i \in 1 .. Len(queue') : queue'[i] = queue[i + 1]
  BY <1>1, QueueFacts DEF IInv
<1>3. /\ f \in Files /\ r.time \in Nat \cup {Unknown} /\ r.speed \in Nat
  BY <1>2, ProgressAssumption DEF Records
<1>4. duration[f] \in Nat \cup {Unknown}
  BY <1>3, ProgressAssumption DEF IInv, TypeOK
<1>5. /\ place \in Nat \cup {Unknown} /\ place <= r.time
      /\ duration[f] # Unknown => place <= duration[f]
  BY <1>3, <1>4 DEF Clamp, Least, Unknown
<1>6. TypeOK'
  <2>1. samples' \in 0 .. 2
    <3>1. samples \in 0 .. 2
      BY DEF IInv, TypeOK
    <3> HIDE DEF place
    <3> QED
      BY <1>1, <3>1 DEF Least
  <2>2. RemainingTime(f, place, r.speed) \in Nat \cup {Unknown}
    <3> DEFINE left == (duration[f] - place) * 1000
    <3>1. CASE r.speed > 0 /\ place # Unknown /\ place < duration[f]
      <4>1. left \in Nat
        BY <1>4, <1>5, <3>1 DEF Unknown
      <4>2. \A n \in Nat, d \in Nat : d > 0 => n \div d \in Nat
        BY Z3
      <4>3. left \div r.speed \in Nat
        <5> HIDE DEF left
        <5> QED
          BY <1>3, <3>1, <4>1, <4>2
      <4> QED
        BY <3>1, <4>3 DEF RemainingTime
    <3>2. CASE ~(r.speed > 0 /\ place # Unknown /\ place < duration[f])
      BY <3>2 DEF RemainingTime
    <3> QED
      BY <3>1, <3>2
  <2> HIDE DEF place
  <2> QED
    BY <1>1, <1>2, <1>3, <1>5, <2>1, <2>2 DEF IInv, TypeOK
<1>7. InOrder'
  <2>1. \A i \in 1 .. Len(queue') : i + 1 \in 1 .. Len(queue) /\ 1 \in 1 .. Len(queue)
    BY <1>2
  <2>2. \A i \in 1 .. Len(queue') :
          queue'[i].file \in Steady => queue'[i].time <= sent'[queue'[i].file]
    BY <1>1, <1>2, <2>1 DEF IInv, InOrder
  <2>3. \A i, j \in 1 .. Len(queue') :
          /\ i < j
          /\ queue'[i].file = queue'[j].file
          /\ queue'[i].file \in Steady
          => queue'[i].time <= queue'[j].time
    <3> SUFFICES ASSUME NEW i \in 1 .. Len(queue'), NEW j \in 1 .. Len(queue'),
                        i < j, queue'[i].file = queue'[j].file,
                        queue'[i].file \in Steady
                 PROVE  queue'[i].time <= queue'[j].time
      OBVIOUS
    <3>1. i + 1 < j + 1
      OBVIOUS
    <3> QED
      BY <1>2, <2>1, <3>1 DEF IInv, InOrder
  <2>4. \A i \in 1 .. Len(queue') :
          queue'[i].file \in Steady /\ status'[queue'[i].file] # "Succeeded" =>
            position'[queue'[i].file] <= Clamp(queue[i].file, queue[i].time)'
    <3> SUFFICES ASSUME NEW i \in 1 .. Len(queue'), queue'[i].file \in Steady,
                        status'[queue'[i].file] # "Succeeded"
                 PROVE  position'[queue'[i].file] <=
                          Clamp(queue[i].file, queue[i].time)'
      OBVIOUS
    <3> DEFINE g == queue[i + 1].file
               t == queue[i + 1].time
    <3>1. g \in Files /\ t \in Nat \cup {Unknown}
      <4>1. queue[i + 1] \in Records
        BY <2>1 DEF IInv, TypeOK
      <4> QED
        BY <4>1, ProgressAssumption DEF Records
    <3>2. /\ duration' = duration
          /\ queue'[i].file = g /\ queue'[i].time = t
      BY <1>1, <1>2
    <3> HIDE DEF g, t
    <3>3. CASE g = f
      <4>1. r.time <= t
        <5>1. 1 \in 1 .. Len(queue) /\ i + 1 \in 1 .. Len(queue) /\ 1 < i + 1
          BY <1>2
        <5> QED
          BY <1>2, <3>3, <5>1 DEF IInv, InOrder, g, t
      <4>2. place <= Clamp(g, t)
        BY <1>3, <1>4, <3>1, <3>3, <4>1 DEF Clamp, Least, Unknown
      <4>3. position'[g] = place
        BY <1>1, <1>3, <3>3 DEF IInv, TypeOK
      <4> QED
        BY <3>2, <4>2, <4>3 DEF Clamp
    <3>4. CASE g # f
      <4>1. position'[g] = position[g]
        BY <1>1, <3>1, <3>4 DEF IInv, TypeOK
      <4>2. position[g] <= Clamp(g, t)
        BY <1>1, <1>2, <2>1, <3>2 DEF IInv, InOrder, g, t
      <4> QED
        BY <3>2, <4>1, <4>2 DEF Clamp
    <3> QED
      BY <3>3, <3>4
  <2> QED
    BY <2>2, <2>3, <2>4 DEF InOrder
<1>8. Fits'
  <2>1. f \in Steady => r.time <= sent[f]
    BY <1>2 DEF IInv, InOrder
  <2>2. f \in Steady => place <= sent[f]
    <3>1. sent[f] \in Nat \cup {Unknown}
      BY <1>3, ProgressAssumption DEF IInv, TypeOK
    <3> HIDE DEF place
    <3> QED
      BY <1>3, <1>5, <2>1, <3>1 DEF Unknown
  <2> HIDE DEF place
  <2> QED
    BY <1>1, <1>3, <1>5, <2>2 DEF IInv, Fits, TypeOK
<1> QED
  BY <1>6, <1>7, <1>8 DEF IInv

(* A step that leaves the channel and the positions alone, and takes no    *)
(* file back from "Succeeded", keeps their order.                          *)
LEMMA QuietStep ==
  ASSUME IInv, UNCHANGED <<queue, sent, duration, position>>,
         \A f \in Files : status'[f] # "Succeeded" => status[f] # "Succeeded"
  PROVE  InOrder' /\ Fits'
<1>1. \A i \in 1 .. Len(queue) : queue[i].file \in Files
  <2>1. \A i \in 1 .. Len(queue) : queue[i] \in Records
    BY DEF IInv, TypeOK
  <2> QED
    BY <2>1 DEF Records
<1>2. InOrder'
  BY <1>1 DEF IInv, InOrder, Clamp
<1>3. Fits'
  BY DEF IInv, Fits
<1> QED
  BY <1>2, <1>3

(* A file that succeeds is at its end; its records no longer matter.       *)
LEMMA JoinInv == ASSUME IInv, NEW f \in Files, Join(f) PROVE IInv'
<1>1. PICK outcome \in Terminal :
        /\ status' = [status EXCEPT ![f] = outcome]
        /\ position' = [position EXCEPT ![f] = IF outcome = "Succeeded"
                                               THEN duration[f] ELSE position[f]]
  BY DEF Join
<1>2. UNCHANGED <<rejected, duration, samples, elapsed, working, sent, queue, stage>>
      /\ fileEta' = [fileEta EXCEPT ![f] = Unknown] /\ status[f] = "Running"
  BY DEF Join
<1>3. duration[f] \in Nat \cup {Unknown}
  BY ProgressAssumption DEF IInv, TypeOK
<1>4. TypeOK'
  BY <1>1, <1>2, <1>3 DEF IInv, TypeOK, Statuses, Terminal
<1>5. \A i \in 1 .. Len(queue) : queue[i].file \in Files
  <2>1. \A i \in 1 .. Len(queue) : queue[i] \in Records
    BY DEF IInv, TypeOK
  <2> QED
    BY <2>1 DEF Records
<1>6. \A g \in Files : /\ status'[g] # "Succeeded" => position'[g] = position[g]
                       /\ status'[g] # "Succeeded" => status[g] # "Succeeded"
  BY <1>1, <1>2 DEF IInv, TypeOK
<1>7. InOrder'
  BY <1>2, <1>5, <1>6 DEF IInv, InOrder, Clamp
<1>8. Fits'
  BY <1>1, <1>2, <1>3, <1>6 DEF IInv, Fits, TypeOK
<1> QED
  BY <1>4, <1>7, <1>8 DEF IInv

(* Every step keeps the invariant.                                         *)
LEMMA StepInv == IInv /\ [Next]_vars => IInv'
<1> SUFFICES ASSUME IInv, [Next]_vars PROVE IInv'
  OBVIOUS
<1>1. ASSUME NEW f \in Files, Admit(f) PROVE IInv'
  <2>1. TypeOK'
    BY <1>1 DEF Admit, IInv, TypeOK, Statuses
  <2> QED
    BY <1>1, <2>1, QuietStep DEF Admit, IInv, TypeOK
<1>2. ASSUME NEW f \in Files, End(f) PROVE IInv'
  <2>1. TypeOK'
    BY <1>2 DEF End, IInv, TypeOK
  <2> QED
    BY <1>2, <2>1, QuietStep DEF End, IInv
<1>3. CASE Tick
  <2>1. TypeOK'
    BY <1>3, ProgressAssumption DEF Tick, IInv, TypeOK
  <2> QED
    BY <1>3, <2>1, QuietStep DEF Tick, IInv
<1>4. CASE CancelPending
  <2>1. TypeOK'
    BY <1>4 DEF CancelPending, IInv, TypeOK, Statuses
  <2> QED
    BY <1>4, <2>1, QuietStep DEF CancelPending, IInv
<1>5. CASE Close
  <2>1. <<>> \in Seq(Records) /\ Len(<<>>) = 0
    OBVIOUS
  <2>2. TypeOK'
    BY <1>5, <2>1 DEF Close, IInv, TypeOK
  <2>3. InOrder'
    BY <1>5, <2>1 DEF Close, InOrder
  <2>4. Fits'
    BY <1>5 DEF Close, IInv, Fits
  <2> QED
    BY <2>2, <2>3, <2>4 DEF IInv
<1>6. CASE UNCHANGED vars
  <2>1. TypeOK'
    BY <1>6 DEF vars, IInv, TypeOK
  <2> QED
    BY <1>6, <2>1, QuietStep DEF vars, IInv
<1> QED
  BY <1>1, <1>2, <1>3, <1>4, <1>5, <1>6, SendInv, ReceiveInv, JoinInv DEF Next, Done

(* The inductive invariant holds in every reachable state.                 *)
THEOREM Invariant == Spec => []IInv
  BY InitInv, StepInv, PTL DEF Spec

(* Every variable keeps its type.                                          *)
THEOREM TypeCorrect == Spec => []TypeOK
  BY Invariant, PTL DEF IInv

(* The share of one file does not shrink in one step.                      *)
LEMMA ShareStep ==
  ASSUME IInv, [Next]_vars, NEW f \in Steady, duration[f] # Unknown
  PROVE  Contribution(f)' >= Contribution(f)
<1> f \in Files
  BY ProgressAssumption
<1>1. /\ duration[f] \in Nat /\ position[f] \in Nat \cup {Unknown}
      /\ position[f] <= duration[f]
  <2>1. duration[f] \in Durations
    BY DEF IInv, TypeOK
  <2>2. duration[f] \in Nat
    BY <2>1, ProgressAssumption
  <2>3. position[f] \in Nat \cup {Unknown}
    BY DEF IInv, TypeOK
  <2>4. position[f] <= duration[f]
    BY DEF IInv, Fits
  <2> QED
    BY <2>2, <2>3, <2>4
<1>2. Contribution(f) \in Nat /\ Contribution(f) <= duration[f]
  BY <1>1 DEF Contribution, Least, Unknown
<1>3. duration' = duration
  BY DEF Next, Done, vars, Admit, Send, End, Join, Tick, Receive, CancelPending, Close
<1>4. CASE UNCHANGED position /\ (status'[f] = "Succeeded" <=> status[f] = "Succeeded")
  BY <1>1, <1>3, <1>4 DEF Contribution, Least, Unknown
<1>5. CASE \E g \in Files : Join(g)
  <2>1. PICK g \in Files : Join(g)
    BY <1>5
  <2>2. CASE g = f
    <3>1. /\ status'[f] = "Succeeded" \/ position'[f] = position[f]
          /\ status[f] = "Running"
      BY <2>1, <2>2 DEF Join, IInv, TypeOK
    <3> QED
      BY <1>1, <1>2, <1>3, <3>1 DEF Contribution, Least, Unknown
  <2>3. CASE g # f
    <3>1. status'[f] = status[f] /\ position'[f] = position[f]
      BY <2>1, <2>3 DEF Join, IInv, TypeOK
    <3> QED
      BY <1>1, <1>3, <3>1 DEF Contribution, Least, Unknown
  <2> QED
    BY <2>2, <2>3
<1>6. CASE Receive
  <2> DEFINE r == Head(queue)
  <2>1. /\ queue # <<>> /\ status' = status
        /\ position' = [position EXCEPT ![r.file] = Clamp(r.file, r.time)]
    BY <1>6 DEF Receive
  <2>2. r = queue[1] /\ r \in Records /\ Len(queue) \in Nat /\ Len(queue) >= 1
    BY <2>1, QueueFacts DEF IInv
  <2>3. CASE status[f] = "Succeeded" \/ r.file # f
    <3>1. status[f] # "Succeeded" => position'[f] = position[f]
      BY <2>1, <2>2, <2>3 DEF IInv, TypeOK, Records
    <3> QED
      BY <1>1, <1>3, <2>1, <3>1 DEF Contribution, Least, Unknown
  <2>4. CASE status[f] # "Succeeded" /\ r.file = f
    <3>1. position[f] <= Clamp(f, r.time)
      BY <2>2, <2>4 DEF IInv, InOrder
    <3>2. r.time \in Nat \cup {Unknown}
      BY <2>2, ProgressAssumption DEF Records
    <3>3. position'[f] = Clamp(f, r.time)
      BY <2>1, <2>4 DEF IInv, TypeOK
    <3>4. Clamp(f, r.time) \in Nat \cup {Unknown} /\ Clamp(f, r.time) <= duration[f]
      BY <1>1, <3>2 DEF Clamp, Least, Unknown
    <3> HIDE DEF r
    <3> QED
      BY <1>1, <1>3, <2>1, <2>4, <3>1, <3>3, <3>4 DEF Contribution, Least, Unknown
  <2> QED
    BY <2>3, <2>4
<1>7. \/ UNCHANGED position /\ (status'[f] = "Succeeded" <=> status[f] = "Succeeded")
      \/ \E g \in Files : Join(g)
      \/ Receive
  BY DEF Next, Done, vars, Admit, Send, End, Tick, CancelPending, Close, IInv, TypeOK
<1> QED
  BY <1>4, <1>5, <1>6, <1>7

(* No file's share of the aggregate ever shrinks, if tools do not report   *)
(* an earlier time again.                                                  *)
THEOREM SharesAdvance == Spec => SharesNeverShrink
<1>1. IInv /\ [Next]_vars =>
        [\A f \in Steady : duration[f] # Unknown =>
           Contribution(f)' >= Contribution(f)]_vars
  BY ShareStep
<1> QED
  BY <1>1, Invariant, PTL DEF Spec, SharesNeverShrink


-----------------------------------------------------------------------------
(* Sums over finite sets, of which the library says nothing: the recursive *)
(* function that a sum is defined by exists, and is monotone.              *)
Rest(s) == s \ {CHOOSE x \in s : TRUE}
First(s) == CHOOSE x \in s : TRUE

SumsOn(sum, fun, sets) ==
  sum = [s \in sets |-> IF s = {} THEN 0 ELSE fun[First(s)] + sum[Rest(s)]]

LEMMA TheRest ==
  ASSUME NEW s, IsFiniteSet(s), s # {}
  PROVE  /\ First(s) \in s /\ Rest(s) \subseteq s
         /\ IsFiniteSet(Rest(s))
         /\ Cardinality(s) \in Nat /\ Cardinality(Rest(s)) \in Nat
         /\ Cardinality(s) = Cardinality(Rest(s)) + 1
<1>1. First(s) \in s
  BY DEF First
<1>2. Rest(s) = s \ {First(s)}
  BY DEF Rest, First
<1>3. IsFiniteSet(Rest(s)) /\ Cardinality(Rest(s)) = Cardinality(s) - 1
  BY <1>1, <1>2, FS_RemoveElement
<1>4. Cardinality(s) \in Nat /\ Cardinality(Rest(s)) \in Nat
  BY <1>3, FS_CardinalityType
<1> QED
  BY <1>1, <1>2, <1>3, <1>4

LEMMA SumsExist ==
  ASSUME NEW S, IsFiniteSet(S), NEW fun
  PROVE  \E sum : SumsOn(sum, fun, SUBSET S)
<1> DEFINE Level(n) == {s \in SUBSET S : Cardinality(s) <= n}
           Fails    == {n \in Nat : ~ \E sum : SumsOn(sum, fun, Level(n))}
<1>1. \A s \in SUBSET S : /\ IsFiniteSet(s) /\ Cardinality(s) \in Nat
                          /\ Cardinality(s) <= Cardinality(S)
                          /\ Cardinality(s) = 0 <=> s = {}
  BY FS_Subset, FS_CardinalityType, FS_EmptySet
<1>2. ASSUME NEW n \in Fails, \A m \in Fails : n <= m
      PROVE  FALSE
  <2>1. CASE n = 0
    <3>1. \A s \in Level(0) : s = {}
      BY <1>1
    <3>2. SumsOn([s \in Level(0) |-> 0], fun, Level(0))
      BY <3>1 DEF SumsOn
    <3> QED
      BY <2>1, <3>2
  <2>2. CASE n # 0
    <3>1. n \in Nat /\ n - 1 \in Nat /\ n - 1 \notin Fails
      <4>1. n \in Nat
        OBVIOUS
      <4> HIDE DEF Fails
      <4> QED
        BY <1>2, <2>2, <4>1
    <3>2. PICK sum : SumsOn(sum, fun, Level(n - 1))
      BY <3>1
    <3> DEFINE next == [s \in Level(n) |-> IF s = {} THEN 0 ELSE fun[First(s)] + sum[Rest(s)]]
    <3>3. ASSUME NEW s \in Level(n), s # {}
          PROVE  next[Rest(s)] = sum[Rest(s)]
      <4>1. Rest(s) \in Level(n - 1) /\ Rest(s) \in Level(n)
        BY <1>1, <3>1, <3>3, TheRest
      <4>2. sum[Rest(s)] = IF Rest(s) = {} THEN 0
                           ELSE fun[First(Rest(s))] + sum[Rest(Rest(s))]
        BY <3>2, <4>1 DEF SumsOn
      <4> QED
        BY <4>1, <4>2
    <3>4. SumsOn(next, fun, Level(n))
      BY <3>3 DEF SumsOn
    <3> QED
      BY <3>4
  <2> QED
    BY <2>1, <2>2
<1>3. Fails = {}
  <2> HIDE DEF Fails
  <2>1. Fails \subseteq Nat
    BY DEF Fails
  <2> QED
    BY <1>2, <2>1, LeastNatural
<1>4. PICK sum : SumsOn(sum, fun, Level(Cardinality(S)))
  BY <1>1, <1>3
<1>5. Level(Cardinality(S)) = SUBSET S
  BY <1>1
<1> QED
  BY <1>4, <1>5

LEMMA SumIsRecursive ==
  ASSUME NEW S, IsFiniteSet(S), NEW fun
  PROVE  \E sum : /\ SumsOn(sum, fun, SUBSET S)
                  /\ SumFunctionOnSet(fun, S) = sum[S]
<1> DEFINE sum == CHOOSE sum : SumsOn(sum, fun, SUBSET S)
<1>1. SumsOn(sum, fun, SUBSET S)
  BY SumsExist
<1>2. SumFunctionOnSet(fun, S) = sum[S]
  BY DEF SumFunctionOnSet, FoldFunctionOnSet, MapThenFoldSet, SumsOn, First, Rest
<1> QED
  BY <1>1, <1>2

(* The sum of smaller naturals is smaller, that of positive ones positive. *)
LEMMA SumsGrow ==
  ASSUME NEW S, IsFiniteSet(S), NEW f, NEW g,
         \A x \in S : f[x] \in Nat /\ g[x] \in Nat /\ f[x] <= g[x]
  PROVE  /\ SumFunctionOnSet(f, S) \in Nat
         /\ SumFunctionOnSet(g, S) \in Nat
         /\ SumFunctionOnSet(f, S) <= SumFunctionOnSet(g, S)
         /\ S # {} /\ (\A x \in S : g[x] > 0) => SumFunctionOnSet(g, S) > 0
<1>1. PICK low : SumsOn(low, f, SUBSET S) /\ SumFunctionOnSet(f, S) = low[S]
  BY SumIsRecursive
<1>2. PICK high : SumsOn(high, g, SUBSET S) /\ SumFunctionOnSet(g, S) = high[S]
  BY SumIsRecursive
<1> DEFINE Right(s) == /\ low[s] \in Nat /\ high[s] \in Nat /\ low[s] <= high[s]
                       /\ s # {} /\ (\A x \in S : g[x] > 0) => high[s] > 0
           Fails    == {Cardinality(s) : s \in {t \in SUBSET S : ~ Right(t)}}
<1>3. \A s \in SUBSET S : IsFiniteSet(s) /\ Cardinality(s) \in Nat
  BY FS_Subset, FS_CardinalityType
<1>4. ASSUME NEW s \in SUBSET S, s = {} \/ Right(Rest(s))
      PROVE  Right(s)
  <2>1. CASE s = {}
    BY <1>1, <1>2, <2>1 DEF SumsOn
  <2>2. CASE s # {}
    <3>1. First(s) \in S
      BY <1>3, <2>2, TheRest
    <3>2. low[s] = f[First(s)] + low[Rest(s)] /\ high[s] = g[First(s)] + high[Rest(s)]
      BY <1>1, <1>2, <2>2 DEF SumsOn
    <3> QED
      BY <1>4, <2>2, <3>1, <3>2
  <2> QED
    BY <2>1, <2>2
<1> HIDE DEF Right
<1>5. Fails = {}
  <2>1. ASSUME Fails # {}
        PROVE  FALSE
    <3>1. PICK n \in Fails : \A m \in Fails : n <= m
      <4>1. Fails \subseteq Nat
        BY <1>3
      <4> HIDE DEF Fails
      <4> QED
        BY <2>1, <4>1, LeastNatural
    <3>2. PICK s \in SUBSET S : n = Cardinality(s) /\ ~ Right(s)
      OBVIOUS
    <3>3. s # {} /\ ~ Right(Rest(s))
      BY <1>4, <3>2
    <3>4. Rest(s) \in SUBSET S /\ Cardinality(s) = Cardinality(Rest(s)) + 1
          /\ Cardinality(Rest(s)) \in Nat
      BY <1>3, <3>3, TheRest
    <3>5. Cardinality(Rest(s)) \in Fails
      BY <3>3, <3>4
    <3> HIDE DEF Fails
    <3> QED
      BY <3>1, <3>2, <3>4, <3>5
  <2> QED
    BY <2>1
<1>6. Right(S)
  BY <1>5
<1> QED
  BY <1>1, <1>2, <1>6 DEF Right

-----------------------------------------------------------------------------
(* When all has been done the aggregate says so.                           *)

LEMMA Quotients ==
  ASSUME NEW whole \in Nat, whole > 0, NEW part \in Nat, part <= whole
  PROVE  /\ (part * 1000) \div whole \in 0 .. 1000
         /\ part = whole => (part * 1000) \div whole = 1000
<1>1. (part * 1000) \div whole >= 0
  BY Z3
<1>2. (part * 1000) \div whole <= 1000
  BY Z3
<1>3. part = whole => (part * 1000) \div whole = 1000
  BY Z3
<1> QED
  BY <1>1, <1>2, <1>3, Z3

LEMMA AggregateIsFull ==
  ASSUME IInv, Files # {}
  PROVE  FullWhenDone
<1>1. IsFiniteSet(Files) /\ Durations \subseteq Nat \cup {Unknown}
  BY ProgressAssumption
<1>2. CASE ~ Determinate
  BY <1>2 DEF FullWhenDone, ProgressMilli, Eta
<1>3. CASE Determinate
  <2>1. \A f \in Files : duration[f] \in Nat /\ duration[f] > 0
    <3>1. ASSUME NEW f \in Files
          PROVE  duration[f] \in Nat \cup {Unknown} /\ duration[f] > 0
      BY <1>1, <1>3 DEF Determinate, IInv, TypeOK
    <3> QED
      BY <3>1 DEF Unknown
  <2>2. \A f \in Files : Shares[f] \in Nat /\ Shares[f] <= duration[f]
    BY <2>1 DEF Shares, Contribution, Least, IInv, TypeOK
  <2>3. /\ Weighted \in Nat /\ Total \in Nat /\ Weighted <= Total /\ Total > 0
    BY <1>1, <2>1, <2>2, SumsGrow DEF Weighted, Total
  <2>4. ASSUME \A f \in Files : status[f] = "Succeeded"
        PROVE  Weighted = Total
    <3>1. Shares = duration
      BY <2>4 DEF Shares, Contribution, IInv, TypeOK
    <3> QED
      BY <3>1 DEF Weighted, Total
  <2>5. ProgressMilli = (Weighted * 1000) \div Total
    BY <1>3 DEF ProgressMilli
  <2>6. /\ ProgressMilli \in 0 .. 1000
        /\ Weighted = Total => ProgressMilli = 1000
    BY <2>3, <2>5, Quotients
  <2>7. /\ Eta \in {Unknown} \cup Nat
        /\ Weighted = Total => Eta \in {0, Unknown}
    <3>1. elapsed \in Nat
      BY ProgressAssumption DEF IInv, TypeOK
    <3>2. CASE samples >= 2 /\ elapsed >= 2 /\ Weighted > 0
      <4>1. Eta = ((Total - Weighted) * elapsed) \div Weighted
        BY <1>3, <3>2 DEF Eta
      <4>2. \A n \in Nat, d \in Nat : d > 0 => n \div d \in Nat
        BY Z3
      <4>3. (Total - Weighted) * elapsed \in Nat
        <5>1. Total - Weighted \in Nat
          BY <2>3
        <5> QED
          BY <3>1, <5>1
      <4>4. Eta \in Nat
        BY <2>3, <3>2, <4>1, <4>2, <4>3
      <4>5. ASSUME Weighted = Total
            PROVE  Eta = 0
        <5>1. (Total - Weighted) * elapsed = 0
          BY <2>3, <3>1, <4>5
        <5>2. \A d \in Nat : d > 0 => 0 \div d = 0
          BY Z3
        <5> QED
          BY <2>3, <3>2, <4>1, <5>1, <5>2
      <4> QED
        BY <4>4, <4>5
    <3>3. CASE ~ (samples >= 2 /\ elapsed >= 2 /\ Weighted > 0)
      BY <3>3 DEF Eta
    <3> QED
      BY <3>2, <3>3
  <2> QED
    BY <2>4, <2>6, <2>7 DEF FullWhenDone
<1> QED
  BY <1>2, <1>3

(* When every file has succeeded the aggregate is full and no time is      *)
(* left, and until then neither leaves its range, for any number of files  *)
(* and whatever records arrive late.                                       *)
THEOREM FullAtTheEnd == Spec => []FullWhenDone
<1>1. Init => Files # {}
  BY DEF Init
<1>2. IInv /\ Files # {} => FullWhenDone
  BY AggregateIsFull
<1>3. Files # {} /\ [Next]_vars => (Files # {})'
  OBVIOUS
<1> QED
  BY <1>1, <1>2, <1>3, Invariant, PTL DEF Spec

LEMMA ProgressStep ==
  ASSUME IInv, IInv', Files # {}, [Next]_vars, Files \subseteq Steady, Determinate, Determinate'
  PROVE  ProgressMilli' >= ProgressMilli
<1>1. IsFiniteSet(Files) /\ Durations \subseteq Nat \cup {Unknown}
  BY ProgressAssumption
<1>2. duration' = duration
  BY DEF Next, Done, vars, Admit, Send, End, Join, Tick, Receive, CancelPending, Close
<1>3. \A f \in Files : duration[f] \in Nat /\ duration[f] > 0
  <2>1. ASSUME NEW f \in Files
        PROVE  duration[f] \in Nat \cup {Unknown} /\ duration[f] > 0
    BY <1>1 DEF Determinate, IInv, TypeOK
  <2> QED
    BY <2>1 DEF Unknown
<1>4. \A f \in Files : Shares[f] \in Nat /\ Shares[f] <= duration[f]
  BY <1>3 DEF Shares, Contribution, Least, IInv, TypeOK
<1>5. \A f \in Files : Shares'[f] \in Nat /\ Shares'[f] <= duration[f]
  BY <1>2, <1>3 DEF Shares, Contribution, Least, IInv, TypeOK
<1>6. \A f \in Files : Shares'[f] >= Shares[f]
  <2>1. ASSUME NEW f \in Files
        PROVE  Contribution(f)' >= Contribution(f)
    <3>1. duration[f] # Unknown
      BY <1>3 DEF Unknown
    <3> QED
      BY <3>1, ShareStep
  <2> QED
    BY <2>1 DEF Shares
<1>7. /\ Weighted \in Nat /\ Weighted' \in Nat /\ Weighted <= Weighted'
  BY <1>1, <1>4, <1>5, <1>6, SumsGrow DEF Weighted
<1>8. Total \in Nat /\ Total > 0 /\ Total' = Total
  BY <1>1, <1>2, <1>3, SumsGrow DEF Total
<1>9. /\ ProgressMilli = (Weighted * 1000) \div Total
      /\ ProgressMilli' = (Weighted' * 1000) \div Total
  BY <1>8 DEF ProgressMilli
<1>10. \A a \in Nat, b \in Nat, d \in Nat :
         a <= b /\ d > 0 => (a * 1000) \div d <= (b * 1000) \div d
  BY Z3
<1>11. /\ (Weighted * 1000) \div Total <= (Weighted' * 1000) \div Total
       /\ (Weighted * 1000) \div Total \in Int
       /\ (Weighted' * 1000) \div Total \in Int
  BY <1>7, <1>8, <1>10
<1> QED
  BY <1>9, <1>11

(* The number on the screen never falls, unless a tool goes back in time.  *)
THEOREM ProgressNeverGoesBack == Spec => ProgressAdvances
<1>1. Init => Files # {}
  BY DEF Init
<1>2. Files # {} /\ [Next]_vars => (Files # {})'
  OBVIOUS
<1>3. IInv /\ IInv' /\ Files # {} /\ [Next]_vars =>
        [Files \subseteq Steady /\ Determinate /\ Determinate' =>
           ProgressMilli' >= ProgressMilli]_vars
  BY ProgressStep
<1> QED
  BY <1>1, <1>2, <1>3, Invariant, PTL DEF Spec, ProgressAdvances
=============================================================================
