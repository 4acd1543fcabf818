--------------------------- MODULE TuiSessionProofs ---------------------------
(* A row belongs to one probe or one batch at a time, a batch keeps its    *)
(* rows until its report is handled, and leaving abandons nothing: for any *)
(* number of files, items and batches, any capacity of the channel, and    *)
(* whatever the user does in whatever order.                               *)
EXTENDS TuiSession, ListingProofs, SequenceTheorems

(* A probe was asked for and its answer not handled.                       *)
Asked(id) == \/ probing[id] # "None"
             \/ \E n \in DOMAIN inbox : inbox[n].type = "Probed" /\ inbox[n].id = id

(* Rows stand in the order of their identifiers, one for each file, and a  *)
(* row shows a probe exactly while there is one to answer, or one that     *)
(* panicked.                                                               *)
Rows ==
  /\ \A j, k \in DOMAIN queue : j < k => queue[j].id < queue[k].id
  /\ \A j, k \in DOMAIN queue : j # k => queue[j].file # queue[k].file
  /\ \A k \in DOMAIN queue :
        /\ queue[k].id < nextId
        /\ queue[k].status = "Probing" <=>
              Asked(queue[k].id) \/ queue[k].id \in panicked
        /\ queue[k].status = "Probing" => ~queue[k].media

(* An identifier is probed by one task at a time, which answers once.      *)
Probes ==
  /\ \A id \in Ids : Asked(id) \/ id \in panicked => id < nextId
  /\ \A id \in panicked : ~Asked(id)
  /\ \A n \in DOMAIN inbox :
        inbox[n].type = "Probed" => probing[inbox[n].id] = "None"
  /\ \A m, n \in DOMAIN inbox :
        /\ inbox[m].type = "Probed" /\ inbox[n].type = "Probed"
        /\ inbox[m].id = inbox[n].id
        => m = n

(* A report is about the batch that is active, and there is one at most.   *)
Reports ==
  /\ \A n \in DOMAIN inbox :
        inbox[n].type = "Finished" =>
          /\ phase # "Idle" /\ inbox[n].batch = started
          /\ live[started] = IF inbox[n].ok THEN "Reported" ELSE "Lost"
  /\ \A m, n \in DOMAIN inbox :
        inbox[m].type = "Finished" /\ inbox[n].type = "Finished" => m = n

(* Only the last batch may be active; while it is, its rows stay.          *)
LastBatch ==
  /\ \A b \in Batches : b < started => live[b] \in {"Reported", "Lost"}
  /\ \A b \in Batches : b > started => live[b] = "None"
  /\ \A b \in Batches : live[b] \in {"Returned", "Reported"} =>
        \A k \in DOMAIN files[b] : files[b][k] \in Terminal
  /\ phase = "Idle" =>
        /\ active = <<>>
        /\ \A b \in Batches : b = started => live[b] \in {"Reported", "Lost"}
  /\ phase # "Idle" =>
        /\ started # 0 /\ holder = started /\ live[started] # "None"
        /\ Len(active) = Len(files[started])
        /\ \A i, j \in DOMAIN active : i < j => active[i] < active[j]
        /\ \A j \in DOMAIN active : \E k \in DOMAIN queue :
              /\ queue[k].id = active[j] /\ queue[k].enabled
              /\ queue[k].status # "Probing"
  /\ phase = "Cancelling" => holder \in token
  /\ app \in {"Leaving", "Stopping", "Joining", "Ended"} => phase = "Idle"

(* Unless a supervisor failed, a row that shows a batch at work is one of  *)
(* the active batch.                                                       *)
RowsAtWork ==
  (\A b \in Batches : live[b] # "Lost") =>
    \A k \in DOMAIN queue :
      queue[k].status \in {"Queued", "Preparing", "Running"} =>
        \E j \in DOMAIN active : active[j] = queue[k].id

IInv == TypeOK /\ Rows /\ Probes /\ Reports /\ LastBatch /\ RowsAtWork

-----------------------------------------------------------------------------
(* What a step leaves alone keeps its place in the invariant.              *)
USE DEF model, input, tasks, runs

Row == [id : Ids, file : Files, enabled : BOOLEAN, status : ItemStatuses,
        media : BOOLEAN]

LEMMA QueueFacts ==
  ASSUME TypeOK
  PROVE  /\ queue \in Seq(Row) /\ Len(queue) \in Nat
         /\ DOMAIN queue = 1 .. Len(queue)
         /\ Positions = DOMAIN queue
         /\ \A k \in DOMAIN queue :
              /\ queue[k] \in Row /\ queue[k].id \in Ids /\ queue[k].id \in Nat
              /\ queue[k].file \in Files /\ queue[k].enabled \in BOOLEAN
              /\ queue[k].status \in ItemStatuses /\ queue[k].media \in BOOLEAN
<1>1. queue \in Seq(Row)
  BY DEF TypeOK, Row
<1>2. \A k \in DOMAIN queue : queue[k] \in Row
  BY <1>1
<1>3. Len(queue) \in Nat /\ DOMAIN queue = 1 .. Len(queue)
  BY <1>1
<1>4. Ids \subseteq Nat
  BY TuiAssumption DEF TuiAssumption, Ids
<1> QED
  BY <1>1, <1>2, <1>3, <1>4 DEF Positions, Row

LEMMA InboxFacts ==
  ASSUME TypeOK
  PROVE  /\ inbox \in Seq(Texts) /\ Len(inbox) \in Nat
         /\ DOMAIN inbox = 1 .. Len(inbox)
         /\ \A n \in DOMAIN inbox :
              /\ inbox[n] \in Texts
              /\ inbox[n].type = "Probed" => inbox[n].id \in Ids
              /\ inbox[n].type = "Snapshot" => inbox[n].states \in Seq(FileStatuses)
              /\ inbox[n].type = "Finished" =>
                   inbox[n].batch \in Batches /\ inbox[n].ok \in BOOLEAN
<1>1. inbox \in Seq(Texts)
  BY DEF TypeOK
<1>2. Len(inbox) \in Nat /\ DOMAIN inbox = 1 .. Len(inbox)
  BY <1>1
<1>3. \A n \in DOMAIN inbox : inbox[n] \in Texts
  BY <1>1
<1>4. ASSUME NEW m \in Texts
      PROVE  /\ m.type = "Probed" => m.id \in Ids
             /\ m.type = "Snapshot" => m.states \in Seq(FileStatuses)
             /\ m.type = "Finished" => m.batch \in Batches /\ m.ok \in BOOLEAN
  BY DEF Texts
<1> QED
  BY <1>1, <1>2, <1>3, <1>4

LEMMA NumberFacts ==
  /\ MaxIds \in Nat /\ MaxBatches \in Nat /\ MaxSearches \in Nat /\ Capacity \in Nat
  /\ Ids \subseteq Nat /\ \A id \in Nat : id < MaxIds => id \in Ids
  /\ IsFiniteSet(Ids)
<1>1. MaxIds \in Nat /\ MaxBatches \in Nat /\ MaxSearches \in Nat /\ Capacity \in Nat
  BY TuiAssumption DEF TuiAssumption
<1> QED
  BY <1>1, FS_Interval DEF Ids

-----------------------------------------------------------------------------
(* The channel.                                                            *)
LEMMA ReceiveFacts ==
  ASSUME TypeOK, NEW t, Receive(t)
  PROVE  /\ app = "Looping"
         /\ 1 \in DOMAIN inbox /\ Head(inbox) = inbox[1] /\ inbox[1].type = t
         /\ inbox' \in Seq(Texts) /\ Len(inbox') <= Capacity
         /\ \A n \in DOMAIN inbox' : n + 1 \in DOMAIN inbox /\ inbox'[n] = inbox[n + 1]
         /\ \A n \in DOMAIN inbox :
              n # 1 => n - 1 \in DOMAIN inbox' /\ inbox'[n - 1] = inbox[n]
         /\ DOMAIN inbox \subseteq Nat /\ DOMAIN inbox' \subseteq Nat
<1>1. /\ inbox \in Seq(Texts) /\ Len(inbox) \in Nat
      /\ DOMAIN inbox = 1 .. Len(inbox) /\ Len(inbox) <= Capacity
  BY InboxFacts DEF TypeOK
<1>2. inbox # <<>> /\ inbox' = Tail(inbox) /\ Head(inbox).type = t /\ app = "Looping"
  BY DEF Receive, Looping
<1>3. Capacity \in Nat
  BY NumberFacts
<1>4. inbox' \in Seq(Texts) /\ Len(inbox') = Len(inbox) - 1 /\ Len(inbox) > 0
  BY <1>1, <1>2
<1>5. \A n \in 1 .. Len(inbox') : inbox'[n] = inbox[n + 1]
  BY <1>1, <1>2
<1>6. DOMAIN inbox' = 1 .. Len(inbox')
  BY <1>4
<1>7. \A n \in DOMAIN inbox' : n + 1 \in DOMAIN inbox /\ inbox'[n] = inbox[n + 1]
  BY <1>1, <1>4, <1>5, <1>6
<1>8. \A n \in DOMAIN inbox :
        n # 1 => n - 1 \in DOMAIN inbox' /\ inbox'[n - 1] = inbox[n]
  BY <1>1, <1>4, <1>5, <1>6
<1> QED
  BY <1>1, <1>2, <1>3, <1>4, <1>6, <1>7, <1>8

LEMMA SendFacts ==
  ASSUME TypeOK, NEW m \in Texts, Send(m)
  PROVE  /\ inbox' \in Seq(Texts) /\ Len(inbox') <= Capacity
         /\ DOMAIN inbox' = DOMAIN inbox \cup {Len(inbox) + 1}
         /\ Len(inbox) + 1 \notin DOMAIN inbox /\ inbox'[Len(inbox) + 1] = m
         /\ \A n \in DOMAIN inbox : inbox'[n] = inbox[n]
<1>1. /\ inbox \in Seq(Texts) /\ Len(inbox) \in Nat
      /\ DOMAIN inbox = 1 .. Len(inbox) /\ Len(inbox) <= Capacity
  BY InboxFacts DEF TypeOK
<1>2. inbox' = Append(inbox, m) /\ Len(inbox) < Capacity /\ Capacity \in Nat
  BY NumberFacts DEF Send, Room
<1>3. inbox' \in Seq(Texts) /\ Len(inbox') = Len(inbox) + 1
  BY <1>1, <1>2
<1>4. DOMAIN inbox' = 1 .. (Len(inbox) + 1)
  BY <1>1, <1>3
<1>5. /\ inbox'[Len(inbox) + 1] = m
      /\ \A n \in DOMAIN inbox : inbox'[n] = inbox[n]
  BY <1>1, <1>2
<1> QED
  BY <1>1, <1>2, <1>3, <1>4, <1>5

(* Receiving or sending another message says nothing of the probes.        *)
LEMMA OthersReceived ==
  ASSUME IInv, NEW t, Receive(t), t # "Probed", UNCHANGED <<probing, panicked>>,
         nextId' \in Nat, nextId' >= nextId
  PROVE  Probes' /\ \A id : Asked(id)' <=> Asked(id)
<1>1. /\ inbox[1].type = t
      /\ \A n \in DOMAIN inbox' : n + 1 \in DOMAIN inbox /\ inbox'[n] = inbox[n + 1]
      /\ \A n \in DOMAIN inbox :
           n # 1 => n - 1 \in DOMAIN inbox' /\ inbox'[n - 1] = inbox[n]
      /\ DOMAIN inbox \subseteq Nat /\ DOMAIN inbox' \subseteq Nat
  BY ReceiveFacts DEF IInv
<1>2. ASSUME NEW id
      PROVE  Asked(id)' <=> Asked(id)
  <2>1. Asked(id)' => Asked(id)
    BY <1>1 DEF Asked
  <2>2. ASSUME NEW n \in DOMAIN inbox, inbox[n].type = "Probed", inbox[n].id = id
        PROVE  Asked(id)'
    <3>1. n # 1
      BY <1>1, <2>2
    <3> QED
      BY <1>1, <2>2, <3>1 DEF Asked
  <2> QED
    BY <2>1, <2>2 DEF Asked
<1>3. \A id \in Ids : (Asked(id) \/ id \in panicked)' => id < nextId'
  <2>1. \A id \in Ids : Asked(id) \/ id \in panicked => id < nextId
    BY DEF IInv, Probes
  <2>2. nextId \in Nat /\ Ids \subseteq Nat
    BY NumberFacts DEF IInv, TypeOK
  <2> QED
    BY <1>2, <2>1, <2>2
<1>4. \A id \in panicked' : ~Asked(id)'
  BY <1>2 DEF IInv, Probes
<1>5. \A n \in DOMAIN inbox' :
        inbox'[n].type = "Probed" => probing'[inbox'[n].id] = "None"
  BY <1>1 DEF IInv, Probes
<1>6. \A m, n \in DOMAIN inbox' :
        /\ inbox'[m].type = "Probed" /\ inbox'[n].type = "Probed"
        /\ inbox'[m].id = inbox'[n].id
        => m = n
  <2> SUFFICES ASSUME NEW m \in DOMAIN inbox', NEW n \in DOMAIN inbox',
                      inbox'[m].type = "Probed", inbox'[n].type = "Probed",
                      inbox'[m].id = inbox'[n].id
               PROVE  m = n
    OBVIOUS
  <2>1. m + 1 = n + 1
    BY <1>1 DEF IInv, Probes
  <2> QED
    BY <1>1, <2>1
<1> QED
  BY <1>2, <1>3, <1>4, <1>5, <1>6 DEF Probes

LEMMA OthersSent ==
  ASSUME IInv, NEW m \in Texts, Send(m), m.type # "Probed",
         UNCHANGED <<probing, panicked, nextId>>
  PROVE  Probes' /\ \A id : Asked(id)' <=> Asked(id)
<1>1. /\ DOMAIN inbox' = DOMAIN inbox \cup {Len(inbox) + 1}
      /\ inbox'[Len(inbox) + 1] = m
      /\ \A n \in DOMAIN inbox : inbox'[n] = inbox[n]
  BY SendFacts DEF IInv
<1>2. \A id : Asked(id)' <=> Asked(id)
  BY <1>1 DEF Asked
<1>3. /\ \A id \in Ids : (Asked(id) \/ id \in panicked)' => id < nextId'
      /\ \A id \in panicked' : ~Asked(id)'
  BY <1>2 DEF IInv, Probes
<1>4. \A n \in DOMAIN inbox' :
        inbox'[n].type = "Probed" => probing'[inbox'[n].id] = "None"
  BY <1>1 DEF IInv, Probes
<1>5. \A j, n \in DOMAIN inbox' :
        /\ inbox'[j].type = "Probed" /\ inbox'[n].type = "Probed"
        /\ inbox'[j].id = inbox'[n].id
        => j = n
  BY <1>1 DEF IInv, Probes
<1> QED
  BY <1>2, <1>3, <1>4, <1>5 DEF Probes

LEMMA ReportsReceived ==
  ASSUME IInv, NEW t, Receive(t), UNCHANGED <<started, live>>,
         t = "Finished" \/ (phase # "Idle" => phase' # "Idle")
  PROVE  Reports'
<1>1. /\ inbox[1].type = t /\ 1 \in DOMAIN inbox
      /\ \A n \in DOMAIN inbox' : n + 1 \in DOMAIN inbox /\ inbox'[n] = inbox[n + 1]
      /\ DOMAIN inbox \subseteq Nat /\ DOMAIN inbox' \subseteq Nat
      /\ 0 \notin DOMAIN inbox'
  <2>1. inbox' \in Seq(Texts)
    BY ReceiveFacts DEF IInv
  <2> QED
    BY <2>1, ReceiveFacts DEF IInv
<1>2. \A m, n \in DOMAIN inbox' :
        inbox'[m].type = "Finished" /\ inbox'[n].type = "Finished" => m = n
  <2> SUFFICES ASSUME NEW m \in DOMAIN inbox', NEW n \in DOMAIN inbox',
                      inbox'[m].type = "Finished", inbox'[n].type = "Finished"
               PROVE  m = n
    OBVIOUS
  <2>1. m + 1 = n + 1
    BY <1>1 DEF IInv, Reports
  <2> QED
    BY <1>1, <2>1
<1>3. ASSUME NEW n \in DOMAIN inbox', inbox'[n].type = "Finished"
      PROVE  /\ phase' # "Idle" /\ inbox'[n].batch = started'
             /\ live'[started'] = IF inbox'[n].ok THEN "Reported" ELSE "Lost"
  <2>1. n + 1 \in DOMAIN inbox /\ inbox'[n] = inbox[n + 1] /\ n + 1 # 1
    BY <1>1
  <2>2. t # "Finished"
    BY <1>1, <1>3, <2>1 DEF IInv, Reports
  <2> QED
    BY <1>3, <2>1, <2>2 DEF IInv, Reports
<1> QED
  BY <1>2, <1>3 DEF Reports

LEMMA ReportsUnsent ==
  ASSUME IInv, NEW m \in Texts, Send(m), m.type # "Finished",
         UNCHANGED <<started, live, phase>>
  PROVE  Reports'
<1>1. /\ DOMAIN inbox' = DOMAIN inbox \cup {Len(inbox) + 1}
      /\ inbox'[Len(inbox) + 1] = m
      /\ \A n \in DOMAIN inbox : inbox'[n] = inbox[n]
  BY SendFacts DEF IInv
<1> QED
  BY <1>1 DEF IInv, Reports

LEMMA MailKept ==
  ASSUME IInv, UNCHANGED <<inbox, probing, panicked, nextId, started, live>>,
         phase # "Idle" => phase' # "Idle"
  PROVE  Probes' /\ Reports' /\ \A id : Asked(id)' <=> Asked(id)
<1>1. Probes' /\ \A id : Asked(id)' <=> Asked(id)
  BY DEF IInv, Probes, Asked
<1>2. Reports'
  BY DEF IInv, Reports
<1> QED
  BY <1>1, <1>2

LEMMA RowsKept ==
  ASSUME IInv, UNCHANGED <<queue, panicked>>, nextId' \in Nat, nextId' >= nextId,
         \A id \in Ids : Asked(id)' <=> Asked(id)
  PROVE  Rows'
<1>1. \A k \in DOMAIN queue : queue[k].id \in Ids /\ queue[k].id \in Nat
  BY QueueFacts DEF IInv
<1>2. nextId \in Nat
  BY NumberFacts DEF IInv, TypeOK
<1> QED
  BY <1>1, <1>2 DEF IInv, Rows

(* Only cancellation changes the phase, and then the token goes with it.   *)
LEMMA BatchKept ==
  ASSUME IInv, UNCHANGED <<queue, active, holder, started, files, live>>,
         \/ UNCHANGED phase /\ token \subseteq token'
         \/ RequestCancel,
         app' = app \/ phase' = "Idle" \/ app' \notin {"Leaving", "Stopping", "Joining", "Ended"},
         app = "Looping" \/ UNCHANGED phase
  PROVE  LastBatch' /\ RowsAtWork' /\ (phase # "Idle" <=> phase' # "Idle")
<1>1. RowsAtWork'
  BY DEF IInv, RowsAtWork
<1>2. CASE UNCHANGED phase /\ token \subseteq token'
  BY <1>1, <1>2 DEF IInv, LastBatch
<1>3. CASE RequestCancel
  <2>1. CASE phase = "Running"
    <3>1. phase' = "Cancelling" /\ token' = IF holder = 0 THEN token ELSE token \cup {holder}
      BY <1>3, <2>1 DEF RequestCancel, CancelBatch
    <3>2. holder = started /\ started # 0
      BY <2>1 DEF IInv, LastBatch
    <3>3. holder \in token'
      BY <3>1, <3>2
    <3>4. app' \notin {"Leaving", "Stopping", "Joining", "Ended"}
      BY <2>1, <3>1 DEF IInv, LastBatch
    <3> QED
      BY <1>1, <2>1, <3>1, <3>3, <3>4 DEF IInv, LastBatch
  <2>2. CASE phase # "Running"
    <3>1. UNCHANGED <<phase, token>>
      BY <1>3, <2>2 DEF RequestCancel
    <3> QED
      BY <1>1, <3>1 DEF IInv, LastBatch
  <2> QED
    BY <2>1, <2>2
<1> QED
  BY <1>2, <1>3

LEMMA RequestCancelType ==
  ASSUME TypeOK, RequestCancel, IInv
  PROVE  phase' \in Phases /\ token' \subseteq Batches
<1>1. CASE phase = "Running"
  <2>1. phase' = "Cancelling" /\ token' = IF holder = 0 THEN token ELSE token \cup {holder}
    BY <1>1 DEF RequestCancel, CancelBatch
  <2>2. holder # 0 => holder \in Batches
    BY NumberFacts DEF TypeOK, Batches
  <2> QED
    BY <2>1, <2>2 DEF TypeOK, Phases
<1>2. CASE phase # "Running"
  BY <1>2 DEF RequestCancel, TypeOK
<1> QED
  BY <1>1, <1>2

-----------------------------------------------------------------------------
(* Keys.                                                                   *)
LEMMA OverlayKeyInv == ASSUME IInv, OverlayKey PROVE IInv'
<1>1. UNCHANGED <<inbox, queue, nextId, active, app, holder, input, probing, panicked,
                  unjoined, started, files, live, fresh, held>>
  BY DEF OverlayKey, Key
<1>2. app = "Looping" /\ (UNCHANGED <<phase, token>> \/ RequestCancel)
  BY DEF OverlayKey, Key, Looping
<1>3. LastBatch' /\ RowsAtWork' /\ (phase # "Idle" <=> phase' # "Idle")
  BY <1>1, <1>2, BatchKept
<1>4. Probes' /\ Reports' /\ \A id : Asked(id)' <=> Asked(id)
  BY <1>1, <1>3, MailKept
<1>5. nextId \in Nat
  BY NumberFacts DEF IInv, TypeOK
<1>6. Rows'
  BY <1>1, <1>4, <1>5, RowsKept
<1>7. phase' \in Phases /\ token' \subseteq Batches
  BY <1>2, RequestCancelType DEF IInv, TypeOK
<1>8. overlay' \in Overlays
  BY DEF OverlayKey, IInv, TypeOK, Overlays
<1>9. searching' \in 0 .. MaxSearches
  <2>1. \/ searching' = searching
        \/ searching < MaxSearches /\ searching' = searching + 1
    BY ZenonT(30) DEF OverlayKey
  <2>2. searching \in 0 .. MaxSearches
    BY DEF IInv, TypeOK
  <2> QED
    BY <2>1, <2>2, NumberFacts
<1>10. TypeOK'
  BY <1>1, <1>7, <1>8, <1>9 DEF IInv, TypeOK
<1> QED
  BY <1>3, <1>4, <1>6, <1>10 DEF IInv

LEMMA PlainKeyInv == ASSUME IInv, PlainKey PROVE IInv'
<1>1. UNCHANGED <<inbox, queue, nextId, active, holder, input, searching, probing, panicked,
                  unjoined, started, files, live, fresh, held>>
  BY DEF PlainKey, Key
<1>2. /\ app = "Looping"
      /\ UNCHANGED <<phase, token>> \/ RequestCancel
      /\ app' = app \/ (app' = "Leaving" /\ phase' = "Idle")
  BY DEF PlainKey, Key, Looping
<1>3. LastBatch' /\ RowsAtWork' /\ (phase # "Idle" <=> phase' # "Idle")
  BY <1>1, <1>2, BatchKept
<1>4. Probes' /\ Reports' /\ \A id : Asked(id)' <=> Asked(id)
  BY <1>1, <1>3, MailKept
<1>5. nextId \in Nat
  BY NumberFacts DEF IInv, TypeOK
<1>6. Rows'
  BY <1>1, <1>4, <1>5, RowsKept
<1>7. phase' \in Phases /\ token' \subseteq Batches
  BY <1>2, RequestCancelType DEF IInv, TypeOK
<1>8. overlay' \in Overlays
  BY DEF PlainKey, IInv, TypeOK, Overlays
<1>9. TypeOK'
  BY <1>1, <1>2, <1>7, <1>8 DEF IInv, TypeOK
<1> QED
  BY <1>3, <1>4, <1>6, <1>9 DEF IInv

LEMMA OtherInputInv == ASSUME IInv, OtherInput PROVE IInv'
<1>1. UNCHANGED <<inbox, phase, queue, nextId, active, app, holder, input, tasks, runs>>
  BY DEF OtherInput, Key
<1>2. LastBatch' /\ RowsAtWork' /\ (phase # "Idle" <=> phase' # "Idle")
  BY <1>1, BatchKept
<1>3. Probes' /\ Reports' /\ \A id : Asked(id)' <=> Asked(id)
  BY <1>1, MailKept
<1>4. nextId \in Nat
  BY NumberFacts DEF IInv, TypeOK
<1>5. Rows'
  BY <1>1, <1>3, <1>4, RowsKept
<1>6. overlay' \in Overlays
  BY DEF OtherInput, IInv, TypeOK, Overlays
<1>7. TypeOK'
  BY <1>1, <1>6 DEF IInv, TypeOK
<1> QED
  BY <1>2, <1>3, <1>5, <1>7 DEF IInv

(* The batch is made of the rows that are enabled, none of which is being  *)
(* probed.                                                                 *)
LEMMA EnabledFacts ==
  ASSUME IInv, Startable
  PROVE  /\ Enabled \in Seq(Ids) /\ Len(Enabled) \in Nat
         /\ DOMAIN Enabled = 1 .. Len(Enabled)
         /\ \A i, j \in DOMAIN Enabled : i < j => Enabled[i] < Enabled[j]
         /\ \A j \in DOMAIN Enabled : \E k \in DOMAIN queue :
               /\ queue[k].id = Enabled[j] /\ queue[k].enabled
               /\ queue[k].status \in CanStart
         /\ \A k \in DOMAIN queue :
               queue[k].enabled => \E j \in DOMAIN Enabled : Enabled[j] = queue[k].id
<1> DEFINE on   == {k \in Positions : queue[k].enabled}
           rows == Selected(queue, on)
<1>1. /\ queue \in Seq(Row) /\ Positions = DOMAIN queue
      /\ \A k \in DOMAIN queue : queue[k].id \in Ids
  BY QueueFacts DEF IInv
<1>2. on \in SUBSET DOMAIN queue
  BY <1>1
<1>3. Enabled = [n \in DOMAIN rows |-> rows[n].id]
  BY DEF Enabled
<1>4. \A k \in on : queue[k].enabled /\ queue[k].status \in CanStart
  BY DEF Startable
<1>5. \A k \in DOMAIN queue : queue[k].enabled => k \in on
  BY <1>1
<1>6. \A j, k \in DOMAIN queue : j < k => queue[j].id < queue[k].id
  BY DEF IInv, Rows
<1> HIDE DEF on
<1>7. /\ rows \in Seq(Row) /\ DOMAIN rows = 1 .. Len(rows)
      /\ \A k \in DOMAIN rows : Nth(on, k) \in on /\ rows[k] = queue[Nth(on, k)]
      /\ \A i \in on : Place(on, i) \in DOMAIN rows /\ rows[Place(on, i)] = queue[i]
      /\ \A j, k \in DOMAIN rows : j < k => Nth(on, j) < Nth(on, k)
  BY <1>1, <1>2, SelectedInOrder
<1> HIDE DEF rows
<1>8. Len(rows) \in Nat
  BY <1>7
<1>9. \A n \in DOMAIN rows : Enabled[n] = queue[Nth(on, n)].id /\ Nth(on, n) \in DOMAIN queue
  BY <1>2, <1>3, <1>7
<1>10. DOMAIN Enabled = 1 .. Len(rows)
  BY <1>3, <1>7
<1>11. Enabled \in [1 .. Len(rows) -> Ids]
  BY <1>1, <1>3, <1>7, <1>9
<1>12. Enabled \in Seq(Ids) /\ Len(Enabled) = Len(rows)
  BY <1>8, <1>11
<1>13. \A i, j \in DOMAIN Enabled : i < j => Enabled[i] < Enabled[j]
  BY <1>6, <1>7, <1>9, <1>10
<1>14. \A k \in DOMAIN queue :
         queue[k].enabled => \E j \in DOMAIN Enabled : Enabled[j] = queue[k].id
  BY <1>3, <1>5, <1>7
<1> QED
  BY <1>2, <1>4, <1>7, <1>8, <1>9, <1>10, <1>12, <1>13, <1>14

LEMMA StartKeyInv == ASSUME IInv, StartKey PROVE IInv'
<1>1. /\ UNCHANGED <<inbox, nextId, app, input, tasks, token, held>>
      /\ app = "Looping"
  BY DEF StartKey, Key, Looping
<1>2. nextId \in Nat
  BY NumberFacts DEF IInv, TypeOK
<1>3. CASE ~ Startable
  <2>1. /\ overlay' = "Message"
        /\ UNCHANGED <<phase, queue, active, holder, started, files, live, fresh>>
    BY <1>3 DEF StartKey
  <2>2. LastBatch' /\ RowsAtWork' /\ (phase # "Idle" <=> phase' # "Idle")
    BY <1>1, <2>1, BatchKept
  <2>3. Probes' /\ Reports' /\ \A id : Asked(id)' <=> Asked(id)
    BY <1>1, <2>1, MailKept
  <2>4. Rows'
    BY <1>1, <1>2, <2>1, <2>3, RowsKept
  <2>5. TypeOK'
    BY <1>1, <2>1 DEF IInv, TypeOK, Overlays
  <2> QED
    BY <2>2, <2>3, <2>4, <2>5 DEF IInv
<1>4. CASE Startable
  <2> DEFINE b   == started + 1
             ids == Enabled
  <2>1. /\ started < MaxBatches /\ started' = b /\ active' = ids
        /\ files' = [files EXCEPT ![b] = [k \in DOMAIN ids |-> "Queued"]]
        /\ live' = [live EXCEPT ![b] = "Running"]
        /\ holder' = b /\ fresh' = fresh \cup {b}
        /\ queue' = [k \in Positions |->
                       IF queue[k].enabled
                       THEN [queue[k] EXCEPT !.status = "Queued"]
                       ELSE queue[k]]
        /\ phase' = "Running" /\ UNCHANGED overlay
    BY <1>4 DEF StartKey
  <2>2. phase = "Idle" /\ \A k \in Positions : queue[k].enabled => queue[k].status \in CanStart
    BY <1>4 DEF Startable
  <2>3. /\ queue \in Seq(Row) /\ Len(queue) \in Nat
        /\ DOMAIN queue = 1 .. Len(queue) /\ Positions = DOMAIN queue
        /\ \A k \in DOMAIN queue :
              queue[k] \in Row /\ queue[k].id \in Ids /\ queue[k].status \in ItemStatuses
    BY QueueFacts DEF IInv
  <2>4. /\ ids \in Seq(Ids) /\ Len(ids) \in Nat
        /\ DOMAIN ids = 1 .. Len(ids)
        /\ \A i, j \in DOMAIN ids : i < j => ids[i] < ids[j]
        /\ \A j \in DOMAIN ids : \E k \in DOMAIN queue :
              /\ queue[k].id = ids[j] /\ queue[k].enabled
              /\ queue[k].status \in CanStart
        /\ \A k \in DOMAIN queue :
              queue[k].enabled => \E j \in DOMAIN ids : ids[j] = queue[k].id
    BY <1>4, EnabledFacts
  <2> HIDE DEF ids
  <2>5. started \in Nat /\ b \in Batches /\ b # 0 /\ Batches \subseteq Nat
    <3>1. started \in 0 .. MaxBatches
      BY DEF IInv, TypeOK
    <3> QED
      BY <2>1, <3>1, NumberFacts DEF Batches
  <2>6. /\ DOMAIN queue' = DOMAIN queue
        /\ \A k \in DOMAIN queue :
             /\ queue'[k] \in Row /\ queue'[k].id = queue[k].id
             /\ queue'[k].file = queue[k].file /\ queue'[k].enabled = queue[k].enabled
             /\ queue'[k].media = queue[k].media
             /\ queue'[k].status = IF queue[k].enabled THEN "Queued" ELSE queue[k].status
    BY <2>1, <2>3 DEF Row, ItemStatuses, FileStatuses
  <2>7. queue' \in Seq(Row)
    <3>1. queue' \in [1 .. Len(queue) -> Row]
      BY <2>1, <2>3, <2>6
    <3> QED
      BY <2>3, <3>1
  <2>8. /\ live'[b] = "Running" /\ \A a \in Batches : a # b => live'[a] = live[a]
        /\ live' \in [Batches -> {"None", "Running", "Returned", "Failed", "Reported", "Lost"}]
        /\ live[b] = "None"
    <3>1. started < b
      BY <2>5
    <3>2. live[b] = "None"
      BY <2>5, <3>1 DEF IInv, LastBatch
    <3> QED
      BY <2>1, <2>5, <3>2 DEF IInv, TypeOK
  <2>9. /\ files'[b] = [k \in DOMAIN ids |-> "Queued"]
        /\ \A a \in Batches : a # b => files'[a] = files[a]
        /\ Len(files'[b]) = Len(ids)
        /\ files' \in [Batches -> Seq(FileStatuses)]
    <3>1. [k \in DOMAIN ids |-> "Queued"] \in [1 .. Len(ids) -> FileStatuses]
      BY <2>4 DEF FileStatuses
    <3>2. /\ [k \in DOMAIN ids |-> "Queued"] \in Seq(FileStatuses)
          /\ Len([k \in DOMAIN ids |-> "Queued"]) = Len(ids)
      BY <2>4, <3>1
    <3> QED
      BY <2>1, <2>5, <3>2 DEF IInv, TypeOK
  <2>10. \A id : Asked(id)' <=> Asked(id)
    BY <1>1 DEF Asked
  <2>11. Probes'
    BY <1>1, <2>10 DEF IInv, Probes
  <2>12. Rows'
    <3>1. \A k \in DOMAIN queue :
            /\ queue[k].enabled => queue[k].status # "Probing"
            /\ queue[k].status = "Probing" <=>
                 Asked(queue[k].id) \/ queue[k].id \in panicked
      BY <2>2, <2>3 DEF CanStart, IInv, Rows
    <3>2. \A k \in DOMAIN queue :
            /\ queue'[k].id < nextId'
            /\ queue'[k].status = "Probing" => queue[k].status = "Probing"
            /\ queue[k].status = "Probing" => queue'[k].status = "Probing"
      BY <1>1, <2>6, <3>1 DEF IInv, Rows
    <3>3. \A k \in DOMAIN queue' :
            /\ queue'[k].id < nextId'
            /\ queue'[k].status = "Probing" <=>
                 (Asked(queue[k].id) \/ queue[k].id \in panicked)'
            /\ queue'[k].status = "Probing" => ~queue'[k].media
      BY <1>1, <2>6, <2>10, <3>1, <3>2 DEF IInv, Rows
    <3> QED
      BY <2>6, <3>3 DEF IInv, Rows
  <2>13. Reports'
    BY <1>1, <2>2 DEF IInv, Reports
  <2>14. LastBatch'
    <3>1. \A a \in Batches : a < started' => live'[a] \in {"Reported", "Lost"}
      BY <2>1, <2>2, <2>5, <2>8 DEF IInv, LastBatch
    <3>2. \A a \in Batches : a > started' => live'[a] = "None"
      BY <2>1, <2>5, <2>8 DEF IInv, LastBatch
    <3>3. \A a \in Batches : live'[a] \in {"Returned", "Reported"} =>
            \A k \in DOMAIN files'[a] : files'[a][k] \in Terminal
      BY <2>8, <2>9 DEF IInv, LastBatch
    <3>4. /\ started' # 0 /\ holder' = started' /\ live'[started'] # "None"
          /\ Len(active') = Len(files'[started'])
      BY <2>1, <2>5, <2>8, <2>9
    <3>5. \A j \in DOMAIN active' : \E k \in DOMAIN queue' :
            /\ queue'[k].id = active'[j] /\ queue'[k].enabled
            /\ queue'[k].status # "Probing"
      BY <2>1, <2>4, <2>6
    <3> QED
      BY <1>1, <2>1, <2>4, <3>1, <3>2, <3>3, <3>4, <3>5 DEF LastBatch
  <2>15. RowsAtWork'
    <3> SUFFICES ASSUME \A a \in Batches : live'[a] # "Lost", NEW k \in DOMAIN queue',
                        queue'[k].status \in {"Queued", "Preparing", "Running"}
                 PROVE  \E j \in DOMAIN active' : active'[j] = queue'[k].id
      BY DEF RowsAtWork
    <3>1. \A a \in Batches : live[a] # "Lost"
      BY <2>8
    <3>2. active = <<>>
      BY <2>2 DEF IInv, LastBatch
    <3>3. queue[k].enabled
      BY <2>6, <3>1, <3>2 DEF IInv, RowsAtWork
    <3> QED
      BY <2>1, <2>4, <2>6, <3>3
  <2>16. TypeOK'
    <3>1. holder' \in 0 .. MaxBatches /\ started' \in 0 .. MaxBatches
      BY <2>1, <2>5, NumberFacts DEF Batches
    <3>2. active' \in Seq(Ids) /\ phase' \in Phases /\ fresh' \subseteq Batches
      BY <2>1, <2>4, <2>5 DEF IInv, TypeOK, Phases
    <3> QED
      BY <1>1, <2>1, <2>7, <2>8, <2>9, <3>1, <3>2 DEF IInv, TypeOK, Row
  <2> QED
    BY <2>11, <2>12, <2>13, <2>14, <2>15, <2>16 DEF IInv
<1> QED
  BY <1>3, <1>4

(* New probes for identifiers nobody asked for.                            *)
LEMMA SpawnFacts ==
  ASSUME IInv, NEW S \in SUBSET Ids, SpawnProbes(S), UNCHANGED panicked,
         nextId' \in Nat, nextId' >= nextId,
         \A id \in S : ~Asked(id) /\ id \notin panicked /\ id < nextId',
         \/ UNCHANGED inbox
         \/ \E t : t # "Probed" /\ Receive(t)
  PROVE  /\ Probes' /\ probing' \in [Ids -> {"None", "Waiting", "Probing"}]
         /\ \A id \in Ids : Asked(id)' <=> Asked(id) \/ id \in S
<1> DEFINE Unhandled(id) == \E n \in DOMAIN inbox :
                           inbox[n].type = "Probed" /\ inbox[n].id = id
<1>1. /\ probing \in [Ids -> {"None", "Waiting", "Probing"}]
      /\ probing' = [id \in Ids |-> IF id \in S THEN "Waiting" ELSE probing[id]]
  BY DEF IInv, TypeOK, SpawnProbes
<1>2. /\ \A id : Unhandled(id)' <=> Unhandled(id)
      /\ \A m, n \in DOMAIN inbox' :
           /\ inbox'[m].type = "Probed" /\ inbox'[n].type = "Probed"
           /\ inbox'[m].id = inbox'[n].id
           => m = n
      /\ \A n \in DOMAIN inbox' :
           inbox'[n].type = "Probed" => inbox'[n].id \in Ids
  <2>1. CASE UNCHANGED inbox
    BY <2>1, InboxFacts DEF IInv, Probes
  <2>2. CASE \E t : t # "Probed" /\ Receive(t)
    <3>1. PICK t : t # "Probed" /\ Receive(t)
      BY <2>2
    <3>2. /\ inbox[1].type = t
          /\ \A n \in DOMAIN inbox' :
               n + 1 \in DOMAIN inbox /\ inbox'[n] = inbox[n + 1]
          /\ \A n \in DOMAIN inbox :
               n # 1 => n - 1 \in DOMAIN inbox' /\ inbox'[n - 1] = inbox[n]
          /\ DOMAIN inbox \subseteq Nat /\ DOMAIN inbox' \subseteq Nat
      BY <3>1, ReceiveFacts DEF IInv
    <3>3. ASSUME NEW id
          PROVE  Unhandled(id)' <=> Unhandled(id)
      <4>1. Unhandled(id)' => Unhandled(id)
        BY <3>2
      <4>2. ASSUME NEW n \in DOMAIN inbox, inbox[n].type = "Probed", inbox[n].id = id
            PROVE  Unhandled(id)'
        <5>1. n # 1
          BY <3>1, <3>2, <4>2
        <5> QED
          BY <3>2, <4>2, <5>1
      <4> QED
        BY <4>1, <4>2
    <3>4. ASSUME NEW m \in DOMAIN inbox', NEW n \in DOMAIN inbox',
                 inbox'[m].type = "Probed", inbox'[n].type = "Probed",
                 inbox'[m].id = inbox'[n].id
          PROVE  m = n
      <4>1. m + 1 = n + 1
        BY <3>2, <3>4 DEF IInv, Probes
      <4>2. m \in Nat /\ n \in Nat
        BY <3>2
      <4> QED
        BY <4>1, <4>2
    <3>5. \A n \in DOMAIN inbox' :
            inbox'[n].type = "Probed" => inbox'[n].id \in Ids
      BY <3>2, InboxFacts DEF IInv
    <3> QED
      BY <3>3, <3>4, <3>5
  <2> QED
    BY <2>1, <2>2
<1>3. \A id \in Ids : Asked(id) <=> probing[id] # "None" \/ Unhandled(id)
  BY DEF Asked
<1>4. \A id \in Ids : Asked(id)' <=> probing'[id] # "None" \/ Unhandled(id)'
  BY DEF Asked
<1> HIDE DEF Unhandled
<1>5. ASSUME NEW id \in Ids
      PROVE  Asked(id)' <=> Asked(id) \/ id \in S
  BY <1>1, <1>2, <1>3, <1>4
<1>6. ASSUME NEW id \in Ids, (Asked(id) \/ id \in panicked)'
      PROVE  id < nextId'
  <2>1. nextId \in Nat /\ id \in Nat
    BY NumberFacts DEF IInv, TypeOK
  <2>2. Asked(id) \/ id \in panicked => id < nextId
    BY DEF IInv, Probes
  <2> QED
    BY <1>5, <1>6, <2>1, <2>2
<1>7. \A id \in panicked' : ~Asked(id)'
  BY <1>5 DEF IInv, Probes, TypeOK
<1>8. ASSUME NEW n \in DOMAIN inbox', inbox'[n].type = "Probed",
             NEW id \in Ids, inbox'[n].id = id
      PROVE  probing'[id] = "None"
  <2>1. Unhandled(id)'
    BY <1>8 DEF Unhandled
  <2>2. Unhandled(id)
    BY <1>2, <2>1
  <2>3. probing[id] = "None"
    BY <2>2 DEF Unhandled, IInv, Probes
  <2>4. id \notin S
    BY <1>3, <2>2
  <2> QED
    BY <1>1, <2>3, <2>4
<1>9. Probes'
  BY <1>2, <1>6, <1>7, <1>8 DEF Probes
<1> QED
  BY <1>1, <1>5, <1>9

LEMMA PlansFacts ==
  /\ "Ready" \in ItemStatuses /\ "Failed" \in ItemStatuses
  /\ \A p \in Plans : p \in {"Ready", "Failed"}
BY TuiAssumption DEF TuiAssumption, ItemStatuses, FileStatuses, Terminal

LEMMA RetriedFacts ==
  ASSUME NEW row \in Row
  PROVE  /\ Retried(row) \in Row /\ Retried(row).id = row.id
         /\ Retried(row).file = row.file /\ Retried(row).media = row.media
         /\ ~row.media => Retried(row).status =
               (IF Again(row) THEN "Probing" ELSE row.status)
<1>1. CASE Again(row)
  <2> DEFINE s == IF row.media THEN "Ready" ELSE "Probing"
  <2>1. Retried(row) = [row EXCEPT !.enabled = TRUE, !.status = s]
    BY <1>1 DEF Retried
  <2>2. s \in ItemStatuses /\ (~row.media => s = "Probing")
    BY DEF ItemStatuses, FileStatuses
  <2> HIDE DEF s
  <2> QED
    BY <1>1, <2>1, <2>2 DEF Row
<1>2. CASE ~Again(row)
  BY <1>2 DEF Retried
<1> QED
  BY <1>1, <1>2

LEMMA RetryKeyInv == ASSUME IInv, RetryKey PROVE IInv'
<1>1. /\ UNCHANGED <<inbox, phase, overlay, nextId, active, app, holder, input, searching,
                     panicked, unjoined, runs>>
      /\ phase = "Idle"
  BY DEF RetryKey, Key
<1> DEFINE retried == [k \in Positions |-> Retried(queue[k])]
           ids == {queue[k].id : k \in {j \in Positions : Again(queue[j]) /\ ~queue[j].media}}
<1>2. PICK plan \in [Positions -> Plans] :
        queue' = Rebuilt(retried, plan) /\ SpawnProbes(ids)
  BY DEF RetryKey
<1>3. /\ queue \in Seq(Row) /\ Len(queue) \in Nat
      /\ DOMAIN queue = 1 .. Len(queue) /\ Positions = DOMAIN queue
      /\ \A k \in DOMAIN queue :
            /\ queue[k] \in Row /\ queue[k].id \in Ids /\ queue[k].id \in Nat
            /\ queue[k].status \in ItemStatuses /\ queue[k].media \in BOOLEAN
  BY QueueFacts DEF IInv
<1>4. \A k \in DOMAIN queue : plan[k] \in {"Ready", "Failed"}
  BY <1>3, PlansFacts
<1>5. /\ DOMAIN retried = DOMAIN queue
      /\ \A k \in DOMAIN queue :
           /\ retried[k] \in Row /\ retried[k].id = queue[k].id
           /\ retried[k].file = queue[k].file /\ retried[k].media = queue[k].media
           /\ ~queue[k].media => retried[k].status =
                (IF Again(queue[k]) THEN "Probing" ELSE queue[k].status)
  BY <1>3, RetriedFacts
<1> HIDE DEF retried
<1>6. /\ DOMAIN queue' = DOMAIN queue
      /\ \A k \in DOMAIN queue :
           /\ queue'[k] \in Row /\ queue'[k].id = queue[k].id
           /\ queue'[k].file = queue[k].file /\ queue'[k].media = queue[k].media
           /\ queue'[k].status =
                IF queue[k].media THEN plan[k]
                ELSE IF Again(queue[k]) THEN "Probing" ELSE queue[k].status
  BY <1>2, <1>3, <1>4, <1>5, PlansFacts DEF Rebuilt, Row
<1>7. queue' \in Seq(Row)
  <2>1. queue' \in [1 .. Len(queue) -> Row]
    BY <1>2, <1>3, <1>5, <1>6 DEF Rebuilt
  <2> QED
    BY <1>3, <2>1
<1>8. nextId \in Nat
  BY NumberFacts DEF IInv, TypeOK
<1>9. ids \in SUBSET Ids /\ \A id \in ids : ~Asked(id) /\ id \notin panicked /\ id < nextId
  <2> SUFFICES ASSUME NEW k \in DOMAIN queue, Again(queue[k]), ~queue[k].media
               PROVE  /\ queue[k].id \in Ids /\ ~Asked(queue[k].id)
                      /\ queue[k].id \notin panicked /\ queue[k].id < nextId
    BY <1>3
  <2>1. queue[k].status # "Probing"
    BY DEF Again
  <2> QED
    BY <1>3, <2>1 DEF IInv, Rows, Again
<1>10. \A k \in DOMAIN queue : queue[k].id \in ids <=> Again(queue[k]) /\ ~queue[k].media
  <2> SUFFICES ASSUME NEW k \in DOMAIN queue, NEW j \in DOMAIN queue,
                      queue[k].id = queue[j].id
               PROVE  k = j
    BY <1>3
  <2>1. k \in Nat /\ j \in Nat /\ (k < j \/ j < k \/ k = j)
    BY <1>3
  <2>2. ~(queue[k].id < queue[k].id) /\ ~(queue[k].id < queue[j].id) /\ ~(queue[j].id < queue[k].id)
    BY <1>3
  <2> QED
    BY <2>1, <2>2 DEF IInv, Rows
<1> HIDE DEF ids
<1>11. /\ Probes' /\ probing' \in [Ids -> {"None", "Waiting", "Probing"}]
       /\ \A id \in Ids : Asked(id)' <=> Asked(id) \/ id \in ids
  BY <1>1, <1>2, <1>8, <1>9, SpawnFacts
<1>12. Rows'
  <2>1. ASSUME NEW k \in DOMAIN queue, NEW id \in Ids, queue[k].id = id
        PROVE  /\ id < nextId'
               /\ queue'[k].status = "Probing" <=> Asked(id)' \/ id \in panicked'
               /\ queue'[k].status = "Probing" => ~queue'[k].media
    <3>1. /\ queue[k].status = "Probing" <=> Asked(id) \/ id \in panicked
          /\ queue[k].status = "Probing" => ~queue[k].media
          /\ id < nextId
      BY <2>1 DEF IInv, Rows
    <3>2. Asked(id)' <=> Asked(id) \/ (Again(queue[k]) /\ ~queue[k].media)
      BY <1>10, <1>11, <2>1
    <3>3. CASE queue[k].media
      BY <1>1, <1>4, <1>6, <3>1, <3>2, <3>3
    <3>4. CASE ~queue[k].media
      BY <1>1, <1>6, <3>1, <3>2, <3>4
    <3> QED
      BY <3>3, <3>4
  <2> QED
    BY <1>3, <1>6, <2>1 DEF IInv, Rows
<1>13. Reports'
  BY <1>1 DEF IInv, Reports
<1>14. LastBatch'
  BY <1>1 DEF IInv, LastBatch
<1>15. RowsAtWork'
  BY <1>1, <1>4, <1>6 DEF IInv, RowsAtWork
<1>16. TypeOK'
  BY <1>1, <1>7, <1>11 DEF IInv, TypeOK, Row
<1> QED
  BY <1>11, <1>12, <1>13, <1>14, <1>15, <1>16 DEF IInv

LEMMA RemoveAtFacts ==
  ASSUME NEW s \in Seq(Row), NEW k \in DOMAIN s
  PROVE  LET was(n) == IF n < k THEN n ELSE n + 1 IN
         /\ RemoveAt(s, k) \in Seq(Row)
         /\ DOMAIN RemoveAt(s, k) \subseteq Nat
         /\ \A n \in DOMAIN RemoveAt(s, k) :
               was(n) \in DOMAIN s /\ RemoveAt(s, k)[n] = s[was(n)]
<1> DEFINE front == SubSeq(s, 1, k - 1)
           back  == SubSeq(s, k + 1, Len(s))
<1>1. Len(s) \in Nat /\ DOMAIN s = 1 .. Len(s) /\ k \in 1 .. Len(s)
  OBVIOUS
<1>2. \A i \in 1 .. Len(s) : s[i] \in Row
  OBVIOUS
<1>3. /\ front \in Seq(Row) /\ Len(front) = k - 1
      /\ \A i \in 1 .. k - 1 : front[i] = s[i]
  <2>1. 1 \in Int /\ k - 1 \in Int /\ \A i \in 1 .. k - 1 : s[i] \in Row
    BY <1>1, <1>2
  <2>2. /\ SubSeq(s, 1, k - 1) \in Seq(Row)
        /\ Len(SubSeq(s, 1, k - 1)) = IF 1 <= k - 1 THEN (k - 1) - 1 + 1 ELSE 0
        /\ \A i \in 1 .. ((k - 1) - 1 + 1) : SubSeq(s, 1, k - 1)[i] = s[1 + i - 1]
    BY <2>1, SubSeqProperties
  <2>3. Len(SubSeq(s, 1, k - 1)) = k - 1
    BY <1>1, <2>2
  <2>4. \A i \in 1 .. k - 1 : i \in 1 .. ((k - 1) - 1 + 1) /\ 1 + i - 1 = i
    BY <1>1
  <2> QED
    BY <2>2, <2>3, <2>4
<1>4. /\ back \in Seq(Row) /\ Len(back) = Len(s) - k
      /\ \A i \in 1 .. Len(s) - k : back[i] = s[k + i]
  <2>1. k + 1 \in Int /\ Len(s) \in Int /\ \A i \in k + 1 .. Len(s) : s[i] \in Row
    BY <1>1, <1>2
  <2>2. /\ SubSeq(s, k + 1, Len(s)) \in Seq(Row)
        /\ Len(SubSeq(s, k + 1, Len(s))) = IF k + 1 <= Len(s) THEN Len(s) - (k + 1) + 1 ELSE 0
        /\ \A i \in 1 .. (Len(s) - (k + 1) + 1) :
             SubSeq(s, k + 1, Len(s))[i] = s[(k + 1) + i - 1]
    BY <2>1, SubSeqProperties
  <2> QED
    BY <1>1, <2>2
<1>5. RemoveAt(s, k) = front \o back
  BY DEF RemoveAt
<1> HIDE DEF front, back
<1>6. /\ front \o back \in Seq(Row)
      /\ Len(front \o back) = Len(s) - 1
      /\ \A i \in 1 .. Len(s) - 1 :
           (front \o back)[i] = IF i <= k - 1 THEN front[i] ELSE back[i - (k - 1)]
  <2>1. /\ front \o back \in Seq(Row)
        /\ Len(front \o back) = Len(front) + Len(back)
        /\ \A i \in 1 .. Len(front) + Len(back) :
             (front \o back)[i] = IF i <= Len(front) THEN front[i] ELSE back[i - Len(front)]
    BY <1>3, <1>4, ConcatProperties
  <2>2. Len(front) + Len(back) = Len(s) - 1
    BY <1>1, <1>3, <1>4
  <2> QED
    BY <1>3, <2>1, <2>2
<1> DEFINE q == front \o back
<1>7. DOMAIN q = 1 .. Len(s) - 1
  BY <1>6
<1> HIDE DEF q
<1>8. ASSUME NEW n \in 1 .. Len(s) - 1
      PROVE  LET was == IF n < k THEN n ELSE n + 1
             IN was \in DOMAIN s /\ q[n] = s[was]
  <2>1. CASE n < k
    BY <1>1, <1>3, <1>6, <2>1 DEF q
  <2>2. CASE ~(n < k)
    <3>1. n - (k - 1) \in 1 .. Len(s) - k /\ ~(n <= k - 1) /\ k + (n - (k - 1)) = n + 1
      BY <1>1, <2>2
    <3>2. q[n] = s[n + 1]
      BY <1>4, <1>6, <3>1 DEF q
    <3> QED
      BY <1>1, <2>2, <3>2
  <2> QED
    BY <2>1, <2>2
<1>9. RemoveAt(s, k) = q /\ q \in Seq(Row)
  BY <1>5, <1>6 DEF q
<1>10. DOMAIN q \subseteq Nat
  BY <1>7
<1> QED
  BY <1>7, <1>8, <1>9, <1>10

LEMMA EditKeyInv == ASSUME IInv, EditKey PROVE IInv'
<1>1. /\ UNCHANGED <<inbox, phase, overlay, nextId, active, app, holder, input, tasks, runs>>
      /\ phase = "Idle"
  BY DEF EditKey, Key
<1>2. /\ queue \in Seq(Row) /\ Len(queue) \in Nat
      /\ DOMAIN queue = 1 .. Len(queue) /\ Positions = DOMAIN queue
      /\ \A k \in DOMAIN queue :
            /\ queue[k] \in Row /\ queue[k].id \in Ids /\ queue[k].id \in Nat
            /\ queue[k].status \in ItemStatuses /\ queue[k].media \in BOOLEAN
  BY QueueFacts DEF IInv
<1>3. Probes' /\ Reports' /\ \A id : Asked(id)' <=> Asked(id)
  BY <1>1, MailKept
<1>4. LastBatch'
  BY <1>1 DEF IInv, LastBatch
<1>5. CASE \E k \in Positions : queue' = RemoveAt(queue, k)
  <2>1. PICK k \in DOMAIN queue : queue' = RemoveAt(queue, k)
    BY <1>2, <1>5
  <2> DEFINE was(n) == IF n < k THEN n ELSE n + 1
  <2>2. /\ queue' \in Seq(Row) /\ DOMAIN queue' \subseteq Nat
        /\ \A n \in DOMAIN queue' : was(n) \in DOMAIN queue /\ queue'[n] = queue[was(n)]
    BY <1>2, <2>1, RemoveAtFacts
  <2>3. k \in Nat
    BY <1>2
  <2>4. \A m, n \in DOMAIN queue' : m < n => was(m) < was(n)
    BY <2>2, <2>3
  <2>5. \A m, n \in DOMAIN queue' : m # n => was(m) # was(n)
    BY <2>2, <2>3
  <2> HIDE DEF was
  <2>6. Rows'
    <3>1. ASSUME NEW n \in DOMAIN queue', NEW id \in Ids, queue'[n].id = id
          PROVE  /\ id < nextId'
                 /\ queue'[n].status = "Probing" <=> Asked(id)' \/ id \in panicked'
                 /\ queue'[n].status = "Probing" => ~queue'[n].media
      BY <1>1, <1>3, <2>2, <3>1 DEF IInv, Rows
    <3>2. /\ \A m, n \in DOMAIN queue' : m < n => queue'[m].id < queue'[n].id
          /\ \A m, n \in DOMAIN queue' : m # n => queue'[m].file # queue'[n].file
      BY <2>2, <2>4, <2>5 DEF IInv, Rows
    <3>3. \A n \in DOMAIN queue' : queue'[n].id \in Ids
      BY <1>2, <2>2
    <3> QED
      BY <3>1, <3>2, <3>3 DEF Rows
  <2>7. RowsAtWork'
    BY <1>1, <2>2 DEF IInv, RowsAtWork
  <2>8. TypeOK'
    BY <1>1, <2>2 DEF IInv, TypeOK, Row
  <2> QED
    BY <1>3, <1>4, <2>6, <2>7, <2>8 DEF IInv
<1>6. ASSUME queue' \in Seq(Row), DOMAIN queue' = DOMAIN queue,
             \A k \in DOMAIN queue :
               /\ queue'[k].id = queue[k].id /\ queue'[k].file = queue[k].file
               /\ queue'[k].media = queue[k].media
               /\ \/ queue'[k].status = queue[k].status
                  \/ queue[k].media /\ queue'[k].status \in {"Ready", "Failed"}
      PROVE  IInv'
  <2>1. Rows'
    <3>1. ASSUME NEW k \in DOMAIN queue', NEW id \in Ids, queue'[k].id = id
          PROVE  /\ id < nextId'
                 /\ queue'[k].status = "Probing" <=> Asked(id)' \/ id \in panicked'
                 /\ queue'[k].status = "Probing" => ~queue'[k].media
      <4>1. /\ queue[k].status = "Probing" <=> Asked(id) \/ id \in panicked
            /\ queue[k].status = "Probing" => ~queue[k].media
            /\ id < nextId
        BY <1>6, <3>1 DEF IInv, Rows
      <4>2. queue'[k].status = queue[k].status
            \/ (queue[k].media /\ queue'[k].status # "Probing")
        BY <1>6
      <4> QED
        BY <1>1, <1>3, <1>6, <4>1, <4>2
    <3>2. \A k \in DOMAIN queue' : queue'[k].id \in Ids
      BY <1>2, <1>6
    <3> QED
      BY <1>6, <3>1, <3>2 DEF IInv, Rows
  <2>2. RowsAtWork'
    BY <1>1, <1>6 DEF IInv, RowsAtWork
  <2>3. TypeOK'
    BY <1>1, <1>6 DEF IInv, TypeOK, Row
  <2> QED
    BY <1>3, <1>4, <2>1, <2>2, <2>3 DEF IInv
<1>7. CASE \E k \in Positions : queue' = [queue EXCEPT ![k].enabled = ~ @]
  <2>1. PICK k \in DOMAIN queue : queue' = [queue EXCEPT ![k].enabled = ~ @]
    BY <1>2, <1>7
  <2> DEFINE row == [queue[k] EXCEPT !.enabled = ~ @]
  <2>2. queue' = [queue EXCEPT ![k] = row]
    BY <2>1
  <2>3. /\ row \in Row /\ row.id = queue[k].id /\ row.file = queue[k].file
        /\ row.media = queue[k].media /\ row.status = queue[k].status
    BY <1>2 DEF Row
  <2> HIDE DEF row
  <2>4. queue' \in Seq(Row) /\ DOMAIN queue' = DOMAIN queue
    BY <1>2, <2>2, <2>3
  <2>5. \A j \in DOMAIN queue : queue'[j] = IF j = k THEN row ELSE queue[j]
    BY <2>2
  <2> QED
    BY <1>6, <2>3, <2>4, <2>5
<1>8. CASE \E plan \in [Positions -> Plans] : queue' = Rebuilt(queue, plan)
  <2>1. PICK plan \in [Positions -> Plans] : queue' = Rebuilt(queue, plan)
    BY <1>8
  <2>2. \A k \in DOMAIN queue : plan[k] \in {"Ready", "Failed"} /\ plan[k] \in ItemStatuses
    BY <1>2, PlansFacts
  <2>3. /\ DOMAIN queue' = DOMAIN queue
        /\ \A k \in DOMAIN queue :
             queue'[k] = IF queue[k].media
                         THEN [queue[k] EXCEPT !.status = plan[k]] ELSE queue[k]
    BY <2>1 DEF Rebuilt
  <2>4. ASSUME NEW k \in DOMAIN queue
        PROVE  /\ queue'[k] \in Row
               /\ queue'[k].id = queue[k].id /\ queue'[k].file = queue[k].file
               /\ queue'[k].media = queue[k].media
               /\ \/ queue'[k].status = queue[k].status
                  \/ queue[k].media /\ queue'[k].status \in {"Ready", "Failed"}
    <3>1. CASE queue[k].media
      BY <1>2, <2>2, <2>3, <3>1 DEF Row
    <3>2. CASE ~queue[k].media
      BY <1>2, <2>3, <3>2
    <3> QED
      BY <3>1, <3>2
  <2>5. queue' \in Seq(Row)
    <3>1. queue' \in [1 .. Len(queue) -> Row]
      BY <1>2, <2>1, <2>3, <2>4 DEF Rebuilt
    <3> QED
      BY <1>2, <3>1
  <2> QED
    BY <1>6, <2>3, <2>4, <2>5
<1> QED
  BY <1>5, <1>7, <1>8 DEF EditKey

-----------------------------------------------------------------------------
(* Answers.                                                                *)

(* The files found become rows at the end, with identifiers of their own.  *)
LEMMA OnDiscoveredInv == ASSUME IInv, OnDiscovered PROVE IInv'
<1>1. /\ Receive("Discovered")
      /\ UNCHANGED <<phase, active, app, holder, input, searching, panicked, unjoined, runs>>
  BY DEF OnDiscovered
<1>2. /\ inbox' \in Seq(Texts) /\ Len(inbox') <= Capacity /\ app = "Looping"
  BY <1>1, ReceiveFacts DEF IInv
<1>3. nextId \in 0 .. MaxIds /\ nextId \in Nat /\ MaxIds \in Nat
  BY NumberFacts DEF IInv, TypeOK
<1>4. Reports'
  BY <1>1, ReportsReceived
<1>5. CASE overlay' = "Message" /\ UNCHANGED <<queue, nextId, probing>>
  <2>1. Probes' /\ \A id : Asked(id)' <=> Asked(id)
    BY <1>1, <1>3, <1>5, OthersReceived
  <2>2. Rows'
    BY <1>1, <1>3, <1>5, <2>1, RowsKept
  <2>3. LastBatch' /\ RowsAtWork'
    BY <1>1, <1>5 DEF IInv, LastBatch, RowsAtWork
  <2>4. TypeOK'
    BY <1>1, <1>2, <1>5 DEF IInv, TypeOK, Overlays
  <2> QED
    BY <1>4, <2>1, <2>2, <2>3, <2>4 DEF IInv
<1>6. ASSUME NEW found \in SUBSET Files, NEW new \in SetToSeqs(found \ Known),
             NEW item,
             item = [k \in DOMAIN new |->
                 [id |-> nextId + k - 1, file |-> new[k], enabled |-> TRUE,
                  status |-> "Probing", media |-> FALSE]],
             nextId + Len(new) <= MaxIds, nextId' = nextId + Len(new),
             queue' = queue \o item, UNCHANGED overlay,
             SpawnProbes({item[k].id : k \in DOMAIN item})
      PROVE  IInv'
  <2>1. /\ queue \in Seq(Row) /\ Len(queue) \in Nat /\ DOMAIN queue = 1 .. Len(queue)
        /\ \A k \in DOMAIN queue :
             queue[k] \in Row /\ queue[k].id \in Ids /\ queue[k].id \in Nat
    BY QueueFacts DEF IInv
  <2>2. /\ new \in Seq(found \ Known) /\ Len(new) \in Nat /\ DOMAIN new = 1 .. Len(new)
        /\ \A j, k \in DOMAIN new : j # k => new[j] # new[k]
    <3>1. IsFiniteSet(found \ Known)
      <4>1. IsFiniteSet(Files) /\ found \ Known \in SUBSET Files
        BY TuiAssumption DEF TuiAssumption
      <4> QED
        BY <4>1, FS_Subset
    <3>2. Cardinality(found \ Known) \in Nat
      BY <3>1, FS_CardinalityType
    <3>3. /\ new \in [1 .. Cardinality(found \ Known) -> found \ Known]
          /\ \A j, k \in DOMAIN new : j # k => new[j] # new[k]
      BY <1>6 DEF SetToSeqs
    <3> DEFINE T == found \ Known
               n == Cardinality(found \ Known)
    <3>4. new \in [1 .. n -> T] /\ n \in Nat
      BY <3>2, <3>3
    <3> HIDE DEF T, n
    <3>5. new \in Seq(T) /\ Len(new) \in Nat /\ DOMAIN new = 1 .. Len(new)
      BY <3>4
    <3> QED
      BY <3>3, <3>5 DEF T
  <2>3. /\ DOMAIN item = DOMAIN new /\ item \in Seq(Row) /\ Len(item) = Len(new)
        /\ \A k \in DOMAIN new :
             /\ item[k].id = nextId + k - 1 /\ item[k].id \in Ids
             /\ item[k].file = new[k] /\ item[k].status = "Probing"
             /\ item[k].media = FALSE
    <3>1. ASSUME NEW k \in DOMAIN new
          PROVE  /\ item[k] \in Row
                 /\ item[k].id = nextId + k - 1 /\ item[k].id \in Ids
                 /\ item[k].file = new[k] /\ item[k].status = "Probing"
                 /\ item[k].media = FALSE
      <4>1. item[k] = [id |-> nextId + k - 1, file |-> new[k], enabled |-> TRUE,
                       status |-> "Probing", media |-> FALSE]
        BY <1>6
      <4>2. nextId + k - 1 \in Ids /\ new[k] \in Files
        <5>1. nextId + k - 1 \in Nat /\ nextId + k - 1 < MaxIds
          BY <1>3, <1>6, <2>2
        <5> QED
          BY <2>2, <5>1, NumberFacts
      <4> QED
        BY <4>1, <4>2 DEF Row, ItemStatuses
    <3>2. item \in [1 .. Len(new) -> Row]
      BY <1>6, <2>2, <3>1
    <3>3. item \in Seq(Row) /\ Len(item) = Len(new) /\ DOMAIN item = DOMAIN new
      BY <2>2, <3>2
    <3> QED
      BY <3>1, <3>3
  <2>4. /\ queue' \in Seq(Row) /\ DOMAIN queue' = 1 .. Len(queue) + Len(new)
        /\ \A k \in DOMAIN queue' :
             queue'[k] = IF k <= Len(queue) THEN queue[k] ELSE item[k - Len(queue)]
    <3>1. /\ queue \o item \in Seq(Row)
          /\ Len(queue \o item) = Len(queue) + Len(item)
          /\ \A k \in 1 .. Len(queue) + Len(item) : (queue \o item)[k] =
               IF k <= Len(queue) THEN queue[k] ELSE item[k - Len(queue)]
      <4>1. queue \in Seq(Row) /\ item \in Seq(Row)
        BY <2>1, <2>3
      <4> QED
        BY <4>1, ConcatProperties
    <3>2. DOMAIN (queue \o item) = 1 .. Len(queue) + Len(item)
      BY <3>1
    <3> QED
      BY <1>6, <2>3, <3>1, <3>2
  <2> DEFINE added == {item[k].id : k \in DOMAIN item}
  <2>5. added \in SUBSET Ids /\ \A id \in added : id \in Nat /\ id >= nextId /\ id < nextId'
    <3>1. \A k \in DOMAIN new : nextId + k - 1 >= nextId /\ nextId + k - 1 < nextId + Len(new)
      BY <1>3, <2>2
    <3> QED
      BY <1>6, <2>3, <3>1, NumberFacts
  <2>6. nextId' \in Nat /\ nextId' >= nextId /\ nextId' \in 0 .. MaxIds
    BY <1>3, <1>6, <2>2
  <2>7. \A id \in added : ~Asked(id) /\ id \notin panicked /\ id < nextId'
    <3> SUFFICES ASSUME NEW id \in added, Asked(id) \/ id \in panicked
                 PROVE  FALSE
      BY <2>5
    <3>1. id < nextId
      BY <2>5 DEF IInv, Probes
    <3> QED
      BY <1>3, <2>5, <3>1
  <2>8. SpawnProbes(added)
    BY <1>6
  <2>9. \A k \in DOMAIN item : item[k].id \in added
    OBVIOUS
  <2> HIDE DEF added
  <2>10. /\ Probes' /\ probing' \in [Ids -> {"None", "Waiting", "Probing"}]
         /\ \A id \in Ids : Asked(id)' <=> Asked(id) \/ id \in added
    <3>1. \E t : t # "Probed" /\ Receive(t)
      BY <1>1
    <3> QED
      BY <1>1, <2>5, <2>6, <2>7, <2>8, <3>1, SpawnFacts
  <2>11. \A k \in DOMAIN queue' : k \notin DOMAIN queue =>
            k - Len(queue) \in DOMAIN new /\ queue'[k] = item[k - Len(queue)]
    BY <2>1, <2>2, <2>4
  <2>12. \A k \in DOMAIN queue : k \in DOMAIN queue' /\ queue'[k] = queue[k]
    BY <2>1, <2>2, <2>4
  <2>13. \A k \in DOMAIN queue : queue[k].id < nextId
    BY DEF IInv, Rows
  <2>14. Rows'
    <3>1. ASSUME NEW k \in DOMAIN queue', NEW id \in Ids, queue'[k].id = id
          PROVE  /\ id < nextId'
                 /\ queue'[k].status = "Probing" <=> Asked(id)' \/ id \in panicked'
                 /\ queue'[k].status = "Probing" => ~queue'[k].media
      <4>1. CASE k \in DOMAIN queue
        <5>1. /\ queue[k].status = "Probing" <=> Asked(id) \/ id \in panicked
              /\ queue[k].status = "Probing" => ~queue[k].media
              /\ id < nextId
          BY <2>12, <3>1, <4>1 DEF IInv, Rows
        <5>2. id \notin added /\ id < nextId'
          BY <1>3, <2>5, <2>6, <5>1, NumberFacts
        <5> QED
          BY <1>1, <2>10, <2>12, <4>1, <5>1, <5>2
      <4>2. CASE k \notin DOMAIN queue
        <5>1. id \in added /\ queue'[k].status = "Probing" /\ queue'[k].media = FALSE
          BY <2>3, <2>9, <2>11, <3>1, <4>2
        <5> QED
          BY <2>5, <2>10, <5>1
      <4> QED
        BY <4>1, <4>2
    <3>2. \A k \in DOMAIN queue' : queue'[k].id \in Ids
      BY <2>1, <2>3, <2>11, <2>12
    <3>3. ASSUME NEW j \in DOMAIN queue', NEW k \in DOMAIN queue', j < k
          PROVE  queue'[j].id < queue'[k].id
      <4>1. CASE k \in DOMAIN queue
        <5>1. j \in DOMAIN queue
          BY <2>1, <2>2, <2>4, <3>3, <4>1
        <5> QED
          BY <2>12, <3>3, <4>1, <5>1 DEF IInv, Rows
      <4>2. CASE j \in DOMAIN queue /\ k \notin DOMAIN queue
        <5>1. queue'[j].id \in Nat /\ queue'[j].id < nextId
          BY <2>1, <2>12, <2>13, <4>2
        <5>2. queue'[k].id = nextId + (k - Len(queue)) - 1 /\ k - Len(queue) >= 1
          BY <2>2, <2>3, <2>11, <4>2
        <5>3. k - Len(queue) \in Nat
          BY <2>2, <2>11, <4>2
        <5> QED
          BY <1>3, <5>1, <5>2, <5>3
      <4>3. CASE j \notin DOMAIN queue /\ k \notin DOMAIN queue
        <5>1. /\ queue'[j].id = nextId + (j - Len(queue)) - 1
              /\ queue'[k].id = nextId + (k - Len(queue)) - 1
          BY <2>3, <2>11, <4>3
        <5>2. j \in Nat /\ k \in Nat
          BY <2>1, <2>2, <2>4
        <5> QED
          BY <1>3, <2>1, <3>3, <5>1, <5>2
      <4> QED
        BY <4>1, <4>2, <4>3
    <3>4. ASSUME NEW j \in DOMAIN queue', NEW k \in DOMAIN queue', j # k
          PROVE  queue'[j].file # queue'[k].file
      <4>1. \A i \in DOMAIN queue : queue[i].file \in Known
        BY <2>1 DEF Known, Positions
      <4>2. \A i \in DOMAIN new : new[i] \notin Known
        BY <2>2
      <4>3. CASE j \in DOMAIN queue /\ k \in DOMAIN queue
        BY <2>12, <3>4, <4>3 DEF IInv, Rows
      <4>4. CASE j \in DOMAIN queue /\ k \notin DOMAIN queue
        BY <2>3, <2>11, <2>12, <4>1, <4>2, <4>4
      <4>5. CASE j \notin DOMAIN queue /\ k \in DOMAIN queue
        BY <2>3, <2>11, <2>12, <4>1, <4>2, <4>5
      <4>6. CASE j \notin DOMAIN queue /\ k \notin DOMAIN queue
        <5>1. j - Len(queue) # k - Len(queue)
          BY <2>1, <2>2, <2>4, <3>4
        <5> QED
          BY <2>2, <2>3, <2>11, <4>6, <5>1
      <4> QED
        BY <4>3, <4>4, <4>5, <4>6
    <3> QED
      BY <3>1, <3>2, <3>3, <3>4 DEF Rows
  <2>15. LastBatch'
    BY <1>1, <2>12 DEF IInv, LastBatch
  <2>16. RowsAtWork'
    <3>1. \A k \in DOMAIN queue' : k \notin DOMAIN queue => queue'[k].status = "Probing"
      BY <2>3, <2>11
    <3> QED
      BY <1>1, <2>12, <3>1 DEF IInv, RowsAtWork
  <2>17. TypeOK'
    BY <1>1, <1>2, <1>6, <2>4, <2>6, <2>10 DEF IInv, TypeOK, Row
  <2> QED
    BY <1>4, <2>10, <2>14, <2>15, <2>16, <2>17 DEF IInv
<1>7. \/ overlay' = "Message" /\ UNCHANGED <<queue, nextId, probing>>
      \/ \E found \in SUBSET Files : \E new \in SetToSeqs(found \ Known) :
           LET item == [k \in DOMAIN new |->
                 [id |-> nextId + k - 1, file |-> new[k], enabled |-> TRUE,
                  status |-> "Probing", media |-> FALSE]]
           IN /\ nextId + Len(new) <= MaxIds
              /\ nextId' = nextId + Len(new)
              /\ queue' = queue \o item
              /\ SpawnProbes({item[k].id : k \in DOMAIN item})
              /\ UNCHANGED overlay
  BY DEF OnDiscovered
<1> QED
  BY <1>5, <1>6, <1>7

LEMMA PositionFacts ==
  ASSUME IInv, NEW id \in InQueue
  PROVE  /\ Position(id) \in DOMAIN queue /\ queue[Position(id)].id = id
         /\ \A k \in DOMAIN queue : queue[k].id = id => k = Position(id)
<1>1. /\ DOMAIN queue = 1 .. Len(queue) /\ Len(queue) \in Nat /\ Positions = DOMAIN queue
      /\ \A k \in DOMAIN queue : queue[k].id \in Nat
  BY QueueFacts DEF IInv
<1>2. \E k \in Positions : queue[k].id = id
  BY DEF InQueue
<1>3. Position(id) \in DOMAIN queue /\ queue[Position(id)].id = id
  BY <1>1, <1>2 DEF Position
<1>4. ASSUME NEW j \in DOMAIN queue, NEW k \in DOMAIN queue, queue[j].id = queue[k].id
      PROVE  j = k
  <2>1. j \in Nat /\ k \in Nat /\ (j < k \/ k < j \/ j = k)
    BY <1>1
  <2>2. ~(j < k) /\ ~(k < j)
    BY <1>1, <1>4 DEF IInv, Rows
  <2> QED
    BY <2>1, <2>2
<1> QED
  BY <1>3, <1>4

(* The answer of a probe touches the row it was asked for, and no other.   *)
LEMMA ProbeFacts ==
  ASSUME IInv, OnProbe
  PROVE  \E id \in Ids :
           /\ inbox[1].type = "Probed" /\ inbox[1].id = id /\ 1 \in DOMAIN inbox
           /\ queue' \in Seq(Row) /\ DOMAIN queue' = DOMAIN queue
           /\ \A k \in DOMAIN queue :
                /\ queue'[k].id = queue[k].id /\ queue'[k].file = queue[k].file
                /\ queue'[k].enabled = queue[k].enabled
                /\ queue[k].id # id => queue'[k] = queue[k]
                /\ queue[k].id = id => /\ queue[k].status = "Probing"
                                       /\ queue'[k].status \in {"Ready", "Failed"}
<1>1. Receive("Probed")
  BY DEF OnProbe
<1>2. inbox[1].type = "Probed" /\ 1 \in DOMAIN inbox /\ Head(inbox) = inbox[1]
  BY <1>1, ReceiveFacts DEF IInv
<1>3. PICK id \in Ids : inbox[1].id = id
  BY <1>2, InboxFacts DEF IInv
<1>4. \/ id \notin InQueue /\ UNCHANGED queue
      \/ /\ id \in InQueue
         /\ \/ \E plan \in Plans :
                 queue' = [queue EXCEPT ![Position(id)].media = TRUE,
                                        ![Position(id)].status = plan]
            \/ queue' = [queue EXCEPT ![Position(id)].status = "Failed"]
  BY <1>2, <1>3 DEF OnProbe
<1>5. /\ queue \in Seq(Row) /\ Len(queue) \in Nat /\ Positions = DOMAIN queue
      /\ DOMAIN queue = 1 .. Len(queue)
      /\ \A k \in DOMAIN queue : queue[k] \in Row
  BY QueueFacts DEF IInv
<1>6. CASE id \notin InQueue
  <2>1. \A k \in DOMAIN queue : queue[k].id # id
    BY <1>5, <1>6 DEF InQueue
  <2>2. UNCHANGED queue
    BY <1>4, <1>6
  <2> QED
    BY <1>2, <1>3, <1>5, <2>1, <2>2
<1>7. CASE id \in InQueue
  <2> DEFINE p == Position(id)
  <2>1. /\ p \in DOMAIN queue /\ queue[p].id = id
        /\ \A k \in DOMAIN queue : queue[k].id = id => k = p
    BY <1>7, PositionFacts
  <2>2. queue[p].status = "Probing"
    <3>1. Asked(id)
      BY <1>2, <1>3 DEF Asked
    <3> QED
      BY <2>1, <3>1 DEF IInv, Rows
  <2>3. \E row \in Row :
          /\ queue' = [queue EXCEPT ![p] = row]
          /\ row.id = queue[p].id /\ row.file = queue[p].file
          /\ row.enabled = queue[p].enabled /\ row.status \in {"Ready", "Failed"}
    <3>1. ASSUME NEW plan \in Plans,
                 queue' = [queue EXCEPT ![p].media = TRUE, ![p].status = plan]
          PROVE  \E row \in Row :
                   /\ queue' = [queue EXCEPT ![p] = row]
                   /\ row.id = queue[p].id /\ row.file = queue[p].file
                   /\ row.enabled = queue[p].enabled /\ row.status \in {"Ready", "Failed"}
      <4> DEFINE row == [queue[p] EXCEPT !.media = TRUE, !.status = plan]
      <4>1. queue' = [queue EXCEPT ![p] = row]
        BY <1>5, <2>1, <3>1
      <4>2. plan \in ItemStatuses /\ plan \in {"Ready", "Failed"}
        BY PlansFacts
      <4>3. /\ row \in Row /\ row.id = queue[p].id /\ row.file = queue[p].file
            /\ row.enabled = queue[p].enabled /\ row.status = plan
        BY <1>5, <2>1, <4>2 DEF Row
      <4> QED
        BY <4>1, <4>2, <4>3
    <3>2. ASSUME queue' = [queue EXCEPT ![p].status = "Failed"]
          PROVE  \E row \in Row :
                   /\ queue' = [queue EXCEPT ![p] = row]
                   /\ row.id = queue[p].id /\ row.file = queue[p].file
                   /\ row.enabled = queue[p].enabled /\ row.status \in {"Ready", "Failed"}
      <4> DEFINE row == [queue[p] EXCEPT !.status = "Failed"]
      <4>1. queue' = [queue EXCEPT ![p] = row]
        BY <1>5, <2>1, <3>2
      <4>2. /\ row \in Row /\ row.id = queue[p].id /\ row.file = queue[p].file
            /\ row.enabled = queue[p].enabled /\ row.status = "Failed"
        BY <1>5, <2>1, PlansFacts DEF Row
      <4> QED
        BY <4>1, <4>2
    <3> QED
      BY <1>4, <1>7, <3>1, <3>2
  <2> HIDE DEF p
  <2>4. PICK row \in Row :
          /\ queue' = [queue EXCEPT ![p] = row]
          /\ row.id = queue[p].id /\ row.file = queue[p].file
          /\ row.enabled = queue[p].enabled /\ row.status \in {"Ready", "Failed"}
    BY <2>3
  <2>5. queue' \in Seq(Row) /\ DOMAIN queue' = DOMAIN queue
    BY <1>5, <2>1, <2>4
  <2>6. \A k \in DOMAIN queue : queue'[k] = IF k = p THEN row ELSE queue[k]
    BY <2>4
  <2> QED
    BY <1>2, <1>3, <2>1, <2>2, <2>4, <2>5, <2>6
<1> QED
  BY <1>6, <1>7

LEMMA OnProbeInv == ASSUME IInv, OnProbe PROVE IInv'
<1>1. /\ Receive("Probed")
      /\ UNCHANGED <<phase, overlay, nextId, active, app, holder, input, tasks, runs>>
  BY DEF OnProbe
<1>2. /\ inbox' \in Seq(Texts) /\ Len(inbox') <= Capacity
      /\ \A n \in DOMAIN inbox' : n + 1 \in DOMAIN inbox /\ inbox'[n] = inbox[n + 1]
      /\ \A n \in DOMAIN inbox :
           n # 1 => n - 1 \in DOMAIN inbox' /\ inbox'[n - 1] = inbox[n]
      /\ DOMAIN inbox \subseteq Nat /\ DOMAIN inbox' \subseteq Nat
      /\ 0 \notin DOMAIN inbox'
  <2>1. inbox' \in Seq(Texts)
    BY <1>1, ReceiveFacts DEF IInv
  <2> QED
    BY <1>1, <2>1, ReceiveFacts DEF IInv
<1>3. PICK id \in Ids :
        /\ inbox[1].type = "Probed" /\ inbox[1].id = id /\ 1 \in DOMAIN inbox
        /\ queue' \in Seq(Row) /\ DOMAIN queue' = DOMAIN queue
        /\ \A k \in DOMAIN queue :
             /\ queue'[k].id = queue[k].id /\ queue'[k].file = queue[k].file
             /\ queue'[k].enabled = queue[k].enabled
             /\ queue[k].id # id => queue'[k] = queue[k]
             /\ queue[k].id = id => /\ queue[k].status = "Probing"
                                    /\ queue'[k].status \in {"Ready", "Failed"}
  BY ProbeFacts
<1>4. ~Asked(id)' /\ id \notin panicked'
  <2>1. probing[id] = "None" /\ Asked(id)
    BY <1>3 DEF IInv, Probes, Asked
  <2>2. \A n \in DOMAIN inbox' : ~(inbox'[n].type = "Probed" /\ inbox'[n].id = id)
    <3> SUFFICES ASSUME NEW n \in DOMAIN inbox', inbox'[n].type = "Probed",
                        inbox'[n].id = id
                 PROVE  FALSE
      OBVIOUS
    <3>1. n + 1 = 1
      BY <1>2, <1>3 DEF IInv, Probes
    <3> QED
      BY <1>2, <3>1
  <2>3. ~Asked(id)'
    BY <1>1, <2>1, <2>2 DEF Asked
  <2> QED
    BY <1>1, <2>1, <2>3 DEF IInv, Probes
<1>5. ASSUME NEW i, i # id
      PROVE  Asked(i)' <=> Asked(i)
  <2>1. Asked(i)' => Asked(i)
    BY <1>1, <1>2 DEF Asked
  <2>2. ASSUME NEW n \in DOMAIN inbox, inbox[n].type = "Probed", inbox[n].id = i
        PROVE  Asked(i)'
    <3>1. n # 1
      BY <1>3, <1>5, <2>2
    <3> QED
      BY <1>2, <2>2, <3>1 DEF Asked
  <2> QED
    BY <1>1, <2>1, <2>2 DEF Asked
<1>6. Probes'
  <2>1. \A i \in Ids : Asked(i)' \/ i \in panicked' => i < nextId'
    BY <1>1, <1>4, <1>5 DEF IInv, Probes
  <2>2. \A i \in panicked' : ~Asked(i)'
    BY <1>1, <1>4, <1>5 DEF IInv, Probes
  <2>3. \A n \in DOMAIN inbox' :
          inbox'[n].type = "Probed" => probing'[inbox'[n].id] = "None"
    BY <1>1, <1>2 DEF IInv, Probes
  <2>4. ASSUME NEW m \in DOMAIN inbox', NEW n \in DOMAIN inbox',
               inbox'[m].type = "Probed", inbox'[n].type = "Probed",
               inbox'[m].id = inbox'[n].id
        PROVE  m = n
    <3>1. m + 1 = n + 1
      BY <1>2, <2>4 DEF IInv, Probes
    <3>2. m \in Nat /\ n \in Nat
      BY <1>2
    <3> QED
      BY <3>1, <3>2
  <2> QED
    BY <2>1, <2>2, <2>3, <2>4 DEF Probes
<1>7. \A k \in DOMAIN queue : queue[k].id \in Ids
  BY QueueFacts DEF IInv
<1>8. Rows'
  <2>1. ASSUME NEW k \in DOMAIN queue, NEW i \in Ids, queue[k].id = i
        PROVE  /\ i < nextId'
               /\ queue'[k].status = "Probing" <=> Asked(i)' \/ i \in panicked'
               /\ queue'[k].status = "Probing" => ~queue'[k].media
    <3>1. /\ queue[k].status = "Probing" <=> Asked(i) \/ i \in panicked
          /\ queue[k].status = "Probing" => ~queue[k].media
          /\ i < nextId
      BY <2>1 DEF IInv, Rows
    <3>2. CASE i = id
      BY <1>1, <1>3, <1>4, <2>1, <3>1, <3>2
    <3>3. CASE i # id
      BY <1>1, <1>3, <1>5, <2>1, <3>1, <3>3
    <3> QED
      BY <3>2, <3>3
  <2> QED
    BY <1>3, <1>7, <2>1 DEF IInv, Rows
<1>9. Reports'
  BY <1>1, ReportsReceived
<1>10. LastBatch'
  <2>1. ASSUME NEW k \in DOMAIN queue, queue[k].enabled, queue[k].status # "Probing"
        PROVE  queue'[k].id = queue[k].id /\ queue'[k].enabled /\ queue'[k].status # "Probing"
    BY <1>3, <2>1
  <2> QED
    BY <1>1, <1>3, <2>1 DEF IInv, LastBatch
<1>11. RowsAtWork'
  <2>1. \A k \in DOMAIN queue : queue'[k].status \in {"Queued", "Preparing", "Running"} =>
          queue'[k].status = queue[k].status /\ queue'[k].id = queue[k].id
    BY <1>3
  <2> QED
    BY <1>1, <1>3, <2>1 DEF IInv, RowsAtWork
<1>12. TypeOK'
  BY <1>1, <1>2, <1>3 DEF IInv, TypeOK, Row
<1> QED
  BY <1>6, <1>8, <1>9, <1>10, <1>11, <1>12 DEF IInv

(* What a snapshot or a report does to the rows: it names the files of a   *)
(* batch by ordinal, and reaches rows of the active batch only.            *)
LEMMA AppliedFacts ==
  ASSUME TypeOK, NEW states \in Seq(FileStatuses)
  PROVE  LET q == Applied(queue, active, states) IN
         /\ q \in Seq(Row) /\ DOMAIN q = DOMAIN queue
         /\ \A k \in DOMAIN queue :
              /\ q[k].id = queue[k].id /\ q[k].file = queue[k].file
              /\ q[k].enabled = queue[k].enabled /\ q[k].media = queue[k].media
              /\ \/ /\ q[k] = queue[k]
                    /\ \A j \in DOMAIN states :
                         j <= Len(active) => active[j] # queue[k].id
                 \/ \E j \in DOMAIN states :
                         /\ j \in DOMAIN active /\ active[j] = queue[k].id
                         /\ q[k].status = states[j] /\ states[j] \in FileStatuses
<1> DEFINE q == Applied(queue, active, states)
           hit(k, j) == j <= Len(active) /\ active[j] = queue[k].id
<1>1. /\ queue \in Seq(Row) /\ Len(queue) \in Nat /\ DOMAIN queue = 1 .. Len(queue)
      /\ \A k \in DOMAIN queue : queue[k] \in Row
  BY QueueFacts
<1>2. /\ DOMAIN q = DOMAIN queue
      /\ \A k \in DOMAIN queue : q[k] =
           IF \E j \in DOMAIN states : hit(k, j)
           THEN [queue[k] EXCEPT !.status = states[CHOOSE j \in DOMAIN states : hit(k, j)]]
           ELSE queue[k]
  BY DEF Applied
<1>3. /\ active \in Seq(Ids) /\ Len(active) \in Nat /\ DOMAIN active = 1 .. Len(active)
  BY DEF TypeOK
<1>4. /\ DOMAIN states \subseteq Nat \ {0}
      /\ \A j \in DOMAIN states : states[j] \in FileStatuses
  BY DEF TypeOK
<1>5. \A k, j : j \in DOMAIN states /\ hit(k, j) => j \in DOMAIN active /\ active[j] = queue[k].id
  BY <1>3, <1>4
<1>6. \A k : ~(\E j \in DOMAIN states : hit(k, j)) =>
         \A j \in DOMAIN states : j <= Len(active) => active[j] # queue[k].id
  OBVIOUS
<1> HIDE DEF q, hit
<1>7. ASSUME NEW k \in DOMAIN queue
      PROVE  /\ q[k] \in Row
             /\ q[k].id = queue[k].id /\ q[k].file = queue[k].file
             /\ q[k].enabled = queue[k].enabled /\ q[k].media = queue[k].media
             /\ \/ /\ q[k] = queue[k]
                   /\ \A j \in DOMAIN states :
                        j <= Len(active) => active[j] # queue[k].id
                \/ \E j \in DOMAIN states :
                        /\ j \in DOMAIN active /\ active[j] = queue[k].id
                        /\ q[k].status = states[j] /\ states[j] \in FileStatuses
  <2>1. CASE \E j \in DOMAIN states : hit(k, j)
    <3> DEFINE j == CHOOSE n \in DOMAIN states : hit(k, n)
    <3>1. j \in DOMAIN states /\ hit(k, j)
      BY <2>1
    <3>2. q[k] = [queue[k] EXCEPT !.status = states[j]]
      BY <1>2, <2>1
    <3> HIDE DEF j
    <3>3. j \in DOMAIN active /\ active[j] = queue[k].id
      BY <1>5, <3>1
    <3>4. states[j] \in FileStatuses /\ states[j] \in ItemStatuses
      BY <1>4, <3>1 DEF ItemStatuses
    <3>5. queue[k] \in Row
      BY <1>1
    <3>6. /\ q[k] \in Row /\ q[k].status = states[j]
          /\ q[k].id = queue[k].id /\ q[k].file = queue[k].file
          /\ q[k].enabled = queue[k].enabled /\ q[k].media = queue[k].media
      BY <3>2, <3>4, <3>5 DEF Row
    <3> QED
      BY <3>1, <3>3, <3>4, <3>6
  <2>2. CASE ~(\E j \in DOMAIN states : hit(k, j))
    BY <1>1, <1>2, <1>6, <2>2
  <2> QED
    BY <2>1, <2>2
<1>8. q \in Seq(Row)
  <2>1. q \in [1 .. Len(queue) -> Row]
    BY <1>1, <1>2, <1>7 DEF q, Applied
  <2> QED
    BY <1>1, <2>1
<1> QED
  BY <1>2, <1>7, <1>8 DEF q

(* A row of the active batch has no probe.                                 *)
LEMMA ActiveFacts ==
  ASSUME IInv, NEW j \in DOMAIN active, NEW k \in DOMAIN queue, active[j] = queue[k].id
  PROVE  phase # "Idle" /\ queue[k].status # "Probing"
<1>1. phase # "Idle"
  BY DEF IInv, LastBatch
<1>2. PICK i \in DOMAIN queue : queue[i].id = active[j] /\ queue[i].status # "Probing"
  BY <1>1 DEF IInv, LastBatch
<1>3. i = k
  <2>1. queue[k].id \in InQueue
    BY QueueFacts DEF IInv, InQueue
  <2>2. i = Position(queue[k].id) /\ k = Position(queue[k].id)
    BY <1>2, <2>1, PositionFacts
  <2> QED
    BY <2>2
<1> QED
  BY <1>1, <1>2, <1>3

LEMMA AppliedRows ==
  ASSUME IInv, NEW states \in Seq(FileStatuses),
         queue' = Applied(queue, active, states), UNCHANGED <<panicked, nextId>>,
         \A id : Asked(id)' <=> Asked(id)
  PROVE  Rows' /\ \A k \in DOMAIN queue : queue'[k].status = "Probing" <=> queue[k].status = "Probing"
<1>1. /\ queue' \in Seq(Row) /\ DOMAIN queue' = DOMAIN queue
      /\ \A k \in DOMAIN queue :
           /\ queue'[k].id = queue[k].id /\ queue'[k].file = queue[k].file
           /\ queue'[k].enabled = queue[k].enabled /\ queue'[k].media = queue[k].media
           /\ \/ queue'[k] = queue[k]
              \/ \E j \in DOMAIN states :
                    /\ j \in DOMAIN active /\ active[j] = queue[k].id
                    /\ queue'[k].status = states[j] /\ states[j] \in FileStatuses
  BY AppliedFacts DEF IInv
<1>2. "Probing" \notin FileStatuses
  BY DEF FileStatuses, Terminal
<1>3. \A k \in DOMAIN queue : queue'[k].status = "Probing" <=> queue[k].status = "Probing"
  BY <1>1, <1>2, ActiveFacts
<1>4. \A k \in DOMAIN queue : queue[k].id \in Ids
  BY QueueFacts DEF IInv
<1>5. ASSUME NEW k \in DOMAIN queue, NEW i \in Ids, queue[k].id = i
      PROVE  /\ i < nextId'
             /\ queue'[k].status = "Probing" <=> Asked(i)' \/ i \in panicked'
             /\ queue'[k].status = "Probing" => ~queue'[k].media
  BY <1>1, <1>3, <1>5 DEF IInv, Rows
<1>6. Rows'
  BY <1>1, <1>4, <1>5 DEF IInv, Rows
<1> QED
  BY <1>3, <1>6

LEMMA OnSnapshotInv == ASSUME IInv, OnSnapshot PROVE IInv'
<1>1. /\ Receive("Snapshot")
      /\ queue' = Applied(queue, active, Head(inbox).states)
      /\ UNCHANGED <<phase, overlay, nextId, active, app, holder, input, tasks, runs>>
  BY DEF OnSnapshot
<1>2. inbox' \in Seq(Texts) /\ Len(inbox') <= Capacity
  BY <1>1, ReceiveFacts DEF IInv
<1>3. Head(inbox).states \in Seq(FileStatuses)
  BY <1>1, ReceiveFacts, InboxFacts DEF IInv
<1> DEFINE states == Head(inbox).states
<1>4. nextId \in Nat
  BY NumberFacts DEF IInv, TypeOK
<1>5. Probes' /\ \A id : Asked(id)' <=> Asked(id)
  BY <1>1, <1>4, OthersReceived
<1> HIDE DEF states
<1>6. states \in Seq(FileStatuses) /\ queue' = Applied(queue, active, states)
  BY <1>1, <1>3 DEF states
<1>7. /\ queue' \in Seq(Row) /\ DOMAIN queue' = DOMAIN queue
      /\ \A k \in DOMAIN queue :
           /\ queue'[k].id = queue[k].id /\ queue'[k].file = queue[k].file
           /\ queue'[k].enabled = queue[k].enabled /\ queue'[k].media = queue[k].media
           /\ \/ queue'[k] = queue[k]
              \/ \E j \in DOMAIN active : active[j] = queue[k].id
  BY <1>6, AppliedFacts DEF IInv
<1>8. /\ Rows'
      /\ \A k \in DOMAIN queue : queue'[k].status = "Probing" <=> queue[k].status = "Probing"
  BY <1>1, <1>5, <1>6, AppliedRows
<1>9. Reports'
  BY <1>1, ReportsReceived
<1>10. LastBatch'
  BY <1>1, <1>7, <1>8 DEF IInv, LastBatch
<1>11. RowsAtWork'
  BY <1>1, <1>7 DEF IInv, RowsAtWork
<1>12. TypeOK'
  BY <1>1, <1>2, <1>7 DEF IInv, TypeOK, Row
<1> QED
  BY <1>5, <1>8, <1>9, <1>10, <1>11, <1>12 DEF IInv

(* The report settles every row of the batch, unless its supervisor failed. *)
LEMMA OnBatchFinishedInv == ASSUME IInv, OnBatchFinished PROVE IInv'
<1>1. /\ Receive("Finished")
      /\ phase' = "Idle" /\ active' = <<>> /\ holder' = 0
      /\ UNCHANGED <<nextId, app, input, tasks, runs>>
  BY DEF OnBatchFinished
<1>2. /\ inbox' \in Seq(Texts) /\ Len(inbox') <= Capacity /\ app = "Looping"
      /\ 1 \in DOMAIN inbox /\ Head(inbox) = inbox[1] /\ inbox[1].type = "Finished"
  BY <1>1, ReceiveFacts DEF IInv
<1>3. /\ phase # "Idle" /\ inbox[1].batch = started
      /\ live[started] = IF inbox[1].ok THEN "Reported" ELSE "Lost"
      /\ inbox[1].ok \in BOOLEAN /\ started \in Batches
  BY <1>2, InboxFacts DEF IInv, Reports
<1>4. nextId \in Nat
  BY NumberFacts DEF IInv, TypeOK
<1>5. Probes' /\ \A id : Asked(id)' <=> Asked(id)
  BY <1>1, <1>4, OthersReceived
<1>6. Reports'
  BY <1>1, ReportsReceived
<1>7. LastBatch'
  <2>1. live[started] \in {"Reported", "Lost"}
    BY <1>3
  <2> QED
    BY <1>1, <2>1 DEF IInv, LastBatch
<1>8. CASE inbox[1].ok
  <2>1. queue' = Applied(queue, active, files[started]) /\ UNCHANGED overlay
    BY <1>2, <1>3, <1>8 DEF OnBatchFinished
  <2>2. files[started] \in Seq(FileStatuses)
    BY <1>3 DEF IInv, TypeOK
  <2>3. /\ queue' \in Seq(Row) /\ DOMAIN queue' = DOMAIN queue
        /\ \A k \in DOMAIN queue :
             /\ queue'[k].id = queue[k].id
             /\ \/ /\ queue'[k] = queue[k]
                   /\ \A j \in DOMAIN files[started] :
                        j <= Len(active) => active[j] # queue[k].id
                \/ \E j \in DOMAIN files[started] : queue'[k].status = files[started][j]
    BY <2>1, <2>2, AppliedFacts DEF IInv
  <2>4. Rows'
    BY <1>1, <1>5, <2>1, <2>2, AppliedRows
  <2>5. RowsAtWork'
    <3> SUFFICES ASSUME \A b \in Batches : live[b] # "Lost", NEW k \in DOMAIN queue,
                        queue'[k].status \in {"Queued", "Preparing", "Running"}
                 PROVE  FALSE
      BY <1>1, <2>3 DEF RowsAtWork
    <3>1. \A j \in DOMAIN files[started] : files[started][j] \in Terminal
      BY <1>3, <1>8 DEF IInv, LastBatch
    <3>2. queue'[k] = queue[k] /\ \A j \in DOMAIN files[started] :
                                     j <= Len(active) => active[j] # queue[k].id
      BY <2>3, <3>1 DEF Terminal
    <3>3. PICK j \in DOMAIN active : active[j] = queue[k].id
      BY <3>2 DEF IInv, RowsAtWork
    <3>4. Len(active) = Len(files[started])
      BY <1>3 DEF IInv, LastBatch
    <3>5. DOMAIN active = 1 .. Len(active) /\ Len(active) \in Nat
      BY DEF IInv, TypeOK
    <3>6. j \in DOMAIN files[started] /\ j <= Len(active)
      BY <2>2, <3>4, <3>5
    <3> QED
      BY <3>2, <3>3, <3>6
  <2>6. TypeOK'
    BY <1>1, <1>2, <2>1, <2>3, NumberFacts DEF IInv, TypeOK, Row, Phases
  <2> QED
    BY <1>5, <1>6, <1>7, <2>4, <2>5, <2>6 DEF IInv
<1>9. CASE ~inbox[1].ok
  <2>1. overlay' = "Message" /\ UNCHANGED queue
    BY <1>2, <1>9 DEF OnBatchFinished
  <2>2. Rows'
    BY <1>1, <1>4, <1>5, <2>1, RowsKept
  <2>3. RowsAtWork'
    BY <1>1, <1>3, <1>9 DEF RowsAtWork
  <2>4. TypeOK'
    BY <1>1, <1>2, <2>1, NumberFacts DEF IInv, TypeOK, Phases, Overlays
  <2> QED
    BY <1>5, <1>6, <1>7, <2>2, <2>3, <2>4 DEF IInv
<1> QED
  BY <1>3, <1>8, <1>9

LEMMA OnTaskFailedInv == ASSUME IInv, OnTaskFailed PROVE IInv'
<1>1. /\ UNCHANGED <<queue, nextId, active, app, holder, input, searching, probing, panicked,
                     started, files, live, fresh, held>>
      /\ overlay' = "Message" /\ RequestCancel
  BY DEF OnTaskFailed
<1>2. \/ Receive("TaskFailed") /\ UNCHANGED unjoined
      \/ /\ Looping /\ unjoined > 0 /\ unjoined' = unjoined - 1
         /\ UNCHANGED inbox
  BY DEF OnTaskFailed
<1>3. app = "Looping"
  BY <1>2, ReceiveFacts DEF IInv, Looping
<1>4. LastBatch' /\ RowsAtWork' /\ (phase # "Idle" <=> phase' # "Idle")
  BY <1>1, <1>3, BatchKept
<1>5. nextId \in Nat
  BY NumberFacts DEF IInv, TypeOK
<1>6. Probes' /\ Reports' /\ \A id : Asked(id)' <=> Asked(id)
  <2>1. CASE Receive("TaskFailed")
    BY <1>1, <1>4, <1>5, <2>1, OthersReceived, ReportsReceived
  <2>2. CASE UNCHANGED inbox
    BY <1>1, <1>4, <2>2, MailKept
  <2> QED
    BY <1>2, <2>1, <2>2
<1>7. Rows'
  BY <1>1, <1>5, <1>6, RowsKept
<1>8. phase' \in Phases /\ token' \subseteq Batches
  BY <1>1, RequestCancelType DEF IInv
<1>9. inbox' \in Seq(Texts) /\ Len(inbox') <= Capacity
  BY <1>2, ReceiveFacts DEF IInv, TypeOK
<1>10. unjoined' \in 0 .. Cardinality(panicked')
  <2>1. unjoined \in 0 .. Cardinality(panicked)
    BY DEF IInv, TypeOK
  <2>2. Cardinality(panicked) \in Nat
    BY NumberFacts, FS_Subset, FS_CardinalityType DEF IInv, TypeOK
  <2> QED
    BY <1>1, <1>2, <2>1, <2>2
<1>11. TypeOK'
  BY <1>1, <1>8, <1>9, <1>10 DEF IInv, TypeOK, Overlays
<1> QED
  BY <1>4, <1>6, <1>7, <1>11 DEF IInv

-----------------------------------------------------------------------------
(* The tasks.                                                              *)
LEMMA MessageTypes ==
  /\ Input \in Texts /\ Discovered \in Texts /\ TaskFailed \in Texts
  /\ Input.type = "Input" /\ Discovered.type = "Discovered" /\ TaskFailed.type = "TaskFailed"
  /\ \A id \in Ids : Probed(id) \in Texts
  /\ \A id : Probed(id).type = "Probed" /\ Probed(id).id = id
  /\ \A b \in Batches, states \in Seq(FileStatuses) : Snapshot(b, states) \in Texts
  /\ \A b, states : Snapshot(b, states).type = "Snapshot"
  /\ \A b \in Batches, ok \in BOOLEAN : Finished(b, ok) \in Texts
  /\ \A b, ok : /\ Finished(b, ok).type = "Finished" /\ Finished(b, ok).batch = b
                /\ Finished(b, ok).ok = ok
BY DEF Texts, Input, Discovered, TaskFailed, Probed, Snapshot, Finished

(* A message that is neither an answer nor a report changes the channel    *)
(* alone.                                                                  *)
LEMMA SentInv ==
  ASSUME IInv, NEW m \in Texts, Send(m), m.type \notin {"Probed", "Finished"},
         UNCHANGED <<phase, queue, nextId, active, app, holder, probing, panicked,
                     started, files, live, token>>
  PROVE  /\ Rows' /\ Probes' /\ Reports' /\ LastBatch' /\ RowsAtWork'
         /\ inbox' \in Seq(Texts) /\ Len(inbox') <= Capacity
<1>1. Probes' /\ \A id : Asked(id)' <=> Asked(id)
  BY OthersSent
<1>2. Reports'
  BY ReportsUnsent
<1>3. nextId \in Nat
  BY NumberFacts DEF IInv, TypeOK
<1>4. Rows'
  BY <1>1, <1>3, RowsKept
<1>5. LastBatch' /\ RowsAtWork'
  BY DEF IInv, LastBatch, RowsAtWork
<1> QED
  BY <1>1, <1>2, <1>4, <1>5, SendFacts DEF IInv

LEMMA DiscoverySendsInv == ASSUME IInv, DiscoverySends PROVE IInv'
<1>1. /\ UNCHANGED <<model, app, holder, input, probing, panicked, unjoined, runs>>
      /\ searching > 0 /\ searching' = searching - 1 /\ Send(Discovered)
  BY DEF DiscoverySends
<1>2. /\ Rows' /\ Probes' /\ Reports' /\ LastBatch' /\ RowsAtWork'
      /\ inbox' \in Seq(Texts) /\ Len(inbox') <= Capacity
  BY <1>1, MessageTypes, SentInv
<1>3. searching' \in 0 .. MaxSearches
  <2>1. searching \in 0 .. MaxSearches
    BY DEF IInv, TypeOK
  <2> QED
    BY <1>1, <2>1, NumberFacts
<1>4. TypeOK'
  BY <1>1, <1>2, <1>3 DEF IInv, TypeOK
<1> QED
  BY <1>2, <1>4 DEF IInv

LEMMA ProbeStartsInv == ASSUME IInv, NEW id \in Ids, ProbeStarts(id) PROVE IInv'
<1>1. /\ UNCHANGED <<model, app, holder, inbox, input, searching, panicked, unjoined, runs>>
      /\ probing[id] = "Waiting" /\ probing' = [probing EXCEPT ![id] = "Probing"]
  BY DEF ProbeStarts
<1>2. /\ probing \in [Ids -> {"None", "Waiting", "Probing"}]
      /\ probing' \in [Ids -> {"None", "Waiting", "Probing"}]
      /\ \A i \in Ids : probing'[i] = "None" <=> probing[i] = "None"
  BY <1>1 DEF IInv, TypeOK
<1>3. \A i \in Ids : Asked(i)' <=> Asked(i)
  BY <1>1, <1>2 DEF Asked
<1>4. nextId \in Nat
  BY NumberFacts DEF IInv, TypeOK
<1>5. Rows'
  BY <1>1, <1>3, <1>4, RowsKept
<1>6. Probes'
  <2>1. \A n \in DOMAIN inbox' :
          inbox'[n].type = "Probed" => probing'[inbox'[n].id] = "None"
    BY <1>1, <1>2, InboxFacts DEF IInv, Probes
  <2>2. panicked \subseteq Ids
    BY DEF IInv, TypeOK
  <2> QED
    BY <1>1, <1>3, <2>1, <2>2 DEF IInv, Probes
<1>7. Reports' /\ LastBatch' /\ RowsAtWork'
  BY <1>1 DEF IInv, Reports, LastBatch, RowsAtWork
<1>8. TypeOK'
  BY <1>1, <1>2 DEF IInv, TypeOK
<1> QED
  BY <1>5, <1>6, <1>7, <1>8 DEF IInv

LEMMA ProbeSendsInv == ASSUME IInv, NEW id \in Ids, ProbeSends(id) PROVE IInv'
<1>1. /\ UNCHANGED <<model, app, holder, input, searching, panicked, unjoined, runs>>
      /\ probing[id] = "Probing" /\ probing' = [probing EXCEPT ![id] = "None"]
      /\ Send(Probed(id))
  BY DEF ProbeSends
<1>2. /\ probing \in [Ids -> {"None", "Waiting", "Probing"}]
      /\ probing' \in [Ids -> {"None", "Waiting", "Probing"}]
      /\ probing'[id] = "None" /\ \A i \in Ids : i # id => probing'[i] = probing[i]
  BY <1>1 DEF IInv, TypeOK
<1>3. /\ inbox' \in Seq(Texts) /\ Len(inbox') <= Capacity
      /\ DOMAIN inbox' = DOMAIN inbox \cup {Len(inbox) + 1}
      /\ Len(inbox) + 1 \notin DOMAIN inbox
      /\ inbox'[Len(inbox) + 1].type = "Probed" /\ inbox'[Len(inbox) + 1].id = id
      /\ \A n \in DOMAIN inbox : inbox'[n] = inbox[n]
  <2>1. Probed(id) \in Texts /\ Probed(id).type = "Probed" /\ Probed(id).id = id
    BY MessageTypes
  <2> QED
    BY <1>1, <2>1, SendFacts DEF IInv
<1>4. \A n \in DOMAIN inbox : inbox[n].type = "Probed" => inbox[n].id \in Ids /\ inbox[n].id # id
  BY <1>1, InboxFacts DEF IInv, Probes
<1>5. Asked(id) /\ Asked(id)'
  BY <1>1, <1>3 DEF Asked
<1>6. ASSUME NEW i \in Ids, i # id
      PROVE  Asked(i)' <=> Asked(i)
  BY <1>2, <1>3, <1>6 DEF Asked
<1>7. \A i \in Ids : Asked(i)' <=> Asked(i)
  BY <1>5, <1>6
<1>8. nextId \in Nat
  BY NumberFacts DEF IInv, TypeOK
<1>9. Rows'
  BY <1>1, <1>7, <1>8, RowsKept
<1>10. Probes'
  <2>1. \A n \in DOMAIN inbox' :
          inbox'[n].type = "Probed" => probing'[inbox'[n].id] = "None"
    BY <1>2, <1>3, <1>4 DEF IInv, Probes
  <2>2. \A m, n \in DOMAIN inbox' :
          /\ inbox'[m].type = "Probed" /\ inbox'[n].type = "Probed"
          /\ inbox'[m].id = inbox'[n].id
          => m = n
    BY <1>3, <1>4 DEF IInv, Probes
  <2>3. panicked \subseteq Ids
    BY DEF IInv, TypeOK
  <2> QED
    BY <1>1, <1>7, <2>1, <2>2, <2>3 DEF IInv, Probes
<1>11. Reports'
  <2>1. Probed(id) \in Texts /\ Probed(id).type # "Finished"
    BY MessageTypes
  <2> QED
    BY <1>1, <2>1, ReportsUnsent
<1>12. LastBatch' /\ RowsAtWork'
  BY <1>1 DEF IInv, LastBatch, RowsAtWork
<1>13. TypeOK'
  BY <1>1, <1>2, <1>3 DEF IInv, TypeOK
<1> QED
  BY <1>9, <1>10, <1>11, <1>12, <1>13 DEF IInv

LEMMA ProbePanicsInv == ASSUME IInv, NEW id \in Ids, ProbePanics(id) PROVE IInv'
<1>1. /\ UNCHANGED <<model, app, holder, inbox, input, searching, runs>>
      /\ probing[id] = "Probing" /\ probing' = [probing EXCEPT ![id] = "None"]
      /\ panicked' = panicked \cup {id} /\ unjoined' = unjoined + 1
  BY DEF ProbePanics
<1>2. /\ probing \in [Ids -> {"None", "Waiting", "Probing"}]
      /\ probing' \in [Ids -> {"None", "Waiting", "Probing"}]
      /\ probing'[id] = "None" /\ \A i \in Ids : i # id => probing'[i] = probing[i]
  BY <1>1 DEF IInv, TypeOK
<1>3. Asked(id) /\ id \notin panicked /\ id < nextId
  BY <1>1 DEF Asked, IInv, Probes
<1>4. \A n \in DOMAIN inbox : inbox[n].type = "Probed" => inbox[n].id \in Ids /\ inbox[n].id # id
  BY <1>1, InboxFacts DEF IInv, Probes
<1>5. ~Asked(id)'
  BY <1>1, <1>2, <1>4 DEF Asked
<1>6. ASSUME NEW i \in Ids, i # id
      PROVE  (Asked(i)' <=> Asked(i)) /\ (i \in panicked' <=> i \in panicked)
  BY <1>1, <1>2, <1>6 DEF Asked
<1>7. \A i \in Ids : Asked(i)' \/ i \in panicked' <=> Asked(i) \/ i \in panicked
  BY <1>1, <1>3, <1>6
<1>8. \A k \in DOMAIN queue : queue[k].id \in Ids
  BY QueueFacts DEF IInv
<1>9. Rows'
  <2>1. ASSUME NEW k \in DOMAIN queue, NEW i \in Ids, queue[k].id = i
        PROVE  /\ i < nextId
               /\ queue[k].status = "Probing" <=> Asked(i)' \/ i \in panicked'
               /\ queue[k].status = "Probing" => ~queue[k].media
    BY <1>7, <2>1 DEF IInv, Rows
  <2> QED
    BY <1>1, <1>8, <2>1 DEF IInv, Rows
<1>10. Probes'
  <2>1. \A n \in DOMAIN inbox' :
          inbox'[n].type = "Probed" => probing'[inbox'[n].id] = "None"
    BY <1>1, <1>2, <1>4 DEF IInv, Probes
  <2>2. \A i \in panicked' : ~Asked(i)'
    BY <1>1, <1>5, <1>6 DEF IInv, Probes, TypeOK
  <2> QED
    BY <1>1, <1>7, <2>1, <2>2 DEF IInv, Probes
<1>11. Reports' /\ LastBatch' /\ RowsAtWork'
  BY <1>1 DEF IInv, Reports, LastBatch, RowsAtWork
<1>12. unjoined' \in 0 .. Cardinality(panicked')
  <2>1. unjoined \in 0 .. Cardinality(panicked) /\ IsFiniteSet(panicked)
    BY NumberFacts, FS_Subset DEF IInv, TypeOK
  <2>2. Cardinality(panicked') = Cardinality(panicked) + 1
    BY <1>1, <1>3, <2>1, FS_AddElement
  <2>3. Cardinality(panicked) \in Nat
    BY <2>1, FS_CardinalityType
  <2> QED
    BY <1>1, <2>1, <2>2, <2>3
<1>13. TypeOK'
  BY <1>1, <1>2, <1>12 DEF IInv, TypeOK
<1> QED
  BY <1>9, <1>10, <1>11, <1>13 DEF IInv

LEMMA RelayReadsInv == ASSUME IInv, NEW b \in Batches, RelayReads(b) PROVE IInv'
<1>1. /\ UNCHANGED <<model, app, holder, inbox, input, tasks, started, files, live, token>>
      /\ fresh' = fresh \ {b} /\ held' = [held EXCEPT ![b] = files[b]]
  BY DEF RelayReads
<1>2. Rows' /\ Probes' /\ Reports' /\ LastBatch' /\ RowsAtWork'
  BY <1>1 DEF IInv, Rows, Probes, Asked, Reports, LastBatch, RowsAtWork
<1>3. TypeOK'
  BY <1>1 DEF IInv, TypeOK
<1> QED
  BY <1>2, <1>3 DEF IInv

LEMMA RelaySendsInv == ASSUME IInv, NEW b \in Batches, RelaySends(b) PROVE IInv'
<1>1. /\ UNCHANGED <<model, app, holder, input, tasks, started, files, live, token, fresh>>
      /\ held' = [held EXCEPT ![b] = <<>>] /\ Send(Snapshot(b, held[b]))
  BY DEF RelaySends
<1>2. held[b] \in Seq(FileStatuses)
  BY DEF IInv, TypeOK
<1>3. /\ Rows' /\ Probes' /\ Reports' /\ LastBatch' /\ RowsAtWork'
      /\ inbox' \in Seq(Texts) /\ Len(inbox') <= Capacity
  <2>1. Snapshot(b, held[b]) \in Texts /\ Snapshot(b, held[b]).type = "Snapshot"
    BY <1>2, MessageTypes
  <2> QED
    BY <1>1, <2>1, SentInv
<1>4. TypeOK'
  BY <1>1, <1>3 DEF IInv, TypeOK
<1> QED
  BY <1>3, <1>4 DEF IInv

(* Only the last batch is under way, and then the interface knows it.      *)
LEMMA FlightFacts ==
  ASSUME IInv, NEW b \in Batches, live[b] \in {"Running", "Returned", "Failed"}
  PROVE  b = started /\ phase # "Idle"
<1>1. started \in Nat /\ b \in Nat
  BY NumberFacts DEF IInv, TypeOK, Batches
<1>2. ~(b < started) /\ ~(b > started)
  BY DEF IInv, LastBatch
<1> QED
  BY <1>1, <1>2 DEF IInv, LastBatch

LEMMA WaiterSendsInv == ASSUME IInv, NEW b \in Batches, WaiterSends(b) PROVE IInv'
<1>1. /\ UNCHANGED <<model, app, holder, input, tasks, started, files, token, fresh, held>>
      /\ live[b] \in {"Returned", "Failed"}
      /\ live' = [live EXCEPT ![b] = IF @ = "Failed" THEN "Lost" ELSE "Reported"]
      /\ Send(Finished(b, live[b] = "Returned"))
  BY DEF WaiterSends
<1>2. b = started /\ phase # "Idle"
  BY <1>1, FlightFacts
<1> DEFINE ok == live[b] = "Returned"
           m  == Finished(b, live[b] = "Returned")
<1>3. m \in Texts /\ m.type = "Finished" /\ m.batch = b /\ m.ok = ok
  <2>1. ok \in BOOLEAN
    OBVIOUS
  <2>2. m = Finished(b, ok)
    OBVIOUS
  <2> HIDE DEF ok, m
  <2> QED
    BY <2>1, <2>2, MessageTypes
<1>4. /\ live'[b] = (IF live[b] = "Returned" THEN "Reported" ELSE "Lost")
      /\ \A a \in Batches : a # b => live'[a] = live[a]
      /\ live' \in [Batches -> {"None", "Running", "Returned", "Failed", "Reported", "Lost"}]
  BY <1>1 DEF IInv, TypeOK
<1>5. Send(m)
  BY <1>1
<1>6. m.ok <=> live[b] = "Returned"
  BY <1>3
<1> HIDE DEF m
<1>7. /\ inbox' \in Seq(Texts) /\ Len(inbox') <= Capacity
      /\ DOMAIN inbox' = DOMAIN inbox \cup {Len(inbox) + 1}
      /\ inbox'[Len(inbox) + 1] = m
      /\ \A n \in DOMAIN inbox : inbox'[n] = inbox[n]
  BY <1>3, <1>5, SendFacts DEF IInv
<1>8. Probes' /\ \A id : Asked(id)' <=> Asked(id)
  BY <1>1, <1>3, <1>5, OthersSent
<1>9. nextId \in Nat
  BY NumberFacts DEF IInv, TypeOK
<1>10. Rows'
  BY <1>1, <1>8, <1>9, RowsKept
<1>11. \A n \in DOMAIN inbox : inbox[n].type # "Finished"
  <2>1. live[started] \notin {"Reported", "Lost"}
    BY <1>1, <1>2
  <2> QED
    BY <2>1 DEF IInv, Reports
<1>12. Reports'
  <2>1. \A n \in DOMAIN inbox' : inbox'[n].type = "Finished" => n = Len(inbox) + 1
    BY <1>7, <1>11
  <2>2. /\ phase' # "Idle" /\ m.batch = started'
        /\ live'[started'] = IF m.ok THEN "Reported" ELSE "Lost"
    <3>1. phase' # "Idle" /\ m.batch = started' /\ started' = b
      BY <1>1, <1>2, <1>3
    <3> QED
      BY <1>4, <1>6, <3>1
  <2> QED
    BY <1>7, <2>1, <2>2 DEF Reports
<1>13. LastBatch'
  <2>1. \A a \in Batches : live'[a] \in {"Returned", "Reported"} =>
          live[a] \in {"Returned", "Reported"}
    BY <1>4
  <2>2. \A a \in Batches : a < started' => live'[a] \in {"Reported", "Lost"}
    BY <1>1, <1>4 DEF IInv, LastBatch
  <2>3. \A a \in Batches : a > started' => live'[a] = "None"
    <3>1. ~(b > started)
      BY <1>1 DEF IInv, LastBatch
    <3> QED
      BY <1>1, <1>4, <3>1 DEF IInv, LastBatch
  <2>4. live'[started'] # "None"
    BY <1>1, <1>2, <1>4
  <2> QED
    BY <1>1, <1>2, <2>1, <2>2, <2>3, <2>4 DEF IInv, LastBatch
<1>14. RowsAtWork'
  <2>1. (\A a \in Batches : live'[a] # "Lost") => \A a \in Batches : live[a] # "Lost"
    BY <1>1, <1>4
  <2> QED
    BY <1>1, <2>1 DEF IInv, RowsAtWork
<1>15. TypeOK'
  BY <1>1, <1>4, <1>7 DEF IInv, TypeOK
<1> QED
  BY <1>8, <1>10, <1>12, <1>13, <1>14, <1>15 DEF IInv

-----------------------------------------------------------------------------
(* The batch.                                                              *)
LEMMA MailAndRowsKept ==
  ASSUME IInv, UNCHANGED <<inbox, probing, panicked, nextId, queue>>
  PROVE  Rows' /\ Probes'
BY DEF IInv, Rows, Probes, Asked

LEMMA FileMovesInv ==
  ASSUME IInv, NEW b \in Batches, NEW k \in DOMAIN files[b], FileMoves(b, k)
  PROVE  IInv'
<1>1. /\ UNCHANGED <<model, app, holder, inbox, input, tasks, started, live, token, held>>
      /\ live[b] = "Running" /\ fresh' = fresh \cup {b}
  BY DEF FileMoves
<1>2. PICK s \in FileStatuses : files' = [files EXCEPT ![b][k] = s]
  <2>1. Published \cup (IF b \in token THEN {"Cancelled"} ELSE {}) \subseteq FileStatuses
    BY TuiAssumption DEF TuiAssumption, FileStatuses, Terminal
  <2> QED
    BY <2>1 DEF FileMoves
<1>3. files \in [Batches -> Seq(FileStatuses)]
  BY DEF IInv, TypeOK
<1> DEFINE moved == [files[b] EXCEPT ![k] = s]
<1>4. files' = [files EXCEPT ![b] = moved]
  BY <1>2
<1>5. moved \in Seq(FileStatuses) /\ Len(moved) = Len(files[b])
  <2>1. files[b] \in Seq(FileStatuses) /\ k \in 1 .. Len(files[b])
    BY <1>3
  <2> QED
    BY <2>1
<1> HIDE DEF moved
<1>6. /\ files' \in [Batches -> Seq(FileStatuses)]
      /\ Len(files'[b]) = Len(files[b])
      /\ \A a \in Batches : a # b => files'[a] = files[a]
  BY <1>3, <1>4, <1>5
<1>7. b = started
  BY <1>1, FlightFacts
<1>8. Rows' /\ Probes' /\ Reports'
  BY <1>1, MailAndRowsKept DEF IInv, Reports
<1>9. LastBatch'
  <2>1. \A a \in Batches : live[a] \in {"Returned", "Reported"} => a # b
    BY <1>1
  <2>2. Len(files'[started]) = Len(files[started])
    BY <1>6, <1>7
  <2> QED
    BY <1>1, <1>6, <2>1, <2>2 DEF IInv, LastBatch
<1>10. RowsAtWork'
  BY <1>1 DEF IInv, RowsAtWork
<1>11. TypeOK'
  BY <1>1, <1>6 DEF IInv, TypeOK
<1> QED
  BY <1>8, <1>9, <1>10, <1>11 DEF IInv

LEMMA BatchEndsInv ==
  ASSUME IInv, NEW b \in Batches, BatchReturns(b) \/ SchedulerFails(b)
  PROVE  IInv'
<1>1. /\ UNCHANGED <<model, app, holder, inbox, input, tasks, started, files, token, fresh, held>>
      /\ live[b] = "Running"
      /\ \/ /\ live' = [live EXCEPT ![b] = "Returned"]
            /\ \A k \in DOMAIN files[b] : files[b][k] \in Terminal
         \/ live' = [live EXCEPT ![b] = "Failed"]
  BY DEF BatchReturns, SchedulerFails
<1>2. b = started /\ phase # "Idle"
  BY <1>1, FlightFacts
<1>3. /\ live'[b] \in {"Returned", "Failed"}
      /\ live'[b] = "Returned" => \A k \in DOMAIN files[b] : files[b][k] \in Terminal
      /\ \A a \in Batches : a # b => live'[a] = live[a]
      /\ live' \in [Batches -> {"None", "Running", "Returned", "Failed", "Reported", "Lost"}]
  BY <1>1 DEF IInv, TypeOK
<1>4. \A n \in DOMAIN inbox : inbox[n].type # "Finished"
  BY <1>1, <1>2 DEF IInv, Reports
<1>5. Rows' /\ Probes' /\ Reports'
  BY <1>1, <1>4, MailAndRowsKept DEF Reports
<1>6. LastBatch'
  <2>1. \A a \in Batches : a < started' => live'[a] \in {"Reported", "Lost"}
    BY <1>1, <1>3 DEF IInv, LastBatch
  <2>2. \A a \in Batches : a > started' => live'[a] = "None"
    BY <1>1, <1>3 DEF IInv, LastBatch
  <2>3. \A a \in Batches : live'[a] \in {"Returned", "Reported"} =>
          \A k \in DOMAIN files'[a] : files'[a][k] \in Terminal
    BY <1>1, <1>3 DEF IInv, LastBatch
  <2>4. live'[started'] # "None"
    BY <1>1, <1>2, <1>3
  <2> QED
    BY <1>1, <1>2, <2>1, <2>2, <2>3, <2>4 DEF IInv, LastBatch
<1>7. RowsAtWork'
  <2>1. (\A a \in Batches : live'[a] # "Lost") => \A a \in Batches : live[a] # "Lost"
    BY <1>1, <1>3
  <2> QED
    BY <1>1, <2>1 DEF IInv, RowsAtWork
<1>8. TypeOK'
  BY <1>1, <1>3 DEF IInv, TypeOK
<1> QED
  BY <1>5, <1>6, <1>7, <1>8 DEF IInv

-----------------------------------------------------------------------------
(* The input thread, and the end of the loop.                              *)
LEMMA ReaderInv ==
  ASSUME IInv, ReaderSends \/ ReaderFails
  PROVE  IInv'
<1>1. /\ UNCHANGED <<model, app, holder, stop, tasks, runs>>
      /\ reader' \in {"Polling", "Ended"}
      /\ Send(Input) \/ Send(TaskFailed)
  BY DEF ReaderSends, ReaderFails
<1>2. /\ Rows' /\ Probes' /\ Reports' /\ LastBatch' /\ RowsAtWork'
      /\ inbox' \in Seq(Texts) /\ Len(inbox') <= Capacity
  <2>1. CASE Send(Input)
    BY <1>1, <2>1, MessageTypes, SentInv
  <2>2. CASE Send(TaskFailed)
    BY <1>1, <2>2, MessageTypes, SentInv
  <2> QED
    BY <1>1, <2>1, <2>2
<1>3. TypeOK'
  BY <1>1, <1>2 DEF IInv, TypeOK
<1> QED
  BY <1>2, <1>3 DEF IInv

LEMMA JoinsInv ==
  ASSUME IInv, ReaderStops \/ ReaderJoined \/ AllJoined
  PROVE  IInv'
<1>1. /\ UNCHANGED <<model, holder, inbox, stop, tasks, runs>>
      /\ reader' \in {"Polling", "Holding", "Ended"}
      /\ app' \in {"Looping", "Leaving", "Stopping", "Joining", "Ended", "Failing", "Failed"}
      /\ app' \in {"Leaving", "Stopping", "Joining", "Ended"} =>
           app \in {"Leaving", "Stopping", "Joining", "Ended"}
  BY DEF ReaderStops, ReaderJoined, AllJoined, IInv, TypeOK
<1>2. Rows' /\ Probes' /\ Reports' /\ RowsAtWork'
  BY <1>1, MailAndRowsKept DEF IInv, Reports, RowsAtWork
<1>3. LastBatch'
  BY <1>1 DEF IInv, LastBatch
<1>4. TypeOK'
  BY <1>1 DEF IInv, TypeOK
<1> QED
  BY <1>2, <1>3, <1>4 DEF IInv

(* Keys left unread are no answers and no reports.                         *)
LEMMA StopReaderFacts ==
  ASSUME IInv, StopReader, UNCHANGED <<model, tasks, started, live>>
  PROVE  /\ stop' \in BOOLEAN /\ reader' \in {"Polling", "Holding", "Ended"}
         /\ inbox' \in Seq(Texts) /\ Len(inbox') <= Capacity
         /\ Rows' /\ Probes' /\ Reports'
<1>1. PICK n \in 0 .. Unread :
        Len(inbox) + n <= Capacity /\ inbox' = inbox \o [k \in 1 .. n |-> Input]
  BY DEF StopReader
<1>2. n \in Nat
  BY TuiAssumption DEF TuiAssumption
<1> DEFINE more == [k \in 1 .. n |-> Input]
<1>3. more \in Seq(Texts) /\ Len(more) = n /\ \A k \in 1 .. n : more[k].type = "Input"
  <2>1. more \in [1 .. n -> Texts]
    BY MessageTypes
  <2> QED
    BY <1>2, <2>1, MessageTypes
<1> HIDE DEF more
<1>4. inbox \in Seq(Texts) /\ Len(inbox) \in Nat /\ DOMAIN inbox = 1 .. Len(inbox)
  BY InboxFacts DEF IInv
<1>5. inbox' = inbox \o more
  BY <1>1 DEF more
<1>6. /\ inbox' \in Seq(Texts) /\ Len(inbox') = Len(inbox) + n
      /\ \A i \in 1 .. Len(inbox) + n :
           inbox'[i] = IF i <= Len(inbox) THEN inbox[i] ELSE more[i - Len(inbox)]
  BY <1>3, <1>4, <1>5, ConcatProperties
<1>7. /\ DOMAIN inbox' = 1 .. Len(inbox) + n /\ DOMAIN inbox \subseteq DOMAIN inbox'
      /\ \A i \in DOMAIN inbox : inbox'[i] = inbox[i]
  BY <1>2, <1>4, <1>6
<1>8. ASSUME NEW i \in DOMAIN inbox', i \notin DOMAIN inbox
      PROVE  inbox'[i].type = "Input"
  <2>1. i - Len(inbox) \in 1 .. n /\ ~(i <= Len(inbox))
    BY <1>2, <1>4, <1>7, <1>8
  <2> QED
    BY <1>3, <1>6, <1>7, <2>1
<1>9. \A id : Asked(id)' <=> Asked(id)
  BY <1>7, <1>8 DEF Asked
<1>10. nextId \in Nat
  BY NumberFacts DEF IInv, TypeOK
<1>11. Rows'
  BY <1>9, <1>10, RowsKept
<1>12. Probes'
  <2>1. \A i \in DOMAIN inbox' :
          inbox'[i].type = "Probed" => probing'[inbox'[i].id] = "None"
    BY <1>7, <1>8 DEF IInv, Probes
  <2>2. \A i, j \in DOMAIN inbox' :
          /\ inbox'[i].type = "Probed" /\ inbox'[j].type = "Probed"
          /\ inbox'[i].id = inbox'[j].id
          => i = j
    BY <1>7, <1>8 DEF IInv, Probes
  <2> QED
    BY <1>9, <2>1, <2>2 DEF IInv, Probes
<1>13. Reports'
  BY <1>7, <1>8 DEF IInv, Reports
<1>14. Len(inbox') <= Capacity
  BY <1>1, <1>6
<1>15. stop' \in BOOLEAN /\ reader' \in {"Polling", "Holding", "Ended"}
  BY DEF StopReader, IInv, TypeOK
<1> QED
  BY <1>6, <1>11, <1>12, <1>13, <1>14, <1>15

LEMMA LeaveInv == ASSUME IInv, Leave \/ DrawFails PROVE IInv'
<1>1. /\ UNCHANGED <<model, holder, tasks, started, files, live, fresh, held>>
      /\ StopReader
      /\ token \subseteq token' /\ token' \subseteq Batches
      /\ \/ app = "Leaving" /\ app' = "Stopping"
         \/ app' = "Failing"
  BY DEF Leave, DrawFails, IInv, TypeOK
<1>2. /\ stop' \in BOOLEAN /\ reader' \in {"Polling", "Holding", "Ended"}
      /\ inbox' \in Seq(Texts) /\ Len(inbox') <= Capacity
      /\ Rows' /\ Probes' /\ Reports'
  BY <1>1, StopReaderFacts
<1>3. LastBatch' /\ RowsAtWork'
  BY <1>1 DEF IInv, LastBatch, RowsAtWork
<1>4. TypeOK'
  BY <1>1, <1>2 DEF IInv, TypeOK
<1> QED
  BY <1>2, <1>3, <1>4 DEF IInv

-----------------------------------------------------------------------------
LEMMA InitInv == Init => IInv
<1> SUFFICES ASSUME Init
             PROVE  IInv
  OBVIOUS
<1>1. queue = <<>> /\ inbox = <<>> /\ active = <<>> /\ DOMAIN queue = {} /\ DOMAIN inbox = {}
  BY DEF Init
<1>2. TypeOK
  <2>1. /\ nextId \in 0 .. MaxIds /\ holder \in 0 .. MaxBatches /\ started \in 0 .. MaxBatches
        /\ searching \in 0 .. MaxSearches /\ Len(inbox) <= Capacity
    BY <1>1, NumberFacts DEF Init
  <2>2. /\ queue \in Seq([id : Ids, file : Files, enabled : BOOLEAN,
                          status : ItemStatuses, media : BOOLEAN])
        /\ inbox \in Seq(Texts) /\ active \in Seq(Ids)
    BY <1>1
  <2>3. /\ files \in [Batches -> Seq(FileStatuses)] /\ held \in [Batches -> Seq(FileStatuses)]
        /\ live \in [Batches -> {"None", "Running", "Returned", "Failed", "Reported", "Lost"}]
        /\ probing \in [Ids -> {"None", "Waiting", "Probing"}]
        /\ token \subseteq Batches /\ fresh \subseteq Batches
    BY DEF Init
  <2>4. panicked \subseteq Ids /\ unjoined \in 0 .. Cardinality(panicked)
    BY FS_EmptySet DEF Init
  <2>5. /\ phase \in Phases /\ overlay \in Overlays /\ stop \in BOOLEAN
        /\ reader \in {"Polling", "Holding", "Ended"} /\ app = "Looping"
    BY DEF Init, Phases, Overlays
  <2> QED
    BY <2>1, <2>2, <2>3, <2>4, <2>5 DEF TypeOK
<1>3. \A id \in Ids : ~Asked(id)
  BY <1>1 DEF Init, Asked
<1>4. Rows /\ Probes /\ Reports /\ RowsAtWork
  BY <1>1, <1>3 DEF Init, Rows, Probes, Reports, RowsAtWork
<1>5. LastBatch
  <2>1. started = 0 /\ phase = "Idle" /\ app = "Looping" /\ \A b \in Batches : live[b] = "None" /\ b # 0 /\ ~(b < 0)
    BY NumberFacts DEF Init, Batches
  <2> QED
    BY <1>1, <2>1 DEF LastBatch
<1> QED
  BY <1>2, <1>4, <1>5 DEF IInv

LEMMA StepInv == IInv /\ [Next]_vars => IInv'
<1> SUFFICES ASSUME IInv, [Next]_vars
             PROVE  IInv'
  OBVIOUS
<1>1. CASE Keys
  BY <1>1, OverlayKeyInv, PlainKeyInv, StartKeyInv, RetryKeyInv, EditKeyInv, OtherInputInv
  DEF Keys
<1>2. CASE Messages
  BY <1>2, OnDiscoveredInv, OnProbeInv, OnSnapshotInv, OnBatchFinishedInv, OnTaskFailedInv
  DEF Messages
<1>3. CASE DiscoverySends
  BY <1>3, DiscoverySendsInv
<1>4. ASSUME NEW id \in Ids, ProbeStarts(id) \/ ProbeSends(id) \/ ProbePanics(id)
      PROVE  IInv'
  BY <1>4, ProbeStartsInv, ProbeSendsInv, ProbePanicsInv
<1>5. ASSUME NEW b \in Batches,
             RelayReads(b) \/ RelaySends(b) \/ WaiterSends(b) \/ BatchReturns(b) \/ SchedulerFails(b)
      PROVE  IInv'
  BY <1>5, RelayReadsInv, RelaySendsInv, WaiterSendsInv, BatchEndsInv
<1>6. ASSUME NEW b \in Batches, NEW k \in DOMAIN files[b], FileMoves(b, k)
      PROVE  IInv'
  BY <1>6, FileMovesInv
<1>7. CASE ReaderSends \/ ReaderFails
  BY <1>7, ReaderInv
<1>8. CASE ReaderStops \/ ReaderJoined \/ AllJoined
  BY <1>8, JoinsInv
<1>9. CASE Leave \/ DrawFails
  BY <1>9, LeaveInv
<1>10. CASE UNCHANGED vars
  BY <1>10
  DEF vars, IInv, TypeOK, Rows, Probes, Asked, Reports, LastBatch, RowsAtWork
<1> QED
  BY <1>1, <1>2, <1>3, <1>4, <1>5, <1>6, <1>7, <1>8, <1>9, <1>10 DEF Next

(* The invariant of the terminal interface: rows, probes, messages, phase  *)
(* and batch agree, whatever is pressed, found, late or lost.              *)
THEOREM Invariant == Spec => []IInv
BY InitInv, StepInv, PTL DEF Spec

LEMMA InFlightIsAsked == ASSUME NEW id PROVE InFlight(id) <=> Asked(id)
BY DEF InFlight, Answers, Asked

(* A row has one probe at a time, which answers to that row while it still *)
(* shows it.                                                               *)
THEOREM ProbesAnswer == Spec => []ProbesAnswerTheirRows
<1>1. IInv => ProbesAnswerTheirRows
  <2> SUFFICES ASSUME IInv
               PROVE  ProbesAnswerTheirRows
    OBVIOUS
  <2>1. /\ Positions = DOMAIN queue /\ DOMAIN queue \subseteq Nat
        /\ \A k \in DOMAIN queue : queue[k].id \in Nat
    BY QueueFacts DEF IInv
  <2>2. ASSUME NEW j \in Positions, NEW k \in Positions, j # k
        PROVE  queue[j].id # queue[k].id /\ queue[j].file # queue[k].file
    <3>1. j \in Nat /\ k \in Nat /\ (j < k \/ k < j)
      BY <2>1, <2>2
    <3>2. queue[j].id < queue[k].id \/ queue[k].id < queue[j].id
      BY <2>1, <3>1 DEF IInv, Rows
    <3> QED
      BY <2>1, <2>2, <3>2 DEF IInv, Rows
  <2>3. ASSUME NEW id \in Ids
        PROVE  Cardinality(Answers(id)) <= (IF probing[id] = "None" THEN 1 ELSE 0)
    <3>1. CASE Answers(id) = {}
      BY <3>1, FS_EmptySet
    <3>2. CASE Answers(id) # {}
      <4>1. PICK n \in DOMAIN inbox : inbox[n].type = "Probed" /\ inbox[n].id = id
        BY <3>2 DEF Answers
      <4>2. Answers(id) = {n}
        BY <4>1 DEF Answers, IInv, Probes
      <4>3. probing[id] = "None"
        BY <4>1 DEF IInv, Probes
      <4>4. Cardinality({n}) = 1
        BY FS_Singleton
      <4> QED
        BY <4>2, <4>3, <4>4
    <3> QED
      BY <3>1, <3>2
  <2>4. \A k \in Positions :
          /\ InFlight(queue[k].id) => queue[k].status = "Probing"
          /\ queue[k].status = "Probing" =>
                InFlight(queue[k].id) \/ queue[k].id \in panicked
    BY <2>1, InFlightIsAsked DEF IInv, Rows
  <2> QED
    BY <2>2, <2>3, <2>4 DEF IInv, ProbesAnswerTheirRows
<1> QED
  BY <1>1, Invariant, PTL

(* The files a batch names by ordinal are rows of the queue while it is    *)
(* active, each its own.                                                   *)
THEOREM RowsStay == Spec => []BatchKeepsItsRows
<1>1. IInv => BatchKeepsItsRows
  <2> SUFFICES ASSUME IInv, phase # "Idle"
               PROVE  /\ holder = started /\ live[holder] # "None"
                      /\ Len(active) = Len(files[holder])
                      /\ \A j \in DOMAIN active :
                           /\ \E k \in Positions : queue[k].id = active[j] /\ queue[k].enabled
                           /\ \A i \in 1 .. j - 1 : active[i] < active[j]
    BY DEF BatchKeepsItsRows
  <2>1. DOMAIN active = 1 .. Len(active) /\ Len(active) \in Nat
    BY DEF IInv, TypeOK
  <2>2. \A j \in DOMAIN active : \A i \in 1 .. j - 1 : i \in DOMAIN active /\ i < j
    BY <2>1
  <2>3. Positions = DOMAIN queue
    BY QueueFacts DEF IInv
  <2> QED
    BY <2>2, <2>3 DEF IInv, LastBatch
<1> QED
  BY <1>1, Invariant, PTL

(* What the screen calls cancelling is cancelled.                          *)
THEOREM CancelReaches == Spec => []CancelReachesBatch
<1>1. IInv => CancelReachesBatch
  BY DEF IInv, LastBatch, CancelReachesBatch
<1> QED
  BY <1>1, Invariant, PTL

(* The loop is left, other than by a failure of the terminal, only after   *)
(* the report of every batch was handled.                                  *)
THEOREM QuitAbandons == Spec => []QuitAbandonsNothing
<1>1. IInv => QuitAbandonsNothing
  <2> SUFFICES ASSUME IInv, app \in {"Leaving", "Stopping", "Joining", "Ended"}, NEW b \in Batches
               PROVE  live[b] \in {"None", "Reported", "Lost"}
    BY DEF QuitAbandonsNothing
  <2>1. phase = "Idle"
    BY DEF IInv, LastBatch
  <2>2. started \in Nat /\ b \in Nat /\ (b < started \/ b = started \/ b > started)
    BY NumberFacts DEF IInv, TypeOK, Batches
  <2> QED
    BY <2>1, <2>2 DEF IInv, LastBatch
<1> QED
  BY <1>1, Invariant, PTL

(* Unless a task of the program died, an idle queue has no row that can be *)
(* neither started nor retried and waits for nothing.                      *)
THEOREM NothingIsStuck == Spec => []NoRowStuck
<1>1. IInv => NoRowStuck
  <2> SUFFICES ASSUME IInv, phase = "Idle", \A b \in Batches : live[b] # "Lost",
                      NEW k \in DOMAIN queue
               PROVE  \/ queue[k].status \in CanStart \cup {"Failed", "Cancelled"}
                      \/ InFlight(queue[k].id) \/ queue[k].id \in panicked
    BY QueueFacts DEF NoRowStuck, IInv
  <2>1. active = <<>>
    BY DEF IInv, LastBatch
  <2>2. queue[k].status \notin {"Queued", "Preparing", "Running"}
    BY <2>1 DEF IInv, RowsAtWork
  <2>3. queue[k].status \in ItemStatuses
    BY QueueFacts DEF IInv
  <2>4. queue[k].status = "Probing" => InFlight(queue[k].id) \/ queue[k].id \in panicked
    BY InFlightIsAsked DEF IInv, Rows
  <2> QED
    BY <2>2, <2>3, <2>4 DEF ItemStatuses, FileStatuses, Terminal, CanStart
<1> QED
  BY <1>1, Invariant, PTL

(* The rows that were there stay where they are.                           *)
LEMMA DiscoveredKeeps ==
  ASSUME IInv, OnDiscovered, NEW k \in DOMAIN queue
  PROVE  \E j \in DOMAIN queue' : queue'[j] = queue[k]
<1>1. \/ UNCHANGED queue
      \/ \E found \in SUBSET Files : \E new \in SetToSeqs(found \ Known) :
           queue' = queue \o [n \in DOMAIN new |->
                 [id |-> nextId + n - 1, file |-> new[n], enabled |-> TRUE,
                  status |-> "Probing", media |-> FALSE]]
  BY DEF OnDiscovered
<1>2. ASSUME NEW found \in SUBSET Files, NEW new \in SetToSeqs(found \ Known), NEW item,
             item = [n \in DOMAIN new |->
                 [id |-> nextId + n - 1, file |-> new[n], enabled |-> TRUE,
                  status |-> "Probing", media |-> FALSE]],
             queue' = queue \o item
      PROVE  k \in DOMAIN queue' /\ queue'[k] = queue[k]
  <2>1. IsFiniteSet(found \ Known)
    <3>1. IsFiniteSet(Files) /\ found \ Known \in SUBSET Files
      BY TuiAssumption DEF TuiAssumption
    <3> QED
      BY <3>1, FS_Subset
  <2>2. Cardinality(found \ Known) \in Nat
    BY <2>1, FS_CardinalityType
  <2> DEFINE n == Cardinality(found \ Known)
             T == {item[j] : j \in DOMAIN item}
  <2>3. DOMAIN item = 1 .. n /\ n \in Nat
    BY <1>2, <2>2 DEF SetToSeqs
  <2>4. item = [j \in 1 .. n |-> item[j]]
    BY <1>2, <2>3
  <2> HIDE DEF n, T
  <2>5. item \in [1 .. n -> T]
    BY <2>3, <2>4 DEF T
  <2>6. item \in Seq(T \cup Row) /\ Len(item) = n
    BY <2>3, <2>5
  <2>7. /\ queue \in Seq(Row) /\ Len(queue) \in Nat /\ DOMAIN queue = 1 .. Len(queue)
    BY QueueFacts DEF IInv
  <2>8. queue \in Seq(T \cup Row)
    BY <2>7
  <2>9. /\ queue' \in Seq(T \cup Row) /\ Len(queue') = Len(queue) + n
        /\ \A i \in 1 .. Len(queue) + n :
             queue'[i] = IF i <= Len(queue) THEN queue[i] ELSE item[i - Len(queue)]
    <3>1. /\ queue \o item \in Seq(T \cup Row) /\ Len(queue \o item) = Len(queue) + Len(item)
          /\ \A i \in 1 .. Len(queue) + Len(item) : (queue \o item)[i] =
               IF i <= Len(queue) THEN queue[i] ELSE item[i - Len(queue)]
      BY <2>6, <2>8, ConcatProperties
    <3> QED
      BY <1>2, <2>6, <3>1
  <2>10. DOMAIN queue' = 1 .. Len(queue) + n
    BY <2>9
  <2> QED
    BY <2>3, <2>7, <2>9, <2>10
<1> QED
  BY <1>1, <1>2

(* Late snapshots and answers change no result of a batch that is over.    *)
THEOREM ResultsRemain == Spec => ResultsStay
<1>1. IInv /\ [Next]_vars =>
        (phase = "Idle" /\ phase' = "Idle" =>
           \A k \in Positions :
             queue[k].status \in Terminal =>
               \/ Keys
               \/ \E j \in DOMAIN queue' : queue'[j] = queue[k])
  <2> SUFFICES ASSUME IInv, [Next]_vars, phase = "Idle", ~Keys, NEW k \in DOMAIN queue,
                      queue[k].status \in Terminal
               PROVE  \E j \in DOMAIN queue' : queue'[j] = queue[k]
    BY QueueFacts DEF IInv
  <2>1. CASE OnDiscovered
    BY <2>1, DiscoveredKeeps
  <2>2. CASE OnProbe
    <3>1. "Probing" \notin Terminal
      BY DEF Terminal
    <3> QED
      BY <2>2, <3>1, ProbeFacts
  <2>3. CASE OnSnapshot
    <3>1. /\ Receive("Snapshot") /\ queue' = Applied(queue, active, Head(inbox).states)
      BY <2>3 DEF OnSnapshot
    <3>2. Head(inbox).states \in Seq(FileStatuses)
      BY <3>1, ReceiveFacts, InboxFacts DEF IInv
    <3>3. active = <<>>
      BY DEF IInv, LastBatch
    <3> DEFINE states == Head(inbox).states
    <3> HIDE DEF states
    <3>4. states \in Seq(FileStatuses) /\ queue' = Applied(queue, active, states)
      BY <3>1, <3>2 DEF states
    <3>5. DOMAIN queue' = DOMAIN queue /\ queue'[k] = queue[k]
      BY <3>3, <3>4, AppliedFacts DEF IInv
    <3> QED
      BY <3>5
  <2>4. CASE OnBatchFinished
    <3>1. inbox[1].type = "Finished" /\ 1 \in DOMAIN inbox
      BY <2>4, ReceiveFacts DEF OnBatchFinished, IInv
    <3> QED
      BY <3>1 DEF IInv, Reports
  <2>5. CASE UNCHANGED queue
    BY <2>5
  <2>6. \/ OnDiscovered \/ OnProbe \/ OnSnapshot \/ OnBatchFinished
        \/ UNCHANGED queue
    BY DEF Next, Messages, OnTaskFailed, DiscoverySends, ProbeStarts, ProbeSends, ProbePanics,
           RelayReads, RelaySends, WaiterSends, BatchReturns, SchedulerFails, FileMoves,
           ReaderSends, ReaderFails, ReaderStops, Leave, DrawFails, ReaderJoined, AllJoined,
           vars
  <2> QED
    BY <2>1, <2>2, <2>3, <2>4, <2>5, <2>6
<1> QED
  BY <1>1, Invariant, PTL DEF Spec, ResultsStay
=============================================================================
