-------------------------- MODULE GuiSessionProofs --------------------------
(* The session has one owner at a time, the ordinals of a batch keep their *)
(* meaning, and nothing is left behind: for any number of items and of     *)
(* batches, and whatever the user does in whatever order.                  *)
EXTENDS GuiSession, ListingProofs

-----------------------------------------------------------------------------
(* Lines: lists of items, each once.                                       *)
LEMMA LineFacts ==
  ASSUME NEW s \in Lines
  PROVE  /\ s \in Seq(Items)
         /\ DOMAIN s = 1 .. Len(s)
         /\ Len(s) \in 0 .. Cardinality(Items)
         /\ \A j, k \in DOMAIN s : s[j] = s[k] => j = k
<1>1. PICK n \in 0 .. Cardinality(Items) : s \in [1 .. n -> Items]
  BY DEF Lines
<1>2. Cardinality(Items) \in Nat
  BY FS_CardinalityType, SessionAssumption DEF SessionAssumption
<1>3. n \in Nat
  BY <1>2
<1>4. s \in Seq(Items) /\ Len(s) = n /\ DOMAIN s = 1 .. n
  BY <1>1, <1>3
<1> QED
  BY <1>4 DEF Lines

LEMMA IsLine ==
  ASSUME NEW s \in Seq(Items), \A j, k \in DOMAIN s : s[j] = s[k] => j = k
  PROVE  s \in Lines
<1>1. Len(s) \in Nat /\ DOMAIN s = 1 .. Len(s) /\ s \in [1 .. Len(s) -> Items]
  OBVIOUS
<1>2. IsFiniteSet(Items)
  BY SessionAssumption DEF SessionAssumption
<1>3. s \in Injection(1 .. Len(s), Items)
  BY <1>1 DEF Injection, IsInjective
<1>4. Cardinality(1 .. Len(s)) <= Cardinality(Items)
  BY <1>2, <1>3, FS_Injection
<1>5. Cardinality(1 .. Len(s)) = Len(s)
  BY <1>1, FS_Interval
<1>6. Cardinality(Items) \in Nat
  BY <1>2, FS_CardinalityType
<1>7. Len(s) \in 0 .. Cardinality(Items)
  BY <1>1, <1>4, <1>5, <1>6
<1> QED
  BY <1>1, <1>7 DEF Lines

(* Taking some away, or adding others, leaves a line.                      *)
LEMMA SelectedLine ==
  ASSUME NEW s \in Lines, NEW S \in SUBSET DOMAIN s
  PROVE  LET picked == Selected(s, S) IN
         /\ picked \in Lines
         /\ \A k \in DOMAIN picked : \E i \in S : picked[k] = s[i]
         /\ \A i \in S : \E k \in DOMAIN picked : picked[k] = s[i]
<1> DEFINE picked == Selected(s, S)
<1>1. s \in Seq(Items) /\ \A j, k \in DOMAIN s : s[j] = s[k] => j = k
  BY LineFacts
<1>2. /\ picked \in Seq(Items)
      /\ DOMAIN picked = 1 .. Len(picked)
      /\ \A k \in DOMAIN picked : Nth(S, k) \in S /\ picked[k] = s[Nth(S, k)]
      /\ \A i \in S : Place(S, i) \in DOMAIN picked /\ picked[Place(S, i)] = s[i]
      /\ \A j, k \in DOMAIN picked : j < k => Nth(S, j) < Nth(S, k)
  BY <1>1, SelectedInOrder
<1> HIDE DEF picked
<1>3. \A j, k \in DOMAIN picked : j # k => Nth(S, j) # Nth(S, k)
  <2>1. DOMAIN s \subseteq Nat
    BY <1>1
  <2>2. Len(picked) \in Nat
    BY <1>2
  <2> SUFFICES ASSUME NEW j \in DOMAIN picked, NEW k \in DOMAIN picked, j # k
               PROVE  Nth(S, j) # Nth(S, k)
    OBVIOUS
  <2>3. j < k \/ k < j
    BY <1>2, <2>2
  <2>4. Nth(S, j) \in Nat /\ Nth(S, k) \in Nat
    BY <1>2, <2>1
  <2> QED
    BY <1>2, <2>3, <2>4
<1>4. \A j, k \in DOMAIN picked : picked[j] = picked[k] => j = k
  BY <1>1, <1>2, <1>3
<1>5. picked \in Lines
  BY <1>2, <1>4, IsLine
<1> QED
  BY <1>2, <1>5 DEF picked

LEMMA JoinedLine ==
  ASSUME NEW s \in Lines, NEW t \in Lines,
         \A j \in DOMAIN s, k \in DOMAIN t : s[j] # t[k]
  PROVE  /\ s \o t \in Lines
         /\ Len(s \o t) = Len(s) + Len(t)
         /\ \A j \in 1 .. Len(s) : (s \o t)[j] = s[j]
         /\ \A j \in 1 .. Len(t) : (s \o t)[Len(s) + j] = t[j]
<1>1. /\ s \in Seq(Items) /\ DOMAIN s = 1 .. Len(s) /\ Len(s) \in Nat
      /\ \A j, k \in DOMAIN s : s[j] = s[k] => j = k
  BY LineFacts
<1>2. /\ t \in Seq(Items) /\ DOMAIN t = 1 .. Len(t) /\ Len(t) \in Nat
      /\ \A j, k \in DOMAIN t : t[j] = t[k] => j = k
  BY LineFacts
<1> DEFINE u == s \o t
<1>3. /\ u \in Seq(Items) /\ DOMAIN u = 1 .. Len(u) /\ Len(u) = Len(s) + Len(t)
      /\ \A j \in 1 .. Len(u) : u[j] = IF j <= Len(s) THEN s[j] ELSE t[j - Len(s)]
  BY <1>1, <1>2
<1>4. /\ \A j \in 1 .. Len(s) : u[j] = s[j]
      /\ \A j \in 1 .. Len(t) : u[Len(s) + j] = t[j]
  BY <1>1, <1>2, <1>3
<1> HIDE DEF u
<1>5. ASSUME NEW j \in DOMAIN u, NEW k \in DOMAIN u, u[j] = u[k]
      PROVE  j = k
  <2>1. j \in Nat /\ k \in Nat /\ j \in 1 .. Len(u) /\ k \in 1 .. Len(u)
    BY <1>3
  <2>2. CASE j <= Len(s) /\ k <= Len(s)
    BY <1>1, <1>3, <1>5, <2>1, <2>2
  <2>3. CASE j <= Len(s) /\ ~ (k <= Len(s))
    <3>1. j \in DOMAIN s /\ k - Len(s) \in DOMAIN t
      BY <1>1, <1>2, <1>3, <2>1, <2>3
    <3> QED
      BY <1>3, <1>5, <2>1, <2>3, <3>1
  <2>4. CASE ~ (j <= Len(s)) /\ k <= Len(s)
    <3>1. k \in DOMAIN s /\ j - Len(s) \in DOMAIN t
      BY <1>1, <1>2, <1>3, <2>1, <2>4
    <3> QED
      BY <1>3, <1>5, <2>1, <2>4, <3>1
  <2>5. CASE ~ (j <= Len(s)) /\ ~ (k <= Len(s))
    <3>1. j - Len(s) \in DOMAIN t /\ k - Len(s) \in DOMAIN t
      BY <1>1, <1>2, <1>3, <2>1, <2>5
    <3>2. j - Len(s) = k - Len(s)
      BY <1>2, <1>3, <1>5, <2>1, <2>5, <3>1
    <3> QED
      BY <1>1, <2>1, <3>2
  <2> QED
    BY <2>2, <2>3, <2>4, <2>5
<1>6. u \in Lines
  BY <1>3, <1>5, IsLine
<1> QED
  BY <1>3, <1>4, <1>6 DEF u

-----------------------------------------------------------------------------
(* What a step leaves alone keeps its place in the invariant.              *)
USE DEF session, probes, launch, runs, relays

LEMMA QueueFacts ==
  ASSUME TypeOK
  PROVE  /\ DOMAIN queue = 1 .. Len(queue)
         /\ InQueue = {queue[k] : k \in DOMAIN queue}
         /\ InQueue \subseteq Items
BY LineFacts DEF TypeOK, InQueue

LEMMA IdleFacts ==
  ASSUME IInv, EnsureIdle
  PROVE  /\ InFlight = {} /\ ~launching
         /\ pass = "none" /\ probing = {}
         /\ ~SchedulerMayFail => active = <<>>
BY DEF IInv, Owner, Ordinals, InFlight, EnsureIdle, IsActive, TypeOK

LEMMA FlightFacts ==
  ASSUME IInv, NEW b \in Batches, live[b] \in {"running", "closed", "crashed"}
  PROVE  /\ b = started /\ b \in InFlight /\ IsActive
         /\ pass = "none" /\ probing = {}
         /\ active = jobs[b] /\ DOMAIN shown[b] = DOMAIN active
BY DEF IInv, Owner, Ordinals, InFlight, IsActive, TypeOK, Batches

-----------------------------------------------------------------------------
(* Commands that change the queue.                                         *)
LEMMA RemoveItemsInv == ASSUME IInv, RemoveItems PROVE IInv'
<1>1. PICK S \in SUBSET InQueue :
        /\ queue' = Selected(queue, {k \in DOMAIN queue : queue[k] \notin S})
        /\ enabled' = enabled \ S
        /\ media' = media \ S
        /\ status' = Mark(S, "Absent")
  BY DEF RemoveItems
<1> DEFINE kept == {k \in DOMAIN queue : queue[k] \notin S}
<1>2. EnsureIdle /\ TypeOK
  BY DEF RemoveItems, IInv
<1>3. /\ queue' \in Lines
      /\ \A k \in DOMAIN queue' : \E i \in kept : queue'[k] = queue[i]
      /\ \A i \in kept : \E k \in DOMAIN queue' : queue'[k] = queue[i]
  <2>1. queue \in Lines /\ kept \in SUBSET DOMAIN queue
    BY <1>2 DEF TypeOK
  <2>2. queue' = Selected(queue, kept)
    BY <1>1
  <2> HIDE DEF kept
  <2> QED
    BY <2>1, <2>2, SelectedLine
<1>4. DOMAIN queue' = 1 .. Len(queue')
  BY <1>3, LineFacts
<1>5. InQueue' = InQueue \ S
  <2>1. InQueue = {queue[k] : k \in DOMAIN queue}
    BY <1>2, QueueFacts
  <2>2. InQueue' = {queue'[k] : k \in DOMAIN queue'}
    BY <1>4 DEF InQueue
  <2> QED
    BY <1>3, <2>1, <2>2
<1>6. TypeOK'
  BY <1>1, <1>2, <1>3, <1>5, IdleFacts
  DEF RemoveItems, TypeOK, Mark, ItemStatuses, IInv
<1>7. Owner'
  BY DEF RemoveItems, IInv, Owner, InFlight, IsActive
<1>8. Ordinals'
  BY <1>1, <1>2, <1>5, IdleFacts, QueueFacts
  DEF RemoveItems, IInv, Ordinals, InFlight, Over, Mark
<1>9. Accounted'
  BY <1>1, <1>2, IdleFacts DEF RemoveItems, IInv, Accounted, Mark
<1> QED
  BY <1>6, <1>7, <1>8, <1>9 DEF IInv

LEMMA SetItemEnabledInv == ASSUME IInv, SetItemEnabled PROVE IInv'
<1>1. TypeOK'
  BY DEF SetItemEnabled, IInv, TypeOK, InQueue
<1>2. Owner'
  BY DEF SetItemEnabled, IInv, Owner, InFlight, IsActive
<1>3. Ordinals'
  BY DEF SetItemEnabled, IInv, Ordinals, InFlight, Over, InQueue
<1>4. Accounted'
  BY DEF SetItemEnabled, IInv, Accounted
<1> QED
  BY <1>1, <1>2, <1>3, <1>4 DEF IInv

LEMMA UpdateSettingsInv == ASSUME IInv, UpdateSettings PROVE IInv'
<1>1. PICK bad \in SUBSET media : status' = Replanned(status, bad)
  BY DEF UpdateSettings
<1>2. \A i \in Items : \/ status'[i] = status[i]
                       \/ i \in media /\ status'[i] \in {"Ready", "Failed"}
  BY <1>1 DEF Replanned
<1>3. status' \in [Items -> ItemStatuses]
  BY <1>1 DEF Replanned, IInv, TypeOK, ItemStatuses, FileStatuses, Terminal
<1>4. media \subseteq InQueue
  BY DEF IInv, TypeOK
<1>5. TypeOK'
  BY <1>3 DEF UpdateSettings, IInv, TypeOK, InQueue
<1>6. Owner'
  BY DEF UpdateSettings, IInv, Owner, InFlight, IsActive
<1>7. Ordinals'
  BY <1>2, <1>4 DEF UpdateSettings, IInv, Ordinals, InFlight, Over, InQueue
<1>8. Accounted'
  BY <1>2 DEF UpdateSettings, IInv, Accounted
<1> QED
  BY <1>5, <1>6, <1>7, <1>8 DEF IInv

LEMMA ToolsInv == ASSUME IInv, StoreTools \/ LeaveSetup PROVE IInv'
<1>1. phase' \in Phases
  BY DEF StoreTools, LeaveSetup, IInv, TypeOK, Phases
<1>2. tools' \in BOOLEAN /\ choosing' \in BOOLEAN
  BY DEF StoreTools, LeaveSetup, IInv, TypeOK
<1>3. UNCHANGED <<queue, enabled, status, media, pass, probing, saw, belated, started,
                  launching, jobs, active, holder, cancelling, closer, live, shown,
                  token, fresh, held, wiping>>
  BY DEF StoreTools, LeaveSetup
<1>4. TypeOK'
  BY <1>1, <1>2, <1>3 DEF IInv, TypeOK, InQueue
<1>5. Owner'
  BY <1>3 DEF StoreTools, LeaveSetup, IInv, Owner, InFlight, IsActive
<1>6. Ordinals'
  BY <1>3 DEF IInv, Ordinals, InFlight, Over, InQueue
<1>7. Accounted'
  <2>1. tools => tools'
    <3>1. CASE StoreTools
      BY <3>1 DEF StoreTools
    <3>2. CASE LeaveSetup
      BY <3>2 DEF LeaveSetup
    <3> QED
      BY <3>1, <3>2
  <2>2. phase' = "ToolchainSetup" => phase = "ToolchainSetup"
    BY DEF StoreTools, LeaveSetup
  <2> QED
    BY <1>3, <2>1, <2>2 DEF IInv, Accounted
<1> QED
  BY <1>4, <1>5, <1>6, <1>7 DEF IInv

-----------------------------------------------------------------------------
(* A pass of probes.                                                       *)
LEMMA AddRootsInv == ASSUME IInv, AddRoots PROVE IInv'
<1>1. TypeOK'
  BY DEF AddRoots, IInv, TypeOK, InQueue, Phases
<1>2. Owner'
  BY IdleFacts DEF AddRoots, IInv, Owner, InFlight, IsActive
<1>3. Ordinals'
  BY DEF AddRoots, IInv, Ordinals, InFlight, Over, InQueue
<1>4. Accounted'
  BY DEF AddRoots, IInv, Accounted
<1> QED
  BY <1>1, <1>2, <1>3, <1>4 DEF IInv

LEMMA DiscoveredInv == ASSUME IInv, Discovered PROVE IInv'
<1>1. PICK more \in Lines :
        LET new == {more[k] : k \in DOMAIN more}
        IN /\ new \cap InQueue = {}
           /\ queue' = queue \o more
           /\ enabled' = enabled \cup new
           /\ status' = Mark(new, "Probing")
           /\ probing' = new
  BY DEF Discovered
<1> DEFINE new == {more[k] : k \in DOMAIN more}
<1>2. TypeOK /\ queue \in Lines
  BY DEF IInv, TypeOK
<1>3. \A j \in DOMAIN queue, k \in DOMAIN more : queue[j] # more[k]
  BY <1>1, <1>2, QueueFacts
<1>4. /\ queue' \in Lines
      /\ Len(queue') = Len(queue) + Len(more)
      /\ \A j \in 1 .. Len(queue) : queue'[j] = queue[j]
      /\ \A j \in 1 .. Len(more) : queue'[Len(queue) + j] = more[j]
  BY <1>1, <1>2, <1>3, JoinedLine
<1>5. /\ DOMAIN more = 1 .. Len(more) /\ Len(more) \in Nat /\ new \subseteq Items
      /\ Len(queue) \in Nat
  BY <1>2, LineFacts
<1>6. InQueue' = InQueue \cup new
  <2>1. InQueue' = {queue'[k] : k \in 1 .. (Len(queue) + Len(more))}
    BY <1>4 DEF InQueue
  <2>2. \A k \in 1 .. (Len(queue) + Len(more)) :
          k \in 1 .. Len(queue) \/ \E j \in 1 .. Len(more) : k = Len(queue) + j
    <3> SUFFICES ASSUME NEW k \in 1 .. (Len(queue) + Len(more)), ~ (k \in 1 .. Len(queue))
                 PROVE  \E j \in 1 .. Len(more) : k = Len(queue) + j
      OBVIOUS
    <3>1. k - Len(queue) \in 1 .. Len(more) /\ k = Len(queue) + (k - Len(queue))
      BY <1>5
    <3> QED
      BY <3>1
  <2>3. \A j \in 1 .. Len(more) : Len(queue) + j \in 1 .. (Len(queue) + Len(more))
    BY <1>5
  <2>4. \A j \in 1 .. Len(queue) : j \in 1 .. (Len(queue) + Len(more))
    BY <1>5
  <2>5. InQueue = {queue[k] : k \in 1 .. Len(queue)}
    BY DEF InQueue
  <2>6. new = {more[k] : k \in 1 .. Len(more)}
    BY <1>5
  <2> HIDE DEF new
  <2>7. InQueue \subseteq InQueue' /\ new \subseteq InQueue'
    BY <1>4, <2>1, <2>3, <2>4, <2>5, <2>6
  <2>8. InQueue' \subseteq InQueue \cup new
    <3> SUFFICES ASSUME NEW k \in 1 .. (Len(queue) + Len(more))
                 PROVE  queue'[k] \in InQueue \cup new
      BY <2>1
    <3>1. CASE k \in 1 .. Len(queue)
      BY <1>4, <2>5, <3>1
    <3>2. ASSUME NEW j \in 1 .. Len(more), k = Len(queue) + j
          PROVE  queue'[k] \in new
      BY <1>4, <2>6, <3>2
    <3> QED
      BY <2>2, <3>1, <3>2
  <2> QED
    BY <2>7, <2>8
<1> HIDE DEF new
<1>7. /\ new \cap InQueue = {} /\ enabled' = enabled \cup new
      /\ status' = Mark(new, "Probing") /\ probing' = new
  BY <1>1 DEF new
<1>8. TypeOK'
  BY <1>2, <1>4, <1>6, <1>7 DEF Discovered, TypeOK, Mark, ItemStatuses
<1>9. /\ pass = "discover" /\ pass' = "tools" /\ phase' = phase
      /\ UNCHANGED <<started, launching, jobs, active, live, shown, fresh, held, media,
                     tools, belated, saw>>
  BY DEF Discovered
<1>10. Owner'
  BY <1>9 DEF IInv, Owner, InFlight, IsActive
<1>11. InFlight = {} /\ InFlight' = {}
  BY <1>9 DEF IInv, Owner, TypeOK, InFlight, IsActive
<1>12. Ordinals'
  BY <1>5, <1>6, <1>7, <1>9, <1>11 DEF IInv, Ordinals, Over, Mark
<1>13. Accounted'
  <2>1. probing = {}
    BY <1>9 DEF IInv, Owner
  <2>2. \A i \in Items : status'[i] = IF i \in new THEN "Probing" ELSE status[i]
    BY <1>7 DEF Mark
  <2> QED
    BY <1>7, <1>9, <2>1, <2>2 DEF IInv, Accounted
<1> QED
  BY <1>8, <1>10, <1>12, <1>13 DEF IInv

(* Steps of the pass that only move it on.                                 *)
LEMMA PassMovesInv ==
  ASSUME IInv, DiscoveryFails \/ ReadTools \/ EndPass
  PROVE  IInv'
<1>1. /\ UNCHANGED <<phase, tools, choosing, queue, enabled, status, media, probing,
                     belated, started, launching, jobs, active, holder, cancelling,
                     closer, live, shown, token, fresh, held, wiping>>
      /\ pass # "none" /\ pass' \in {"end", "probe", "missing", "settle"}
  BY DEF DiscoveryFails, ReadTools, EndPass
<1>2. saw' \in BOOLEAN
  BY DEF DiscoveryFails, ReadTools, EndPass, IInv, TypeOK
<1>3. TypeOK'
  BY <1>1, <1>2 DEF IInv, TypeOK, InQueue
<1>4. probing # {} => pass' \in {"tools", "missing", "probe", "reprobe"}
  BY DEF DiscoveryFails, ReadTools, EndPass, IInv, Owner
<1>5. Owner'
  BY <1>1, <1>4 DEF IInv, Owner, InFlight, IsActive
<1>6. Ordinals'
  BY <1>1 DEF IInv, Ordinals, InFlight, Over, InQueue
<1>7. /\ tools => pass' # "missing"
      /\ tools /\ pass' = "settle" => saw'
  BY DEF DiscoveryFails, ReadTools, EndPass
<1>8. Accounted'
  BY <1>1, <1>7 DEF IInv, Accounted
<1> QED
  BY <1>3, <1>5, <1>6, <1>8 DEF IInv

LEMMA ToolsMissingInv == ASSUME IInv, ToolsMissing PROVE IInv'
<1>1. TypeOK'
  BY DEF ToolsMissing, IInv, TypeOK, InQueue, Mark, Phases, ItemStatuses, FileStatuses,
         Terminal
<1>2. Owner'
  BY DEF ToolsMissing, IInv, Owner, InFlight, IsActive
<1>3. Ordinals'
  BY DEF ToolsMissing, IInv, Ordinals, InFlight, Over, InQueue, Mark
<1>4. Accounted'
  BY DEF ToolsMissing, IInv, Accounted, Mark
<1> QED
  BY <1>1, <1>2, <1>3, <1>4 DEF IInv

LEMMA ProbedInv == ASSUME IInv, NEW i \in Items, Probed(i) PROVE IInv'
<1>1. /\ pass \in {"probe", "reprobe"} /\ i \in probing
      /\ probing' = probing \ {i}
      /\ UNCHANGED <<phase, tools, choosing, queue, enabled, pass, saw, belated, started,
                     launching, jobs, active, holder, cancelling, closer, live, shown,
                     token, fresh, held, wiping>>
  BY DEF Probed
<1>2. i \in InQueue /\ probing \subseteq InQueue /\ media \subseteq InQueue
  BY <1>1 DEF IInv, TypeOK
<1>3. media' \in {media, media \cup {i}}
  BY DEF Probed
<1>4. /\ status' \in [Items -> ItemStatuses]
      /\ \A j \in Items : j # i => status'[j] = status[j]
      /\ \/ status'[i] \in {"Ready", "Failed"}
         \/ status'[i] = status[i] /\ ProbeMayPanic
  BY DEF Probed, Mark, IInv, TypeOK, ItemStatuses, FileStatuses, Terminal
<1>5. TypeOK'
  BY <1>1, <1>2, <1>3, <1>4 DEF IInv, TypeOK, InQueue
<1>6. Owner'
  BY <1>1 DEF IInv, Owner, InFlight, IsActive
<1>7. Ordinals'
  BY <1>1, <1>2, <1>4 DEF IInv, Ordinals, InFlight, Over, InQueue
<1>8. Accounted'
  BY <1>1, <1>4 DEF IInv, Accounted
<1> QED
  BY <1>5, <1>6, <1>7, <1>8 DEF IInv

LEMMA SettleInv == ASSUME IInv, Settle PROVE IInv'
<1>1. TypeOK'
  <2>1. phase' \in Phases /\ pass' = "none" /\ saw' \in BOOLEAN
    BY DEF Settle, Phases
  <2> QED
    BY <2>1 DEF Settle, IInv, TypeOK, InQueue
<1>2. Owner'
  BY DEF Settle, IInv, Owner, InFlight, IsActive
<1>3. Ordinals'
  BY DEF Settle, IInv, Ordinals, InFlight, Over, InQueue
<1>4. Accounted'
  BY DEF Settle, IInv, Accounted
<1> QED
  BY <1>1, <1>2, <1>3, <1>4 DEF IInv
LEMMA CallsInv == ASSUME IInv, CallRetry \/ RetryRefused PROVE IInv'
<1>1. /\ UNCHANGED <<phase, tools, choosing, queue, enabled, status, media, pass, probing,
                     saw, started, launching, jobs, active, holder, cancelling, closer,
                     live, shown, token, fresh, held, wiping>>
      /\ belated' \in BOOLEAN
      /\ belated' => ~tools
  BY DEF CallRetry, RetryRefused
<1>2. TypeOK'
  BY <1>1 DEF IInv, TypeOK, InQueue
<1>3. Owner'
  BY <1>1 DEF IInv, Owner, InFlight, IsActive
<1>4. Ordinals'
  BY <1>1 DEF IInv, Ordinals, InFlight, Over, InQueue
<1>5. Accounted'
  BY <1>1 DEF IInv, Accounted
<1> QED
  BY <1>2, <1>3, <1>4, <1>5 DEF IInv

LEMMA RetryInv == ASSUME IInv, NEW found \in BOOLEAN, Retry(found) PROVE IInv'
<1>1. PICK ids \in SUBSET InQueue, bad \in SUBSET media :
        LET again   == {i \in ids : status[i] \in {"Failed", "Cancelled"}}
            reprobe == again \ media
        IN /\ enabled' = enabled \cup again
           /\ status' = Replanned(Mark(reprobe, "Probing"), bad)
           /\ IF reprobe = {} THEN UNCHANGED <<phase, pass, probing>>
              ELSE /\ phase' = "Probing"
                   /\ pass' = IF found THEN "reprobe" ELSE "end"
                   /\ probing' = IF found THEN reprobe ELSE {}
  BY DEF Retry
<1> DEFINE again   == {i \in ids : status[i] \in {"Failed", "Cancelled"}}
           reprobe == again \ media
<1>2. /\ EnsureIdle /\ (found => tools) /\ (~found => belated)
      /\ belated' = (belated /\ found)
      /\ UNCHANGED <<tools, choosing, queue, media, saw, started, launching, jobs, active,
                     holder, cancelling, closer, live, shown, token, fresh, held, wiping>>
  BY DEF Retry
<1>3. /\ again \subseteq InQueue /\ reprobe \subseteq InQueue
      /\ reprobe \cap media = {} /\ media \subseteq InQueue
  BY DEF IInv, TypeOK
<1>4. enabled' = enabled \cup again
  BY <1>1
<1>5. \/ reprobe = {} /\ UNCHANGED <<phase, pass, probing>>
      \/ /\ phase' = "Probing" /\ reprobe # {}
         /\ \/ found /\ pass' = "reprobe" /\ probing' = reprobe
            \/ ~found /\ pass' = "end" /\ probing' = {}
  BY <1>1
<1>6. status' = Replanned(Mark(reprobe, "Probing"), bad)
  BY <1>1
<1> HIDE DEF again, reprobe
<1>7. /\ status' \in [Items -> ItemStatuses]
      /\ \A i \in Items : \/ status'[i] = status[i] /\ i \notin reprobe
                          \/ i \in media /\ status'[i] \in {"Ready", "Failed"}
                          \/ i \in reprobe /\ status'[i] = "Probing"
  BY <1>3, <1>6 DEF Replanned, Mark, IInv, TypeOK, ItemStatuses, FileStatuses, Terminal
<1>8. /\ InFlight = {} /\ InFlight' = {} /\ ~launching
      /\ pass = "none" /\ probing = {}
  BY <1>2, IdleFacts DEF InFlight
<1>9. TypeOK'
  <2>1. /\ phase' \in Phases /\ probing' \subseteq InQueue /\ belated' \in BOOLEAN
        /\ pass' \in {"none", "reprobe", "end"}
    BY <1>2, <1>3, <1>5, <1>8 DEF IInv, TypeOK, Phases
  <2> QED
    BY <1>2, <1>3, <1>4, <1>7, <2>1 DEF IInv, TypeOK, InQueue
<1>10. Owner'
  BY <1>2, <1>5, <1>8 DEF IInv, Owner, IsActive, EnsureIdle
<1>11. Ordinals'
  BY <1>2, <1>3, <1>7, <1>8 DEF IInv, Ordinals, Over, InQueue
<1>12. Accounted'
  BY <1>2, <1>5, <1>7, <1>8 DEF IInv, Accounted
<1> QED
  BY <1>9, <1>10, <1>11, <1>12 DEF IInv

-----------------------------------------------------------------------------
(* The life of a batch.                                                    *)
LEMMA StartFacts ==
  ASSUME IInv, Start
  PROVE  /\ active' \in Lines
         /\ \A k \in DOMAIN active' : active'[k] \in enabled
         /\ \A i \in enabled : \E k \in DOMAIN active' : active'[k] = i
<1> DEFINE chosen == {k \in DOMAIN queue : queue[k] \in enabled}
<1>1. TypeOK
  BY DEF IInv
<1>2. queue \in Lines /\ chosen \in SUBSET DOMAIN queue
  BY <1>1 DEF TypeOK
<1>3. active' = Selected(queue, chosen)
  BY DEF Start
<1>4. \A i \in enabled : \E k \in chosen : queue[k] = i
  BY <1>1, QueueFacts DEF TypeOK
<1>5. \A k \in chosen : queue[k] \in enabled
  OBVIOUS
<1> HIDE DEF chosen
<1>6. /\ active' \in Lines
      /\ \A k \in DOMAIN active' : \E i \in chosen : active'[k] = queue[i]
      /\ \A i \in chosen : \E k \in DOMAIN active' : active'[k] = queue[i]
  BY <1>2, <1>3, SelectedLine
<1> QED
  BY <1>4, <1>5, <1>6

LEMMA StartInv == ASSUME IInv, Start PROVE IInv'
<1>1. /\ phase = "Idle" /\ phase' = "Running" /\ launching'
      /\ started' = started + 1 /\ started' \in Batches /\ started \in Nat
      /\ jobs' = [jobs EXCEPT ![started'] = active']
      /\ status' = Mark(enabled, "Queued")
      /\ UNCHANGED <<tools, choosing, queue, enabled, media, pass, probing, saw, belated,
                     holder, cancelling, closer, live, shown, token, fresh, held, wiping>>
  BY SessionAssumption DEF SessionAssumption, Start, CanStart, IInv, TypeOK, Batches
<1>2. /\ active' \in Lines
      /\ \A k \in DOMAIN active' : active'[k] \in enabled
      /\ \A i \in enabled : \E k \in DOMAIN active' : active'[k] = i
  BY StartFacts
<1>3. /\ InFlight = {} /\ ~launching /\ pass = "none" /\ probing = {}
      /\ ~SchedulerMayFail => active = <<>>
  BY <1>1, IdleFacts DEF EnsureIdle
<1>4. \A b \in Batches : b <= started => live[b] = "over"
  BY <1>1, <1>3 DEF InFlight, Batches
<1>5. \A b \in Batches : b > started => live[b] = "none"
  BY DEF IInv, Owner
<1>6. \A b \in Batches : /\ b < started' => b <= started
                         /\ b > started' => b > started
  BY <1>1 DEF Batches
<1>7. live[started'] = "none"
  BY <1>1, <1>5
<1>8. started' \in InFlight' /\ \A b \in InFlight' : b = started'
  BY <1>1, <1>4, <1>6, <1>7, SessionAssumption DEF SessionAssumption, InFlight, Batches
<1>9. TypeOK'
  <2>1. /\ started' \in 0 .. MaxBatches /\ holder' \in 0 .. started'
        /\ launching' \in BOOLEAN /\ phase' \in Phases
    BY <1>1 DEF Start, IInv, TypeOK, Phases, Batches
  <2>2. jobs' \in [Batches -> Lines]
    BY <1>1, <1>2 DEF IInv, TypeOK
  <2>3. status' \in [Items -> ItemStatuses]
    BY <1>1 DEF IInv, TypeOK, Mark, ItemStatuses, FileStatuses
  <2> QED
    BY <1>1, <1>2, <2>1, <2>2, <2>3 DEF IInv, TypeOK, InQueue
<1>10. Owner'
  <2>1. IsActive' /\ InFlight' # {}
    BY <1>1, <1>8 DEF IsActive
  <2>2. \A b \in Batches : /\ b < started' => live'[b] = "over"
                           /\ b > started' => live'[b] = "none"
    BY <1>1, <1>4, <1>5, <1>6
  <2> QED
    BY <1>1, <1>3, <1>7, <2>1, <2>2 DEF Owner
<1>11. Ordinals'
  <2>1. \A i \in Items : status'[i] = "Absent" <=> i \notin InQueue'
    BY <1>1 DEF IInv, TypeOK, Ordinals, Mark, InQueue
  <2>2. active' = jobs'[started']
    BY <1>1 DEF IInv, TypeOK
  <2>3. \A k \in DOMAIN active' : active'[k] \in InQueue'
    BY <1>1, <1>2 DEF IInv, TypeOK, InQueue
  <2>4. /\ \A b \in Batches : /\ live'[b] = "closed" => Over(b)'
                              /\ live'[b] = "crashed" => SchedulerMayFail
        /\ \A b \in Batches : live'[b] = "none" => shown'[b] = <<>> /\ held'[b] = <<>>
                                                  /\ b \notin fresh'
    BY <1>1 DEF IInv, Ordinals, Over
  <2> QED
    BY <1>1, <1>7, <1>8, <2>1, <2>2, <2>3, <2>4 DEF Ordinals
<1>12. Accounted'
  <2>1. \A i \in Items : status'[i] = IF i \in enabled THEN "Queued" ELSE status[i]
    BY <1>1 DEF Mark
  <2>2. ASSUME ~SchedulerMayFail, NEW i \in Items,
               status'[i] \in {"Queued", "Preparing", "Running"}
        PROVE  i \in enabled
    <3>1. DOMAIN active = {}
      BY <1>3, <2>2
    <3> QED
      BY <2>1, <2>2, <3>1 DEF IInv, Accounted
  <2> QED
    BY <1>1, <1>2, <1>3, <2>1, <2>2 DEF IInv, Accounted
<1> QED
  BY <1>9, <1>10, <1>11, <1>12 DEF IInv

LEMMA SnapshotFacts ==
  /\ <<>> \in Snapshots
  /\ \A line \in Lines : [k \in DOMAIN line |-> "Queued"] \in Snapshots
  /\ \A states \in Snapshots :
       \A k \in DOMAIN states : states[k] \in FileStatuses
  /\ \A states \in Snapshots : \A k \in DOMAIN states, s \in FileStatuses :
       [states EXCEPT ![k] = s] \in Snapshots
<1>1. Cardinality(Items) \in Nat
  BY FS_CardinalityType, SessionAssumption DEF SessionAssumption
<1>2. <<>> \in Snapshots
  <2>1. <<>> \in [1 .. 0 -> FileStatuses] /\ 0 \in 0 .. Cardinality(Items)
    BY <1>1
  <2> QED
    BY <2>1 DEF Snapshots
<1>3. ASSUME NEW line \in Lines
      PROVE  [k \in DOMAIN line |-> "Queued"] \in Snapshots
  <2>1. DOMAIN line = 1 .. Len(line) /\ Len(line) \in 0 .. Cardinality(Items)
    BY LineFacts
  <2> QED
    BY <2>1 DEF Snapshots, FileStatuses
<1>4. ASSUME NEW states \in Snapshots, NEW k \in DOMAIN states
      PROVE  states[k] \in FileStatuses
  BY DEF Snapshots
<1>5. ASSUME NEW states \in Snapshots, NEW k \in DOMAIN states, NEW s \in FileStatuses
      PROVE  [states EXCEPT ![k] = s] \in Snapshots
  BY DEF Snapshots
<1> QED
  BY <1>2, <1>3, <1>4, <1>5

(* What a snapshot does to the items: those that the ordinals name get its *)
(* statuses, the others stay.                                              *)
LEMMA AppliedFacts ==
  ASSUME TypeOK, NEW states \in Snapshots
  PROVE  /\ Applied(states) \in [Items -> ItemStatuses]
         /\ \A i \in Items :
              \/ Applied(states)[i] = status[i]
              \/ /\ i \in InQueue /\ Applied(states)[i] \in FileStatuses
                 /\ \E k \in DOMAIN active : active[k] = i
         /\ \A k \in DOMAIN active \cap DOMAIN states :
              active[k] \in InQueue => Applied(states)[active[k]] = states[k]
<1>1. \A k \in DOMAIN states : states[k] \in FileStatuses
  BY SnapshotFacts
<1>2. /\ \A j, k \in DOMAIN active : active[j] = active[k] => j = k
      /\ \A k \in DOMAIN active : active[k] \in Items
  BY LineFacts DEF TypeOK
<1>3. ASSUME NEW i \in Items
      PROVE  \/ Applied(states)[i] = status[i]
             \/ /\ i \in InQueue
                /\ \E k \in DOMAIN active \cap DOMAIN states :
                     active[k] = i /\ Applied(states)[i] = states[k]
  BY DEF Applied
<1>4. ASSUME NEW i \in Items
      PROVE  \/ Applied(states)[i] = status[i]
             \/ /\ i \in InQueue /\ Applied(states)[i] \in FileStatuses
                /\ \E k \in DOMAIN active : active[k] = i
  BY <1>1, <1>3
<1>5. Applied(states) \in [Items -> ItemStatuses]
  <2>1. Applied(states) = [i \in Items |-> Applied(states)[i]]
    BY DEF Applied
  <2>2. \A i \in Items : Applied(states)[i] \in ItemStatuses
    BY <1>4 DEF TypeOK, ItemStatuses
  <2> QED
    BY <2>1, <2>2
<1>6. ASSUME NEW k \in DOMAIN active \cap DOMAIN states, active[k] \in InQueue
      PROVE  Applied(states)[active[k]] = states[k]
  <2>1. active[k] \in Items
    BY <1>2
  <2>2. Applied(states)[active[k]]
          = states[CHOOSE j \in DOMAIN active \cap DOMAIN states : active[j] = active[k]]
    BY <1>6, <2>1 DEF Applied
  <2>3. (CHOOSE j \in DOMAIN active \cap DOMAIN states : active[j] = active[k]) = k
    BY <1>2
  <2> QED
    BY <2>2, <2>3
<1> QED
  BY <1>4, <1>5, <1>6

LEMMA LaunchInv == ASSUME IInv, Launch PROVE IInv'
<1>1. /\ launching /\ launching' = FALSE
      /\ holder' = started
      /\ live' = [live EXCEPT ![started] = "running"]
      /\ shown' = [shown EXCEPT ![started] = [k \in DOMAIN jobs[started] |-> "Queued"]]
      /\ fresh' = fresh \cup {started}
      /\ UNCHANGED <<phase, tools, choosing, queue, enabled, status, media, pass, probing,
                     saw, belated, started, jobs, active, cancelling, closer, token, held,
                     wiping>>
  BY DEF Launch
<1>2. TypeOK /\ started # 0 /\ started \in Batches /\ live[started] = "none"
  BY <1>1, SessionAssumption
  DEF SessionAssumption, IInv, Owner, TypeOK, Batches
<1>3. InFlight' = InFlight /\ started \in InFlight
  <2>1. \A b \in 1 .. started : (live'[b] # "over") <=> (live[b] # "over")
    BY <1>1, <1>2, SessionAssumption DEF SessionAssumption, TypeOK, Batches
  <2> QED
    BY <1>1, <1>2, <2>1 DEF InFlight, Batches
<1>4. TypeOK'
  <2>1. jobs[started] \in Lines
    BY <1>2 DEF TypeOK
  <2>2. [k \in DOMAIN jobs[started] |-> "Queued"] \in Snapshots
    BY <2>1, SnapshotFacts
  <2>3. shown' \in [Batches -> Snapshots]
    BY <1>1, <1>2, <2>2 DEF TypeOK
  <2>4. /\ live' \in [Batches -> {"none", "running", "closed", "crashed", "over"}]
        /\ holder' \in 0 .. started' /\ fresh' \subseteq Batches
    BY <1>1, <1>2 DEF TypeOK
  <2>5. launching' \in BOOLEAN
    BY <1>1
  <2> QED
    BY <1>1, <1>2, <2>3, <2>4, <2>5 DEF TypeOK, InQueue
<1>5. Owner'
  <2>1. \A b \in Batches : b # started => live'[b] = live[b]
    BY <1>1, <1>2 DEF TypeOK
  <2>2. live'[started] = "running"
    BY <1>1, <1>2 DEF TypeOK
  <2>3. \A b \in Batches : /\ b < started => live'[b] = "over"
                           /\ b > started => live'[b] = "none"
    BY <1>1, <1>2, <2>1 DEF IInv, Owner, Batches, TypeOK
  <2> QED
    BY <1>1, <1>3, <2>2, <2>3 DEF IInv, Owner, IsActive
<1>6. Ordinals'
  <2>1. \A b \in Batches : b # started =>
          live'[b] = live[b] /\ shown'[b] = shown[b] /\ (b \in fresh' <=> b \in fresh)
    BY <1>1, <1>2 DEF TypeOK
  <2>2. live'[started] = "running" /\ DOMAIN shown'[started] = DOMAIN active
    BY <1>1, <1>2, <1>3 DEF TypeOK, IInv, Ordinals
  <2>3. \A b \in InFlight : b \in Batches
    BY <1>2, SessionAssumption DEF SessionAssumption, InFlight, Batches, TypeOK
  <2>4. \A b \in InFlight' :
          /\ active' = jobs'[b]
          /\ \A k \in DOMAIN active' : active'[k] \in InQueue'
          /\ live'[b] # "none" => DOMAIN shown'[b] = DOMAIN active'
    BY <1>1, <1>3, <2>1, <2>2, <2>3 DEF IInv, Ordinals, InQueue
  <2>5. \A b \in Batches : /\ live'[b] = "closed" => Over(b)'
                           /\ live'[b] = "crashed" => SchedulerMayFail
                           /\ live'[b] = "none" =>
                                shown'[b] = <<>> /\ held'[b] = <<>> /\ b \notin fresh'
    BY <1>1, <2>1, <2>2 DEF IInv, Ordinals, Over
  <2>6. \A i \in Items : status'[i] = "Absent" <=> i \notin InQueue'
    BY <1>1 DEF IInv, Ordinals, InQueue
  <2> QED
    BY <1>1, <1>3, <2>4, <2>5, <2>6 DEF IInv, Ordinals
<1>7. Accounted'
  BY <1>1 DEF IInv, Accounted
<1> QED
  BY <1>4, <1>5, <1>6, <1>7 DEF IInv

LEMMA AdvanceInv == ASSUME IInv, NEW b \in Batches, Advance(b) PROVE IInv'
<1>1. PICK k \in DOMAIN shown[b], s \in Published :
        shown' = [shown EXCEPT ![b][k] = s]
  BY DEF Advance
<1>2. /\ live[b] = "running" /\ fresh' = fresh \cup {b}
      /\ UNCHANGED <<phase, tools, choosing, queue, enabled, status, media, pass, probing,
                     saw, belated, started, launching, jobs, active, holder, cancelling,
                     closer, live, token, held, wiping>>
  BY DEF Advance
<1>3. /\ \A a \in Batches : a # b => shown'[a] = shown[a]
      /\ shown'[b] = [shown[b] EXCEPT ![k] = s]
      /\ shown' = [a \in Batches |-> shown'[a]]
  BY <1>1 DEF IInv, TypeOK
<1>4. TypeOK'
  <2>1. s \in FileStatuses
    BY SessionAssumption DEF SessionAssumption
  <2>2. shown \in [Batches -> Snapshots]
    BY DEF IInv, TypeOK
  <2>3. \A a \in Batches : shown'[a] \in Snapshots
    <3>1. [shown[b] EXCEPT ![k] = s] \in Snapshots
      BY <2>1, <2>2, SnapshotFacts
    <3> QED
      BY <1>3, <2>2, <3>1
  <2>4. shown' \in [Batches -> Snapshots]
    BY <1>3, <2>3
  <2> QED
    BY <1>2, <2>4 DEF IInv, TypeOK, InQueue
<1>5. Owner'
  BY <1>2 DEF IInv, Owner, InFlight, IsActive
<1>6. DOMAIN shown'[b] = DOMAIN shown[b]
  BY <1>3
<1>7. Ordinals'
  <2>1. \A a \in Batches : DOMAIN shown'[a] = DOMAIN shown[a]
    BY <1>3, <1>6
  <2>2. InFlight' = InFlight /\ \A a \in InFlight : a \in Batches
    BY <1>2, SessionAssumption
    DEF SessionAssumption, IInv, TypeOK, InFlight, Batches
  <2>3. \A a \in InFlight' : live'[a] # "none" => DOMAIN shown'[a] = DOMAIN active'
    BY <1>2, <2>1, <2>2 DEF IInv, Ordinals
  <2>4. \A a \in Batches : live'[a] # "running" =>
          live'[a] = live[a] /\ shown'[a] = shown[a] /\ (a \in fresh' <=> a \in fresh)
    BY <1>2, <1>3
  <2>5. \A a \in Batches : /\ live'[a] = "closed" => Over(a)'
                           /\ live'[a] = "crashed" => SchedulerMayFail
                           /\ live'[a] = "none" =>
                                shown'[a] = <<>> /\ held'[a] = <<>> /\ a \notin fresh'
    BY <1>2, <2>4 DEF IInv, Ordinals, Over
  <2> QED
    BY <1>2, <2>2, <2>3, <2>5 DEF IInv, Ordinals, InQueue
<1>8. Accounted'
  BY <1>2 DEF IInv, Accounted
<1> QED
  BY <1>4, <1>5, <1>7, <1>8 DEF IInv

LEMMA BatchEndsInv == ASSUME IInv, NEW b \in Batches, BatchEnds(b) PROVE IInv'
<1>1. /\ live[b] = "running"
      /\ UNCHANGED <<phase, tools, choosing, queue, enabled, status, media, pass, probing,
                     saw, belated, started, launching, jobs, active, holder, cancelling,
                     closer, shown, fresh, held, wiping>>
      /\ token' = token \ {b}
  BY DEF BatchEnds
<1>2. /\ live' \in [Batches -> {"none", "running", "closed", "crashed", "over"}]
      /\ \A a \in Batches : a # b => live'[a] = live[a]
      /\ live'[b] \in {"closed", "crashed"}
      /\ live'[b] = "closed" => Over(b)
      /\ live'[b] = "crashed" => SchedulerMayFail
  BY DEF BatchEnds, IInv, TypeOK
<1>3. \A a \in Batches : /\ live'[a] = "over" <=> live[a] = "over"
                         /\ live'[a] = "none" <=> live[a] = "none"
  BY <1>1, <1>2
<1>4. \A n \in 1 .. started : n \in Batches
  BY SessionAssumption DEF SessionAssumption, IInv, TypeOK, Batches
<1>5. InFlight' = InFlight
  BY <1>1, <1>3, <1>4 DEF InFlight
<1>6. TypeOK'
  BY <1>1, <1>2 DEF IInv, TypeOK, InQueue
<1>7. Owner'
  <2>1. started # 0 => started \in Batches
    BY SessionAssumption DEF SessionAssumption, IInv, TypeOK, Batches
  <2> QED
    BY <1>1, <1>3, <1>5, <2>1 DEF IInv, Owner, IsActive
<1>8. Ordinals'
  <2>1. \A a \in InFlight : a \in Batches
    BY <1>4 DEF InFlight
  <2> QED
    BY <1>1, <1>2, <1>3, <1>5, <2>1 DEF IInv, Ordinals, Over, InQueue
<1>9. Accounted'
  BY <1>1 DEF IInv, Accounted
<1> QED
  BY <1>6, <1>7, <1>8, <1>9 DEF IInv
-----------------------------------------------------------------------------
(* Relays, waiters, cancellations and the window.                          *)
LEMMA TakeSnapshotInv == ASSUME IInv, NEW b \in Batches, TakeSnapshot(b) PROVE IInv'
<1>1. /\ b \in fresh /\ fresh' = fresh \ {b}
      /\ held' = [held EXCEPT ![b] = shown[b]]
      /\ shown' = IF live[b] = "over" THEN Dropped(b) ELSE shown
      /\ UNCHANGED <<phase, tools, choosing, queue, enabled, status, media, pass, probing,
                     saw, belated, started, launching, jobs, active, holder, cancelling,
                     closer, live, token, wiping>>
  BY DEF TakeSnapshot
<1>2. live[b] # "none"
  BY <1>1 DEF IInv, Ordinals
<1>3. /\ shown' \in [Batches -> Snapshots] /\ held' \in [Batches -> Snapshots]
      /\ \A a \in Batches : live[a] # "over" => shown'[a] = shown[a]
      /\ \A a \in Batches : a # b => shown'[a] = shown[a] /\ held'[a] = held[a]
  BY <1>1, SnapshotFacts DEF IInv, TypeOK, Dropped
<1>4. TypeOK'
  BY <1>1, <1>3 DEF IInv, TypeOK, InQueue
<1>5. Owner'
  BY <1>1 DEF IInv, Owner, InFlight, IsActive
<1>6. Ordinals'
  <2>1. InFlight' = InFlight /\ \A a \in InFlight : a \in Batches /\ live[a] # "over"
    BY <1>1, SessionAssumption
    DEF SessionAssumption, IInv, TypeOK, InFlight, Batches
  <2>2. \A a \in InFlight' : live'[a] # "none" => DOMAIN shown'[a] = DOMAIN active'
    BY <1>1, <1>3, <2>1 DEF IInv, Ordinals
  <2>3. \A a \in Batches : /\ live'[a] = "closed" => Over(a)'
                           /\ live'[a] = "crashed" => SchedulerMayFail
                           /\ live'[a] = "none" =>
                                shown'[a] = <<>> /\ held'[a] = <<>> /\ a \notin fresh'
    BY <1>1, <1>2, <1>3 DEF IInv, Ordinals, Over
  <2> QED
    BY <1>1, <2>1, <2>2, <2>3 DEF IInv, Ordinals, InQueue
<1>7. Accounted'
  BY <1>1 DEF IInv, Accounted
<1> QED
  BY <1>4, <1>5, <1>6, <1>7 DEF IInv

LEMMA ApplySnapshotInv == ASSUME IInv, NEW b \in Batches, ApplySnapshot(b) PROVE IInv'
<1>1. /\ status' = Applied(held[b])
      /\ held' = [held EXCEPT ![b] = <<>>]
      /\ UNCHANGED <<phase, tools, choosing, queue, enabled, media, pass, probing, saw,
                     belated, started, launching, jobs, active, holder, cancelling, closer,
                     live, shown, token, fresh, wiping>>
  BY DEF ApplySnapshot
<1>2. TypeOK /\ held[b] \in Snapshots
  BY DEF IInv, TypeOK
<1>3. /\ status' \in [Items -> ItemStatuses]
      /\ \A i \in Items : \/ status'[i] = status[i]
                          \/ /\ i \in InQueue /\ status'[i] \in FileStatuses
                             /\ \E k \in DOMAIN active : active[k] = i
  BY <1>1, <1>2, AppliedFacts
<1>4. TypeOK'
  BY <1>1, <1>2, <1>3, SnapshotFacts DEF TypeOK, InQueue
<1>5. Owner'
  BY <1>1 DEF IInv, Owner, InFlight, IsActive
<1>6. Ordinals'
  <2>1. \A i \in Items : status'[i] = "Absent" <=> i \notin InQueue'
    BY <1>1, <1>3 DEF IInv, Ordinals, InQueue, FileStatuses, Terminal
  <2>2. \A a \in Batches : live'[a] = "none" => held'[a] = <<>>
    BY <1>1, <1>2 DEF IInv, Ordinals, TypeOK
  <2> QED
    BY <1>1, <2>1, <2>2 DEF IInv, Ordinals, InFlight, Over, InQueue
<1>7. Accounted'
  BY <1>1, <1>3 DEF IInv, Accounted, FileStatuses, Terminal
<1> QED
  BY <1>4, <1>5, <1>6, <1>7 DEF IInv

(* The waiter gives the session back.                                      *)
LEMMA WaiterFacts ==
  ASSUME IInv, NEW b \in Batches, FinishBatch(b) \/ FailBatch(b)
  PROVE  /\ IsActive /\ pass = "none" /\ probing = {} /\ b = started /\ started' = started
         /\ ~launching /\ phase' = "Idle"
         /\ live' = [live EXCEPT ![b] = "over"]
         /\ wiping' = wiping \cup {b}
         /\ shown' \in [Batches -> Snapshots]
         /\ \A a \in Batches : a # b => shown'[a] = shown[a]
         /\ InFlight' = {}
<1>1. live[b] \in {"closed", "crashed"}
  BY DEF FinishBatch, FailBatch
<1>2. /\ live' = [live EXCEPT ![b] = "over"] /\ wiping' = wiping \cup {b}
      /\ started' = started /\ phase' = "Idle"
      /\ shown' = IF b \in fresh THEN shown ELSE Dropped(b)
  BY DEF FinishBatch, FailBatch
<1>3. b = started /\ IsActive /\ pass = "none" /\ probing = {}
  BY <1>1, FlightFacts
<1>4. ~launching
  BY <1>1, <1>3, SessionAssumption DEF SessionAssumption, IInv, Owner, Batches
<1>5. /\ shown' \in [Batches -> Snapshots]
      /\ \A a \in Batches : a # b => shown'[a] = shown[a]
  BY <1>2, SnapshotFacts DEF IInv, TypeOK, Dropped
<1>6. InFlight' = {}
  <2>1. \A n \in 1 .. started : n \in Batches /\ (n # b => n < started)
    BY <1>3, SessionAssumption DEF SessionAssumption, IInv, TypeOK, Batches
  <2>2. \A n \in 1 .. started : live'[n] = "over"
    BY <1>2, <2>1 DEF IInv, Owner, TypeOK
  <2> QED
    BY <1>2, <2>2 DEF InFlight
<1> QED
  BY <1>2, <1>3, <1>4, <1>5, <1>6

LEMMA WaiterInv ==
  ASSUME IInv, NEW b \in Batches, FinishBatch(b) \/ FailBatch(b)
  PROVE  IInv'
<1>1. /\ IsActive /\ pass = "none" /\ probing = {} /\ b = started
      /\ ~launching /\ phase' = "Idle"
      /\ live' = [live EXCEPT ![b] = "over"]
      /\ wiping' = wiping \cup {b}
      /\ shown' \in [Batches -> Snapshots]
      /\ \A a \in Batches : a # b => shown'[a] = shown[a]
      /\ InFlight' = {}
  BY WaiterFacts
<1>2. UNCHANGED <<tools, choosing, queue, enabled, media, pass, probing, saw, belated,
                  started, launching, jobs, holder, cancelling, closer, token, fresh, held>>
  BY DEF FinishBatch, FailBatch
<1>3. TypeOK /\ shown[b] \in Snapshots
  BY DEF IInv, TypeOK
<1>4. /\ status' \in [Items -> ItemStatuses]
      /\ \A i \in Items : \/ status'[i] = status[i]
                          \/ i \in InQueue /\ status'[i] \in FileStatuses
  <2>1. CASE FinishBatch(b)
    BY <1>3, <2>1, AppliedFacts DEF FinishBatch
  <2>2. CASE FailBatch(b)
    BY <1>3, <2>2 DEF FailBatch, Mark, TypeOK, ItemStatuses, FileStatuses, Terminal
  <2> QED
    BY <2>1, <2>2
<1>5. /\ active' \in Lines
      /\ ~SchedulerMayFail => active' = <<>>
  <2>1. <<>> \in Lines
    <3>1. <<>> \in Seq(Items) /\ DOMAIN <<>> = {}
      OBVIOUS
    <3> QED
      BY <3>1, IsLine
  <2>2. CASE FinishBatch(b)
    BY <2>1, <2>2 DEF FinishBatch
  <2>3. CASE FailBatch(b)
    BY <1>3, <2>3 DEF FailBatch, TypeOK, IInv, Ordinals
  <2> QED
    BY <2>2, <2>3
<1>6. TypeOK'
  <2>1. /\ live' \in [Batches -> {"none", "running", "closed", "crashed", "over"}]
        /\ wiping' \subseteq Batches /\ phase' \in Phases
    BY <1>1, <1>3 DEF TypeOK, Phases
  <2> QED
    BY <1>1, <1>2, <1>3, <1>4, <1>5, <2>1 DEF TypeOK, InQueue
<1>7. \A a \in Batches : a # b => live'[a] = live[a]
  BY <1>1, <1>3 DEF TypeOK
<1>8. live'[b] = "over"
  BY <1>1, <1>3 DEF TypeOK
<1>9. Owner'
  <2>1. ~IsActive'
    BY <1>1 DEF IsActive
  <2>2. \A a \in Batches : /\ a < started => live'[a] = "over"
                           /\ a > started => live'[a] = "none"
    BY <1>1, <1>7, <1>8, SessionAssumption
    DEF SessionAssumption, IInv, Owner, Batches
  <2>3. started # 0
    BY <1>1, SessionAssumption DEF SessionAssumption, Batches
  <2> QED
    BY <1>1, <1>2, <1>8, <2>1, <2>2, <2>3 DEF Owner
<1>10. Ordinals'
  <2>1. \A i \in Items : status'[i] = "Absent" <=> i \notin InQueue'
    BY <1>2, <1>4 DEF IInv, Ordinals, InQueue, FileStatuses, Terminal
  <2>2. \A a \in Batches : /\ live'[a] = "closed" => Over(a)'
                           /\ live'[a] = "crashed" => SchedulerMayFail
                           /\ live'[a] = "none" =>
                                shown'[a] = <<>> /\ held'[a] = <<>> /\ a \notin fresh'
    BY <1>1, <1>2, <1>7, <1>8 DEF IInv, Ordinals, Over
  <2> QED
    BY <1>1, <1>5, <2>1, <2>2 DEF Ordinals
<1>11. Accounted'
  <2>1. phase' # "ToolchainSetup"
    BY <1>1
  <2>2. \A i \in Items : status'[i] = "Probing" => status[i] = "Probing"
    BY <1>4 DEF FileStatuses, Terminal
  <2>3. ~SchedulerMayFail =>
          \A i \in Items : status'[i] \notin {"Queued", "Preparing", "Running"}
    <3> SUFFICES ASSUME ~SchedulerMayFail, NEW i \in Items,
                        status'[i] \in {"Queued", "Preparing", "Running"}
                 PROVE  FALSE
      OBVIOUS
    <3>1. FinishBatch(b) /\ live[b] = "closed"
      BY DEF FinishBatch, FailBatch, IInv, Ordinals
    <3>2. /\ \A k \in DOMAIN shown[b] : shown[b][k] \in Terminal
          /\ DOMAIN shown[b] = DOMAIN active
      BY <3>1, FlightFacts DEF IInv, Ordinals, Over
    <3>3. status' = Applied(shown[b])
      BY <3>1 DEF FinishBatch
    <3>4. PICK k \in DOMAIN active : active[k] = i
      <4>1. CASE status'[i] = status[i]
        BY <4>1 DEF IInv, Accounted
      <4>2. CASE status'[i] # status[i]
        BY <1>3, <3>3, <4>2, AppliedFacts
      <4> QED
        BY <4>1, <4>2
    <3>5. i \in InQueue
      <4>1. status[i] # "Absent"
        BY <1>4 DEF FileStatuses, Terminal, IInv, Ordinals
      <4> QED
        BY <4>1 DEF IInv, Ordinals
    <3>6. status'[i] \in Terminal
      BY <1>3, <3>2, <3>3, <3>4, <3>5, AppliedFacts
    <3> QED
      BY <3>6 DEF Terminal
  <2> QED
    BY <1>2, <2>1, <2>2, <2>3 DEF IInv, Accounted
<1> QED
  BY <1>6, <1>9, <1>10, <1>11 DEF IInv

LEMMA CancelsInv ==
  ASSUME IInv, \/ CancelBatch \/ (\E c \in Callers : CancelToken(c))
               \/ RequestClose \/ CloseLook \/ CloseCancel
               \/ ClosePoll \/ Destroy
               \/ \E b \in Batches : ClearToken(b)
  PROVE  IInv'
<1>1. UNCHANGED <<tools, choosing, queue, enabled, status, media, pass, probing, saw,
                  belated, started, launching, jobs, active, live, shown, fresh, held>>
  BY DEF CancelBatch, CancelToken, RequestClose, CloseLook, CloseCancel, ClosePoll,
         Destroy, ClearToken
<1>2. \/ UNCHANGED phase
      \/ phase = "Running" /\ phase' = "Cancelling"
  BY DEF CancelBatch, CancelToken, RequestClose, CloseLook, CloseCancel, ClosePoll,
         Destroy, ClearToken
<1>3. /\ token' \in {token, token \cup {b \in {holder} : b \in Batches /\ live[b] = "running"}}
      /\ cancelling' \subseteq cancelling \cup Callers
      /\ closer' \in {closer, "asked", "cancel", "poll", "leave", "gone"}
      /\ holder' \in {holder, 0}
      /\ wiping' \subseteq wiping
  BY DEF CancelBatch, CancelToken, RequestClose, CloseLook, CloseCancel, ClosePoll,
         Destroy, ClearToken, Callers
<1>4. TypeOK'
  <2>1. /\ phase' \in Phases /\ token' \subseteq Batches /\ cancelling' \subseteq Callers
        /\ closer' \in {"none", "asked", "cancel", "poll", "leave", "gone"}
        /\ wiping' \subseteq Batches
    BY <1>2, <1>3 DEF IInv, TypeOK, Phases
  <2>2. holder' \in 0 .. started'
    BY <1>1, <1>3 DEF IInv, TypeOK
  <2> QED
    BY <1>1, <2>1, <2>2 DEF IInv, TypeOK, InQueue
<1>5. Owner'
  BY <1>1, <1>2 DEF IInv, Owner, InFlight, IsActive
<1>6. Ordinals'
  BY <1>1 DEF IInv, Ordinals, InFlight, Over, InQueue
<1>7. Accounted'
  BY <1>1, <1>2 DEF IInv, Accounted
<1> QED
  BY <1>4, <1>5, <1>6, <1>7 DEF IInv

-----------------------------------------------------------------------------
LEMMA InitInv == Init => IInv
<1> SUFFICES ASSUME Init
             PROVE  IInv
  OBVIOUS
<1>1. <<>> \in Lines /\ InQueue = {}
  <2>1. <<>> \in Seq(Items) /\ DOMAIN <<>> = {} /\ Len(<<>>) = 0
    OBVIOUS
  <2>2. <<>> \in Lines
    BY <2>1, IsLine
  <2>3. InQueue = {}
    BY <2>1 DEF Init, InQueue
  <2> QED
    BY <2>2, <2>3
<1>2. TypeOK
  <2>1. phase \in Phases /\ tools \in BOOLEAN /\ choosing \in BOOLEAN
    BY SessionAssumption DEF SessionAssumption, Init, Phases
  <2>2. queue \in Lines /\ active \in Lines /\ jobs \in [Batches -> Lines]
    BY <1>1 DEF Init
  <2>3. shown \in [Batches -> Snapshots] /\ held \in [Batches -> Snapshots]
    BY SnapshotFacts DEF Init
  <2>4. /\ started \in 0 .. MaxBatches /\ holder \in 0 .. started
        /\ status \in [Items -> ItemStatuses]
    BY SessionAssumption DEF SessionAssumption, Init, ItemStatuses
  <2>5. saw \in BOOLEAN /\ belated \in BOOLEAN /\ launching \in BOOLEAN
    BY DEF Init
  <2>6. live \in [Batches -> {"none", "running", "closed", "crashed", "over"}]
    BY DEF Init
  <2> QED
    BY <2>1, <2>2, <2>3, <2>4, <2>5, <2>6 DEF Init, TypeOK
<1>3. InFlight = {} /\ started = 0
  BY DEF Init, InFlight
<1>4. Owner
  <2>1. \A b \in Batches : ~ (b < 0)
    BY DEF Batches
  <2> QED
    BY <1>3, <2>1 DEF Init, Owner, IsActive
<1>5. Ordinals
  BY <1>1, <1>3 DEF Init, Ordinals
<1>6. Accounted
  BY SessionAssumption DEF SessionAssumption, Init, Accounted
<1> QED
  BY <1>2, <1>4, <1>5, <1>6 DEF IInv

LEMMA StutterInv == ASSUME IInv, UNCHANGED vars PROVE IInv'
<1>1. TypeOK'
  BY DEF vars, IInv, TypeOK, InQueue
<1>2. Owner'
  BY DEF vars, IInv, Owner, InFlight, IsActive
<1>3. Ordinals'
  BY DEF vars, IInv, Ordinals, InFlight, Over, InQueue
<1>4. Accounted'
  BY DEF vars, IInv, Accounted
<1> QED
  BY <1>1, <1>2, <1>3, <1>4 DEF IInv

LEMMA StepInv == IInv /\ [Next]_vars => IInv'
<1> SUFFICES ASSUME IInv, [Next]_vars
             PROVE  IInv'
  OBVIOUS
<1>1. CASE User
  BY <1>1, RemoveItemsInv, SetItemEnabledInv, UpdateSettingsInv, ToolsInv, AddRootsInv,
     CallsInv, RetryInv, StartInv, CancelsInv
  DEF User
<1>2. CASE Pass
  BY <1>2, DiscoveredInv, PassMovesInv, ToolsMissingInv, ProbedInv, SettleInv DEF Pass
<1>3. CASE Command
  BY <1>3, ToolsInv, CallsInv, RetryInv, LaunchInv DEF Command
<1>4. CASE Relay \/ Waiter
  BY <1>4, TakeSnapshotInv, ApplySnapshotInv, WaiterInv, CancelsInv DEF Relay, Waiter
<1>5. CASE Cancels \/ Closer
  BY <1>5, CancelsInv DEF Cancels, Closer
<1>6. CASE Batch
  BY <1>6, AdvanceInv, BatchEndsInv DEF Batch
<1>7. CASE UNCHANGED vars
  BY <1>7, StutterInv
<1> QED
  BY <1>1, <1>2, <1>3, <1>4, <1>5, <1>6, <1>7 DEF Next, Service

(* The inductive invariant holds for all items and any number of batches.  *)
THEOREM Invariant == Spec => []IInv
<1> QED
  BY InitInv, StepInv, PTL DEF Spec

(* Every variable of the session has its type, whatever is done to it.     *)
THEOREM TypeCorrect == Spec => []TypeOK
<1>1. IInv => TypeOK
  BY DEF IInv
<1> QED
  BY <1>1, Invariant, PTL


-----------------------------------------------------------------------------
(* What a step may not do.                                                 *)
LEMMA BusyStep ==
  ASSUME IInv, [Next]_vars, InFlight # {}
  PROVE  UNCHANGED <<queue, enabled, media>>
<1>1. IsActive /\ pass = "none"
  BY DEF IInv, Owner, IsActive
<1>2. ~EnsureIdle
  BY <1>1 DEF IsActive, EnsureIdle
<1>3. CASE User
  BY <1>2, <1>3
  DEF User, RemoveItems, SetItemEnabled, UpdateSettings, StoreTools, AddRoots, CallRetry,
      Retry, Start, CancelBatch, RequestClose
<1>4. CASE Pass
  BY <1>1, <1>4
  DEF Pass, DiscoveryFails, Discovered, ReadTools, ToolsMissing, Probed, EndPass, Settle
<1>5. CASE Command
  BY <1>2, <1>5 DEF Command, LeaveSetup, RetryRefused, Retry, Launch
<1>6. CASE Relay \/ Waiter
  BY <1>6
  DEF Relay, Waiter, TakeSnapshot, ApplySnapshot, FinishBatch, FailBatch, ClearToken
<1>7. CASE Cancels \/ Closer \/ Batch
  BY <1>7
  DEF Cancels, Closer, Batch, CancelToken, CloseLook, CloseCancel, ClosePoll,
      Destroy, Advance, BatchEnds
<1>8. CASE UNCHANGED vars
  BY <1>8 DEF vars
<1> QED
  BY <1>3, <1>4, <1>5, <1>6, <1>7, <1>8 DEF Next, Service

(* Only the waiter ends a batch, and only the close handler destroys the   *)
(* window.                                                                 *)
LEMMA EndingStep ==
  ASSUME IInv, [Next]_vars, NEW b \in Batches, live[b] = "closed", live'[b] = "over"
  PROVE  FinishBatch(b)
<1>1. \A a \in Batches : FinishBatch(a) \/ FailBatch(a) => a = b
  BY WaiterFacts DEF IInv, TypeOK
<1>2. ~FailBatch(b)
  BY DEF FailBatch
<1>3. ~User /\ ~Pass /\ ~Cancels /\ ~Closer /\ ~(UNCHANGED vars)
  BY DEF User, RemoveItems, SetItemEnabled, UpdateSettings, StoreTools, AddRoots, CallRetry,
         Retry, Start, CancelBatch, RequestClose, Pass, DiscoveryFails, Discovered, ReadTools,
         ToolsMissing, Probed, EndPass, Settle, Cancels, Closer, CancelToken, CloseLook,
         CloseCancel, ClosePoll, Destroy, vars
<1>4. ~Command
  <2>1. ~Launch
    BY DEF Launch, IInv, TypeOK
  <2> QED
    BY <2>1 DEF Command, LeaveSetup, RetryRefused, Retry
<1>5. ~Relay /\ ~Batch
  BY DEF Relay, TakeSnapshot, ApplySnapshot, Batch, Advance, BatchEnds, IInv, TypeOK
<1>6. \A a \in Batches : ~ClearToken(a)
  BY DEF ClearToken
<1> QED
  BY <1>1, <1>2, <1>3, <1>4, <1>5, <1>6 DEF Next, Service, Waiter

LEMMA ClosingStep ==
  ASSUME IInv, [Next]_vars, closer # "leave", closer' = "leave"
  PROVE  ~IsActive
<1>1. CASE User
  BY <1>1
  DEF User, RemoveItems, SetItemEnabled, UpdateSettings, StoreTools, AddRoots, CallRetry,
      Retry, Start, CancelBatch, RequestClose
<1>2. CASE Pass \/ Command
  BY <1>2
  DEF Pass, DiscoveryFails, Discovered, ReadTools, ToolsMissing, Probed, EndPass, Settle,
      Command, LeaveSetup, RetryRefused, Retry, Launch
<1>3. CASE Relay \/ Waiter \/ Cancels \/ Batch
  BY <1>3
  DEF Relay, Waiter, TakeSnapshot, ApplySnapshot, FinishBatch, FailBatch, ClearToken,
      Cancels, CancelToken, Batch, Advance, BatchEnds
<1>4. CASE Closer
  BY <1>4 DEF Closer, CloseLook, CloseCancel, ClosePoll, Destroy
<1>5. CASE UNCHANGED vars
  BY <1>5 DEF vars
<1> QED
  BY <1>1, <1>2, <1>3, <1>4, <1>5 DEF Next, Service

LEMMA ReportStep ==
  ASSUME IInv, NEW b \in Batches, FinishBatch(b), NEW k \in DOMAIN jobs[b]
  PROVE  status'[jobs[b][k]] = shown[b][k]
<1>1. live[b] = "closed" /\ status' = Applied(shown[b])
  BY DEF FinishBatch
<1>2. b \in InFlight /\ active = jobs[b] /\ DOMAIN shown[b] = DOMAIN active
  BY <1>1, FlightFacts
<1>3. active[k] \in InQueue
  BY <1>2 DEF IInv, Ordinals
<1>4. TypeOK /\ shown[b] \in Snapshots
  BY DEF IInv, TypeOK
<1>5. k \in DOMAIN active \cap DOMAIN shown[b]
  BY <1>2
<1>6. Applied(shown[b])[active[k]] = shown[b][k]
  BY <1>3, <1>4, <1>5, AppliedFacts
<1> QED
  BY <1>1, <1>2, <1>6

(* Whatever commands and probes are around, the queue, the choice of items *)
(* and what is known of them stay as they are while a batch is in flight.  *)
THEOREM QueueIsLocked == Spec => LockedDuringBatch
<1>1. IInv /\ [Next]_vars => (InFlight # {} => UNCHANGED <<queue, enabled, media>>)
  BY BusyStep
<1> QED
  BY <1>1, Invariant, PTL DEF Spec, LockedDuringBatch

(* A report reaches the items its batch was made from, although relays of  *)
(* an earlier batch may still be at work.                                  *)
THEOREM ReportsArrive == Spec => ReportReachesItsItems
<1>1. IInv /\ [Next]_vars =>
        \A b \in Batches :
          live[b] = "closed" /\ live'[b] = "over" =>
            \A k \in DOMAIN jobs[b] : status'[jobs[b][k]] = shown[b][k]
  BY EndingStep, ReportStep
<1> QED
  BY <1>1, Invariant, PTL DEF Spec, ReportReachesItsItems

(* The window is given up only on a look that finds no batch in flight,    *)
(* and a batch is in flight from its start until its cleanup is over.      *)
THEOREM CloseWaits == Spec => CloseWaitsForCleanup
<1>1. IInv /\ [Next]_vars => (closer # "leave" /\ closer' = "leave" => InFlight = {})
  BY ClosingStep DEF IInv, Owner
<1> QED
  BY <1>1, Invariant, PTL DEF Spec, CloseWaitsForCleanup

(* With a toolchain, and unless a task of the program dies, an idle        *)
(* session has no item that can be neither started nor retried.            *)
THEOREM NothingIsStuck ==
  ASSUME FALSE \notin ToolsAtStart, ~ProbeMayPanic, ~SchedulerMayFail
  PROVE  Spec => []NoItemStuck
<1>1. IInv => NoItemStuck
  <2> SUFFICES ASSUME IInv, EnsureIdle, NEW i \in InQueue
               PROVE  status[i] \in {"Ready"} \cup Terminal
    BY DEF NoItemStuck
  <2>1. probing = {} /\ active = <<>>
    BY IdleFacts
  <2>2. i \in Items /\ status[i] \in ItemStatuses
    BY QueueFacts DEF IInv, TypeOK
  <2>3. status[i] # "Absent"
    BY <2>2 DEF IInv, Ordinals
  <2>4. status[i] # "Probing"
    BY <2>1, <2>2 DEF IInv, Accounted
  <2>5. status[i] \notin {"Queued", "Preparing", "Running"}
    BY <2>1, <2>2 DEF IInv, Accounted
  <2> QED
    BY <2>2, <2>3, <2>4, <2>5 DEF ItemStatuses, FileStatuses
<1> QED
  BY <1>1, Invariant, PTL
=============================================================================
