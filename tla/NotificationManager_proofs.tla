---------------------- MODULE NotificationManager_proofs ----------------------
(***************************************************************************)
(* The ownership of the notification batches, and that a pending batch is  *)
(* announced, for every number of batches and notifications and every      *)
(* capacity.  The inductive invariant has, beside the types: Control,      *)
(* which hands are empty where; Apart and Unrepeated, that no batch is in  *)
(* two places; and Accounted, that the heap is what the places hold.       *)
(***************************************************************************)
EXTENDS NotificationManager, Queues_proofs, FiniteSetTheorems

Types ==
  /\ filling \in Batches \cup {None}
  /\ freeQueue \subseteq Batches /\ recycleQueue \subseteq Batches /\ heap \subseteq Batches
  /\ ring \in Seq(Batches) /\ ringClaimed \in Nat /\ drained \in Seq(Batches)
  /\ alive \in BOOLEAN

Control ==
  /\ updatePc \in {"push", "rollback"} <=> filling # None
  /\ eventPc \in {"process", "recycle"} <=> drained # << >>
  /\ eventPc = "drain" <=> ringClaimed > 0
  /\ ringClaimed <= Len(ring) /\ Len(ring) <= RingCapacity
  /\ ~alive => updatePc = "idle" /\ eventPc = "idle"

\* No queue names a batch twice.
Unrepeated == NoRepeats(ring) /\ NoRepeats(drained)

\* No batch is in two places: each place excludes those listed before it.
Apart ==
  \A b \in Batches :
    /\ b = filling => b \notin freeQueue
    /\ b \in {filling} \cup freeQueue => b \notin Elements(ring)
    /\ b \in {filling} \cup freeQueue \cup Elements(ring) => b \notin Elements(drained)
    /\ b \in {filling} \cup freeQueue \cup Elements(ring) \cup Elements(drained)
         => b \notin recycleQueue

\* What the places hold is what is allocated.
Held == ({filling} \ {None}) \cup freeQueue \cup Elements(ring) \cup Elements(drained)
          \cup recycleQueue
Accounted == \A b \in Batches : b \in heap <=> alive /\ b \in Held

Ownership == Types /\ Control /\ Unrepeated /\ Apart /\ Accounted
IInv == Ownership /\ PendingIsAnnounced

LEMMA InitHasIInv == Init => IInv
<1> SUFFICES ASSUME Init PROVE IInv
  OBVIOUS
<1> USE ManagerAssumption DEF Init, Ring!Init, Elements, NoRepeats
<1>1. Types
  BY DEF Types
<1>2. Control /\ Unrepeated /\ Apart /\ Accounted
  BY DEF Control, Unrepeated, Apart, Accounted, Held
<1>3. PendingIsAnnounced
  BY DEF PendingIsAnnounced
<1> QED
  BY <1>1, <1>2, <1>3 DEF IInv, Ownership

\* The update thread moves batches from a pool to its hand, from there to the
\* ring, or back to the recycle queue when the ring is full.
LEMMA UpdateKeepsOwnership ==
  ASSUME Ownership,
         \/ UpdateBegin \/ QueueMessage \/ QueueNotification \/ CompleteNothing \/ FillBatch
         \/ PushBatch \/ Rollback \/ CheckMessages
  PROVE  Ownership'
<1> USE ManagerAssumption DEF Ownership, Types, Control, eventVars, memoryVars, historyVars, ringVars
<1>1. CASE UpdateBegin \/ QueueMessage \/ QueueNotification \/ CompleteNothing \/ CheckMessages
  <2>1. /\ UNCHANGED <<filling, freeQueue, recycleQueue, heap, ring, ringClaimed, drained, alive,
                       eventPc>>
        /\ updatePc' \in {"idle", "update", "check"} /\ updatePc \in {"idle", "update", "check"}
        /\ alive \/ updatePc' = "idle"
    BY <1>1 DEF UpdateBegin, QueueMessage, QueueNotification, Queue, CompleteNothing, CheckMessages
  <2> QED
    BY <2>1 DEF Unrepeated, Apart, Accounted, Held
<1>2. CASE FillBatch
  <2>1. /\ filling = None /\ updatePc' = "push" /\ alive
        /\ UNCHANGED <<ring, ringClaimed, drained, alive, eventPc>>
    BY <1>2 DEF FillBatch
  <2>2. CASE freeQueue # {}
    <3>1. PICK b \in freeQueue : /\ filling' = b /\ freeQueue' = freeQueue \ {b}
                                 /\ UNCHANGED <<recycleQueue, heap>>
      BY <1>2, <2>2 DEF FillBatch, AcquireBatch
    <3> QED
      BY <2>1, <3>1 DEF Unrepeated, Apart, Accounted, Held
  <2>3. CASE freeQueue = {}
    <3>1. PICK kept \in SUBSET recycleQueue :
            /\ recycleQueue' = {}
            /\ LET live == heap \ (recycleQueue \ kept)
               IN  IF kept # {}
                   THEN \E b \in kept : filling' = b /\ freeQueue' = kept \ {b} /\ heap' = live
                   ELSE \E b \in Batches \ live :
                          filling' = b /\ freeQueue' = {} /\ heap' = live \cup {b}
      BY <1>2, <2>3 DEF FillBatch, AcquireBatch
    <3>2. CASE kept # {}
      <4>1. PICK b \in kept : /\ filling' = b /\ freeQueue' = kept \ {b} /\ recycleQueue' = {}
                              /\ heap' = heap \ (recycleQueue \ kept)
        BY <3>1, <3>2
      <4> QED
        BY <2>1, <2>3, <4>1 DEF Unrepeated, Apart, Accounted, Held
    <3>3. CASE kept = {}
      <4>1. PICK b \in Batches \ (heap \ recycleQueue) :
              /\ filling' = b /\ freeQueue' = {} /\ recycleQueue' = {}
              /\ heap' = (heap \ recycleQueue) \cup {b}
        BY <3>1, <3>3
      <4> QED
        BY <2>1, <2>3, <4>1 DEF Unrepeated, Apart, Accounted, Held
    <3> QED
      BY <3>2, <3>3
  <2> QED
    BY <2>2, <2>3
<1>3. CASE PushBatch
  <2>1. /\ updatePc = "push" /\ filling \in Batches /\ filling # None
        /\ UNCHANGED <<freeQueue, recycleQueue, heap, drained, alive, eventPc>>
    BY <1>3 DEF PushBatch
  <2>2. CASE Ring!Push(filling) /\ filling' = None /\ updatePc' = "check"
    <3>1. /\ Len(ring) < RingCapacity /\ ring' = Append(ring, filling) /\ ringClaimed' = ringClaimed
      BY <2>2 DEF Ring!Push, Ring!Full
    <3>2. /\ ring' \in Seq(Batches) /\ Len(ring') = Len(ring) + 1
          /\ Elements(ring') = Elements(ring) \cup {filling}
          /\ NoRepeats(ring) /\ filling \notin Elements(ring) => NoRepeats(ring')
      BY <2>1, <3>1, AppendFacts, AppendProperties
    <3>3. Types' /\ Control'
      BY <2>1, <2>2, <3>1, <3>2
    <3>4. Unrepeated' /\ Apart'
      BY <2>1, <2>2, <3>2 DEF Unrepeated, Apart
    <3>5. Accounted'
      BY <2>1, <2>2, <3>2 DEF Accounted, Held
    <3> QED
      BY <3>3, <3>4, <3>5
  <2>3. CASE Ring!Refuse /\ updatePc' = "rollback" /\ UNCHANGED filling
    BY <2>1, <2>3 DEF Ring!Refuse, Ring!vars, Unrepeated, Apart, Accounted, Held
  <2> QED
    BY <1>3, <2>2, <2>3 DEF PushBatch
<1>4. CASE Rollback
  <2>1. /\ updatePc = "rollback" /\ filling \in Batches /\ filling # None
        /\ filling' = None /\ updatePc' = "check" /\ recycleQueue' = recycleQueue \cup {filling}
        /\ UNCHANGED <<freeQueue, ring, ringClaimed, heap, drained, alive, eventPc>>
    BY <1>4 DEF Rollback, RecycleBatch
  <2> QED
    BY <2>1 DEF Unrepeated, Apart, Accounted, Held
<1> QED
  BY <1>1, <1>2, <1>3, <1>4

\* The event thread moves batches from the ring to its hands and from there to
\* the recycle queue; the destructor frees what is in the ring and the queues.
LEMMA EventKeepsOwnership ==
  ASSUME Ownership,
         DrainBegin \/ DrainEnd \/ ProcessBatch \/ Recycle \/ Destroy \/ UNCHANGED vars
  PROVE  Ownership'
<1> USE ManagerAssumption DEF Ownership, Types, Control, updateVars, memoryVars, historyVars, ringVars
<1>0. Elements(<< >>) = {} /\ NoRepeats(<< >>) /\ Len(<< >>) = 0
  BY DEF Elements, NoRepeats
<1>1. CASE DrainBegin
  BY <1>1 DEF DrainBegin, Ring!Claim, Ring!Available, Unrepeated, Apart, Accounted, Held
<1>2. CASE DrainEnd
  <2>1. ringClaimed \in 1 .. Len(ring) /\ Len(ring) \in Nat
    BY <1>2 DEF DrainEnd
  <2>2. /\ drained' = SubSeq(ring, 1, ringClaimed) /\ eventPc = "drain" /\ eventPc' = "process"
        /\ ring' = SubSeq(ring, ringClaimed + 1, Len(ring)) /\ ringClaimed' = 0
        /\ UNCHANGED <<updatePc, filling, freeQueue, recycleQueue, heap, alive>>
    BY <1>2 DEF DrainEnd, Taken, Ring!Release, Ring!Claimed
  <2>3. /\ drained' \in Seq(Batches) /\ Len(drained') = ringClaimed
        /\ \A i \in 1 .. ringClaimed : drained'[i] = ring[i]
    BY <2>1, <2>2, SubSeqProperties
  <2>4. /\ ring' \in Seq(Batches) /\ Len(ring') = Len(ring) - ringClaimed
        /\ \A i \in 1 .. Len(ring) - ringClaimed : ring'[i] = ring[ringClaimed + i]
    BY <2>1, <2>2, SubSeqProperties
  <2>5. /\ drained' # << >>
        /\ Elements(ring) = Elements(drained') \cup Elements(ring')
        /\ NoRepeats(ring) => /\ NoRepeats(drained') /\ NoRepeats(ring')
                              /\ Elements(drained') \cap Elements(ring') = {}
    <3>1. drained' = SubSeq(ring, 1, ringClaimed) /\ ring' = SubSeq(ring, ringClaimed + 1, Len(ring))
      BY <2>2
    <3>2. drained' # << >> /\ Elements(ring) = Elements(drained') \cup Elements(ring')
      BY ONLY ring \in Seq(Batches), <2>1, <3>1, CutFacts
    <3>3. ASSUME NoRepeats(ring)
          PROVE  /\ NoRepeats(drained') /\ NoRepeats(ring')
                 /\ Elements(drained') \cap Elements(ring') = {}
      BY ONLY ring \in Seq(Batches), <2>1, <3>1, <3>3, CutApart
    <3> QED
      BY <3>2, <3>3
  <2>6. drained = << >> /\ Elements(drained) = {}
    BY <2>2, <1>0
  <2>7. Types' /\ Control'
    <3>1. ringClaimed' <= Len(ring') /\ Len(ring') <= RingCapacity /\ ringClaimed' \in Nat
      BY <2>1, <2>2, <2>4
    <3>2. Types'
      BY <2>2, <2>3, <2>4, <3>1
    <3>3. Control'
      BY <2>2, <2>5, <3>1
    <3> QED
      BY <3>2, <3>3
  <2>8. Unrepeated' /\ Apart'
    BY <2>2, <2>5, <2>6 DEF Unrepeated, Apart
  <2>9. Accounted'
    BY <2>2, <2>5, <2>6 DEF Accounted, Held
  <2> QED
    BY <2>7, <2>8, <2>9
<1>3. CASE ProcessBatch
  BY <1>3 DEF ProcessBatch, Unrepeated, Apart, Accounted, Held
<1>4. CASE Recycle
  <2>1. /\ eventPc = "recycle" /\ drained # << >> /\ drained' = Tail(drained)
        /\ recycleQueue' = recycleQueue \cup {Head(drained)}
        /\ eventPc' = IF Len(drained) > 1 THEN "process" ELSE "idle"
        /\ UNCHANGED <<updatePc, filling, freeQueue, ring, ringClaimed, heap, alive>>
    BY <1>4 DEF Recycle, RecycleBatch
  <2>2. /\ Head(drained) \in Batches /\ drained' \in Seq(Batches)
        /\ Len(drained) > 1 <=> drained' # << >>
        /\ Elements(drained) = {Head(drained)} \cup Elements(drained')
        /\ NoRepeats(drained) => NoRepeats(drained') /\ Head(drained) \notin Elements(drained')
    BY <2>1, TailFacts
  <2>3. Types' /\ Control'
    BY <2>1, <2>2
  <2>4. Unrepeated' /\ Apart'
    BY <2>1, <2>2 DEF Unrepeated, Apart
  <2>5. Accounted'
    BY <2>1, <2>2 DEF Accounted, Held
  <2> QED
    BY <2>3, <2>4, <2>5
<1>5. CASE Destroy
  <2>1. /\ alive /\ ~alive' /\ updatePc = "idle" /\ eventPc = "idle"
        /\ heap' = heap \ Owned /\ ring' = << >> /\ freeQueue' = {} /\ recycleQueue' = {}
        /\ UNCHANGED <<updatePc, eventPc, filling, ringClaimed, drained>>
    BY <1>5 DEF Destroy, eventVars
  <2>2. filling = None /\ drained = << >> /\ ringClaimed = 0
    BY <2>1
  <2>3. Types' /\ Control'
    <3>1. ring' \in Seq(Batches) /\ Len(ring') = 0 /\ ringClaimed' = 0
      BY <2>1, <2>2
    <3>2. Types'
      <4>1. heap' \subseteq Batches /\ alive' = FALSE
        BY <2>1
      <4> QED
        BY ONLY Types, <2>1, <3>1, <4>1 DEF Types
    <3>3. Control'
      BY <2>1, <2>2, <3>1
    <3> QED
      BY <3>2, <3>3
  <2>4. Unrepeated' /\ Apart' /\ Accounted'
    BY <2>1, <2>2, <1>0 DEF Unrepeated, Apart, Accounted, Held, Owned
  <2> QED
    BY <2>3, <2>4
<1>6. CASE UNCHANGED vars
  BY <1>6 DEF vars, eventVars, Unrepeated, Apart, Accounted, Held
<1> QED
  BY <1>1, <1>2, <1>3, <1>4, <1>5, <1>6

LEMMA OwnershipStep == Ownership /\ [Next]_vars => Ownership'
  BY UpdateKeepsOwnership, EventKeepsOwnership DEF Next, UpdateRuns, EventRuns, Destroyed

\* A batch that is pushed is announced by the same Update; what the drain in
\* progress leaves behind was pushed after it began.
LEMMA AnnouncedStep ==
  ASSUME IInv, [Next]_vars
  PROVE  PendingIsAnnounced'
<1> USE ManagerAssumption DEF IInv, Ownership, Types, Control, PendingIsAnnounced
<1>1. CASE PushBatch
  BY <1>1 DEF PushBatch, Ring!Refuse, Ring!vars, ringVars, memoryVars
<1>2. CASE CheckMessages
  BY <1>2 DEF CheckMessages, MessagesToProcess, ringVars, memoryVars
<1>3. CASE DrainBegin
  <2>1. CASE ring = << >> /\ UNCHANGED <<eventPc, ringVars>>
    BY <2>1 DEF ringVars
  <2>2. CASE Ring!Claim
    <3>1. Len(ring) \in Nat /\ Len(ring) <= RingCapacity
      OBVIOUS
    <3>2. ringClaimed' = Len(ring') /\ ring' = ring
      BY <2>2, <3>1 DEF Ring!Claim, Ring!Available
    <3> QED
      BY <3>2
  <2> QED
    BY <1>3, <2>1, <2>2 DEF DrainBegin
<1>4. CASE DrainEnd
  <2>1. /\ ringClaimed > 0 /\ ring' = SubSeq(ring, ringClaimed + 1, Len(ring)) /\ ring # << >>
        /\ UNCHANGED <<updatePc, eventsRequested, alive>>
    BY <1>4 DEF DrainEnd, Ring!Release, updateVars, memoryVars
  <2>2. ringClaimed = Len(ring) => ring' = << >>
    BY <2>1, SubSeqEmpty
  <2> QED
    BY <2>1, <2>2
<1>5. CASE Destroy
  BY <1>5 DEF Destroy
<1>6. CASE \/ UpdateBegin \/ QueueMessage \/ QueueNotification \/ CompleteNothing \/ FillBatch
           \/ Rollback \/ ProcessBatch \/ Recycle \/ UNCHANGED vars
  <2>1. /\ UNCHANGED <<ring, ringClaimed, alive, eventsRequested>>
        /\ updatePc = "check" => updatePc' = "check"
    BY <1>6 DEF UpdateBegin, QueueMessage, QueueNotification, Queue, CompleteNothing, FillBatch,
                Rollback, ProcessBatch, Recycle, vars, updateVars, ringVars, memoryVars
  <2> QED
    BY <2>1
<1> QED
  BY <1>1, <1>2, <1>3, <1>4, <1>5, <1>6 DEF Next, UpdateRuns, EventRuns, Destroyed

LEMMA IInvIsInvariant == Spec => []IInv
<1>1. IInv /\ [Next]_vars => IInv'
  BY OwnershipStep, AnnouncedStep DEF IInv
<1> QED
  BY <1>1, InitHasIInv, PTL DEF Spec

\* No notification batch is leaked, freed while in use, or filled by the
\* update thread while the event thread reads it, and the destructor frees
\* every one.
THEOREM EachBatchInOnePlaceHolds == Spec => []EachBatchInOnePlace
<1>1. ASSUME IInv PROVE EachBatchInOnePlace
  <2> USE <1>1 DEF IInv, Ownership
  <2>1. /\ {filling} \ {None} \subseteq Batches /\ freeQueue \subseteq Batches
        /\ Elements(ring) \subseteq Batches /\ Elements(drained) \subseteq Batches
        /\ recycleQueue \subseteq Batches
    BY DEF Types, Elements
  <2>2. heap = IF alive THEN UNION {Places[i] : i \in DOMAIN Places} ELSE {}
    <3>1. UNION {Places[i] : i \in DOMAIN Places} = Held
      BY DEF Places, Held
    <3> QED
      BY <3>1, <2>1 DEF Accounted, Held, Types
  <2>3. \A i, j \in 1 .. 5 : i # j => Places[i] \cap Places[j] = {}
    BY <2>1 DEF Places, Apart
  <2>4. DOMAIN Places = 1 .. 5
    BY DEF Places
  <2> QED
    BY <2>2, <2>3, <2>4 DEF EachBatchInOnePlace, Unrepeated
<1>2. IInv => EachBatchInOnePlace
  BY <1>1
<1> QED
  BY <1>2, IInvIsInvariant, PTL

\* MessagesToProcess, read on the update thread while the event thread drains,
\* misses no batch that the event thread is not taking.
THEOREM PendingIsAnnouncedHolds == Spec => []PendingIsAnnounced
<1>1. IInv => PendingIsAnnounced
  BY DEF IInv
<1> QED
  BY <1>1, IInvIsInvariant, PTL

(***************************************************************************)
(* No notification is lost, doubled or overtaken.                          *)
(*                                                                         *)
(* Counted says that the notifications queued so far are those in the      *)
(* working containers, in the batches and delivered; Lined that they stand *)
(* in one line from what was delivered, over the hand of the event thread, *)
(* the ring and the hand of the update thread, to the working containers;  *)
(* Hands what is empty when a batch is filled, taken back or recycled.     *)
(***************************************************************************)
TypeData ==
  /\ working \in Container /\ contents \in [Batches -> Container]
  /\ delivered \in Seq(Container) /\ queued \in 0 .. MaxNotifications

Sorted(c) == Ascending(c.messages) /\ Ascending(c.interfaces)
AllSorted == /\ Sorted(working) /\ \A b \in Batches : Sorted(contents[b])
             /\ \A i \in 1 .. Len(delivered) : Sorted(delivered[i])

Counted ==
  /\ Members(working) \subseteq 1 .. queued
  /\ \A b \in Batches : Members(contents[b]) \subseteq 1 .. queued
  /\ \A i \in 1 .. Len(delivered) : Members(delivered[i]) \subseteq 1 .. queued
  /\ \A n \in 1 .. queued : \/ n \in Members(working)
                            \/ \E b \in Batches : n \in Members(contents[b])
                            \/ \E i \in 1 .. Len(delivered) : n \in Members(delivered[i])

Single == \A b, c \in Batches : b # c => Members(contents[b]) \cap Members(contents[c]) = {}

Loaded == {filling} \cup Elements(drained) \cup Elements(ring)
Hands ==
  /\ alive => \A b \in Batches \ Loaded : contents[b] = Empty
  /\ updatePc \in {"push", "rollback"} => working = Empty
  /\ eventPc = "recycle" => contents[Head(drained)] = Empty

\* b stands before c in the line.
Ahead(b, c) ==
  \/ Follows(drained, b, c) \/ Follows(ring, b, c)
  \/ b \in Elements(drained) /\ c \in Elements(ring) \cup {filling}
  \/ b \in Elements(ring) /\ c = filling

Before(c, d) == \A m \in Members(c), n \in Members(d) : m < n

Lined ==
  /\ \A i, j \in 1 .. Len(delivered) : i < j => Before(delivered[i], delivered[j])
  /\ \A i \in 1 .. Len(delivered) : /\ Before(delivered[i], working)
                                    /\ \A b \in Batches : Before(delivered[i], contents[b])
  /\ \A b \in Batches : Before(contents[b], working)
  /\ \A b, c \in Batches : Ahead(b, c) => Before(contents[b], contents[c])

Histories == TypeData /\ AllSorted /\ Counted /\ Single /\ Hands /\ Lined

LEMMA EmptyFacts ==
  Empty \in Container /\ Members(Empty) = {} /\ Sorted(Empty)
  BY DEF Empty, Container, Members, Elements, Sorted, Ascending

\* A queued notification is newer than all others.
LEMMA QueueStep ==
  ASSUME IInv, Histories, QueueMessage \/ QueueNotification
  PROVE  Histories'
<1> USE DEF Histories
<1> DEFINE n == queued + 1
<1>0. /\ queued \in Nat /\ n \in Notifications /\ queued' = n
      /\ queued' \in 0 .. MaxNotifications /\ updatePc = "update"
      /\ UNCHANGED <<updatePc, filling, ring, eventPc, drained, contents, alive, delivered>>
  BY ManagerAssumption DEF QueueMessage, QueueNotification, Queue, TypeData, ManagerAssumption,
     Notifications, ringVars, eventVars, memoryVars
<1>1. /\ working.messages \in Seq(Notifications) /\ working.interfaces \in Seq(Notifications)
      /\ Notifications \subseteq Nat
  BY DEF TypeData, Container, Notifications
<1>2. \A x \in Members(working) : x < n
  <2>1. Members(working) \subseteq 1 .. queued
    BY DEF Counted
  <2> QED
    BY <1>0, <2>1
<1>3. working' \in Container /\ Members(working') = Members(working) \cup {n} /\ Sorted(working')
  <2>1. CASE working' = [working EXCEPT !["messages"] = Append(@, n)]
    <3> DEFINE s == Append(working.messages, n)
    <3>1. /\ s \in Seq(Notifications) /\ Elements(s) = Elements(working.messages) \cup {n}
      BY <1>0, <1>1, AppendFacts
    <3>2. Ascending(s)
      <4>1. Ascending(working.messages) /\ \A x \in Elements(working.messages) : x < n
        BY <1>2 DEF AllSorted, Sorted, Members
      <4> QED
        BY <1>0, <1>1, <4>1, AscendingAppend
    <3> HIDE DEF s
    <3>3. working' = [messages |-> s, interfaces |-> working.interfaces]
      BY <2>1 DEF TypeData, Container, s
    <3> QED
      BY <1>1, <3>1, <3>2, <3>3 DEF Container, Members, Sorted, AllSorted
  <2>2. CASE working' = [working EXCEPT !["interfaces"] = Append(@, n)]
    <3> DEFINE s == Append(working.interfaces, n)
    <3>1. /\ s \in Seq(Notifications) /\ Elements(s) = Elements(working.interfaces) \cup {n}
      BY <1>0, <1>1, AppendFacts
    <3>2. Ascending(s)
      <4>1. Ascending(working.interfaces) /\ \A x \in Elements(working.interfaces) : x < n
        BY <1>2 DEF AllSorted, Sorted, Members
      <4> QED
        BY <1>0, <1>1, <4>1, AscendingAppend
    <3> HIDE DEF s
    <3>3. working' = [messages |-> working.messages, interfaces |-> s]
      BY <2>2 DEF TypeData, Container, s
    <3> QED
      BY <1>1, <3>1, <3>2, <3>3 DEF Container, Members, Sorted, AllSorted
  <2> QED
    BY <2>1, <2>2 DEF QueueMessage, QueueNotification, Queue
<1>4. 1 .. queued' = 1 .. queued \cup {n}
  BY <1>0
<1>5. /\ \A b \in Batches : \A x \in Members(contents[b]) : x < n
      /\ \A i \in 1 .. Len(delivered) : \A x \in Members(delivered[i]) : x < n
  <2>1. /\ \A b \in Batches : Members(contents[b]) \subseteq 1 .. queued
        /\ \A i \in 1 .. Len(delivered) : Members(delivered[i]) \subseteq 1 .. queued
    BY DEF Counted
  <2>2. \A x \in 1 .. queued : x < n
    BY <1>0
  <2> QED
    BY <2>1, <2>2
<1> HIDE DEF n
<1>6. TypeData' /\ AllSorted' /\ Single'
  BY <1>0, <1>3 DEF TypeData, AllSorted, Single
<1>7. Counted'
  BY <1>0, <1>3, <1>4 DEF Counted
<1>8. Hands'
  BY <1>0 DEF Hands, Loaded
<1>9. Lined'
  <2>1. /\ \A b \in Batches : Before(contents[b], working')
        /\ \A i \in 1 .. Len(delivered) : Before(delivered[i], working')
    BY <1>3, <1>5 DEF Lined, Before
  <2>2. \A b, c : Ahead(b, c)' <=> Ahead(b, c)
    BY <1>0 DEF Ahead
  <2> QED
    BY <1>0, <2>1, <2>2 DEF Lined, Before
<1> QED
  BY <1>6, <1>7, <1>8, <1>9

\* The working containers move into a batch that was empty.
LEMMA FillStep ==
  ASSUME IInv, IInv', Histories, FillBatch
  PROVE  Histories'
<1> USE EmptyFacts DEF Histories
<1> DEFINE f == filling'
<1>1. /\ alive /\ alive' /\ working' = Empty /\ updatePc' = "push" /\ filling = None
      /\ contents' = [contents EXCEPT ![f] = working]
      /\ UNCHANGED <<ring, eventPc, drained, delivered, queued>>
  BY DEF FillBatch, ringVars, eventVars, historyVars, IInv, Ownership, Control
<1>2. f \in Batches /\ f \notin Elements(drained) \cup Elements(ring)
  <2>1. f \in Batches
    BY ManagerAssumption DEF FillBatch, AcquireBatch, IInv, Ownership, Types, ManagerAssumption
  <2> QED
    BY <1>1, <2>1 DEF IInv, Ownership, Apart
<1>3. contents[f] = Empty
  BY <1>1, <1>2, ManagerAssumption DEF Hands, Loaded, ManagerAssumption
<1>4. contents'[f] = working /\ \A b \in Batches : b # f => contents'[b] = contents[b]
  BY <1>1, <1>2 DEF TypeData
<1> HIDE DEF f
<1>5. TypeData' /\ AllSorted'
  BY <1>1, <1>2, <1>4 DEF TypeData, AllSorted
<1>6. Counted'
  <2>1. ASSUME NEW n \in 1 .. queued
        PROVE  \/ \E b \in Batches : n \in Members(contents'[b])
               \/ \E i \in 1 .. Len(delivered) : n \in Members(delivered[i])
    BY <1>2, <1>3, <1>4 DEF Counted
  <2> QED
    BY <1>1, <1>2, <1>4, <2>1 DEF Counted
<1>7. Single'
  <2>1. \A b \in Batches : Members(contents[b]) \cap Members(working) = {}
    <3>1. \A n \in 1 .. queued : ~(n < n)
      BY DEF TypeData
    <3> QED
      BY <3>1 DEF Lined, Before, Counted
  <2> QED
    BY <1>2, <1>4, <2>1 DEF Single
<1>8. Hands'
  <2>1. eventPc = "recycle" => Head(drained) # f /\ Head(drained) \in Batches
    <3>1. eventPc = "recycle" => Head(drained) \in Elements(drained) /\ Head(drained) \in Batches
      BY SequenceFacts DEF IInv, Ownership, Types, Control
    <3> QED
      BY <1>2, <3>1
  <2> QED
    BY <1>1, <1>4, <2>1, ManagerAssumption DEF Hands, Loaded, ManagerAssumption, f
<1>9. Lined'
  <2>1. ASSUME NEW b \in Batches, NEW c \in Batches, Ahead(b, c)'
        PROVE  b # f /\ (c # f => Ahead(b, c))
    <3>1. b \in Elements(drained) \cup Elements(ring)
      BY <1>1, <2>1 DEF Ahead, Follows, Elements, IInv, Ownership, Types
    <3> QED
      BY <1>1, <1>2, <2>1, <3>1 DEF Ahead, f
  <2>2. \A b, c \in Batches : Ahead(b, c)' => Before(contents'[b], contents'[c])
    BY <1>4, <2>1 DEF Lined
  <2>3. /\ \A i \in 1 .. Len(delivered) : \A b \in Batches : Before(delivered[i], contents'[b])
        /\ \A b \in Batches : Before(contents'[b], working')
        /\ \A i \in 1 .. Len(delivered) : Before(delivered[i], working')
    BY <1>1, <1>4 DEF Lined, Before
  <2> QED
    BY <1>1, <2>2, <2>3 DEF Lined
<1> QED
  BY <1>5, <1>6, <1>7, <1>8, <1>9

\* The batch that found the ring full gives everything back.
LEMMA RollbackStep ==
  ASSUME IInv, IInv', Histories, Rollback
  PROVE  Histories'
<1> USE EmptyFacts DEF Histories
<1> DEFINE f == filling
<1>1. /\ f \in Batches /\ alive /\ alive' /\ working = Empty /\ working' = contents[f]
      /\ filling' = None /\ updatePc' = "check" /\ contents' = [contents EXCEPT ![f] = Empty]
      /\ UNCHANGED <<ring, eventPc, drained, delivered, queued>>
  BY DEF Rollback, TakeBack, ClearBatch, ringVars, eventVars, historyVars, IInv, Ownership,
         Types, Control, Hands
<1>2. f \notin Elements(drained) \cup Elements(ring)
  BY <1>1 DEF IInv, Ownership, Apart
<1>3. contents'[f] = Empty /\ \A b \in Batches : b # f => contents'[b] = contents[b]
  BY <1>1 DEF TypeData
<1>4. TypeData' /\ AllSorted'
  BY <1>1, <1>3 DEF TypeData, AllSorted
<1>5. Counted'
  <2>1. ASSUME NEW n \in 1 .. queued
        PROVE  \/ n \in Members(working')
               \/ \E b \in Batches : n \in Members(contents'[b])
               \/ \E i \in 1 .. Len(delivered) : n \in Members(delivered[i])
    BY <1>1, <1>3 DEF Counted
  <2> QED
    BY <1>1, <1>3, <2>1 DEF Counted
<1>6. Single'
  BY <1>3 DEF Single
<1>7. Hands'
  BY <1>1, <1>3 DEF Hands, Loaded
<1>8. Lined'
  <2>1. \A b, c \in Batches : Ahead(b, c)' => Ahead(b, c)
    BY <1>1, ManagerAssumption DEF Ahead, ManagerAssumption
  <2>2. \A b, c \in Batches : Ahead(b, c)' => Before(contents'[b], contents'[c])
    BY <1>3, <2>1 DEF Lined, Before
  <2>3. ASSUME NEW b \in Batches PROVE Before(contents'[b], working')
    <3>1. CASE b = f
      BY <1>3, <3>1 DEF Before
    <3>2. CASE b # f /\ contents[b] = Empty
      BY <1>3, <3>2 DEF Before
    <3>3. CASE b # f /\ contents[b] # Empty
      <4>1. b \in Loaded
        BY <1>1, <3>3 DEF Hands
      <4>2. Ahead(b, f)
        BY <3>3, <4>1 DEF Ahead, Loaded
      <4> QED
        BY <1>1, <1>3, <3>3, <4>2 DEF Lined
    <3> QED
      BY <3>1, <3>2, <3>3
  <2>4. \A i \in 1 .. Len(delivered) : /\ Before(delivered[i], working')
                                       /\ \A b \in Batches : Before(delivered[i], contents'[b])
    BY <1>1, <1>3 DEF Lined, Before
  <2> QED
    BY <1>1, <2>2, <2>3, <2>4 DEF Lined
<1> QED
  BY <1>4, <1>5, <1>6, <1>7, <1>8

\* The first drained batch is the next delivered.
LEMMA ProcessStep ==
  ASSUME IInv, IInv', Histories, ProcessBatch
  PROVE  Histories'
<1> USE EmptyFacts DEF Histories
<1> DEFINE h == Head(drained)
           d == delivered'
<1>1. /\ h \in Batches /\ h \in Elements(drained) /\ alive
      /\ \A c \in Batches : c \in Elements(drained) => c = h \/ Follows(drained, h, c)
  <2>1. drained \in Seq(Batches) /\ drained # << >> /\ alive
    BY DEF ProcessBatch, IInv, Ownership, Types, Control
  <2> QED
    BY <2>1, TailFacts, FollowsTail
<1>2. /\ d = Append(delivered, contents[h]) /\ contents' = [contents EXCEPT ![h] = Empty]
      /\ eventPc' = "recycle"
      /\ UNCHANGED <<updatePc, working, filling, ring, drained, alive, queued>>
  BY DEF ProcessBatch, ClearBatch, updateVars, ringVars
<1>3. contents'[h] = Empty /\ \A b \in Batches : b # h => contents'[b] = contents[b]
  BY <1>1, <1>2 DEF TypeData
<1>4. /\ d \in Seq(Container) /\ Len(d) = Len(delivered) + 1 /\ Len(delivered) \in Nat
      /\ d[Len(delivered) + 1] = contents[h]
      /\ \A i \in 1 .. Len(delivered) : d[i] = delivered[i]
  BY <1>1, <1>2, AppendProperties DEF TypeData
<1> HIDE DEF h, d
<1>5. TypeData'
  BY <1>2, <1>4 DEF TypeData, d
<1>6. AllSorted'
  <2>1. \A i \in 1 .. Len(d) : Sorted(d[i])
    BY <1>1, <1>4 DEF AllSorted
  <2> QED
    BY <1>2, <1>3, <2>1 DEF AllSorted, d
<1>7. Counted'
  <2>1. \A i \in 1 .. Len(d) : Members(d[i]) \subseteq 1 .. queued
    BY <1>1, <1>4 DEF Counted
  <2>2. \A b \in Batches : Members(contents'[b]) \subseteq 1 .. queued
    BY <1>3 DEF Counted
  <2>3. ASSUME NEW n \in 1 .. queued
        PROVE  \/ n \in Members(working)
               \/ \E b \in Batches : n \in Members(contents'[b])
               \/ \E i \in 1 .. Len(d) : n \in Members(d[i])
    <3>1. CASE n \in Members(contents[h])
      BY <1>4, <3>1
    <3>2. CASE \E i \in 1 .. Len(delivered) : n \in Members(delivered[i])
      BY <1>4, <3>2
    <3>3. CASE n \in Members(working) \/ \E b \in Batches : b # h /\ n \in Members(contents[b])
      BY <1>3, <3>3
    <3> QED
      BY <3>1, <3>2, <3>3 DEF Counted
  <2> QED
    BY <1>2, <2>1, <2>2, <2>3 DEF Counted, d
<1>8. Single'
  BY <1>3 DEF Single
<1>9. Hands'
  BY <1>1, <1>2, <1>3 DEF Hands, Loaded, h
<1>10. Lined'
  <2>1. \A i \in 1 .. Len(delivered) : Before(delivered[i], contents[h])
    BY <1>1 DEF Lined
  <2>2. \A i, j \in 1 .. Len(d) : i < j => Before(d[i], d[j])
    <3> TAKE i, j \in 1 .. Len(d)
    <3>1. CASE j \in 1 .. Len(delivered)
      BY <1>4, <3>1 DEF Lined
    <3>2. CASE j = Len(delivered) + 1
      BY <1>4, <2>1, <3>2
    <3> QED
      BY <1>4, <3>1, <3>2
  <2>3. ASSUME NEW b \in Batches PROVE Before(contents[h], contents'[b])
    <3>1. CASE b = h \/ contents[b] = Empty
      BY <1>3, <3>1 DEF Before
    <3>2. CASE b # h /\ contents[b] # Empty
      <4>1. b \in Loaded
        BY <1>1, <3>2 DEF Hands
      <4>2. Ahead(h, b)
        BY <1>1, <3>2, <4>1 DEF Ahead, Loaded
      <4> QED
        BY <1>1, <1>3, <3>2, <4>2 DEF Lined
    <3> QED
      BY <3>1, <3>2
  <2>4. \A i \in 1 .. Len(d) : /\ Before(d[i], working)
                               /\ \A b \in Batches : Before(d[i], contents'[b])
    <3>1. \A i \in 1 .. Len(delivered) : \A b \in Batches : Before(delivered[i], contents'[b])
      BY <1>3 DEF Lined, Before
    <3> QED
      BY <1>1, <1>4, <2>3, <3>1 DEF Lined
  <2>5. /\ \A b \in Batches : Before(contents'[b], working)
        /\ \A b, c \in Batches : Ahead(b, c) => Before(contents'[b], contents'[c])
    BY <1>3 DEF Lined, Before
  <2>6. \A b, c : Ahead(b, c)' <=> Ahead(b, c)
    BY <1>2 DEF Ahead
  <2> QED
    BY <1>2, <2>2, <2>4, <2>5, <2>6 DEF Lined, d
<1> QED
  BY <1>5, <1>6, <1>7, <1>8, <1>9, <1>10

\* The other steps move batches along the line.
LEMMA MovingStep ==
  ASSUME IInv, IInv', Histories,
         \/ UpdateBegin \/ CompleteNothing \/ PushBatch \/ CheckMessages \/ DrainBegin
         \/ DrainEnd \/ Recycle \/ Destroy \/ UNCHANGED vars
  PROVE  Histories'
<1> USE ManagerAssumption
    DEF Histories, IInv, Ownership, Types, Control, ManagerAssumption
<1>0. UNCHANGED <<contents, working, delivered, queued>>
  BY DEF UpdateBegin, CompleteNothing, PushBatch, CheckMessages, DrainBegin, DrainEnd, Recycle,
         Destroy, vars, updateVars, eventVars, memoryVars, historyVars
<1>e. Elements(<< >>) = {} /\ \A b, c : ~Follows(<< >>, b, c)
  BY FollowsEmpty DEF Elements
<1>1. /\ TypeData' /\ AllSorted' /\ Counted' /\ Single'
      /\ Lined' <=> /\ \A i, j \in 1 .. Len(delivered) : i < j => Before(delivered[i], delivered[j])
                    /\ \A i \in 1 .. Len(delivered) :
                         /\ Before(delivered[i], working)
                         /\ \A b \in Batches : Before(delivered[i], contents[b])
                    /\ \A b \in Batches : Before(contents[b], working)
                    /\ \A b, c \in Batches : Ahead(b, c)' => Before(contents[b], contents[c])
  BY <1>0 DEF TypeData, AllSorted, Counted, Single, Lined
<1>2. SUFFICES Hands' /\ \A b, c \in Batches : Ahead(b, c)' => Ahead(b, c)
  BY <1>1 DEF Lined
<1>3. CASE UpdateBegin \/ CompleteNothing \/ CheckMessages \/ DrainBegin \/ UNCHANGED vars
  <2>1. /\ UNCHANGED <<filling, ring, drained, alive>>
        /\ updatePc' \in {"update", "check", "idle", updatePc}
        /\ eventPc' \in {"drain", eventPc}
    BY <1>3 DEF UpdateBegin, CompleteNothing, CheckMessages, DrainBegin, Ring!Claim, vars,
       updateVars, ringVars, eventVars, memoryVars
  <2> QED
    BY <1>0, <2>1 DEF Hands, Loaded, Ahead
<1>4. CASE PushBatch
  <2>1. /\ filling \in Batches /\ updatePc = "push" /\ updatePc' \in {"check", "rollback"}
        /\ UNCHANGED <<drained, alive, eventPc>>
    BY <1>4 DEF PushBatch, eventVars, memoryVars
  <2>2. CASE ring' = Append(ring, filling) /\ filling' = None
    <3>1. Elements(ring') = Elements(ring) \cup {filling}
      BY <2>1, <2>2, AppendFacts
    <3>2. \A b, c : Follows(ring', b, c) =>
                      Follows(ring, b, c) \/ (b \in Elements(ring) /\ c = filling)
      BY <2>1, <2>2, FollowsAppend
    <3> QED
      BY <1>0, <2>1, <2>2, <3>1, <3>2 DEF Hands, Loaded, Ahead
  <2>3. CASE UNCHANGED <<ring, filling>>
    BY <1>0, <2>1, <2>3 DEF Hands, Loaded, Ahead
  <2> QED
    BY <1>4, <2>2, <2>3 DEF PushBatch, Ring!Push, Ring!Refuse, Ring!vars
<1>5. CASE DrainEnd
  <2>1. ringClaimed \in 1 .. Len(ring) /\ Len(ring) \in Nat /\ ring \in Seq(Batches)
    BY <1>5 DEF DrainEnd
  <2>2. /\ drained = << >> /\ eventPc' = "process"
        /\ drained' = SubSeq(ring, 1, ringClaimed)
        /\ ring' = SubSeq(ring, ringClaimed + 1, Len(ring))
        /\ UNCHANGED <<updatePc, filling, alive>>
    BY <1>5 DEF DrainEnd, Taken, Ring!Release, Ring!Claimed, updateVars, memoryVars
  <2>3. /\ drained' \in Seq(Batches) /\ Len(drained') = ringClaimed
        /\ \A i \in 1 .. ringClaimed : drained'[i] = ring[i]
    BY <2>1, <2>2, SubSeqProperties
  <2>4. /\ ring' \in Seq(Batches) /\ Len(ring') = Len(ring) - ringClaimed
        /\ \A i \in 1 .. Len(ring) - ringClaimed : ring'[i] = ring[ringClaimed + i]
    BY <2>1, <2>2, SubSeqProperties
  <2>5. Elements(ring) = Elements(drained') \cup Elements(ring')
    BY <2>1, <2>2, CutFacts
  <2>6. ASSUME NEW b, NEW c
        PROVE  /\ Follows(drained', b, c) => Follows(ring, b, c)
               /\ Follows(ring', b, c) => Follows(ring, b, c)
               /\ b \in Elements(drained') /\ c \in Elements(ring') => Follows(ring, b, c)
    <3> DEFINE front == drained'
               rest == ring'
    <3>1. /\ front \in Seq(Batches) /\ Len(front) = ringClaimed
          /\ \A i \in 1 .. ringClaimed : front[i] = ring[i]
          /\ rest \in Seq(Batches) /\ Len(rest) = Len(ring) - ringClaimed
          /\ \A i \in 1 .. Len(ring) - ringClaimed : rest[i] = ring[ringClaimed + i]
      BY <2>3, <2>4
    <3> HIDE DEF front, rest
    <3>2. /\ Follows(front, b, c) => Follows(ring, b, c)
          /\ Follows(rest, b, c) => Follows(ring, b, c)
          /\ b \in Elements(front) /\ c \in Elements(rest) => Follows(ring, b, c)
      BY ONLY <2>1, <3>1, FollowsSplit, ZenonT(30)
    <3> QED
      BY <3>2 DEF front, rest
  <2> QED
    BY <1>0, <1>e, <2>2, <2>5, <2>6 DEF Hands, Loaded, Ahead
<1>6. CASE Recycle
  <2>1. /\ drained # << >> /\ drained' = Tail(drained) /\ eventPc' \in {"process", "idle"}
        /\ contents[Head(drained)] = Empty
        /\ UNCHANGED <<updatePc, filling, ring, alive>>
    BY <1>6 DEF Recycle, Hands, updateVars, ringVars, memoryVars
  <2>2. /\ Elements(drained) = {Head(drained)} \cup Elements(drained')
        /\ \A b, c : Follows(drained', b, c) => Follows(drained, b, c)
    BY <2>1, TailFacts, FollowsTail
  <2> QED
    BY <1>0, <2>1, <2>2 DEF Hands, Loaded, Ahead
<1>7. CASE Destroy
  <2>1. /\ ~alive' /\ ring' = << >> /\ drained = << >> /\ eventPc = "idle" /\ filling = None
        /\ UNCHANGED <<updatePc, filling, drained, eventPc>>
    BY <1>7 DEF Destroy, eventVars
  <2> QED
    BY <1>0, <1>e, <2>1 DEF Hands, Ahead
<1> QED
  BY <1>3, <1>4, <1>5, <1>6, <1>7

LEMMA HistoriesInvariance == Spec => []Histories
<1>1. Init => Histories
  <2> SUFFICES ASSUME Init PROVE Histories
    OBVIOUS
  <2> USE ManagerAssumption, EmptyFacts, FollowsEmpty DEF ManagerAssumption, Init, Ring!Init
  <2>1. TypeData /\ AllSorted
    BY DEF TypeData, AllSorted
  <2>2. Counted /\ Single /\ Hands
    BY DEF Counted, Single, Hands
  <2>3. Lined
    BY DEF Lined, Before, Ahead, Elements
  <2> QED
    BY <2>1, <2>2, <2>3 DEF Histories
<1>2. IInv /\ IInv' /\ Histories /\ [Next]_vars => Histories'
  BY QueueStep, FillStep, RollbackStep, ProcessStep, MovingStep
     DEF Next, UpdateRuns, EventRuns, Destroyed
<1> QED
  BY <1>1, <1>2, IInvIsInvariant, PTL DEF Spec

\* CountIn counts nothing just when the container does not hold n.
LEMMA CountMeansMember ==
  ASSUME NEW c \in Container, NEW n
  PROVE  CountIn(c, n) > 0 <=> n \in Members(c)
<1> DEFINE M == {i \in DOMAIN c.messages : c.messages[i] = n}
           I == {i \in DOMAIN c.interfaces : c.interfaces[i] = n}
<1>1. IsFiniteSet(M) /\ IsFiniteSet(I)
  <2>1. /\ DOMAIN c.messages = 1 .. Len(c.messages) /\ Len(c.messages) \in Nat
        /\ DOMAIN c.interfaces = 1 .. Len(c.interfaces) /\ Len(c.interfaces) \in Nat
    BY DEF Container
  <2>2. IsFiniteSet(1 .. Len(c.messages)) /\ IsFiniteSet(1 .. Len(c.interfaces))
    <3>1. 1 \in Int /\ Len(c.messages) \in Int /\ Len(c.interfaces) \in Int
      BY <2>1
    <3> QED
      BY <3>1, FS_Interval
  <2> QED
    BY <2>1, <2>2, FS_Subset
<1>2. n \in Members(c) <=> M # {} \/ I # {}
  BY DEF Members, Elements
<1>3. CountIn(c, n) = Cardinality(M) + Cardinality(I)
  BY DEF CountIn
<1> HIDE DEF M, I
<1>4. /\ Cardinality(M) \in Nat /\ (Cardinality(M) = 0 <=> M = {})
      /\ Cardinality(I) \in Nat /\ (Cardinality(I) = 0 <=> I = {})
  BY <1>1, FS_CardinalityType, FS_EmptySet
<1> QED
  BY <1>2, <1>3, <1>4

LEMMA LinedMeansOnce == ASSUME Histories PROVE EachNotificationOnce
<1> USE DEF Histories
<1> SUFFICES ASSUME NEW n \in 1 .. queued PROVE Holders(n) = 1
  BY DEF EachNotificationOnce
<1> DEFINE B == {b \in Batches : n \in Members(contents[b])}
           D == {i \in 1 .. Len(delivered) : n \in Members(delivered[i])}
           W == n \in Members(working)
<1>0. ~(n < n)
  BY DEF TypeData
<1>1. Holders(n) = Cardinality(B) + Cardinality(D) + (IF W THEN 1 ELSE 0)
  <2>1. B = {b \in Batches : CountIn(contents[b], n) > 0}
    BY CountMeansMember DEF TypeData
  <2>2. D = {i \in DOMAIN delivered : CountIn(delivered[i], n) > 0}
    <3>1. /\ DOMAIN delivered = 1 .. Len(delivered)
          /\ \A i \in 1 .. Len(delivered) : delivered[i] \in Container
      BY DEF TypeData
    <3> QED
      BY <3>1, CountMeansMember
  <2>3. W <=> CountIn(working, n) > 0
    BY CountMeansMember DEF TypeData
  <2> HIDE DEF B, D, W
  <2> QED
    BY <2>1, <2>2, <2>3 DEF Holders
<1>2. /\ B # {} \/ D # {} \/ W
      /\ B # {} => D = {} /\ ~W
      /\ D # {} => ~W
  BY <1>0 DEF Counted, Lined, Before
<1>3. \A b, c \in B : b = c
  BY DEF Single
<1>4. \A i, j \in D : i = j
  <2> SUFFICES ASSUME NEW i \in D, NEW j \in D, i < j PROVE FALSE
    BY DEF TypeData
  <2> QED
    BY <1>0 DEF Lined, Before
<1> HIDE DEF B, D, W
<1>5. /\ B = {} \/ \E b : B = {b}
      /\ D = {} \/ \E i : D = {i}
  <2>1. ASSUME NEW b \in B PROVE B = {b}
    BY <1>3
  <2>2. ASSUME NEW i \in D PROVE D = {i}
    BY <1>4
  <2> QED
    BY <2>1, <2>2
<1>6. /\ B = {} => Cardinality(B) = 0
      /\ B # {} => Cardinality(B) = 1
      /\ D = {} => Cardinality(D) = 0
      /\ D # {} => Cardinality(D) = 1
  BY <1>5, FS_EmptySet, FS_Singleton
<1> QED
  BY <1>1, <1>2, <1>6

\* Every queued notification is waiting or was delivered, once, and batches
\* are delivered in order, also when the rollback from a full ring merges the
\* notifications of several frames.
THEOREM EachNotificationOnceInOrderHolds == Spec => []EachNotificationOnceInOrder
<1>1. ASSUME Histories PROVE BatchesInOrder
  <2>1. DOMAIN delivered = 1 .. Len(delivered)
    BY <1>1 DEF Histories, TypeData
  <2> QED
    BY <1>1, <2>1 DEF Histories, Lined, Before, AllSorted, Sorted, BatchesInOrder
<1>2. Histories => EachNotificationOnceInOrder
  BY <1>1, LinedMeansOnce DEF EachNotificationOnceInOrder
<1> QED
  BY <1>2, HistoriesInvariance, PTL
=============================================================================
